CONSTANTS
    Motion = {m1}
    Query = {}
    Connect = {}
    Recover = {r}
    Stop = {s1}
    Configure = {}
    None = None
    Capacity = 1
    MaxReconnectAttempts = 1
SPECIFICATION RepairSpec
PROPERTIES OperationsSettle ImplementsLedger
CHECK_DEADLOCK FALSE
