CONSTANTS
    Motion = {m1}
    Query = {}
    Connect = {}
    Recover = {}
    Stop = {}
    Configure = {}
    None = None
    Capacity = 1
    MaxReconnectAttempts = 0
SPECIFICATION CommandsSpec
INVARIANTS OutcomeKeptOrLatched
CHECK_DEADLOCK FALSE
