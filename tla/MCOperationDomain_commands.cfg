CONSTANTS
    Motion = {m1, m2}
    Query = {}
    Connect = {}
    Recover = {}
    Stop = {s1}
    Configure = {g}
    None = None
    Capacity = 1
    MaxReconnectAttempts = 0
SPECIFICATION CommandsSpec
SYMMETRY OperationSymmetry
INVARIANTS DomainTypeOK HonestOutcome RecordedBeforeSent NoOutcomeLost ActiveIsLive
PROPERTIES FreshMeansUnchanged FaultIsLatched
CHECK_DEADLOCK FALSE
