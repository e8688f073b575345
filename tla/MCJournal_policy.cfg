CONSTANTS
    Handler = {h1}
    Request <- Requests
    Field = {"heartbeat", "retention"}
    Value = {0, 1}
    Default = 0
    None = None
    Bounds <- OneAtATime
    MaxGeneration = 2
SPECIFICATION Spec
VIEW JournalView
INVARIANT
    AppliedIsLatest
CHECK_DEADLOCK FALSE
