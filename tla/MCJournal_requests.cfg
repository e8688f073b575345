CONSTANTS
    Handler = {h1, h2}
    Request <- Requests
    Field = {"heartbeat", "retention"}
    Value = {0, 1}
    Default = 0
    None = None
    Bounds <- Corners
    MaxGeneration = 2
SPECIFICATION Spec
VIEW JournalView
SYMMETRY HandlerSymmetry
INVARIANTS
    JournalTypeOK
    OneOperationPerKey
    AnsweredIsRecorded
    StoredBeforeSuccess
    NoLostUpdate
PROPERTIES
    RecordsOnlyGrow
    NothingAdmittedUndurably
CHECK_DEADLOCK FALSE
