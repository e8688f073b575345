CONSTANTS
    V2Available = TRUE
    CrcAvailable = TRUE
    Scenario = {"disconnect", "event-gap", "fault", "malformed", "mismatch", "timeout", "busy"}
    MaxSequence = 5
    MaxFaults = 1
    Command = {"sortto", "homesorter", "homeall", "status", "crc:on", "crc:off", "protocol:1", "stop", "ping"}
    ResetKeeps = {TRUE, FALSE}
    MaxId = 3
    MaxConnects = 2
    MaxRequests = 2
SPECIFICATION Spec
INVARIANTS
    ProtocolTypeOK
    CompletionIsOwn
    StopIsTrusted
    VerifiedIsV1
    ParsersAgree
PROPERTY FailsClosed
CHECK_DEADLOCK FALSE
