CONSTANTS
    V2Available = TRUE
    CrcAvailable = TRUE
    Scenario = {"disconnect", "event-gap", "fault", "malformed", "mismatch", "timeout", "busy"}
    MaxSequence = 5
    MaxFaults = 0
    Command = {"sortto", "homesorter", "homeall", "status", "crc:on", "crc:off", "protocol:1", "stop", "ping"}
    ResetKeeps = {TRUE, FALSE}
    MaxId = 3
    MaxConnects = 1
    MaxRequests = 2
SPECIFICATION Spec
INVARIANT SortNeedsHomedSorter
CHECK_DEADLOCK FALSE
