CONSTANTS
    m1 = m1
    q1 = q1
    c1 = c1
    r1 = r1
    s1 = s1
    s2 = s2
    Motion = {m1}
    Query = {q1}
    Connect = {c1}
    Recover = {r1}
    Stop = {s1, s2}
    None = None
    Capacity = 1
    MaxReconnectAttempts = 1
SPECIFICATION OfferedSpec
INVARIANTS WorkerTypeOK OneCommandAtATime StopEmptiesLane RecoveryDiscardsQueue
           OneTransport ExecutingIsWatched
PROPERTIES QuietWhenStopped EveryFutureResolves CloseEndsThread
CHECK_DEADLOCK FALSE
