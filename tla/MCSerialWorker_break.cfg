CONSTANTS
    m1 = m1
    q1 = q1
    c1 = c1
    r1 = r1
    s1 = s1
    s2 = s2
    Motion = {m1}
    Query = {}
    Connect = {}
    Recover = {r1}
    Stop = {}
    None = None
    Capacity = 1
    MaxReconnectAttempts = 1
SPECIFICATION OfferedSpec
PROPERTIES NothingSurvivesABreak
CHECK_DEADLOCK FALSE
