CONSTANTS
    Publisher = {p1, p2}
    Consumer = {c1}
    None = None
    Retention = 3
    SubscriberCapacity = 2
    MaxEvents = 5
    MaxLives = 2
SPECIFICATION RingSpec
INVARIANTS RingTypeOK
PROPERTIES NothingDropped GivenOnce EventsArrive
CHECK_DEADLOCK FALSE
