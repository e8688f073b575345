CONSTANTS
    Publisher = {p1, p2}
    Consumer = {c1}
    None = None
    Retention = 2
    SubscriberCapacity = 2
    MaxEvents = 3
    MaxLives = 1
SPECIFICATION RingSpec
SYMMETRY PublisherSymmetry
INVARIANTS NoSilentLoss
CHECK_DEADLOCK FALSE
