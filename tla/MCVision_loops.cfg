CONSTANTS
    Slot = {1, 2}
    Reading <- Readings
    Threshold <- Thresholds
    Profile <- Profiles
    Past <- Before
    Capacity = 2
    PageLimit = 2
    Minimum = 1
    Bounds <- Corners
SPECIFICATION Spec
INVARIANTS
    LabelIsClosestFrame
    OneSortPerSuggestion
    AttemptsAreTheirSorts
    ChutesAreNotShared
    OutcomesPairUp
CHECK_DEADLOCK FALSE
