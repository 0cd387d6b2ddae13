SPECIFICATION FairSpec
CONSTANTS
    MaxIterations = 4
    EmptyThreshold = 3
    MaxTools = 2
    MaxQueue = 3
INVARIANTS
    StreamsApart
PROPERTIES
    Refines
    CancelIsFinal
    RunEnds
CHECK_DEADLOCK FALSE
