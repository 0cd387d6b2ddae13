SPECIFICATION Spec
CONSTANTS
    Sessions = {"s1"}
    MaxTasks = 2
    MaxId = 9
    MaxSaid = 5
    Starts <- MCStarts
    TitleSlots = {1, 2}
    TitleEvery = 2
    CompressSlots = {1, 2}
    Pairs = 1
    MaxContext = 4
    ExtractSlots = {1, 2}
    MaxMemories = 2
    TriggerCount = 1
    MaxSource = 1
    TableThere = TRUE
INVARIANTS NothingIsForgotten TailKept MergedOnce
PROPERTY TitleSpacing
CHECK_DEADLOCK FALSE
