SPECIFICATION FairSpec
CONSTANTS
    Responses = {r1, r2}
    Subscribers = {g1}
    Capacity = 3
    MaxEvents = 3
    MaxPublished = 2
INVARIANTS BufferHasStream NumbersIncrease GlobalComplete
PROPERTY StreamsEnd
CHECK_DEADLOCK FALSE
