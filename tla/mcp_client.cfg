SPECIFICATION Spec
CONSTANTS
    Calls = {"call1", "call2", "read"}
    Timed = {"call1", "call2"}
    Nobody = Nobody
    Extras = {"notification", "request", "noise", "garbled"}
    MaxExtras = 2
    MaxNoise = 2
INVARIANTS AnswerIsOwn
PROPERTIES UntimedCallsEnd
CHECK_DEADLOCK FALSE
