\* Three operations over a pool of one process, which may hang or die; sessions may end.
SPECIFICATION IMFairSpec
CONSTANTS
    MaxRequests = 3
    PoolSize = 1
    MaxCallers = 3
    PairRoom = 1
    ProcessFaults = {"die", "hang", "gone"}
INVARIANTS
    IMTypeOK
    AnswerIsOwn
PROPERTY
    CallIsAnswered
CHECK_DEADLOCK FALSE
