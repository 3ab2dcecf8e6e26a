\* Any two requests, one behind the other.
SPECIFICATION FairSpec
CONSTANTS
    Kinds = {"get", "last", "put", "chunked", "badline", "badchunk", "junk"}
    MaxRequests = 2
    Faults = TRUE
    ShortWrites = {"chunked"}
INVARIANTS
    TypeOK
    ResponsesInOrder
    UploadIsStored
PROPERTIES
    RequestIsAnswered
    SessionEnds
CHECK_DEADLOCK FALSE
