\* Two transfers of any kind on one data channel, and a control channel, with faults.
SPECIFICATION FairSpec
CONSTANTS
    Kinds = {"send", "list", "store", "talk"}
    MaxTransfers = 2
    Bytes = 3
    MaxBuffer = 2
    MaxLoops = 2
    SendRoom = 2
    Faults = TRUE
    LateEntries = FALSE
INVARIANTS
    TypeOK
    CompleteWhenOk
PROPERTY
    TransferEnds
CHECK_DEADLOCK FALSE
