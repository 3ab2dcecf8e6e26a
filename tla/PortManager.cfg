\* Two sessions of one peer, two ports, one listen() attempt, and a clock that moves.
SPECIFICATION FairSpec
CONSTANTS
    s1 = s1
    s2 = s2
    peer = peer
    Peer = {peer}
    Session = {s1, s2}
    PeerOf <- MCPeerOf
    OptMin = 2
    OptMax = 1
    TimeWait = 1
    MaxTries = 1
    MaxTime = 1
INVARIANTS
    TypeOK
    GivesUpAfterFullPass
    ConnectingIsExclusive
    LeasesAreCounted
PROPERTY
    PasvEnds
