\* One listener, which comes and goes, two connections from one address, and one
\* session whose user is removed.  The use of a destroyed listener ends a behaviour.
SPECIFICATION FairSpec
CONSTANTS
    Listeners = {l1}
    Conns = {c1, c2}
    Ips = {i1}
    IpOf <- OneIp
    DrainMax = 1
    SizeMax = 7
    MaxQuits = 1
    RemovesListeners = TRUE
INVARIANTS
    TypeOK
    WaitingIsAnnounced
PROPERTY
    SocketsAreDealtWith
CHECK_DEADLOCK FALSE
