\* Two users behind one address; the limits of one failure and one unit of time.
SPECIFICATION FairSpec
CONSTANTS
    s1 = s1
    s2 = s2
    ip1 = ip1
    ip2 = ip2
    u1 = u1
    u2 = u2
    NoSession = NoSession
    Sessions = {s1, s2}
    Keys = {ip1, u1, u2}
    KeysOf <- SharedAddress
    MaxFailures = 1
    Window = 1
    Delay = 1
    Cap = 1
    SharedLoop = FALSE
    Reconfigured = FALSE
INVARIANTS
    TypeOK
    WorkersOutliveTheirUse
PROPERTY
    LoginsTakeTheirTime
