\* One address; with and without session threads; the number of failures changes.
SPECIFICATION ABFairSpec
CONSTANTS
    Ips = {i1}
    MaxChoices = {0, 2, 3}
    Window = 2
    BanDuration = 3
    TimerIds = {t1, t2, t3, t4}
    NoTimer = NoTimer
INVARIANTS
    ABTypeOK
    BansAreKept
PROPERTIES
    BanIsDeserved
    BansEnd
