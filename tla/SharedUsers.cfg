\* Two sessions of two users, one of which may come from the system.
SPECIFICATION Spec
CONSTANTS
    Names = {"ann"}
    Sys = "<system>"
    Temp = "tmp"
    Sessions = {s1, s2}
    Slots = {1, 2, 3, 4}
    MaxChanges = 2
INVARIANTS
    TypeOK
    SharedUsersAreCurrent
    ChangesAreOnTheirWay
PROPERTIES
    RemovedIsOut
CHECK_DEADLOCK FALSE
