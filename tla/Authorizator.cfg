\* Two loops of sessions beside the main one, two users, tokens in memory.
SPECIFICATION Spec
CONSTANTS
    Users = {ann, bob}
    RowidsReused = FALSE
    Main = main
    Loops = {l1, l2}
    MaxEvents = 4
    Overlap = FALSE
SYMMETRY Symmetry
INVARIANTS
    TypeOK
    AuthorizationsAgree
    AuthorizationsEnd
    RevokedIsOut
CHECK_DEADLOCK FALSE
