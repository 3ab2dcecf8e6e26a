\* One loop, no faults but the replay of an exchanged token.
SPECIFICATION Spec
CONSTANTS
    Users = {ann}
    RowidsReused = FALSE
    Main = main
    Loops = {l1}
    MaxEvents = 4
    Overlap = FALSE
INVARIANT ReplayedIsOut
CHECK_DEADLOCK FALSE
