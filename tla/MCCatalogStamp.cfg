\* One process, one refresh thread, nothing is killed. Epochs end.
CONSTANTS
    Procs = {server}
    Threads = {t1}
    Tools = {}
    Models = {m1, m2}
    MaxRating = 2
    MaxEpoch = 2
    Kills = FALSE
SPECIFICATION Spec
SYMMETRY Symmetry
CHECK_DEADLOCK FALSE
INVARIANT DecisionIsPinned
