\* The server and the command line tool, two threads each, killed at any step,
\* and one model, which refreshes find and rescores rate differently. Epochs end.
CONSTANTS
    Procs = {server, tool}
    Threads = {t1, t2}
    Tools = {tool}
    Models = {m1}
    MaxRating = 2
    MaxEpoch = 2
    Kills = TRUE
SPECIFICATION Spec
SYMMETRY Symmetry
CHECK_DEADLOCK FALSE
INVARIANTS TypeOK RestingIsRecorded RefreshesTakeTurns CacheIsStored
