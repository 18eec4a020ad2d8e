\* The server with two delegations at a time, and the command line tool.
CONSTANTS
    Delegations = {d1, d2, d3}
    Served = {d1, d2}
    Harnesses = {opencode, goose}
    Cooldown <- MCCooldown
SPECIFICATION Spec
SYMMETRY Symmetry
INVARIANTS TypeOK TripIsEarned ReportsAreKept
