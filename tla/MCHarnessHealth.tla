--------------------------- MODULE MCHarnessHealth ---------------------------
(* HarnessHealth for TLC: a short cooldown (60 s to 300 s) and a long one.     *)
EXTENDS HarnessHealth, TLC

MCCooldown ==
    [r \in Reasons |->
        IF r \in {"binary_not_found", "weekly_limit", "auth_failure"} THEN 2 ELSE 1]

Symmetry == Permutations(Harnesses) \cup Permutations(Served)
=============================================================================
