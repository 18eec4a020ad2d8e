------------------------------ MODULE MCClient ------------------------------
(***************************************************************************)
(* Client for TLC: `fix' is similar to `plan' and `plan' to `spec', which  *)
(* is meant for tier 3, but `fix' and `spec' are not similar.              *)
(***************************************************************************)
EXTENDS Client

MCJaccard ==
    [p \in Prompts |-> [q \in Prompts |->
        IF p = q THEN 100 ELSE IF "plan" \in {p, q} THEN 60 ELSE 20]]

MCHeuristic == [p \in Prompts |-> IF p = "spec" THEN 3 ELSE 0]
=============================================================================
