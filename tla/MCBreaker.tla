----------------------------- MODULE MCBreaker -----------------------------
(* Breaker for TLC: callers are interchangeable model values. *)
EXTENDS Breaker, TLC

Symmetry == Permutations(Callers)
=============================================================================
