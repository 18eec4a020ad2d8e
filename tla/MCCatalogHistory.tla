-------------------------- MODULE MCCatalogHistory --------------------------
(* CatalogHistory for TLC: models are interchangeable, and so are threads. *)
EXTENDS CatalogHistory, TLC

Symmetry == Permutations(Models) \cup Permutations(Threads)
=============================================================================
