--------------------------- MODULE MCRefreshSurface ---------------------------
(* The bounds are in the configuration; the batches are interchangeable. *)
EXTENDS RefreshSurface, TLC

Batches == Permutations(Batch)
=============================================================================
