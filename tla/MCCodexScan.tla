----------------------------- MODULE MCCodexScan -----------------------------
(* CodexScan for TLC: an old session, and a recent one that may be its fork. *)
EXTENDS CodexScan, TLC

CONSTANTS old, new
Continues == (old :> old) @@ (new :> old)
Lengths == (old :> 2) @@ (new :> 1)
Symmetry == Permutations(Scans)
=============================================================================
