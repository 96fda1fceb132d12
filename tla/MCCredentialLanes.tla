-------------------------- MODULE MCCredentialLanes --------------------------
(* CredentialLanes for TLC: concurrent fetches are interchangeable. *)
EXTENDS CredentialLanes, TLC

Symmetry == Permutations(Fetch)
=============================================================================
