--------------------------- MODULE MCClaudeAccounts ---------------------------
(* Two accounts; the bounds are in the configurations. *)
EXTENDS ClaudeAccounts, TLC

Accounts == Permutations(Account)
=============================================================================
