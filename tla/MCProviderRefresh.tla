------------------------- MODULE MCProviderRefresh -------------------------
(* Small instances of ProviderRefresh for TLC. *)
EXTENDS ProviderRefresh

CONSTANTS claude

\* Only Claude overrides last_good_failure_policy.
MCErrorPolicy == [p \in Provider |-> IF p = claude THEN Policy ELSE {"Replace"}]
=============================================================================
