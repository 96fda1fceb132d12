--------------------------- MODULE MCCodexAccounts ---------------------------
(* Small instances of CodexAccounts for TLC. *)
EXTENDS CodexAccounts, TLC

Symmetry == Permutations(Account)

\* The second home is listed before the first, the third after both.
MCName == [h \in Home |-> CASE h = 1 -> 2 [] h = 2 -> 1 [] OTHER -> h]

\* Desktop sessions and fetches share the accounts and nothing else, and no property
\* speaks of both: a behaviour has the ones or the others.
NoSessionSaved == \A h \in Home, e \in Entry : saved[h][e] = NoAccount
NothingFetched == fetch = [f \in Fetch |-> NoFetch] /\ snapshots = {}

\* Bound: a login and a removal that fails meet in the former only.
OneTrouble == logins = 0 \/ "partly_removed" \notin mishaps

OneSubject == NothingFetched \/ (NoSessionSaved /\ OneTrouble)
=============================================================================
