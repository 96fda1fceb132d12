--------------------------- MODULE MCUsageAlerts ---------------------------
EXTENDS UsageAlerts, TLC

\* Accounts and tasks are interchangeable.
Symmetry == Permutations(Account) \cup Permutations(Task)
=============================================================================
