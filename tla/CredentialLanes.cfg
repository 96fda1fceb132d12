CONSTANTS
    Account = {a, b}
    First = a
    NoAccount = none
    MaxHome = 3
    Ambient = ambient
    NoHome = nohome
    Fetch = {f1, f2}
    MaxToken = 4
SPECIFICATION Spec
INVARIANTS CredentialKept
PROPERTIES LaneProtectsFile HomesKeepOwner
SYMMETRY Symmetry
CHECK_DEADLOCK FALSE
