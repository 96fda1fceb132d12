CONSTANTS
    Account = {a, b}
    NoAccount = none
    Ambient = ambient
    NoHome = nohome
    Fetch = {f1}
    Entry = {e1}
    MaxHome = 3
    Name <- MCName
    MaxId = 1
    MaxLogin = 1
    Failures = 1
SPECIFICATION Spec
CONSTRAINT OneSubject
INVARIANTS TypeOK SnapshotOwned SessionOwned PendingHomesKept ListedAtItsHome
SYMMETRY Symmetry
CHECK_DEADLOCK FALSE
