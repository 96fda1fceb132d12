CONSTANTS
    old = old
    new = new
    Files = {old, new}
    Old = {old}
    Parent <- Continues
    Scans = {s1, s2}
    MaxLen <- Lengths
    ReadLimit = 1
    MaxScans = 2
    MaxFaults = 1
    None = none
SPECIFICATION ScanSpec
INVARIANTS ScanTypeOK EntriesExact CoverageIsReal KeepsLastReport
PROPERTIES PauseHolds
SYMMETRY Symmetry
CHECK_DEADLOCK FALSE
