CONSTANTS
    Command = {c1, c2}
    Version = {v1, v2}
    NoVersion = NoVersion
    Installable = {v1}
    MaxCalls = 6
SPECIFICATION FairUpdSpec
INVARIANTS StatusBacked DismissedStays
PROPERTY CheckEnds
CHECK_DEADLOCK FALSE
