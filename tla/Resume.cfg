CONSTANTS
    Observer = {o1, o2}
    Lane = {old, new}
    Session = {s}
    NoSession = NoSession
    Slot = {primary}
    Rechecks = TRUE
    MaxSnapshots = 3
    MaxChanges = 2
SPECIFICATION FairSpec
INVARIANTS MarkersOwned DisarmedWhenOff
PROPERTIES OncePerArm ResumesOwnAccount MarkersReleased
CHECK_DEADLOCK FALSE
