CONSTANTS
    Account = {a, b}
    Task = {t1, t2}
    Used = {0, 8000, 9999, 10000}
    High = 7000
    Critical = 9000
    Absent = absent
    Hidden = hidden
    TokenAccounts = TRUE
    MaxPolls = 3
    MaxChanges = 1
SPECIFICATION Spec
INVARIANTS ToldOncePerClimb DepletedIsTold HooksOnCrossings
SYMMETRY Symmetry
CHECK_DEADLOCK FALSE
