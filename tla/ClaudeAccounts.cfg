SPECIFICATION Spec
CONSTANTS
    Account = {a1, a2}
    NoAccount = NoAccount
    MaxToken = 4
    MaxCrash = 1
    MaxMishap = 1
SYMMETRY Accounts
CHECK_DEADLOCK FALSE
INVARIANTS
    LoginsPaired
    LoginKept
    UsageOfActive
