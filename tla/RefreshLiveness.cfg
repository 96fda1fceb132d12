CONSTANTS
    claude = claude
    Provider = {codex}
    AccountProvider = {codex}
    Codex = codex
    ResetBackfill = {}
    ErrorPolicy <- MCErrorPolicy
    Task = {loop, user}
    LoopTask = loop
    Writer = {w1}
    Watchable = {}
    MaxPermits = 1
    FailureCap = 2
    TimerOn = TRUE
    TrayToggles = FALSE
    MaxStarts = 1
    MaxChanges = 2
SPECIFICATION FairSpec
PROPERTIES LanesNeverRegress RefreshEnds PendingReplaced NewlyEnabledFetched
CHECK_DEADLOCK FALSE
