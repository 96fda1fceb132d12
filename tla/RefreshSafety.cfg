CONSTANTS
    claude = claude
    Provider = {codex, claude}
    AccountProvider = {claude}
    Codex = codex
    ResetBackfill = {codex}
    ErrorPolicy <- MCErrorPolicy
    Task = {loop, user}
    LoopTask = loop
    Writer = {w1}
    Watchable = {claude}
    MaxPermits = 2
    FailureCap = 1
    TimerOn = FALSE
    TrayToggles = TRUE
    MaxStarts = 1
    MaxChanges = 2
SPECIFICATION Spec
INVARIANTS NoSupersededUsage LockHasOwner NoDisabledUsage FailureHiddenOnce
CHECK_DEADLOCK FALSE
