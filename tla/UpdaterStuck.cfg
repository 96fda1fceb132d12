CONSTANTS
    Command = {c1}
    Version = {v1}
    NoVersion = NoVersion
    Installable = {v1}
    MaxCalls = 2
SPECIFICATION UpdSpec
INVARIANT DownloadRuns
CHECK_DEADLOCK FALSE
