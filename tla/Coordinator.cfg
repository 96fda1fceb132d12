CONSTANTS
    Caller = {c1, c2, c3}
    MaxBuilds = 3
SPECIFICATION FairSpec
PROPERTIES KeepsPromise CallReturns
CHECK_DEADLOCK FALSE
