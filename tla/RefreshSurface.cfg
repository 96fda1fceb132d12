SPECIFICATION Spec
CONSTANTS
    Provider = {p1}
    Batch = {b1, b2}
    Command = {c1}
    MaxVersion = 2
    MaxBatch = 2
    MaxChange = 2
SYMMETRY Batches
CHECK_DEADLOCK FALSE
INVARIANTS
    SettledViewCurrent
    SettledIdle
    QueueIsDrained
