SPECIFICATION Spec
CONSTANTS
    w1 = w1
    w2 = w2
    None = None
    Batches <- MCBatches
    Similar <- MCSimilar
    Workers = {w1, w2}
    Limit = 2
    MaxFaults = 0
INVARIANT DuplicateHasAnOriginal
CHECK_DEADLOCK FALSE
