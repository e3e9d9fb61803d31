SPECIFICATION Spec
CONSTANTS
    w1 = w1
    w2 = w2
    None = None
    Batches <- MCBatches
    Similar <- MCSimilar
    Workers = {w1, w2}
    Limit = 2
    MaxFaults = 2
INVARIANTS
    TypeOK
    RepeatedOnlyAfterOutage
PROPERTIES
    SuppressionIsFinal
\* A finite number of batches arrives: the system stops when all is refined.
CHECK_DEADLOCK FALSE
