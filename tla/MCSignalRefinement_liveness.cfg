SPECIFICATION FairSpec
CONSTANTS
    w1 = w1
    w2 = w2
    None = None
    Batches <- MCBatch
    Similar <- MCSimilar
    Workers = {w1, w2}
    Limit = 2
    MaxFaults = 3
PROPERTY EverySignalIsProcessed
\* A finite number of batches arrives: the system stops when all is refined.
CHECK_DEADLOCK FALSE
