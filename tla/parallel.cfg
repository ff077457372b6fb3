\* More tasks than goroutines.
SPECIFICATION FairSpec
CONSTANTS
    NumTasks = 4
    Workers = {g1, g2, g3}
INVARIANTS
    TypeOK
    OneWorkerPerTask
    ResultComplete
PROPERTIES
    Returns
    PoolSpec
CHECK_DEADLOCK FALSE
