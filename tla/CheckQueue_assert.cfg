SPECIFICATION Spec
CONSTANTS
    w1 = w1
    w2 = w2
    Master = Master
    NoThread = NoThread
    Worker <- MCWorker
    Batches <- SmallBatches
    nBatchSize = 2
    MaxChecks = 3
    MayInterrupt = TRUE
    DestructorMayThrow = FALSE
INVARIANTS
    AssertionsHold
CHECK_DEADLOCK FALSE
