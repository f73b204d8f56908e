SPECIFICATION FairSpec
CONSTANTS
    w1 = w1
    w2 = w2
    Master = Master
    NoThread = NoThread
    Worker <- MCWorker
    Batches <- MCBatches
    nBatchSize = 2
    MaxChecks = 4
    MayInterrupt = TRUE
    DestructorMayThrow = FALSE
INVARIANTS
    TypeOK
    VerdictExact
    QuietAfterBlock
    TodoExact
    CountsExact
PROPERTIES
    WaitReturns
CHECK_DEADLOCK FALSE
