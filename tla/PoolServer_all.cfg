SPECIFICATION PeersSpec
CONSTANTS
    w1 = w1
    Worker <- OneWorker
    RpcCommands <- OnOff
    MayShutdown = TRUE
    MaxBest = 1
    MaxRpc = 2
INVARIANTS
    TypeOK
    WalletOutlivesServer
    NoOrphanThreads
    NoMisuse
    SingleServer
PROPERTIES
    ShutdownCompletes
CHECK_DEADLOCK FALSE
