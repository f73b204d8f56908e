SPECIFICATION FairSpec
CONSTANTS
    w1 = w1
    Worker <- OneWorker
    RpcCommands <- Off
    MayShutdown = TRUE
    MaxBest = 1
    MaxRpc = 0
PROPERTIES
    DetectExits
CHECK_DEADLOCK FALSE
