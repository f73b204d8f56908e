SPECIFICATION PeersSpec
CONSTANTS
    w1 = w1
    Worker <- OneWorker
    RpcCommands <- Off
    MayShutdown = FALSE
    MaxBest = 1
    MaxRpc = 1
PROPERTIES
    GenerationTurnsOff
CHECK_DEADLOCK FALSE
