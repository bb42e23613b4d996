SPECIFICATION Spec
CONSTANTS
    Workers = {w1, w2}
    TotalRPS = 2
    InitialCap = 1
    MaxScaleUpCap = 2
    KeepWorkers = 1
    RemoveShare = 2
    ControlCap = 1
    ResultBuf = 1
    MaxRequests = 1
INVARIANTS
    GracefulShutdown
