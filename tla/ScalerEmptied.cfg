SPECIFICATION Spec
CONSTANTS
    TotalRPS = 9
    ControlCap = 1000
    InitialCap = 2
    KeepWorkers = 2
    Requests = {3, 22}
    MaxLost = 0
    PerWorker = 1
INVARIANTS
    PoolNeverEmptied
