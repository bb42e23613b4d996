SPECIFICATION LinearSpec
CONSTANTS
    TotalRPS = 100
    ControlCap = 1000
    InitialCap = 10
    KeepWorkers = 10
    Requests = {}
    MaxLost = 0
    PerWorker = 5
INVARIANTS
    NoFalseCeiling
