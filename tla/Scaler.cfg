SPECIFICATION Spec
CONSTANTS
    TotalRPS = 4
    ControlCap = 4
    InitialCap = 2
    KeepWorkers = 2
    Requests <- MCRequests
    MaxLost = 1
    PerWorker = 1
INVARIANTS
    TypeOK
    
PROPERTIES
    ChecksWithinContract
    CeilingLiftedAtTarget
    NoProjectedOvershoot
