SPECIFICATION Spec
CONSTANTS
    Workers = {w1, w2, w3, w4}
    TotalRPS = 2
    InitialCap = 1
    MaxScaleUpCap = 2
    KeepWorkers = 1
    RemoveShare = 2
    ControlCap = 1
    ResultBuf = 1
    MaxRequests = 1
SYMMETRY WorkerSymmetry
INVARIANTS
    TypeOK
    QuiescentAfterWait
    PanicOnlyInShutdown
    ConcurrencyBounded
    ResultsAccounted
PROPERTIES
    StatsFrozen
    ImplementsLedger
