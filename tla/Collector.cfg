SPECIFICATION Spec
CONSTANTS
    Durations = {1, 4}
    Forever = 100
    Codes = {200, 500}
    GRPCCodes = {14}
    Errs = {e1}
    Nil = Nil
    SampleSize = 3
    WorkerCounts = {1, 2}
    MaxResults = 5
    MaxTicks = 2
INVARIANTS
    TypeOK
    BreakdownsAgree
    LiveTotalsAgree
    ReservoirSound
    SummaryOrdered
    PercentilesCorrect
