SPECIFICATION Spec
CONSTANTS
    MaxInt = 7
    MaxExact = 4
    MaxExact32 = 2
    Overflow <- MCOverflow
    Unusable = Unusable
    Panic = Panic
    UUID = UUID
    Instants = {1}
    RFC3339 = RFC3339
    Numbers <- MCNumbers
    Strings <- MCStrings
    FieldNames = {"a", "b"}
    Invalid = Invalid
    ann = ann
    bob = bob
    Workers = {w1, w2, w3}
    RPS <- MCRPS
    Second = 2
    Duration = 2
    Configurations <- MCConfigurations
    Words = {"id", "user", "trace", "at"}
    Symbols <- MCSymbols
    Spelling <- MCSpelling
    Quote = Quote
    Unfilled = Unfilled
SYMMETRY Symmetry
INVARIANTS
    TypeOK
    RangesInclusive
    SharesExact
    EncodesConforming
    PanicOnlyIfTooWide
    EachValueOncePerRound
    LockStep
    RequestsConsistent
    
    RateKept
PROPERTIES
    LeavesLate
