SPECIFICATION Spec
CONSTANTS
    One = 2
    MaxWidth = 9
    ReadBound = 0
    NoAnchor = NoAnchor
    NoSample = NoSample
    a1 = a1
    a2 = a2
    b = b
    c = c
    Sources <- FourSources
    DomainOf <- ThreeDomains
    FaultBudget = 1
    MinVotingDomains = 3
    MinHonestCoverage = 1
    MaxAge = 1
    Honest <- HonestErrors
    Lies <- LyingErrors
    Envelopes <- TwoEnvelopes
    MaxRaw = 2
    MaxChanges = 1
SYMMETRY RoundSymmetry
INVARIANTS
    TypeOK
    HullHoldsTruth
    FaultyCannotWiden
    ConsensusNeverEmpty
    SweepIsExact
CHECK_DEADLOCK FALSE
