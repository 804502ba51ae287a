SPECIFICATION Spec
CONSTANTS
    One = 2
    MaxWidth = 8
    ReadBound = 1
    NoAnchor = NoAnchor
    NoCommit = NoCommit
    Readers = {r1}
    MaxRaw = 3
    MaxSelect = 1
    MaxAge = 2
    HoldoverAges = {1}
    Deadlines = {}
    CommitTimes = {}
    Envelopes <- TwoEnvelopes
    HullSlack <- HonestHulls
    Budgets <- ContainmentBudgets
INVARIANTS
    IntervalHoldsTruth
    DecisionsAreCertain
    SnapshotNotTorn
    WatermarkIsPast
CHECK_DEADLOCK FALSE
