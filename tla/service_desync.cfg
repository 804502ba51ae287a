SPECIFICATION Spec
CONSTANTS
    One = 2
    MaxWidth = 6
    ReadBound = 0
    NoAnchor = NoAnchor
    NoCommit = NoCommit
    Readers = {}
    MaxRaw = 4
    MaxSelect = 1
    MaxAge = 2
    HoldoverAges = {1}
    Deadlines = {}
    CommitTimes = {}
    Envelopes <- BrokenEnvelope
    HullSlack <- HonestHulls
    Budgets <- BrokenBudgets
INVARIANTS
    DesyncIsFinal
CHECK_DEADLOCK FALSE
