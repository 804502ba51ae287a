SPECIFICATION FairSpec
CONSTANTS
    One = 2
    MaxWidth = 6
    ReadBound = 0
    NoAnchor = NoAnchor
    NoCommit = NoCommit
    Readers = {r1}
    MaxRaw = 4
    MaxSelect = 1
    MaxAge = 2
    HoldoverAges = {0, 1, 3}
    Deadlines = {1, 3}
    CommitTimes = {1}
    Envelopes <- TwoEnvelopes
    HullSlack <- FaultyHulls
    Budgets <- TransactionBudgets
INVARIANTS
    TypeOK
    PublishedIsCurrent
PROPERTIES
    FailureNeverRenews
    OnlyRoundsRestore
    RoundNarrows
    CommitWaitReturns
CHECK_DEADLOCK FALSE
