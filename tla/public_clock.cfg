SPECIFICATION Spec
CONSTANTS
    One = 4
    MaxSlew = 2
    SlewSpan = 3
    BaseRates <- Rates
    Debts <- Corrections
    StepSizes <- Jumps
    Lags = {0, 1}
    EstimateErrors <- Errors
    Kinds <- AllKinds
    Budgets <- PublicBudgets
    MaxRate = 2
    MaxWander = 1
    Durations = {0, 1, 2, 3, 4, 5, 6}
    Readers = {p1, p2}
    Targets <- Biases
    Slack = {0, 1}
    ReadBound = 1
    EpsilonCap = 4
    None = None
SYMMETRY ReaderSymmetry
INVARIANTS
    TypeOK
    PublicMonotone
    EpsilonHoldsTruth
    PlansLeadToTarget
    CorrectionsArePaidOnce
PROPERTIES
    IsAtomicMaximum
    BiasMovesGently
    EstimateIsContinuous
CHECK_DEADLOCK FALSE
