SPECIFICATION FairSpec
CONSTANTS
    Callers = {c1, c2}
    Workers = {w1, w2}
    Sources = {s1, s2}
    Enough = 1
    MaxCalls = 3
    NoOne = NoOne
INVARIANTS
    TypeOK
    OneWorker
    CloseWaitsForWorker
    ClosedEngineRefuses
    ShutdownIsNoFailure
PROPERTIES
    CloseReturns
    PollOnceReturns
CHECK_DEADLOCK FALSE
