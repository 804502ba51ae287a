SPECIFICATION Spec
CONSTANTS
    Readers = {p1}
    MaxRaw = 3
    MaxGen = 2
    BackendTokens = {1, 2}
    MaxReads = 4
    MaxRewinds = 2
INVARIANTS
    NoUnseenRegression
    NoFalseAlarm
PROPERTY
    ReadIsAtomic
CHECK_DEADLOCK FALSE
