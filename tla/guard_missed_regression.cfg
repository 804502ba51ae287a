SPECIFICATION QuietSpec
CONSTANTS
    Readers = {p1, p2}
    MaxRaw = 2
    MaxGen = 1
    BackendTokens = {1}
    MaxReads = 2
    MaxRewinds = 1
SYMMETRY ReaderSymmetry
INVARIANTS

    NoUnseenRegression
CHECK_DEADLOCK FALSE
