SPECIFICATION Spec
CONSTANTS
    Readers = {p1, p2}
    MaxRaw = 2
    MaxGen = 2
    BackendTokens = {1}
    MaxReads = 2
    MaxRewinds = 1
SYMMETRY ReaderSymmetry
INVARIANTS
    TypeOK
    ResetChangesToken
CHECK_DEADLOCK FALSE
