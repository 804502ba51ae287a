SPECIFICATION Spec
CONSTANTS
    Sec = 2
    NoTime = NoTime
    EraSeconds = 12
    EpochOffset = 7
    MaxCoarseError = 3
    Quantization = 2
    MappingError = 1
    PrecisionFloor = 1
    MaxTurnaround = 2
    MaxRootDistance = 2
    Capacity = 3
    LowWatermark = 1
    MaxPlaceholders = 1
    NoCookie = NoCookie
    MaxRecords = 5
    Queries = {q1}
    Endpoints = {e1}
    Scenarios <- Stray
    Kinds <- AllKinds
    None = None
INVARIANTS
    MeasurementHoldsTruth
CHECK_DEADLOCK FALSE
