\* Every wheel of the families, and every RECORD text of up to eight bytes.
SPECIFICATION Spec
CONSTANTS
    MaxU64 = 1000
    WheelLimits <- Limits
    Wheels <- AllWheels
    Bytes = {"q", "c", "n", "r", "x"}
    MaxBytes = 8
    Roots <- RootNames
    Spelling <- Paths
    Decimals <- DecimalTokens
    Order <- ComponentOrder
    ReadFaults = {"SourceIo", "TimedOut"}
    Reports <- ReportsOf
    Contexts <- ContextsConsidered
INVARIANTS
    VerdictIsTheProfile
    RealizationIsTheArchive
    RecordTextIsRead
CHECK_DEADLOCK FALSE
