CONSTANTS
    BLOCK_LEN = 4
    MaxU64 = 100
    U16Max = 3
    U32Max = 30
    MAX_EXTENSION_BYTES = 6
    MAX_EXTENSIONS = 2
    MAX_CARRIERS = 2
    MAX_CARRIER_PAYLOAD_BYTES = 6
    TAR_RECORD_LEN = 12
    FCS_BIAS = 4
    MIN_WINDOW_BYTES = 8
    MAX_WINDOW_BYTES = 64
    MAX_DICT_BYTES = 8
    MAX_BLOCKS = 2
    BZIP2_MAX_BLOCKS = 2
    Jobs <- MCJobs
    Images <- MCImages
    TarWindows <- MCTarWindows
    ZipEnds <- MCZipEnds
    ZipRecords <- MCZipRecords
SPECIFICATION Spec
CHECK_DEADLOCK FALSE
INVARIANTS
    EveryByteOnce
    BindsNextMember
    AdmittedIsTree
    AuditAgrees
    VerifierAgrees
    OutcomeTruthful
    DerivedWithinBudget
