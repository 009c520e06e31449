CONSTANTS
    BLOCK_LEN = 4
    MaxU64 = 1000
    U16Max = 9
    U32Max = 200
    MAX_EXTENSION_BYTES = 2
    MAX_EXTENSIONS = 2
    MAX_CARRIERS = 2
    MAX_CARRIER_PAYLOAD_BYTES = 2
    TAR_RECORD_LEN = 12
    FCS_BIAS = 4
    MIN_WINDOW_BYTES = 8
    MAX_WINDOW_BYTES = 64
    MAX_DICT_BYTES = 8
    MAX_BLOCKS = 2
    BZIP2_MAX_BLOCKS = 2
    MAX_MEMBERS = 4
    MAX_RETENTION_PATHS = 2
    MAX_TRANSFER_CONTENT_BYTES = 8
    MAX_ISOLATED_READ_BYTES = 4
    PathOrder <- MCPathOrder
    Jobs <- MCJobs
    Asks <- MCAsks
SPECIFICATION Spec
CHECK_DEADLOCK FALSE
INVARIANTS
    PlanCrosses
    AcceptedIsTheEvidence
    AuthorizedIsTruth
    ReadsAgree
