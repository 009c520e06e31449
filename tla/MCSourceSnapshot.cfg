\* Two-byte cap, files of up to three bytes; writers that restore bytes and writers that do not.
SPECIFICATION FairSpec
CONSTANTS
  MaxByte = 1
  MaxLen = 3
  Cap = 2
  Chunk = 2
  MaxTick = 1
  DomainIds = 3
  Outputs <- MCOutputs
CHECK_DEADLOCK FALSE
INVARIANTS
  AcceptedIsOneVersion
  CapIsExact
  AcceptedStaysIntact
PROPERTY
  CopyEnds
