\* Three reads share the permit; their workers do as they like.
SPECIFICATION FairSpec
CONSTANTS
  full = full
  prefix = prefix
  empty = empty
  Readers <- MCReaders
  Keep <- MCKeep
  Chunks = 1
  PipeRoom = 1
  Untrusted = TRUE
CHECK_DEADLOCK FALSE
INVARIANTS
  TypeOK
  OkMeansWholeMember
  OnePermit
  NoLostWakeup
  UnreapedIsReported
PROPERTY
  EveryReadEnds
