\* A worker whose termination or reap cannot be proved.
SPECIFICATION Spec
CONSTANTS
  full = full
  prefix = prefix
  empty = empty
  Readers <- MCReaders
  Keep <- MCKeep
  Chunks = 1
  PipeRoom = 1
  Untrusted = TRUE
CHECK_DEADLOCK FALSE
INVARIANT
  PermitAfterReap
