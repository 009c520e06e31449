\* The supported supervisor removes the stage of a worker it could not reap.
SPECIFICATION Spec
CONSTANTS
  Untrusted = FALSE
  SpareFrames <- MCSpareFrames
CHECK_DEADLOCK FALSE
INVARIANT
  CleanupOnlyAfterReap
