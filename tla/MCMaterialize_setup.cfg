\* Both removals of a stage that setup refuses fail.
SPECIFICATION Spec
CONSTANTS
  Ops = {o1}
  d1 = d1
  Dests <- MCDests
  Target <- MCTarget
  Inodes = {i1, i2}
  Requests <- MCRequests
  MemberCount = 1
  Free = Free
  Foreign = Foreign
  NoDir = NoDir
  NoFile = NoFile
  Torn = Torn
  SwapAllowed = FALSE
  TamperAllowed = FALSE
  RemoveMayFail = TRUE
CHECK_DEADLOCK FALSE
INVARIANT
  FailedCleanupReturnsRecord
