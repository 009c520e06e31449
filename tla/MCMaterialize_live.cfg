\* Every call that is not killed ends; a renamed one ends committed.
SPECIFICATION FairSpec
CONSTANTS
  Ops = {o1, o2}
  d1 = d1
  Dests <- MCDests
  Target <- MCTarget
  Inodes = {i1, i2}
  Requests <- MCLongest
  MemberCount = 1
  Free = Free
  Foreign = Foreign
  NoDir = NoDir
  NoFile = NoFile
  Torn = Torn
  SwapAllowed = FALSE
  TamperAllowed = FALSE
  RemoveMayFail = TRUE
CHECK_DEADLOCK FALSE
INVARIANT
  ReceiptTruthful
PROPERTY
  EveryCallEnds
