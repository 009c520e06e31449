\* Two calls race to one destination; names may be substituted and stages tampered with.
SPECIFICATION Spec
CONSTANTS
  Ops = {o1, o2}
  d1 = d1
  Dests <- MCDests
  Target <- MCTarget
  Inodes = {i1, i2, i3}
  Requests <- MCRequests
  MemberCount = 1
  Free = Free
  Foreign = Foreign
  NoDir = NoDir
  NoFile = NoFile
  Torn = Torn
  SwapAllowed = TRUE
  TamperAllowed = TRUE
  RemoveMayFail = FALSE
SYMMETRY Symmetry
CHECK_DEADLOCK FALSE
INVARIANTS
  PublishedIsVerified
  ExitCodeTruthful
  RemovedMeansRetainedRemoved
PROPERTIES
  DestinationIsFinal
  OnlyOwnObjectsRemoved
  ImplementsPublication
