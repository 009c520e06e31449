\* An untrusted worker: any crash, stall, forged frame, early exit, late write.
SPECIFICATION FairSpec
CONSTANTS
  Untrusted = TRUE
  SpareFrames <- MCSpareFrames
CHECK_DEADLOCK FALSE
INVARIANTS
  TypeOK
  PublishedIsAuthorized
  SourceOnlyToRestricted
  NoSilentOrphan
  LeftStageReported
  AnswerIsReplayed
PROPERTIES
  SessionEnds
  ImplementsPublication
