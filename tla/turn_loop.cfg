SPECIFICATION FairSpec
CONSTANTS
  Slots = {p1, p2}
  None = None
  Batches <- SomeBatches
  MaxTurns = 2
  MaxLaunches = 1
  RecheckBound = 2
  MaxRetries = 1
  RecoveryCap = 0
\* A thread that is over leaves nothing to do.
CHECK_DEADLOCK FALSE
INVARIANTS
  TypeOK
  ReadingIsLog
  ConversationWellFormed
  SubmissionStands
  CapsHold
PROPERTIES
  LoopEnds
