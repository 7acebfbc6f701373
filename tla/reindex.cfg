SPECIFICATION FairSpec
CHECK_DEADLOCK FALSE
CONSTANTS
  Workers = {w1}
  Ingesters = {c1}
  Items = {"i1", "i3"}
  Tags = {"t1"}
  Seed = {"i1"}
  Brings <- BringsItemAndTag
  Targets = {"a", "b"}
  MaxEpoch = 2
  MaxDrift = 1
  MaxFaults = 2
  MaxAttempts = 1
  MaxReembeds = 1
  CapDivisor = 1
  LongCommit = FALSE
  SlowCancel = FALSE
INVARIANTS
  TypeOK
  ActiveCovered
  LiveRunHasBuilding
PROPERTIES
  FlipVerified
  FlipWithinCap
  ReindexSettles
