SPECIFICATION FairSpec
CONSTANTS
  Drivers = {d1, d2}
  Sweepers = {s1}
  MaxAttempts = 1
  MaxCalls = 2
  MaxLaunches = 2
  MaxFaults = 2
  ChildCancel = {"relation"}
\* A lineage that is over leaves the fleet nothing to do.
CHECK_DEADLOCK FALSE
INVARIANTS
  TypeOK
  ParentBlockedWhileChildDrives
  VerdictMatchesSubmission
  ChildNeverOutlivesDriver
  WaiterHasResolver
PROPERTIES
  LineageSettles
