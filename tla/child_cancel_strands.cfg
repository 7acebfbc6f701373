SPECIFICATION FairSpec
CONSTANTS
  Drivers = {d1, d2}
  Sweepers = {s1}
  MaxAttempts = 1
  MaxCalls = 1
  MaxLaunches = 1
  MaxFaults = 0
  ChildCancel = {"triage"}
\* A lineage that is over leaves the fleet nothing to do.
CHECK_DEADLOCK FALSE
PROPERTIES
  LineageConverges
