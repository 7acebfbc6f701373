SPECIFICATION Spec
CONSTANTS
  Workers = {w1, w2, w3}
  Triage = {c1, c2}
  Ext = Ext
  Rel = Rel
  None = None
  MaxRetries = 1
  RecoveryCap = 0
  MaxTurns = 0
  MaxFaults = 1
  Cancellable = {}
  LateStatusWrite = TRUE
SYMMETRY Symmetry
\* A job that is over leaves the fleet nothing to do.
CHECK_DEADLOCK FALSE
INVARIANT
  NoStrandedJob
