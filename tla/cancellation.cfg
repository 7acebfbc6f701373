SPECIFICATION Spec
CONSTANTS
  Workers = {w1, w2}
  Triage = {c1, c2}
  Ext = Ext
  Rel = Rel
  None = None
  MaxRetries = 0
  RecoveryCap = 0
  MaxTurns = 1
  MaxFaults = 1
  Cancellable = {c1, c2, Ext, Rel}
  LateStatusWrite = TRUE
SYMMETRY Symmetry
\* A job that is over leaves the fleet nothing to do.
CHECK_DEADLOCK FALSE
INVARIANTS
  PairedLifecycle
  FanInSound
  TerminalJobQuiesces
  OutcomeJustified
