SPECIFICATION FairSpec
CHECK_DEADLOCK FALSE
CONSTANTS
  MaxRequests = 3
  Ops <- Sessions
  Origins <- BothOrigins
  Seeds = {"clear"}
  MaxFaults = 1
  MaxReports = 1
  EventCapacity = 1
  ControlLoss = TRUE
  SlowReap = FALSE
INVARIANTS
  TypeOK
  LiveLaunchHeld
PROPERTIES
  AnswersTrue
  RestartPendingKept
  RequestsAnswered
