SPECIFICATION FairSpec
CONSTANTS
  tenant = t1
  Runs = {r1}
  Tenants = {t1}
  TenantOf <- OneTenant
  Caps = {1, 2}
  DefaultCap = 1
  Programs <- BothCaps
  Slots = {w1, w2}
  MaxFaults = 1
  MaxRefusals = 2
  SlowAdoption = FALSE
\* A settled run leaves the plane nothing to do.
CHECK_DEADLOCK FALSE
INVARIANTS
  TypeOK
  SlotsMatchRunning
  NothingRepeated
  GiveUpSpentOnce
  AckAfterSettle
  PlanesAgree
PROPERTIES
  RunSettles
