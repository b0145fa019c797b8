SPECIFICATION FairSpec
CONSTANTS
  r1 = r1 r2 = r2 r3 = r3 t1 = t1 t2 = t2 t3 = t3
  Runs = {r1}
  Resuming = {}
  Tasks = {t1, t2, t3}
  Held = {t3}
  RepairMax = 2
  Bisects = TRUE
  Foreign = Foreign
  Root = Root
  Nobody = Nobody
  Killable = {r1}
  Signalled = {r1}
  Faults = TRUE
  MaxForeign = 1
CHECK_DEADLOCK FALSE
INVARIANTS
  ReportMatchesBase
  EveryBranchAccounted
  OpenParkIsReachable
PROPERTIES
  LandingSpec
  RunsSettle
