SPECIFICATION Spec
CONSTANTS
  r1 = r1 r2 = r2 r3 = r3 t1 = t1 t2 = t2 t3 = t3
  Runs = {r1, r2, r3}
  Resuming = {r3}
  Tasks = {t1, t2}
  Held = {t2}
  RepairMax = 0
  Bisects = FALSE
  Foreign = Foreign
  Root = Root
  Nobody = Nobody
  Killable = {}
  Signalled = {}
  Faults = FALSE
  MaxForeign = 0
SYMMETRY FreshRuns
CHECK_DEADLOCK FALSE
INVARIANTS
  WorkLandsOnce
