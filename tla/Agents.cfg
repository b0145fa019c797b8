SPECIFICATION FairSpec
CONSTANTS
  r1 = r1 r2 = r2 r3 = r3 t1 = t1 t2 = t2 g1 = g1 g2 = g2
  Runs = {r1, r2, r3}
  Resuming = {r3}
  Tasks = {t1}
  Collectors = {g1}
  Nobody = Nobody
  NoBranch = NoBranch
  AtBase = AtBase
  Retries = 1
  KeepFailed = {r1}
  Forcing = {}
  Killable = {r1}
CHECK_DEADLOCK FALSE
INVARIANTS
  
  OwnBranch
PROPERTIES
  WorkSurvives
  AgentsEnd
