SPECIFICATION FairSpec
CONSTANTS
  a1 = a1 a2 = a2 r1 = r1 s1 = s1 g1 = g1
  Ackers = {a1, a2}
  Rejecters = {r1}
  Sweepers = {s1}
  Collectors = {g1}
  Run = Run
  Foreign = Foreign
  Root = Root
  Nobody = Nobody
  MaxForeign = 1
  Casts <- ThreeCasts
  Crashable = {a2}
  Faulty = {a2}
  Blind = {a2}
  GcForce = TRUE
\* Every call runs once: the system stops when all have.
CHECK_DEADLOCK FALSE
INVARIANTS
  RejectedNeverLands
  LandsAtMostOnce
  OpenParkIsKept
PROPERTIES
  LandingSpec
  ExpiredParkResolves
