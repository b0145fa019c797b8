SPECIFICATION FairSpec
CONSTANTS
  d1 = d1 d2 = d2 r1 = r1 r2 = r2 k1 = k1 k2 = k2 c1 = c1 c2 = c2
  Daemons = {d1, d2}
  Runs = {r1, r2}
  Calls = {k1}
  Cells = {c1, c2}
  MaxConcurrent = 1
  Killable = {d1}
  Nobody = Nobody
\* Runs and calls happen once, and every daemon stops.
CHECK_DEADLOCK FALSE
INVARIANTS
  SlotExclusion
  LiveRunsLeftAlone
PROPERTIES
  StaleRunsHealed
  SlotsReturn
