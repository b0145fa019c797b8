SPECIFICATION Spec
CONSTANTS
  r1 = r1 r2 = r2 b1 = b1 b2 = b2 pf = pf a = a b = b m1 = m1 m2 = m2
  Runs = {r1, r2}
  Branches = {b1, b2}
  PolicyFile = pf
  Texts = {1, 2}
  PolicyAt <- Policy2
  Packages = {a, b}
  Contents = {1, 2}
  Imports <- OneImport
  Members = {m1, m2}
  Flags <- TwoFlags
  Origin = 1
  RepairMax = 1
  WriteMax = 2
  FixMax = 1
  MaxLive = 1
  MaxBase = 2
SYMMETRY Symmetric
CHECK_DEADLOCK FALSE
PROPERTIES
  AckPathsNeedAnAck
  VerifiedInFull
  ScopeCoversChange
