SPECIFICATION Spec
CONSTANTS
  h1 = h1 h2 = h2
  u1 = u1 u2 = u2
  Regions = {h1, h2}
  Layouts <- OneOrTwoFiles
  Unlanders = {u1, u2}
  MaxIds = 4
  MaxRuns = 2
  Root = Root
  Foreign = Foreign
  MaxForeign = 1
  Limit = 1
  Resolver = FALSE
SYMMETRY Symmetric
CHECK_DEADLOCK FALSE
INVARIANTS
  OutcomesAreTrue
  TakenBackOnce
PROPERTIES
  UndoesItsTarget
