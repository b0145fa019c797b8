SPECIFICATION Spec
CONSTANTS
  b1 = b1 x1 = x1
  MaxRuns = 2
  Branches = {b1}
  Pushes = {x1}
  MaxMishaps = 1
  Questions <- AllQuestions
CHECK_DEADLOCK FALSE
INVARIANTS
  ClaimsAreTrue
  OnceEach
  UnattributedExplained
  BoardTells
