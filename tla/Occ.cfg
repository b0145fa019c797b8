SPECIFICATION OccSpec
CONSTANTS
  p1 = p1 p2 = p2 p3 = p3
  N = 4
  Paths = {p1, p2, p3}
  EdgeChoices <- OneEdge
  EdgeMax = 1
  WriteMax = 2
  ClashMax = 2
SYMMETRY AnyPath
INVARIANTS
  AgreesWithSerial
