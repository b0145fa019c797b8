SPECIFICATION PushFairSpec
CONSTANTS
  e1 = e1 e2 = e2
  Emitters = {e1, e2}
  Lines = 2
  Queue = 1
  Attempts = 2
\* Every line is written once, and the delivery goroutine ends.
CHECK_DEADLOCK FALSE
INVARIANTS
  Conserved
  InOrder
PROPERTIES
  WritesReturn
