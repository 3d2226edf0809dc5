SPECIFICATION Spec
CONSTANTS
  MaxTyped = 2
  MaxAnswers = 2
CHECK_DEADLOCK FALSE
INVARIANTS
  ClientInv
PROPERTIES
  LossEndsTheClient
  StopsGetPastTheJoin
