SPECIFICATION Spec
CONSTANTS
  m1 = m1
  m2 = m2
  Msgs = {m1, m2}
  LastTurn = 0
  MaxSteps = 3
  MaxCalls = 1
PROPERTY ClosesWhenNothingOwed
CHECK_DEADLOCK FALSE
