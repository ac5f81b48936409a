SPECIFICATION Spec
CONSTANTS
  m1 = m1
  m2 = m2
  Msgs = {m1, m2}
  LastTurn = 0
  MaxSteps = 1
  MaxCalls = 1
PROPERTY LiveDriverClaims
CHECK_DEADLOCK FALSE
