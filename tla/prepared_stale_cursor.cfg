CONSTANTS
  Clients = {c1}
  Sessions = {1, 2}
  Spare = 0
  OpenAppends = TRUE
  MaxStored = 3
SPECIFICATION Spec
PROPERTY AppendsAtTheEnd
CHECK_DEADLOCK FALSE
