CONSTANTS
  Clients = {c1, c2}
  Sessions = {1, 2}
  Spare = 1
  OpenAppends = FALSE
  MaxStored = 1
SPECIFICATION FairSpec
PROPERTY NobodyStranded
CHECK_DEADLOCK FALSE
VIEW Remainder
