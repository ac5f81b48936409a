CONSTANTS
  Clients = {c1, c2}
  Sessions = {1, 2}
  Spare = 0
  OpenAppends = FALSE
  MaxStored = 2
SPECIFICATION Spec
INVARIANTS TypeOK OwnedLog ReservationHolds
PROPERTIES InspectIsCurrent NothingForgotten
CHECK_DEADLOCK FALSE
SYMMETRY Interchangeable
VIEW Remainder
CONSTRAINT Bounded
