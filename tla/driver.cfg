SPECIFICATION FairSpec
CONSTANTS
  m1 = m1
  m2 = m2
  m3 = m3
  Msgs = {m1, m2, m3}
  LastTurn = 1
  MaxSteps = 3
  MaxCalls = 2
INVARIANTS TypeOK NoLostWake OnePlace
PROPERTIES AbortStopsWork CompletedIsAnswered TruncationWins TraceSpec RoundSpec AbortConverges LatchServed
CHECK_DEADLOCK FALSE
