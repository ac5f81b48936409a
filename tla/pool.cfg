SPECIFICATION FairSpec
CONSTANTS
  N = 5
  MaxParallel = 2
INVARIANTS TypeOK BarrierHolds AnswersAreOutcomes NothingLeftRunning
PROPERTIES RoundSpec Returns
CHECK_DEADLOCK FALSE
