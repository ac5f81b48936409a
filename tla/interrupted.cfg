CONSTANTS
  MaxCalls = 2
  MaxAsked = 2
  MaxTurns = 2
  MaxSteps = 2
  MaxCrashes = 2
SPECIFICATION Spec
INVARIANTS TypeOK LegalLog HonestAnswers RanIsRecorded AnsweredOnce
CHECK_DEADLOCK FALSE
