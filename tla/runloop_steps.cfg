CONSTANTS
  Interval <- StepInterval
  Deck <- StepDecks
  StartTime = 0
  MaxStep = 1
  Levels = {1, 2}
  SymmetryAware = TRUE
  IntMax = 2147483647
  MaxGrains = 2
  MaxSessions = 3
SPECIFICATION Spec
INVARIANTS TypeOK LossBounded MergeIsHandled FrameIsKept DeckIsObeyed DeckIsExhausted
\* The last submission may have ended.
CHECK_DEADLOCK FALSE
