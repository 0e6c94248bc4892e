CONSTANTS
  Interval <- RegridFirstInterval
  Deck <- StepDecks
  StartTime = 0
  MaxStep = 1
  Levels = {1, 2}
  SymmetryAware = TRUE
  IntMax = 2147483647
  MaxGrains = 1
  MaxSessions = 3
SPECIFICATION Spec
INVARIANT FirstFileOnRequest
\* The last submission may have ended.
CHECK_DEADLOCK FALSE
