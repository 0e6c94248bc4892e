CONSTANTS
  Interval <- TimeInterval
  Deck <- TimeDecks
  StartTime = 0
  MaxStep = 3
  Levels = {1, 2}
  SymmetryAware = FALSE
  IntMax = 2147483647
  MaxGrains = 1
  MaxSessions = 2
SPECIFICATION Spec
INVARIANTS FinalStateSaved PlotsOnceAndLast NoPlotMissed
PROPERTIES ImplementsPromise
\* The last submission may have ended.
CHECK_DEADLOCK FALSE
