SPECIFICATION Spec
CONSTANTS
  MaxLevels = 3
  Decks <- AllDecks
  EndTime = 4
  MaxStep = 2
  MaxEdits = 2
  MaxRegrids = 2
  MaxSessions = 2
INVARIANTS TypeOK SchedulesCurrent UsesCurrentWeights ResumesAtCurrent HistoryIsMapped
PROPERTY ContinuesTheSolution
\* A program that has ended, or was aborted, does nothing more.
CHECK_DEADLOCK FALSE
