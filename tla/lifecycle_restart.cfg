SPECIFICATION Spec
CONSTANTS
  MaxLevels = 2
  Decks <- AdaptiveDeck
  EndTime = 4
  MaxStep = 2
  MaxEdits = 1
  MaxRegrids = 2
  MaxSessions = 2
INVARIANT RestartedRunStarts
\* A program that has ended, or was aborted, does nothing more.
CHECK_DEADLOCK FALSE
