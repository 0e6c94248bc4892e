\* Two steps, each tried several times, and a solver made anew.
SPECIFICATION Spec
CONSTANTS
  Decks <- MCDecks
  MaxCor = 2
  MaxNcf = 2
  MaxNef = 2
  MaxPrecondSteps = 2
  MaxKrylov = 1
  MaxTrials = 1
  MaxSteps = 2
  MaxSolvers = 1
CHECK_DEADLOCK FALSE
INVARIANTS
  TypeOK
  RightHandSideIsCurrent
  DifferenceHasOneBase
  OneLinearization
PROPERTIES
  FrameFromAccepted
  FailsWithNewPreconditioner
  StepEnds
  StepShrinks
