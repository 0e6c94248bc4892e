CONSTANTS
  Patches <- FlatPatches
  Extent <- FlatExtent
  Periodic = FALSE
  NoCell = Outside
  Outside = Outside
  Rank <- FlatRanks
  MaxLn <- MaxLevel
  Cell <- Cells
  LevelOf <- MCLevelOf
  OwnerOf <- Owner
  Order <- MCOrder
  Sources <- Stencil
  Ghosts <- OutsideBox
  Children <- FineCells
  Leaves <- MCLeaves
  Number <- CellNumber
  MaxIter <- MaxIterationCount
  Phases <- AnyPhase
  Regions <- MCRegions
SPECIFICATION FairSpec
INVARIANTS TypeOK GrainsSeparated GrainsCounted
\* The method returns: nothing is left to do then.
CHECK_DEADLOCK FALSE
