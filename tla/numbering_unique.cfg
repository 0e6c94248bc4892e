CONSTANTS
  Patches <- TwoLevelPatches
  Extent <- FlatExtent
  Periodic = TRUE
  NoCell = Outside
  Outside = Outside
  Rank <- FlatRanks
  MaxLn <- MaxLevel
  Cell <- Cells
  LevelOf <- MCLevelOf
  OwnerOf <- Owner
  Order <- MCOrder
  Sources <- Stencil
  Ghosts <- OutsideBox
  Children <- FineCells
  Leaves <- MCLeaves
  Number <- CellNumber
  MaxIter <- MaxIterationCount
  Phases <- PairPhases
  Regions <- MCRegions
SPECIFICATION FairSpec
INVARIANT CellsNumberedUniquely

\* The method returns: nothing is left to do then.
CHECK_DEADLOCK FALSE
