CONSTANTS
  Patches <- FlatPatches
  Extent <- FlatExtent
  Periodic = TRUE
  NoCell = Outside
  Outside = Outside
  Rank <- Ranks
  MaxLn <- MCMaxLn
  Cell <- MCCell
  LevelOf <- MCLevelOf
  OwnerOf <- MCOwnerOf
  Order <- MCOrder
  Sources <- MCSources
  Ghosts <- MCGhosts
  Children <- MCChildren
  Leaves <- MCLeaves
  PatchOf <- MCPatchOf
  MaxIter <- MaxIterationCount
  Phases <- PairPhases
  Distance <- Steps
SPECIFICATION FairSpec
INVARIANT ConvergedIsExtended
\* The method returns: nothing is left to do then.
CHECK_DEADLOCK FALSE
