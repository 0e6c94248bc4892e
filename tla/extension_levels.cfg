CONSTANTS
  Patches <- LevelPatches
  Extent <- LevelExtent
  Periodic = TRUE
  NoCell = Outside
  Outside = Outside
  Rank <- Ranks
  MaxLn <- MCMaxLn
  Cell <- MCCell
  LevelOf <- MCLevelOf
  OwnerOf <- MCOwnerOf
  Order <- MCOrder
  Sources <- MCSources
  Ghosts <- MCGhosts
  Children <- MCChildren
  Leaves <- MCLeaves
  PatchOf <- MCPatchOf
  MaxIter <- MaxIterationCount
  Phases <- LevelPhases
  Distance <- NoSteps
SPECIFICATION FairSpec
INVARIANTS OrientationFromGrain CoveredIsAverage NoRankWaits
PROPERTIES Termination
\* The method returns: nothing is left to do then.
CHECK_DEADLOCK FALSE
