CONSTANTS
  Trees <- MCTrees
  CleanTree <- MCCleanTree
  Runs <- MCRuns
  ThinPack = FALSE
SPECIFICATION FairSpec
INVARIANT ProtectedTreesAreIdentity
CHECK_DEADLOCK FALSE
