CONSTANTS
  Trees <- MCTrees
  CleanTree <- MCCleanTree
  Runs <- MCRuns
  ThinPack = TRUE
SPECIFICATION FairSpec
PROPERTY ImplementsCleanRewrite
CHECK_DEADLOCK FALSE
