CONSTANTS
  Trees <- MCTrees
  CleanTree <- MCCleanTree
  Runs <- MCRuns
  ThinPack = FALSE
SPECIFICATION FairSpec
INVARIANTS
  TypeOK CommitsFaithful OnlyTipsStayDirty IdentityExactlyWhenUntouched ResultsAreFixedPoints
  DurableIsClosed ResultsAreDurable LookupsNeverMiss TargetsAreInTheWalk RefsPeelToTheirCommits
PROPERTIES MapsOnlyGrow Terminates ImplementsCleanRewrite
CHECK_DEADLOCK FALSE
