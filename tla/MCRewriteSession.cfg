CONSTANTS
  Refs <- MCRefs
  Space <- MCSpace
  Ids <- MCIds
  TypeOf <- MCTypeOf
  Peels <- MCPeels
  Missing = Missing
  Symbolic = Symbolic
  Commands <- MCCommands
  Listing <- MCListing
  HeadBranch <- Main
  RewriteRef <- New
  Link <- Main
  Tip <- MCTip
  Walk <- MCWalk
  Image <- MCImage
  HeadImage <- MCHeadImage
  Stored <- MCStored
  Repositories <- MCRepositories
  MaxMoves = 1
  MaxRuns = 2
SPECIFICATION FairSpec
INVARIANTS TypeOK RefsNeverDangle AllOrNothing RerunsConverge
PROPERTIES WritesImagesOfTheSameRef RunsEnd
CHECK_DEADLOCK FALSE
