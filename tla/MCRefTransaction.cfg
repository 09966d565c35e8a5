CONSTANTS
  Refs <- MCRefs
  Space <- MCSpace
  Ids = {"c", "t", "tb", "x"}
  TypeOf <- MCTypeOf
  Peels <- MCPeels
  Missing = "missing"
  Symbolic = "symbolic"
  Updates <- MCUpdates
SPECIFICATION FairSpec
INVARIANTS TypeOK LooksAgainUnderTheLocks NoLockLeftBehind
PROPERTIES ReplacesOnlyPlainRefs Returns ImplementsRefUpdate
