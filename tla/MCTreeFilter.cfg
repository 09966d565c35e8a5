CONSTANTS
  Names <- MCNames
  Sizes <- MCSizes
  MaxDepth = 2
  Originals <- MCOriginals
  Filters <- MCFilters
SPECIFICATION Spec
INVARIANTS
  ResultIsWhatNoRuleRemoves MatchesIffChanges ResultIsClean OnlyTrailingSlashFails
  RefusesOnlyMissingOrSlash
CHECK_DEADLOCK FALSE
