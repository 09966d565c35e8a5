CONSTANTS
  Names <- MCNames
  Sizes <- MCSizes
  MaxDepth = 2
  Originals <- MCOriginals
  Filters <- MCFilters
SPECIFICATION Spec
INVARIANT MissingPathIsError
CHECK_DEADLOCK FALSE
