CONSTANTS
  p = p
  q = q
  NULL = NULL
  Texts = {p, q}
  Kilo = 2
  MaxSize = 31
  FirstCapacity = 1
  ArgLists <- SomeArgLists
SPECIFICATION Spec
INVARIANTS TypeOK OnlyLegalCommandsRun EveryLegalCommandRuns RunsWhatWasAsked
CHECK_DEADLOCK FALSE
