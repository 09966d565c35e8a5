CONSTANTS
  Keys = {"k1", "k2", "k3"}
  Values = {"v1", "v2"}
  Addresses = {"a", "b", "c", "d"}
  FirstCapacity = 1
SPECIFICATION Spec
INVARIANTS TypeOK TreeIsReadable EntriesAreOwned ArrayHasRoom
PROPERTY ImplementsIdMap
