SPECIFICATION Spec
CONSTANTS
  Table = {"t"}
  Field = {"a", "b"}
  Null = null
  Nothing = nothing
  Objects <- MCObjects
  Scalars <- MCScalars
  Given <- MCGiven
  BigInts = {2}
  Queries <- MCQueries
  Sorts <- MCSorts
  Dangerous = {"__proto__"}
  OldBundles <- MCOld
  MaxSequence = 2
PROPERTY InsertIdsFresh
