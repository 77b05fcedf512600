SPECIFICATION MCSpec
CONSTANTS
  f = f
  g = g
  l = l
  d = d
  None = None
  Empty = Empty
  Malformed = Malformed
  Inodes <- MCInodes
  Kinds <- MCKinds
  Contents <- MCContents
  Documents <- MCDocuments
  Schemas <- MCSchemas
  maximumBytes = 3
  MaxInt64 = 3
  MaxChanges = 2
INVARIANTS
  ReadWhatWasChecked
  ReturnsTheSecret
  OnlyWellFormedRings
