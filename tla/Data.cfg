\* A first table of 3 buckets, rebuilt with 12 when it gets its third entry, and a
\* search whose caller creates and deletes entries.
SPECIFICATION DataSpec
CONSTANTS
  Keys = {0, 3, 4}
  Values = {v}
  Index <- MaskIndex
  StructKeys = FALSE
  StartBuckets = 3
  Multiplier = 1
  MaxEntries = 4
  MaxBuckets = 12
  None = None
INVARIANTS
  FilesSound
  ZipSound
  TableSound
  SearchSound
PROPERTY ImplementsDict
CHECK_DEADLOCK FALSE
