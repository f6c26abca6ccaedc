SPECIFICATION Spec
CONSTANTS
  s = s
  r = r
  w = w
  Writers = {w}
  Readers = {r, s}
  Partitions <- TwoPartitions
  MaxWrites = 2
  Nobody = Nobody
  Partitioned = TRUE
  Local = TRUE
  CanOverwrite = TRUE
  CanCrash = FALSE
  DeleteFaults = TRUE
  DirName <- SameNames
  PathName <- SameNames
CHECK_DEADLOCK FALSE
SYMMETRY ReaderSymmetry
INVARIANT ReadsAreComplete
