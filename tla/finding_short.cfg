SPECIFICATION Spec
CONSTANTS
  r = r
  w = w
  Writers = {w}
  Readers = {r}
  Partitions <- TwoPartitions
  MaxWrites = 2
  Nobody = Nobody
  Partitioned = TRUE
  Local = TRUE
  CanOverwrite = TRUE
  CanCrash = FALSE
  DeleteFaults = FALSE
  DirName <- SameNames
  PathName <- SameNames
CHECK_DEADLOCK FALSE
INVARIANT ReadsAreNeverShort
