SPECIFICATION Spec
CONSTANTS
  w = w
  Writers = {w}
  Readers = {}
  Partitions <- TwoPartitions
  MaxWrites = 2
  Nobody = Nobody
  Partitioned = TRUE
  Local = TRUE
  CanOverwrite = TRUE
  CanCrash = FALSE
  DeleteFaults = FALSE
  DirName <- BooleanDirName
  PathName <- BooleanPathName
CHECK_DEADLOCK FALSE
PROPERTY OverwriteReplaces
