SPECIFICATION Spec
CONSTANTS
  w = w
  v = v
  Writers = {v, w}
  Readers = {}
  Partitions <- TwoPartitions
  MaxWrites = 3
  Nobody = Nobody
  Partitioned = TRUE
  Local = TRUE
  CanOverwrite = TRUE
  CanCrash = TRUE
  DeleteFaults = FALSE
  DirName <- SameNames
  PathName <- SameNames
CHECK_DEADLOCK FALSE
SYMMETRY WriterSymmetry
INVARIANTS
  TypeOK
  ReturnedRowsStay
PROPERTIES
  OverwriteReplaces
  ImplementsPartitionWrites
