SPECIFICATION Spec
CONSTANTS
  Instances = {p, q}
  p = p
  q = q
  NULL = NULL
  Tables = {"rois"}
  Keys = {"k"}
  Columns <- MCColumns
  Types <- MCTypes
  Values = {}
  ValuesOf <- NoValues
  TableCalls <- MCTableCalls
  StoredType <- MCStored
  WrittenAt = "written_at"
  TimeType = "time"
  AddWrittenAt <- Stamped
  MaxWrites = 3
  Serialized = TRUE
  CanDrop = TRUE
  CanCrash = TRUE
  CommitFaults = TRUE
  WriteFaults = TRUE
SYMMETRY InstanceSymmetry
INVARIANTS
  TypeOK
  ProvisionedCachesAgree
  ProvisionedAgree
  AckedRowsStay
  DedupKeepsLatest
  RerunAccepted
