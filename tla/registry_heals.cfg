SPECIFICATION FairSpec
CONSTANTS
  Instances = {p, q}
  p = p
  q = q
  NULL = NULL
  Tables = {"rois", "bins"}
  Columns <- MCColumns
  Types <- MCTypes
  Values <- MCValues
  ValuesOf <- MCValuesOf
  CreateCalls <- RacingCreateCalls
  RegisterCalls <- RacingRegisterCalls
  LegacyFiles <- MCLegacyFiles
  Local = TRUE
  Serialized = TRUE
  CanCrash = FALSE
  ReadFaults = FALSE
  WriteFaults = FALSE
INVARIANT UnreadableOnlyMidSave
PROPERTY TruncationHeals
