SPECIFICATION Spec
CONSTANTS
  Instances = {p, q}
  p = p
  q = q
  NULL = NULL
  Tables = {"rois", "bins"}
  Columns <- MCColumns
  Types <- MCTypes
  Values <- MCValues
  ValuesOf <- MCValuesOf
  CreateCalls <- MCCreateCalls
  RegisterCalls <- MCRegisterCalls
  LegacyFiles <- NoLegacyFiles
  Local = TRUE
  Serialized = TRUE
  CanCrash = FALSE
  ReadFaults = TRUE
  WriteFaults = FALSE
INVARIANT CreatedTablesPersist
