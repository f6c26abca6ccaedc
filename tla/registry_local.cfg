SPECIFICATION Spec
CONSTANTS
  Instances = {p, q}
  p = p
  q = q
  NULL = NULL
  Tables = {"rois", "bins"}
  Columns <- MCColumns
  Types <- MCTypes
  Values <- MCValues
  ValuesOf <- MCValuesOf
  CreateCalls <- RetypingCalls
  RegisterCalls <- RacingRegisterCalls
  LegacyFiles <- MCLegacyFiles
  Local = TRUE
  Serialized = TRUE
  CanCrash = TRUE
  ReadFaults = FALSE
  WriteFaults = TRUE
SYMMETRY InstanceSymmetry
INVARIANTS
  TypeOK
  CreatedTablesPersist
  OpenedTablesAgree
  OnlyCreatesPersist
PROPERTIES
  ListedTablesStay
  ImplementsCatalog
