SPECIFICATION Spec
CONSTANTS
  Instances = {p, q, r}
  p = p
  q = q
  r = r
  NULL = NULL
  Tables = {"rois", "bins"}
  Columns <- MCColumns
  Types <- MCTypes
  Values <- MCValues
  ValuesOf <- MCValuesOf
  CreateCalls <- RetypingCalls
  RegisterCalls = {}
  LegacyFiles <- NoLegacyFiles
  Local = FALSE
  Serialized = FALSE
  CanCrash = TRUE
  ReadFaults = FALSE
  WriteFaults = TRUE
SYMMETRY InstanceSymmetry
VIEW RacesView
INVARIANT CreatedTablesPersist
PROPERTY ImplementsCatalog
