SPECIFICATION Spec
CONSTANTS
  Instances = {p, q}
  p = p
  q = q
  NULL = NULL
  Tables = {"rois"}
  Columns <- MCColumns
  Types <- MCTypes
  Values <- MCValues
  ValuesOf <- MCValuesOf
  TextTypes = {"str"}
  Json <- MCJson
  Casts <- MCCasts
  DirName <- MCDirName
  PathName <- MCDirName
  Pathable <- MCValues
  ParseName <- MCParseName
  CreateCalls <- MCCreateCalls
  RegisterCalls <- MCRegisterCalls
  Inputs <- MCInputs
  FilterDicts <- MCFilterDicts
  Projections <- MCProjections
  MaxWrites = 1
  Disciplined = TRUE
INVARIANT AddedColumnsReadNull
