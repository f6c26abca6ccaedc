SPECIFICATION Spec
CONSTANTS
  v = v
  w = w
  r = r
  Writers = {v, w}
  Readers = {r}
  NULL = NULL
  Columns <- MCColumns
  Types = {}
  Values = {}
  ValuesOf <- NoValues
  Items <- MCItems
  On = "id"
  FilterDicts <- MCFilterDicts
  JoinFilters <- MCJoinFilters
  MaxWrites = 4
SYMMETRY WriterSymmetry
INVARIANTS
  TypeOK
  QueriesExact
  JoinBounded
  IndexedPayloadsFound
