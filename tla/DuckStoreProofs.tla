-------------------------- MODULE DuckStoreProofs --------------------------
(***************************************************************************)
(* Proofs about DuckStore, for every set of instances, tables, columns,    *)
(* declarations, inputs and values.                                        *)
(*                                                                         *)
(*   TypeCorrect         Spec => []TypeOK, in every deployment             *)
(*   RowsConform         Spec => []StoredRowsConform, for services that    *)
(*                       declare what has been created                     *)
(*   PruningKeepsMatches Spec => []GlobsKeepMatches, for these, when the   *)
(*                       two spellings of a directory agree                *)
(*   ReadsExact          Spec => []FilteredReadsExact, likewise            *)
(*   JoinsExact          Spec => []JoinSidesExact, likewise                *)
(*   DistinctAgree       Spec => []DistinctValuesAgree, for these services,*)
(*                       when the names of directories are read back and   *)
(*                       no value is of two types                          *)
(*   StoreImplemented    Spec => ImplementsTableStore, for these, when the *)
(*                       spellings agree and each list has a column of     *)
(*                       each declaration                                  *)
(***************************************************************************)
EXTENDS DuckStore, SchemaRulesProofs, FilterRulesProofs

Calls == CreateCalls \cup RegisterCalls

Declared == {c.decl : c \in Calls}

(* The parts of a call. *)
LEMMA CallParts ==
  \A c \in Calls : c.table \in Tables /\ c.decl \in Entry /\ c.decl \in Declared
BY StoreAssumption DEF Calls, Declared

(* The parts of an entry. *)
LEMMA EntryParts ==
  ASSUME NEW e \in Entry
  PROVE  /\ e.partition_by \in Seq(Columns)
         /\ DOMAIN e.schema \subseteq Columns
         /\ \A c \in DOMAIN e.schema :
              e.schema[c].type \in Types /\ e.schema[c].nullable \in BOOLEAN
<1>1. PICK C \in SUBSET Columns : e.schema \in [C -> Field]
  BY DEF Entry, Schema
<1> QED BY <1>1 DEF Entry, Field

-----------------------------------------------------------------------------
(***************************************************************************)
(* Validation: records that pass become rows of the declared schema.       *)
(***************************************************************************)

(* The cell of a record that has been validated. *)
LEMMA CastCell ==
  ASSUME NEW input, NEW e \in Entry, Valid(input, e.schema),
         NEW k \in DOMAIN input.records, NEW c \in DOMAIN e.schema
  PROVE  TableRow(input, k, e.schema)[c] \in Cells(e.schema[c])
<1> DEFINE type == e.schema[c].type
           v == Cell(input, k, c, e.schema[c])
<1>1. type \in Types
  BY EntryParts
<1>2. CASE c \notin Given(input, e.schema)
  BY <1>2 DEF Valid, TableRow, Cells
<1>3. CASE c \in Given(input, e.schema)
  <2>1. IF v = NULL THEN e.schema[c].nullable ELSE v \in Castable(input, type)
    BY <1>3 DEF Valid
  <2>2. TableRow(input, k, e.schema)[c] = Cast(type, v)
    BY <1>3 DEF TableRow
  <2>3. CASE v = NULL
    BY <2>1, <2>2, <2>3 DEF Cast, Cells
  <2>4. CASE v # NULL
    <3>1. v \in DOMAIN Casts[type]
      BY <1>1, <2>1, <2>4, CastsAssumption DEF Castable
    <3>2. Casts[type][v] \in ValuesOf[type]
      BY <1>1, <3>1, CastsAssumption
    <3> QED BY <2>2, <2>4, <3>2 DEF Cast, Cells
  <2> QED BY <2>3, <2>4
<1> QED BY <1>2, <1>3

(* validate_records returns rows "conforming to the schema". *)
LEMMA ValidRowsConform ==
  ASSUME NEW input, NEW e \in Entry, Valid(input, e.schema),
         NEW k \in DOMAIN input.records
  PROVE  TableRow(input, k, e.schema) \in Rows(e.schema)
<1>1. \A c \in DOMAIN e.schema :
        /\ TableRow(input, k, e.schema)[c] \in Cells(e.schema[c])
        /\ Cells(e.schema[c]) \subseteq Values \cup {NULL}
  BY CastCell, EntryParts, ValuesAssumption DEF Cells
<1>2. TableRow(input, k, e.schema) = [c \in DOMAIN e.schema |-> TableRow(input, k, e.schema)[c]]
  BY DEF TableRow
<1>3. TableRow(input, k, e.schema) \in [DOMAIN e.schema -> Values \cup {NULL}]
  BY <1>1, <1>2
<1> QED BY <1>1, <1>3 DEF Rows

-----------------------------------------------------------------------------
(***************************************************************************)
(* The catalogue and the declarations.                                     *)
(***************************************************************************)
IsCatalog(reg) ==
  /\ DOMAIN reg \subseteq Tables
  /\ \A t \in DOMAIN reg : reg[t] \in Entry /\ reg[t] \in Declared /\ Prepared(reg[t])

CatalogInv ==
  /\ IsCatalog(catalog)
  /\ registry = [i \in Instances |-> registry[i]]
  /\ meta = [i \in Instances |-> meta[i]]
  /\ \A i \in Instances : IsCatalog(registry[i]) /\ IsCatalog(meta[i])

(* register() keeps a registry well formed. *)
LEMMA RegisterIsCatalog ==
  ASSUME NEW reg, IsCatalog(reg), NEW c \in Calls,
         Prepared(c.decl), ~ Conflicts(reg, c.table, c.decl)
  PROVE  LET after == Register(reg, c.table, c.decl) IN
         /\ IsCatalog(after)
         /\ c.table \in DOMAIN after
         /\ \/ c.table \in DOMAIN reg /\ after[c.table] = reg[c.table]
            \/ after[c.table] = c.decl
<1>1. c.table \in Tables /\ c.decl \in Entry /\ c.decl \in Declared
  BY CallParts
<1>2. \A t \in DOMAIN reg : reg[t] \in Entry
  BY DEF IsCatalog
<1> DEFINE after == Register(reg, c.table, c.decl)
<1>3. /\ DOMAIN after = DOMAIN reg \cup {c.table}
      /\ \A t \in DOMAIN after :
           \/ t \in DOMAIN reg /\ after[t] = reg[t]
           \/ t = c.table /\ after[t] = c.decl
  BY <1>1, <1>2, RegisterServes
<1> HIDE DEF after
<1>4. /\ IsCatalog(after)
      /\ c.table \in DOMAIN after
      /\ \/ c.table \in DOMAIN reg /\ after[c.table] = reg[c.table]
         \/ after[c.table] = c.decl
  BY <1>1, <1>3 DEF IsCatalog
<1> QED BY <1>4 DEF after

(* So does an assignment in _table_meta. *)
LEMMA PutIsCatalog ==
  ASSUME NEW reg, IsCatalog(reg), NEW t \in Tables,
         NEW e \in Entry, e \in Declared, Prepared(e)
  PROVE  IsCatalog(Put(reg, t, e))
BY DEF IsCatalog, Put

LEMMA CatalogInit == Init => CatalogInv
BY DEF Init, CatalogInv, IsCatalog, NoTables

LEMMA CatalogStep == CatalogInv /\ [Next]_vars => CatalogInv'
<1> SUFFICES ASSUME CatalogInv, [Next]_vars PROVE CatalogInv'
  OBVIOUS
<1>1. ASSUME NEW i \in Instances, Open(i) PROVE CatalogInv'
  BY <1>1 DEF Open, CatalogInv, IsCatalog
<1>2. ASSUME NEW i \in Instances, NEW c \in RegisterCalls, RegisterTable(i, c)
      PROVE  CatalogInv'
  <2> DEFINE e == Register(registry[i], c.table, c.decl)[c.table]
  <2>1. c \in Calls /\ c.table \in Tables
    BY CallParts DEF Calls
  <2>2. e \in Entry /\ e \in Declared /\ Prepared(e)
    BY <1>2, <2>1, RegisterIsCatalog DEF RegisterTable, CatalogInv, IsCatalog
  <2> HIDE DEF e
  <2>3. IsCatalog(Put(meta[i], c.table, e))
    BY <2>1, <2>2, PutIsCatalog DEF CatalogInv
  <2>4. /\ meta' = [meta EXCEPT ![i] = Put(@, c.table, e)]
        /\ UNCHANGED <<catalog, registry>>
    BY <1>2 DEF RegisterTable, e
  <2> QED BY <2>3, <2>4 DEF CatalogInv, IsCatalog
<1>3. ASSUME NEW i \in Instances, NEW c \in CreateCalls, CreateTable(i, c)
      PROVE  CatalogInv'
  <2> DEFINE saved == Register(catalog, c.table, c.decl)
  <2>1. c \in Calls /\ c.table \in Tables
    BY CallParts DEF Calls
  <2>2. IsCatalog(saved) /\ c.table \in DOMAIN saved
    BY <1>3, <2>1, RegisterIsCatalog DEF CreateTable, CatalogInv
  <2>3. /\ catalog' = saved
        /\ registry' = [registry EXCEPT ![i] = saved]
        /\ meta' = [meta EXCEPT ![i] = Put(@, c.table, saved[c.table])]
    BY <1>3 DEF CreateTable
  <2> HIDE DEF saved
  <2>4. IsCatalog(Put(meta[i], c.table, saved[c.table]))
    BY <2>1, <2>2, PutIsCatalog DEF CatalogInv, IsCatalog
  <2> QED BY <2>2, <2>3, <2>4 DEF CatalogInv, IsCatalog
<1>4. ASSUME NEW i \in Instances, NEW c \in CreateCalls, RefuseCreate(i, c)
      PROVE  CatalogInv'
  BY <1>4 DEF RefuseCreate, CatalogInv, IsCatalog
<1>5. ASSUME NEW i \in Instances, NEW t \in Tables, NEW input \in Inputs,
             NEW overwrite \in BOOLEAN,
             Write(i, t, input, overwrite) \/ WriteFails(i, t, input, overwrite)
      PROVE  CatalogInv'
  BY <1>5 DEF Write, WriteFails, catalogVars, CatalogInv, IsCatalog
<1>6. CASE UNCHANGED vars
  BY <1>6 DEF vars, CatalogInv, IsCatalog
<1> QED BY <1>1, <1>2, <1>3, <1>4, <1>5, <1>6 DEF Next

-----------------------------------------------------------------------------
(***************************************************************************)
(* The files that a write makes.                                           *)
(***************************************************************************)

(* Each has rows of the input alone, in the directory of its rows. *)
LEMMA NewFilesParts ==
  ASSUME NEW t, NEW input, NEW e, NEW f \in NewFiles(t, input, e)
  PROVE  /\ f.table = t /\ f.call = calls + 1 /\ f.columns = DOMAIN e.schema
         /\ \A r \in f.rows : r \in TableRows(input, e) /\ f.dir = DirOf(r.cells, e.partition_by)
BY DEF NewFiles

LEMMA NewFilesWhole ==
  ASSUME NEW t, NEW input, NEW e, NEW f \in NewFiles(t, input, e)
  PROVE  f.whole \in BOOLEAN /\ f.whole
<1>1. PICK d, rows : f = [table |-> t, dir |-> d, call |-> calls + 1,
                          columns |-> DOMAIN e.schema, whole |-> TRUE, rows |-> rows]
  BY DEF NewFiles
<1> QED BY <1>1

TornOf(some) == {Torn(f) : f \in some}

(* One without a footer is where the file would be, and has nothing in it. *)
LEMMA TornParts ==
  ASSUME NEW t, NEW input, NEW e, NEW f \in NewFiles(t, input, e)
  PROVE  /\ Torn(f).table = t /\ Torn(f).call = calls + 1 /\ Torn(f).dir = f.dir
         /\ Torn(f).whole \in BOOLEAN /\ ~ Torn(f).whole /\ Torn(f).columns = {} /\ Torn(f).rows = {}
<1> DEFINE made(d, rows) == [table |-> t, dir |-> d, call |-> calls + 1,
                            columns |-> DOMAIN e.schema, whole |-> TRUE, rows |-> rows]
<1>1. \E d, rows : f = made(d, rows)
  BY DEF NewFiles
<1>2. PICK d, rows : f = made(d, rows)
  BY <1>1
<1>3. /\ Torn(f).table = f.table /\ Torn(f).call = f.call /\ Torn(f).dir = f.dir
      /\ Torn(f).whole \in BOOLEAN /\ ~ Torn(f).whole /\ Torn(f).columns = {} /\ Torn(f).rows = {}
  BY <1>2 DEF Torn
<1> QED BY <1>2, <1>3

(* Each row is built from a record. *)
LEMMA TableRowsParts ==
  ASSUME NEW input, NEW e, NEW r \in TableRows(input, e)
  PROVE  /\ r.index \in RowNumbers(input, e.schema)
         /\ r.index \in DOMAIN input.records
         /\ r.cells = TableRow(input, r.index, e.schema)
         /\ DOMAIN r.cells = DOMAIN e.schema
BY DEF TableRows, RowNumbers, TableRow

(* A step of write() keeps some of the files and adds some of the new ones. *)
LEMMA FilesAfter ==
  ASSUME NEW i \in Instances, NEW t \in Tables, NEW input \in Inputs,
         NEW overwrite \in BOOLEAN,
         Write(i, t, input, overwrite) \/ WriteFails(i, t, input, overwrite)
  PROVE  /\ files' \subseteq files \cup NewFiles(t, input, meta[i][t])
                              \cup TornOf(NewFiles(t, input, meta[i][t]))
         /\ calls' = calls + 1 /\ calls < MaxWrites
         /\ UNCHANGED <<catalog, registry, meta>>
         /\ t \in DOMAIN meta[i]
         /\ Valid(input, meta[i][t].schema)
         /\ PartitionFieldsFilled(input, meta[i][t])
<1>1. /\ calls' = calls + 1 /\ calls < MaxWrites
      /\ UNCHANGED <<catalog, registry, meta>>
      /\ t \in DOMAIN meta[i]
      /\ Valid(input, meta[i][t].schema)
      /\ PartitionFieldsFilled(input, meta[i][t])
  BY DEF Write, WriteFails, MayWrite, catalogVars
<1> DEFINE new == NewFiles(t, input, meta[i][t])
<1>2. \E kept \in SUBSET files, stored \in SUBSET new, torn \in SUBSET new :
        files' = kept \cup stored \cup TornOf(torn)
  <2>1. TornOf({}) = {}
    BY DEF TornOf
  <2>2. CASE Write(i, t, input, overwrite)
    <3> DEFINE kept == files \ FilesIn(t, ReplacedPaths(input, meta[i][t], overwrite))
    <3>1. files' = kept \cup new /\ kept \in SUBSET files
      BY <2>2 DEF Write
    <3> HIDE DEF kept, new
    <3>2. files' = kept \cup new \cup TornOf({})
      BY <2>1, <3>1
    <3> QED BY <3>1, <3>2
  <2>3. CASE WriteFails(i, t, input, overwrite)
    <3> DEFINE paths == ReplacedPaths(input, meta[i][t], overwrite)
    <3>1. PICK cleared \in SUBSET paths, made \in SUBSET new :
            \E half \in SUBSET FilesIn(t, paths \ cleared), stored \in SUBSET made :
              \E torn \in SUBSET (made \ stored) :
                files' = (files \ (FilesIn(t, cleared) \cup half)) \cup stored \cup TornOf(torn)
      BY <2>3 DEF WriteFails, TornOf
    <3> QED BY <3>1
  <2> QED BY <2>2, <2>3
<1>3. \A some \in SUBSET new : TornOf(some) \subseteq TornOf(new)
  BY DEF TornOf
<1> QED BY <1>1, <1>2, <1>3

-----------------------------------------------------------------------------
(* A directory above the files of a table is one of that table. *)
LEMMA DirsOfParts ==
  ASSUME NEW some, \A f \in some : f.table \in Tables
  PROVE  \A d \in DirsOf(some) : d.table \in Tables /\ d = [table |-> d.table, dir |-> d.dir]
BY DEF DirsOf

DirectoriesOf(some) == {d.dir : d \in some}

LEMMA BrokenTyped ==
  ASSUME NEW i \in Instances, NEW t \in Tables, NEW input \in Inputs,
         NEW overwrite \in BOOLEAN, TypeOK,
         Write(i, t, input, overwrite) \/ WriteFails(i, t, input, overwrite)
  PROVE  /\ broken' \subseteq [table : Tables, dir : DirectoriesOf(broken')]
         /\ broken \subseteq broken'
<1>1. \A d \in broken : d.table \in Tables /\ d = [table |-> d.table, dir |-> d.dir]
  BY DEF TypeOK
<1>2. CASE Write(i, t, input, overwrite)
  BY <1>1, <1>2 DEF Write, DirectoriesOf
<1>3. CASE WriteFails(i, t, input, overwrite)
  <2> DEFINE new   == NewFiles(t, input, meta[i][t])
             paths == ReplacedPaths(input, meta[i][t], overwrite)
  <2>1. PICK half \in SUBSET files, left \in SUBSET new :
          broken' = broken \cup DirsOf(half) \cup DirsOf(left)
    BY <1>3 DEF WriteFails, FilesIn
  <2>2. \A f \in half \cup left : f.table \in Tables
    BY NewFilesParts DEF TypeOK
  <2>3. \A d \in broken' : d.table \in Tables /\ d = [table |-> d.table, dir |-> d.dir]
    BY <1>1, <2>1, <2>2, DirsOfParts
  <2> QED BY <2>1, <2>3 DEF DirectoriesOf
<1> QED BY <1>2, <1>3

LEMMA TypeInit == Init => TypeOK
BY StoreAssumption DEF Init, TypeOK, NoTables

LEMMA TypeStep ==
  ASSUME TypeOK, CatalogInv, CatalogInv', [Next]_vars
  PROVE  TypeOK'
<1>1. /\ DOMAIN catalog' \subseteq Tables /\ \A t \in DOMAIN catalog' : catalog'[t] \in Entry
      /\ \A i \in Instances :
           /\ DOMAIN registry'[i] \subseteq Tables
           /\ \A t \in DOMAIN registry'[i] : registry'[i][t] \in Entry
           /\ DOMAIN meta'[i] \subseteq Tables
           /\ \A t \in DOMAIN meta'[i] : meta'[i][t] \in Entry
  BY DEF CatalogInv, IsCatalog
<1>2. CASE UNCHANGED fileVars
  BY <1>1, <1>2 DEF fileVars, TypeOK
<1>3. ASSUME NEW i \in Instances, NEW t \in Tables, NEW input \in Inputs,
             NEW overwrite \in BOOLEAN,
             Write(i, t, input, overwrite) \/ WriteFails(i, t, input, overwrite)
      PROVE  TypeOK'
  <2>1. calls' \in 0..MaxWrites /\ calls' = calls + 1 /\ calls \in 0..MaxWrites
    BY <1>3, FilesAfter, StoreAssumption DEF TypeOK
  <2>2. ASSUME NEW f \in files'
        PROVE  /\ f.table \in Tables /\ f.call \in 1..calls' /\ f.columns \subseteq Columns
               /\ \A r \in f.rows : DOMAIN r.cells = f.columns
               /\ f.whole \in BOOLEAN /\ (~ f.whole => f.rows = {})
    <3>1. CASE f \in files
      BY <2>1, <3>1 DEF TypeOK
    <3>2. CASE f \in NewFiles(t, input, meta[i][t])
      <4>1. meta[i][t] \in Entry
        BY <1>3, FilesAfter DEF TypeOK
      <4>2. /\ f.table = t /\ f.call = calls + 1 /\ f.columns = DOMAIN meta[i][t].schema
            /\ \A r \in f.rows : DOMAIN r.cells = DOMAIN meta[i][t].schema
        BY <3>2, NewFilesParts, TableRowsParts
      <4>3. f.whole \in BOOLEAN /\ f.whole
        BY <3>2, NewFilesWhole
      <4> QED BY <2>1, <4>1, <4>2, <4>3, EntryParts
    <3>3. CASE f \in TornOf(NewFiles(t, input, meta[i][t]))
      <4>1. PICK g \in NewFiles(t, input, meta[i][t]) : f = Torn(g)
        BY <3>3 DEF TornOf
      <4>2. /\ f.table = t /\ f.call = calls + 1 /\ f.columns = {}
            /\ f.whole \in BOOLEAN /\ ~ f.whole /\ f.rows = {}
        BY <4>1, TornParts
      <4> QED BY <2>1, <4>2
    <3> QED BY <1>3, <3>1, <3>2, <3>3, FilesAfter
  <2>3. broken' \subseteq [table : Tables, dir : {d.dir : d \in dirs' \cup broken'}]
    BY <1>3, BrokenTyped DEF DirectoriesOf
  <2> QED BY <1>1, <2>1, <2>2, <2>3 DEF TypeOK
<1>4. ASSUME NEW i \in Instances,
             \/ Open(i)
             \/ \E c \in RegisterCalls : RegisterTable(i, c)
             \/ \E c \in CreateCalls : CreateTable(i, c) \/ RefuseCreate(i, c)
      PROVE  UNCHANGED fileVars
  BY <1>4 DEF Open, RegisterTable, CreateTable, RefuseCreate
<1>5. UNCHANGED vars => UNCHANGED fileVars
  BY DEF vars, fileVars
<1> QED BY <1>2, <1>3, <1>4, <1>5 DEF Next

(* Type correctness in every deployment: a file has the columns of all its
   rows, a failed write is at work in directories of its tables only. *)
THEOREM TypeCorrect == Spec => []TypeOK
<1>1. Init => TypeOK /\ CatalogInv
  BY TypeInit, CatalogInit
<1>2. TypeOK /\ CatalogInv /\ [Next]_vars => (TypeOK /\ CatalogInv)'
  BY TypeStep, CatalogStep
<1> QED BY <1>1, <1>2, PTL DEF Spec

-----------------------------------------------------------------------------
(***************************************************************************)
(* Services that declare what has been created: the catalogue serves every *)
(* declaration, however stale, and every file conforms to the catalogue.   *)
(***************************************************************************)
Backed(reg) == \A t \in DOMAIN reg : t \in DOMAIN catalog /\ Serves(catalog[t], reg[t])

BackedInv == \A i \in Instances : Backed(registry[i]) /\ Backed(meta[i])

(* The values that partition keys may have. *)
KeyValues ==
  UNION {UNION {ValuesOf[e.schema[c].type] : c \in Range(e.partition_by)} :
            e \in {decl \in Declared : Prepared(decl)}}

Conforms(f) ==
  /\ f.table \in DOMAIN catalog
  /\ LET entry == catalog[f.table] IN
     \A r \in f.rows :
       /\ DOMAIN r.cells \subseteq DOMAIN entry.schema
       /\ Padded(r.cells, entry.schema) \in Rows(entry.schema)
       /\ f.dir = DirOf(r.cells, entry.partition_by)
       /\ \A c \in Range(entry.partition_by) : c \in DOMAIN r.cells /\ r.cells[c] \in KeyValues

FilesInv == \A f \in files : Conforms(f)

ConformInv == CatalogInv /\ BackedInv /\ FilesInv

(* The catalogue has moved on, and serves what it had. *)
Extended ==
  \A t \in DOMAIN catalog : t \in DOMAIN catalog' /\ Serves(catalog'[t], catalog[t])

LEMMA BackedStays ==
  ASSUME NEW reg, Backed(reg), Extended
  PROVE  Backed(reg)'
BY ServesTransitive DEF Backed, Extended

LEMMA ConformsStays ==
  ASSUME NEW f, Conforms(f), Extended
  PROVE  Conforms(f)'
<1> DEFINE old == catalog[f.table]
           new == catalog'[f.table]
<1>1. f.table \in DOMAIN catalog /\ f.table \in DOMAIN catalog' /\ Serves(new, old)
  BY DEF Conforms, Extended
<1>2. /\ new.partition_by = old.partition_by
      /\ DOMAIN old.schema \subseteq DOMAIN new.schema
      /\ \A row \in Rows(old.schema) : Padded(row, new.schema) \in Rows(new.schema)
  BY <1>1 DEF Serves
<1>3. ASSUME NEW r \in f.rows
      PROVE  Padded(r.cells, new.schema) \in Rows(new.schema)
  <2>1. /\ DOMAIN r.cells \subseteq DOMAIN old.schema
        /\ Padded(r.cells, old.schema) \in Rows(old.schema)
    BY DEF Conforms
  <2>2. Padded(Padded(r.cells, old.schema), new.schema) = Padded(r.cells, new.schema)
    BY <1>2, <2>1 DEF Padded
  <2> QED BY <1>2, <2>1, <2>2
<1> QED BY <1>1, <1>2, <1>3 DEF Conforms

(* A file that write() makes of valid records conforms to the catalogue. *)
LEMMA NewFileConforms ==
  ASSUME CatalogInv, BackedInv, NEW i \in Instances, NEW t \in DOMAIN meta[i],
         NEW input, Valid(input, meta[i][t].schema),
         PartitionFieldsFilled(input, meta[i][t]),
         NEW f \in NewFiles(t, input, meta[i][t])
  PROVE  Conforms(f)
<1> DEFINE e == meta[i][t]
           entry == catalog[t]
<1>1. /\ e \in Entry /\ e \in Declared /\ Prepared(e)
      /\ t \in DOMAIN catalog
      /\ entry.partition_by = e.partition_by
      /\ DOMAIN e.schema \subseteq DOMAIN entry.schema
      /\ \A row \in Rows(e.schema) : Padded(row, entry.schema) \in Rows(entry.schema)
  BY DEF CatalogInv, IsCatalog, BackedInv, Backed, Serves
<1>2. f.table = t
  BY NewFilesParts
<1>3. ASSUME NEW r \in f.rows
      PROVE  /\ DOMAIN r.cells \subseteq DOMAIN entry.schema
             /\ Padded(r.cells, entry.schema) \in Rows(entry.schema)
             /\ f.dir = DirOf(r.cells, entry.partition_by)
             /\ \A c \in Range(entry.partition_by) : c \in DOMAIN r.cells /\ r.cells[c] \in KeyValues
  <2>1. r \in TableRows(input, e) /\ f.dir = DirOf(r.cells, e.partition_by)
    BY NewFilesParts
  <2>2. /\ r.index \in RowNumbers(input, e.schema) /\ r.index \in DOMAIN input.records
        /\ r.cells = TableRow(input, r.index, e.schema)
        /\ DOMAIN r.cells = DOMAIN e.schema
    BY <2>1, TableRowsParts
  <2>3. r.cells \in Rows(e.schema)
    BY <1>1, <2>2, ValidRowsConform
  <2>4. ASSUME NEW c \in Range(e.partition_by)
        PROVE  c \in DOMAIN r.cells /\ r.cells[c] \in KeyValues
    <3>1. c \in DOMAIN e.schema
      BY <1>1 DEF Prepared
    <3>2. r.cells[c] # NULL
      BY <2>2 DEF PartitionFieldsFilled
    <3>3. r.cells[c] \in ValuesOf[e.schema[c].type]
      BY <2>3, <3>1, <3>2 DEF Rows, Cells
    <3> QED BY <1>1, <2>2, <3>1, <3>3 DEF KeyValues
  <2> QED BY <1>1, <2>1, <2>2, <2>3, <2>4
<1> QED BY <1>1, <1>2, <1>3 DEF Conforms

LEMMA ConformInit == Init => ConformInv
BY CatalogInit DEF Init, ConformInv, BackedInv, Backed, FilesInv, NoTables

LEMMA ConformStep ==
  ASSUME Disciplined, ConformInv, [Next]_vars
  PROVE  ConformInv'
<1> USE DEF ConformInv
<1>0. CatalogInv'
  BY CatalogStep
<1>1. Extended /\ UNCHANGED files => FilesInv'
  BY ConformsStays DEF FilesInv
<1>2. UNCHANGED catalog => Extended
  BY ServesReflexive DEF Extended
<1>3. ASSUME NEW i \in Instances, Open(i) PROVE BackedInv' /\ FilesInv'
  <2>1. UNCHANGED <<catalog, files>>
    BY <1>3 DEF Open, fileVars
  <2>2. Backed(catalog)' /\ \A reg : Backed(reg) => Backed(reg)'
    BY <1>2, <2>1, ServesReflexive, BackedStays DEF Backed
  <2>3. \A j \in Instances : /\ registry'[j] \in {registry[j], catalog'}
                             /\ meta'[j] \in {meta[j], catalog'}
    BY <1>3, <2>1 DEF Open, CatalogInv
  <2> QED BY <1>1, <1>2, <2>1, <2>2, <2>3 DEF BackedInv, Backed
<1>4. ASSUME NEW i \in Instances, NEW c \in RegisterCalls, RegisterTable(i, c)
      PROVE  BackedInv' /\ FilesInv'
  <2> DEFINE e == Register(registry[i], c.table, c.decl)[c.table]
  <2>1. /\ UNCHANGED <<catalog, registry, files>>
        /\ meta' = [meta EXCEPT ![i] = Put(@, c.table, e)]
    BY <1>4 DEF RegisterTable, fileVars
  <2>2. c.table \in DOMAIN catalog /\ Serves(catalog[c.table], c.decl)
    BY <1>4 DEF RegisterTable, MayRegister
  <2>3. Serves(catalog[c.table], e)
    <3>1. \/ c.table \in DOMAIN registry[i] /\ e = registry[i][c.table]
          \/ e = c.decl
      BY <1>4, RegisterIsCatalog DEF RegisterTable, CatalogInv, Calls
    <3> QED BY <2>2, <3>1 DEF BackedInv, Backed
  <2> HIDE DEF e
  <2>4. Backed(Put(meta[i], c.table, e))
    BY <2>2, <2>3 DEF BackedInv, Backed, Put
  <2>5. \A j \in Instances : Backed(meta'[j]) /\ Backed(registry'[j])
    BY <2>1, <2>4 DEF CatalogInv, BackedInv
  <2> QED BY <1>1, <1>2, <2>1, <2>5 DEF BackedInv, Backed
<1>5. ASSUME NEW i \in Instances, NEW c \in CreateCalls, CreateTable(i, c)
      PROVE  BackedInv' /\ FilesInv'
  <2> DEFINE saved == Register(catalog, c.table, c.decl)
  <2>1. /\ UNCHANGED files /\ catalog' = saved
        /\ registry' = [registry EXCEPT ![i] = saved]
        /\ meta' = [meta EXCEPT ![i] = Put(@, c.table, saved[c.table])]
    BY <1>5 DEF CreateTable, fileVars
  <2>2. /\ DOMAIN saved = DOMAIN catalog \cup {c.table}
        /\ \A t \in DOMAIN catalog : Serves(saved[t], catalog[t])
    <3>1. c.decl \in Entry /\ \A t \in DOMAIN catalog : catalog[t] \in Entry
      BY CallParts DEF Calls, CatalogInv, IsCatalog
    <3> QED BY <1>5, <3>1, RegisterServes DEF CreateTable
  <2> HIDE DEF saved
  <2>3. Extended
    BY <2>1, <2>2 DEF Extended
  <2>4. \A t \in DOMAIN saved : t \in DOMAIN catalog' /\ Serves(catalog'[t], saved[t])
    BY <2>1, ServesReflexive
  <2>5. \A j \in Instances : \A t \in DOMAIN registry'[j] :
          t \in DOMAIN catalog' /\ Serves(catalog'[t], registry'[j][t])
    <3>1. \A reg : Backed(reg) => Backed(reg)'
      BY <2>3, BackedStays
    <3>2. \A j \in Instances : registry'[j] \in {saved, registry[j]}
      BY <2>1 DEF CatalogInv
    <3> QED BY <2>4, <3>1, <3>2 DEF BackedInv, Backed
  <2>6. \A j \in Instances : \A t \in DOMAIN meta'[j] :
          t \in DOMAIN catalog' /\ Serves(catalog'[t], meta'[j][t])
    <3>1. \A reg : Backed(reg) => Backed(reg)'
      BY <2>3, BackedStays
    <3>2. \A j \in Instances : meta'[j] \in {Put(meta[j], c.table, saved[c.table]), meta[j]}
      BY <2>1 DEF CatalogInv
    <3>3. \A j \in Instances : \A t \in DOMAIN meta[j] :
            t \in DOMAIN catalog' /\ Serves(catalog'[t], meta[j][t])
      BY <3>1 DEF BackedInv, Backed
    <3>4. c.table \in DOMAIN catalog' /\ Serves(catalog'[c.table], saved[c.table])
      BY <2>1, <2>2, <2>4
    <3>5. \A j \in Instances : \A t \in DOMAIN Put(meta[j], c.table, saved[c.table]) :
            LET e == Put(meta[j], c.table, saved[c.table])[t] IN
            t \in DOMAIN catalog' /\ Serves(catalog'[t], e)
      BY <3>3, <3>4 DEF Put
    <3> QED BY <3>2, <3>3, <3>5
  <2> QED BY <1>1, <2>1, <2>3, <2>5, <2>6 DEF BackedInv, Backed
<1>6. ASSUME NEW i \in Instances, NEW c \in CreateCalls, RefuseCreate(i, c)
      PROVE  BackedInv' /\ FilesInv'
  <2>1. UNCHANGED <<catalog, meta, files>> /\ registry' = [registry EXCEPT ![i] = catalog]
    BY <1>6 DEF RefuseCreate, fileVars
  <2> QED BY <1>1, <1>2, <2>1, ServesReflexive DEF BackedInv, Backed, CatalogInv
<1>7. ASSUME NEW i \in Instances, NEW t \in Tables, NEW input \in Inputs,
             NEW overwrite \in BOOLEAN,
             Write(i, t, input, overwrite) \/ WriteFails(i, t, input, overwrite)
      PROVE  BackedInv' /\ FilesInv'
  <2>1. /\ files' \subseteq files \cup NewFiles(t, input, meta[i][t])
                            \cup TornOf(NewFiles(t, input, meta[i][t]))
        /\ UNCHANGED <<catalog, registry, meta>>
        /\ t \in DOMAIN meta[i]
    BY <1>7, FilesAfter
  <2>3. ASSUME NEW f \in TornOf(NewFiles(t, input, meta[i][t]))
        PROVE  Conforms(f)
    <3>1. PICK g \in NewFiles(t, input, meta[i][t]) : f = Torn(g)
      BY <2>3 DEF TornOf
    <3>2. f.table = t /\ f.rows = {}
      BY <3>1, TornParts
    <3>3. t \in DOMAIN catalog
      BY <2>1 DEF BackedInv, Backed
    <3> QED BY <3>2, <3>3 DEF Conforms
  <2>2. \A f \in files' : Conforms(f)
    BY <1>7, <2>1, <2>3, FilesAfter, NewFileConforms DEF FilesInv
  <2> QED BY <2>1, <2>2 DEF BackedInv, Backed, FilesInv, Conforms
<1>8. UNCHANGED vars => BackedInv' /\ FilesInv'
  BY DEF vars, BackedInv, Backed, FilesInv, Conforms
<1>9. BackedInv' /\ FilesInv'
  BY <1>3, <1>4, <1>5, <1>6, <1>7, <1>8 DEF Next
<1> QED BY <1>0, <1>9

LEMMA ConformInvariant ==
  ASSUME Disciplined
  PROVE  Spec => []ConformInv
<1>1. Init => ConformInv
  BY ConformInit
<1>2. ConformInv /\ [Next]_vars => ConformInv'
  BY ConformStep
<1> QED BY <1>1, <1>2, PTL DEF Spec

(* However old the declarations that services write by, and whatever records
   they hand in, the files hold rows of the table as it is in the catalogue. *)
THEOREM RowsConform ==
  ASSUME Disciplined
  PROVE  Spec => []StoredRowsConform
<1>1. ConformInv => StoredRowsConform
  BY DEF ConformInv, FilesInv, Conforms, StoredRowsConform
<1> QED BY <1>1, ConformInvariant, PTL

-----------------------------------------------------------------------------
(***************************************************************************)
(* Pruning: a query that opens one directory misses no row.                *)
(***************************************************************************)
GlobsKeepMatches ==
  \A i \in Instances, filters \in FilterDicts : \A f \in files : \A r \in f.rows :
    Matches(filters, Padded(r.cells, catalog[f.table].schema))
      => f \in Globbed(i, f.table, filters)

(* A directory holds rows that meet each equality on its keys, or none that
   an f-string spells of their values. *)
LEMMA GlobKeepsMatch ==
  ASSUME SpellingsAgree, NEW filters, NEW keys, NEW row, NEW cells,
         Matches(filters, row), \A k \in DOMAIN keys : cells[keys[k]] = row[keys[k]]
  PROVE  InGlob(filters, keys, DirOf(cells, keys))
<1> DEFINE dir == DirOf(cells, keys)
<1>1. ASSUME NEW k \in DOMAIN keys, Scalars(filters, keys[k]) # {}
      PROVE  /\ k \in DOMAIN dir
             /\ dir[k].key = keys[k]
             /\ \E v \in Scalars(filters, keys[k]) : dir[k].name = PathName[v]
  <2>1. dir[k] = [key |-> keys[k], name |-> DirName[cells[keys[k]]]] /\ k \in DOMAIN dir
    BY DEF DirOf
  <2>2. PICK v : v \in Scalars(filters, keys[k])
    BY <1>1
  <2>3. PICK j \in DOMAIN filters :
          /\ filters[j].field = keys[k] /\ "equals" \in DOMAIN filters[j].cond
          /\ v = filters[j].cond.equals /\ v \in Pathable
    BY <2>2 DEF Scalars
  <2>4. row[keys[k]] = v
    BY <2>3 DEF Matches, Meets, Satisfies
  <2>5. PathName[v] = DirName[cells[keys[k]]]
    BY <2>3, <2>4 DEF SpellingsAgree
  <2> HIDE DEF dir
  <2>6. dir[k].key = keys[k] /\ dir[k].name = DirName[cells[keys[k]]]
    BY <2>1
  <2> QED BY <2>1, <2>2, <2>5, <2>6
<1> QED BY <1>1 DEF InGlob, Under

(* Whatever declaration an instance reads by, no row that a filter stands for
   lies outside the directories that its query opens. *)
THEOREM PruningKeepsMatches ==
  ASSUME Disciplined, SpellingsAgree
  PROVE  Spec => []GlobsKeepMatches
<1>1. ASSUME ConformInv, NEW i \in Instances, NEW filters \in FilterDicts,
             NEW f \in files, NEW r \in f.rows,
             Matches(filters, Padded(r.cells, catalog[f.table].schema))
      PROVE  f \in Globbed(i, f.table, filters)
  <2> DEFINE t == f.table
             entry == catalog[t]
             keys == KeysOf(i, t)
  <2>1. /\ t \in DOMAIN catalog /\ IsCatalog(catalog)
        /\ f.dir = DirOf(r.cells, entry.partition_by)
        /\ \A c \in Range(entry.partition_by) : c \in DOMAIN r.cells
    BY <1>1 DEF ConformInv, CatalogInv, FilesInv, Conforms
  <2>2. keys = << >> \/ keys = entry.partition_by
    BY <1>1 DEF ConformInv, BackedInv, Backed, Serves, KeysOf
  <2>3. CASE keys = << >>
    BY <2>3 DEF Globbed, TableFiles, InGlob
  <2>4. CASE keys = entry.partition_by
    <3>1. \A k \in DOMAIN keys : keys[k] \in Range(keys)
      BY DEF Range
    <3>2. \A c \in Range(keys) : c \in DOMAIN entry.schema
      BY <2>1, <2>4 DEF IsCatalog, Prepared
    <3>3. \A k \in DOMAIN keys : r.cells[keys[k]] = Padded(r.cells, entry.schema)[keys[k]]
      BY <2>1, <2>4, <3>1, <3>2 DEF Padded
    <3>4. InGlob(filters, keys, DirOf(r.cells, keys))
      BY <1>1, <3>3, GlobKeepsMatch
    <3> QED BY <2>1, <2>4, <3>4 DEF Globbed, TableFiles
  <2> QED BY <2>2, <2>3, <2>4
<1>2. ConformInv => GlobsKeepMatches
  BY <1>1 DEF GlobsKeepMatches
<1> QED BY <1>2, ConformInvariant, PTL

-----------------------------------------------------------------------------
(***************************************************************************)
(* Queries: what a clause selects from the directories that are opened.    *)
(***************************************************************************)

(* A row that has the columns of a filter dict matches it as the row of the
   table that it is: padding adds columns, and changes none. *)
LEMMA PaddingMatches ==
  ASSUME NEW filters, NEW cells, NEW schema,
         DOMAIN cells \subseteq DOMAIN schema, FilterFields(filters) \subseteq DOMAIN cells
  PROVE  Matches(filters, cells) <=> Matches(filters, Padded(cells, schema))
<1>1. \A k \in DOMAIN filters : filters[k].field \in DOMAIN cells
  BY DEF FilterFields
<1>2. \A c \in DOMAIN cells : Padded(cells, schema)[c] = cells[c]
  BY DEF Padded
<1> QED BY <1>1, <1>2 DEF Matches

(* A clause that says what the filters say selects, of the files that the glob
   leaves, the rows of the table that the filters stand for. *)
LEMMA QueryExact ==
  ASSUME TypeOK, ConformInv, GlobsKeepMatches,
         NEW i \in Instances, NEW t \in DOMAIN catalog, NEW filters \in FilterDicts,
         NEW where, NEW params,
         \A row : Holds(where, params, row) <=> Matches(filters, row),
         Answered(Globbed(i, t, filters), FilterFields(filters))
  PROVE  RowsWhere(Globbed(i, t, filters), where, params) = Matching(t, filters)
<1> DEFINE some == Globbed(i, t, filters)
           schema == catalog[t].schema
<1>1. some \subseteq files /\ \A f \in some : f.table = t
  BY DEF Globbed, TableFiles
<1>2. ASSUME NEW f \in some, NEW r \in f.rows
      PROVE  Holds(where, params, r.cells) <=> Matches(filters, Padded(r.cells, schema))
  <2>1. DOMAIN r.cells = f.columns
    BY <1>1, <1>2 DEF TypeOK
  <2>2. DOMAIN r.cells \subseteq DOMAIN schema
    BY <1>1, <1>2 DEF ConformInv, FilesInv, Conforms
  <2>3. FilterFields(filters) \subseteq f.columns
    BY <1>2 DEF Answered
  <2> QED BY <2>1, <2>2, <2>3, PaddingMatches
<1>3. ASSUME NEW f \in files, NEW r \in f.rows, f.table = t,
             Matches(filters, Padded(r.cells, schema))
      PROVE  f \in some
  BY <1>3 DEF GlobsKeepMatches
<1> HIDE DEF some, schema
<1>4. ASSUME NEW x \in RowsWhere(some, where, params)
      PROVE  x \in Matching(t, filters)
  <2>1. PICK f \in some :
          x \in {<<f.call, r.index>> : r \in {s \in f.rows : Holds(where, params, s.cells)}}
    BY <1>4 DEF RowsWhere
  <2>2. PICK r \in f.rows : Holds(where, params, r.cells) /\ x = <<f.call, r.index>>
    BY <2>1
  <2> DEFINE s == [table |-> f.table, call |-> f.call, index |-> r.index, cells |-> r.cells]
  <2>3. s \in StoredRows
    BY <1>1, <2>2 DEF StoredRows, RowsOf
  <2>4. /\ s.table = t /\ s.call = f.call /\ s.index = r.index /\ s.cells = r.cells
    BY <1>1
  <2>5. Matches(filters, Padded(r.cells, schema))
    BY <1>2, <2>2
  <2> HIDE DEF s
  <2> QED BY <2>2, <2>3, <2>4, <2>5 DEF Matching, schema
<1>5. ASSUME NEW x \in Matching(t, filters)
      PROVE  x \in RowsWhere(some, where, params)
  <2>1. PICK s \in StoredRows :
          /\ s.table = t /\ Matches(filters, Padded(s.cells, schema))
          /\ x = <<s.call, s.index>>
    BY <1>5 DEF Matching, schema
  <2>2. PICK f \in files :
          s \in {[table |-> f.table, call |-> f.call, index |-> r.index, cells |-> r.cells] :
                    r \in f.rows}
    BY DEF StoredRows, RowsOf
  <2>3. PICK r \in f.rows :
          s = [table |-> f.table, call |-> f.call, index |-> r.index, cells |-> r.cells]
    BY <2>2
  <2>4. f.table = t /\ s.call = f.call /\ s.index = r.index /\ s.cells = r.cells
    BY <2>1, <2>3
  <2>5. f \in some
    BY <1>3, <2>1, <2>4
  <2>6. Holds(where, params, r.cells)
    BY <1>2, <2>1, <2>4, <2>5
  <2> QED BY <2>1, <2>4, <2>5, <2>6 DEF RowsWhere
<1> QED BY <1>4, <1>5 DEF some

(* Invariants that queries rest on. *)
LEMMA QueryInvariant ==
  ASSUME Disciplined, SpellingsAgree
  PROVE  Spec => [](TypeOK /\ ConformInv /\ GlobsKeepMatches)
BY TypeCorrect, ConformInvariant, PruningKeepsMatches, PTL

(* The clause that filters_to_sql makes for these filters, first or after
   parameters of another call, says what they say. *)
LEMMA ClauseExact ==
  ASSUME NEW filters \in FilterDicts, NEW P, NEW params \in Seq(P)
  PROVE  LET sql == FiltersToSql(filters, params) IN
         /\ sql.params \in Seq(ValuesOfParams(filters, P))
         /\ Continues(sql.params, params)
         /\ DOMAIN params \subseteq DOMAIN sql.params
         /\ Numbers(sql.where) = DOMAIN sql.params \ DOMAIN params
         /\ \A later, row : Continues(later, sql.params) =>
              (Holds(sql.where, later, row) <=> Matches(filters, row))
BY StoreAssumption, SqlAgrees

(* read(), bulk_read() and count() return the rows that the filters stand for,
   all of them and no other, whenever DuckDB answers the query: whatever rows,
   filters and values there are, through declarations however stale. *)
THEOREM ReadsExact ==
  ASSUME Disciplined, SpellingsAgree
  PROVE  Spec => []FilteredReadsExact
<1>1. ASSUME TypeOK, ConformInv, GlobsKeepMatches,
             NEW i \in Instances, NEW t \in DOMAIN catalog, NEW filters \in FilterDicts,
             Answered(Globbed(i, t, filters), FilterFields(filters))
      PROVE  RowsRead(i, t, filters) = Matching(t, filters)
  <2> DEFINE sql == FiltersToSql(filters, << >>)
  <2>1. \A later, row : Continues(later, sql.params) =>
          (Holds(sql.where, later, row) <=> Matches(filters, row))
    <3>1. << >> \in Seq({})
      OBVIOUS
    <3> QED BY <3>1, ClauseExact
  <2>2. Continues(sql.params, sql.params)
    BY DEF Continues
  <2>3. RowsRead(i, t, filters) = RowsWhere(Globbed(i, t, filters), sql.where, sql.params)
    BY DEF RowsRead
  <2> HIDE DEF sql
  <2>4. \A row : Holds(sql.where, sql.params, row) <=> Matches(filters, row)
    BY <2>1, <2>2
  <2> QED BY <1>1, <2>3, <2>4, QueryExact
<1>2. TypeOK /\ ConformInv /\ GlobsKeepMatches => FilteredReadsExact
  BY <1>1 DEF FilteredReadsExact
<1> QED BY <1>2, QueryInvariant, PTL

(* The placeholders of both sides number all the parameters of a join. *)
LEMMA JoinIsBound ==
  ASSUME NEW lf \in FilterDicts, NEW rf \in FilterDicts
  PROVE  LET sql == JoinSql(lf, rf) IN Bound(sql.left \cup sql.right, sql.params)
<1> DEFINE l == FiltersToSql(lf, << >>)
           r == FiltersToSql(rf, l.params)
<1>1. /\ l.params \in Seq(ValuesOfParams(lf, {}))
      /\ Numbers(l.where) = DOMAIN l.params
  <2>1. << >> \in Seq({}) /\ DOMAIN << >> = {}
    OBVIOUS
  <2>2. /\ l.params \in Seq(ValuesOfParams(lf, {}))
        /\ Numbers(l.where) = DOMAIN l.params \ DOMAIN << >>
    <3>1. << >> \in Seq({})
      OBVIOUS
    <3> QED BY <3>1, ClauseExact
  <2> HIDE DEF l
  <2> QED BY <2>1, <2>2
<1>2. /\ JoinSql(lf, rf).left = l.where
      /\ JoinSql(lf, rf).right = r.where
      /\ JoinSql(lf, rf).params = r.params
  BY DEF JoinSql
<1> HIDE DEF l
<1>3. /\ DOMAIN l.params \subseteq DOMAIN r.params
      /\ Numbers(r.where) = DOMAIN r.params \ DOMAIN l.params
  BY <1>1, ClauseExact
<1> HIDE DEF r
<1>4. Numbers(l.where \cup r.where) = Numbers(l.where) \cup Numbers(r.where)
  BY DEF Numbers
<1> QED BY <1>1, <1>2, <1>3, <1>4 DEF Bound

(* A join's two clauses number one list of parameters, each of its values, and
   each selects the rows of its own side. *)
THEOREM JoinsExact ==
  ASSUME Disciplined, SpellingsAgree
  PROVE  Spec => []JoinSidesExact
<1>1. ASSUME TypeOK, ConformInv, GlobsKeepMatches,
             NEW i \in Instances, NEW t \in DOMAIN catalog, NEW u \in DOMAIN catalog,
             NEW lf \in FilterDicts, NEW rf \in FilterDicts,
             Answered(Globbed(i, t, lf), FilterFields(lf)),
             Answered(Globbed(i, u, rf), FilterFields(rf))
      PROVE  JoinSides(i, t, u, lf, rf) = <<Matching(t, lf), Matching(u, rf)>>
  <2> DEFINE l == FiltersToSql(lf, << >>)
             r == FiltersToSql(rf, l.params)
  <2>1. /\ l.params \in Seq(ValuesOfParams(lf, {}))
        /\ \A later, row : Continues(later, l.params) =>
             (Holds(l.where, later, row) <=> Matches(lf, row))
    <3>1. << >> \in Seq({})
      OBVIOUS
    <3> QED BY <3>1, ClauseExact
  <2>2. JoinSides(i, t, u, lf, rf) =
          <<RowsWhere(Globbed(i, t, lf), l.where, r.params),
            RowsWhere(Globbed(i, u, rf), r.where, r.params)>>
    BY DEF JoinSides, JoinSql
  <2> HIDE DEF l
  <2>3. /\ Continues(r.params, l.params)
        /\ \A later, row : Continues(later, r.params) =>
             (Holds(r.where, later, row) <=> Matches(rf, row))
    BY <2>1, ClauseExact
  <2>4. Continues(r.params, r.params)
    BY DEF Continues
  <2> HIDE DEF r
  <2>5. /\ \A row : Holds(l.where, r.params, row) <=> Matches(lf, row)
        /\ \A row : Holds(r.where, r.params, row) <=> Matches(rf, row)
    BY <2>1, <2>3, <2>4
  <2>6. RowsWhere(Globbed(i, t, lf), l.where, r.params) = Matching(t, lf)
    BY <1>1, <2>5, QueryExact
  <2>7. RowsWhere(Globbed(i, u, rf), r.where, r.params) = Matching(u, rf)
    BY <1>1, <2>5, QueryExact
  <2> QED BY <2>2, <2>6, <2>7
<1>2. TypeOK /\ ConformInv /\ GlobsKeepMatches => JoinSidesExact
  BY <1>1, JoinIsBound DEF JoinSidesExact
<1> QED BY <1>2, QueryInvariant, PTL

-----------------------------------------------------------------------------
(***************************************************************************)
(* distinct_values: the directories against the rows.                      *)
(***************************************************************************)
Segments == [key : Columns, name : {DirName[v] : v \in KeyValues}]

(* The directories of a table are those of its files and those above; one as
   deep as the keys has a file, or a write has failed in it.  A file that is
   whole has rows. *)
DirsInv ==
  /\ \A f \in files : f.dir # << >> =>
       (f.whole => f.rows # {}) /\ [table |-> f.table, dir |-> f.dir] \in dirs
  /\ \A d \in dirs :
       /\ d.table \in DOMAIN catalog /\ d = [table |-> d.table, dir |-> d.dir]
       /\ d.dir \in Seq(Segments) /\ d.dir # << >>
       /\ Len(d.dir) = Len(catalog[d.table].partition_by) =>
            d \in broken \/ \E f \in files : f.table = d.table /\ f.dir = d.dir

(* The segments of a row's directory. *)
LEMMA DirSegments ==
  ASSUME NEW keys, NEW cells
  PROVE  /\ DOMAIN DirOf(cells, keys) = DOMAIN keys
         /\ \A k \in DOMAIN keys :
              /\ DirOf(cells, keys)[k].key = keys[k]
              /\ DirOf(cells, keys)[k].name = DirName[cells[keys[k]]]
<1> DEFINE d == DirOf(cells, keys)
<1>1. d = [k \in DOMAIN keys |-> [key |-> keys[k], name |-> DirName[cells[keys[k]]]]]
  BY DEF DirOf
<1> HIDE DEF d
<1>2. ASSUME NEW k \in DOMAIN keys
      PROVE  d[k].key = keys[k] /\ d[k].name = DirName[cells[keys[k]]]
  <2>1. d[k] = [key |-> keys[k], name |-> DirName[cells[keys[k]]]]
    BY <1>1, <1>2
  <2> QED BY <2>1
<1> QED BY <1>1, <1>2 DEF d

(* The directory of a row has one segment for each key. *)
LEMMA DirOfSeq ==
  ASSUME NEW keys \in Seq(Columns), NEW cells, \A c \in Range(keys) : cells[c] \in KeyValues
  PROVE  /\ DirOf(cells, keys) \in Seq(Segments)
         /\ Len(DirOf(cells, keys)) = Len(keys)
         /\ DOMAIN DirOf(cells, keys) = DOMAIN keys
<1> DEFINE n == Len(keys)
           d == DirOf(cells, keys)
<1>1. n \in Nat /\ DOMAIN keys = 1..n
  OBVIOUS
<1>2. d = [k \in 1..n |-> [key |-> keys[k], name |-> DirName[cells[keys[k]]]]]
  BY <1>1 DEF DirOf
<1>3. \A k \in 1..n : keys[k] \in Columns /\ keys[k] \in Range(keys)
  BY <1>1 DEF Range
<1>4. \A k \in 1..n : d[k] \in Segments
  BY <1>2, <1>3 DEF Segments
<1>5. ASSUME NEW q, q = [k \in 1..n |-> q[k]], \A k \in 1..n : q[k] \in Segments
      PROVE  q \in Seq(Segments) /\ Len(q) = n
  BY <1>1, <1>5, IsASeq
<1>6. d = [k \in 1..n |-> d[k]]
  BY <1>2
<1> HIDE DEF d, n
<1>7. d \in Seq(Segments) /\ Len(d) = n
  BY <1>4, <1>5, <1>6
<1> QED BY <1>1, <1>6, <1>7 DEF d, n

(* A new file is as deep as the keys, and holds a row unless there are none. *)
LEMMA NewFileDir ==
  ASSUME CatalogInv, BackedInv, NEW i \in Instances, NEW t \in DOMAIN meta[i],
         NEW input, Valid(input, meta[i][t].schema),
         PartitionFieldsFilled(input, meta[i][t]),
         NEW f \in NewFiles(t, input, meta[i][t])
  PROVE  /\ f.dir \in Seq(Segments)
         /\ Len(f.dir) = Len(meta[i][t].partition_by)
         /\ f.dir # << >> => f.rows # {}
<1> DEFINE e == meta[i][t]
           keys == e.partition_by
           rows == TableRows(input, e)
<1>1. keys \in Seq(Columns)
  BY EntryParts DEF CatalogInv, IsCatalog
<1>2. CASE keys = << >>
  <2>1. f.dir = << >>
    BY <1>2 DEF NewFiles
  <2> QED BY <1>2, <2>1, EmptySeq
<1>3. CASE keys # << >>
  <2>1. PICK r \in rows : f.dir = DirOf(r.cells, keys) /\ r \in f.rows
    BY <1>3 DEF NewFiles
  <2>2. Conforms(f) /\ f.table = t
    <3>1. Conforms(f)
      BY NewFileConforms
    <3>2. f.table = t
      BY NewFilesParts
    <3> QED BY <3>1, <3>2
  <2>3. catalog[t].partition_by = keys
    BY DEF BackedInv, Backed, Serves
  <2>4. \A c \in Range(keys) : r.cells[c] \in KeyValues
    BY <2>1, <2>2, <2>3 DEF Conforms
  <2> QED BY <1>1, <2>1, <2>4, DirOfSeq
<1> QED BY <1>2, <1>3

(* Files of one table that lie n segments deep, and a directory of such files. *)
LieDeep(some, t, n) ==
  \A f \in some : f.table = t /\ f.dir \in Seq(Segments) /\ Len(f.dir) = n

IsDirOf(d, some, t, n) ==
  /\ d.table = t /\ d = [table |-> d.table, dir |-> d.dir]
  /\ d.dir \in Seq(Segments) /\ d.dir # << >>
  /\ Len(d.dir) = n => \E f \in some : f.table = t /\ f.dir = d.dir

LEMMA DirsOfFiles ==
  ASSUME NEW some, NEW t, NEW n, LieDeep(some, t, n), NEW d \in DirsOf(some)
  PROVE  IsDirOf(d, some, t, n)
<1>1. PICK f \in some :
        d \in {[table |-> f.table, dir |-> SubSeq(f.dir, 1, m)] : m \in 1..Len(f.dir)}
  BY DEF DirsOf
<1>2. PICK m \in 1..Len(f.dir) : d = [table |-> f.table, dir |-> SubSeq(f.dir, 1, m)]
  BY <1>1
<1>3. f.dir \in Seq(Segments) /\ Len(f.dir) = n /\ f.table = t
  BY DEF LieDeep
<1>4. SubSeq(f.dir, 1, m) \in Seq(Segments) /\ Len(SubSeq(f.dir, 1, m)) = m
  <2>1. 1 \in 1..(Len(f.dir) + 1) /\ m \in 0..Len(f.dir) /\ m \in Nat \ {0}
    BY <1>3, LenProperties
  <2> QED BY <1>3, <2>1, SubSeqProperties
<1>5. d.table = t /\ d.dir = SubSeq(f.dir, 1, m)
  BY <1>2, <1>3
<1>6. m = Len(f.dir) => SubSeq(f.dir, 1, m) = f.dir
  BY <1>3, SubSeqFull
<1>7. d.dir # << >>
  BY <1>4, <1>5, EmptySeq
<1> QED BY <1>2, <1>3, <1>4, <1>5, <1>6, <1>7 DEF IsDirOf

(* A write, whether it returns or fails: what it has deleted, the directories
   it has made, the files in them, and where it was at work. *)
WriteLeaves(t, new) ==
  \E cleared : \E made \in SUBSET new : \E half \in SUBSET files, stored \in SUBSET made :
  \E torn \in SUBSET (made \ stored) :
    /\ files' = (files \ (FilesIn(t, cleared) \cup half)) \cup stored \cup TornOf(torn)
    /\ dirs' = DirsLeft(t, cleared) \cup DirsOf(made)
    /\ broken' = broken \cup DirsOf(half) \cup DirsOf(made \ stored)

LEMMA WritesLeave ==
  ASSUME NEW i \in Instances, NEW t \in Tables, NEW input \in Inputs,
         NEW overwrite \in BOOLEAN,
         Write(i, t, input, overwrite) \/ WriteFails(i, t, input, overwrite)
  PROVE  WriteLeaves(t, NewFiles(t, input, meta[i][t]))
<1> DEFINE new   == NewFiles(t, input, meta[i][t])
           paths == ReplacedPaths(input, meta[i][t], overwrite)
<1>1. CASE Write(i, t, input, overwrite)
  <2>1. /\ files' = (files \ FilesIn(t, paths)) \cup new
        /\ dirs' = DirsLeft(t, paths) \cup DirsOf(new)
        /\ UNCHANGED broken
    BY <1>1 DEF Write
  <2>2. DirsOf({}) = {} /\ TornOf({}) = {} /\ new \ new = {}
    BY DEF DirsOf, TornOf
  <2> HIDE DEF new, paths
  <2>3. /\ files' = (files \ (FilesIn(t, paths) \cup {})) \cup new \cup TornOf({})
        /\ broken' = broken \cup DirsOf({}) \cup DirsOf(new \ new)
    BY <2>1, <2>2
  <2>4. WriteLeaves(t, new)
    BY <2>1, <2>3 DEF WriteLeaves
  <2> QED BY <2>4 DEF new
<1>2. CASE WriteFails(i, t, input, overwrite)
  <2>1. PICK cleared \in SUBSET paths, made \in SUBSET new :
          \E half \in SUBSET FilesIn(t, paths \ cleared), stored \in SUBSET made :
          \E torn \in SUBSET (made \ stored) :
            /\ files' = (files \ (FilesIn(t, cleared) \cup half)) \cup stored \cup TornOf(torn)
            /\ dirs' = DirsLeft(t, cleared) \cup DirsOf(made)
            /\ broken' = broken \cup DirsOf(half) \cup DirsOf(made \ stored)
    BY <1>2 DEF WriteFails, TornOf
  <2>2. FilesIn(t, paths \ cleared) \subseteq files
    BY DEF FilesIn
  <2> HIDE DEF new, paths
  <2>3. WriteLeaves(t, new)
    BY <2>1, <2>2 DEF WriteLeaves
  <2> QED BY <2>3 DEF new
<1> QED BY <1>1, <1>2

(* The directory of each file is one of its directories. *)
LEMMA OwnDir ==
  ASSUME NEW some, NEW f \in some, f.dir \in Seq(Segments), f.dir # << >>
  PROVE  [table |-> f.table, dir |-> f.dir] \in DirsOf(some)
<1>1. Len(f.dir) \in 1..Len(f.dir)
  BY EmptySeq
<1>2. SubSeq(f.dir, 1, Len(f.dir)) = f.dir
  BY SubSeqFull
<1> QED BY <1>1, <1>2 DEF DirsOf

LEMMA DirsWritten ==
  ASSUME ConformInv, DirsInv,
         NEW i \in Instances, NEW t \in Tables, NEW input \in Inputs,
         NEW overwrite \in BOOLEAN,
         Write(i, t, input, overwrite) \/ WriteFails(i, t, input, overwrite)
  PROVE  DirsInv'
<1> DEFINE e == meta[i][t]
           new == NewFiles(t, input, e)
<1>1. /\ t \in DOMAIN meta[i] /\ Valid(input, e.schema) /\ PartitionFieldsFilled(input, e)
      /\ UNCHANGED catalog
  BY FilesAfter
<1>2. /\ CatalogInv /\ BackedInv /\ t \in DOMAIN catalog
      /\ catalog[t].partition_by = e.partition_by
  BY <1>1 DEF ConformInv, BackedInv, Backed, Serves
<1>3. \A f \in new : /\ f.table = t /\ f.dir \in Seq(Segments)
                     /\ Len(f.dir) = Len(e.partition_by)
                     /\ f.dir # << >> => f.rows # {}
                     /\ Torn(f).table = t /\ Torn(f).dir = f.dir /\ Torn(f).whole \in BOOLEAN /\ ~ Torn(f).whole
  <2>1. ASSUME NEW f \in new
        PROVE  /\ f.dir \in Seq(Segments) /\ Len(f.dir) = Len(e.partition_by)
               /\ f.dir # << >> => f.rows # {}
    BY <1>1, <1>2, NewFileDir
  <2>2. \A f \in new : /\ f.table = t
                       /\ Torn(f).table = t /\ Torn(f).dir = f.dir /\ Torn(f).whole \in BOOLEAN /\ ~ Torn(f).whole
    BY NewFilesParts, TornParts
  <2> QED BY <2>1, <2>2
<1>4. ASSUME NEW some \in SUBSET new, NEW d \in DirsOf(some)
      PROVE  /\ d.table = t /\ d = [table |-> d.table, dir |-> d.dir]
             /\ d.dir \in Seq(Segments) /\ d.dir # << >>
             /\ Len(d.dir) = Len(e.partition_by) =>
                  \E f \in some : f.table = t /\ f.dir = d.dir
  <2>1. PICK n : n = Len(e.partition_by)
    OBVIOUS
  <2>2. LieDeep(some, t, n)
    BY <1>3, <1>4, <2>1 DEF LieDeep
  <2>3. IsDirOf(d, some, t, n)
    BY <1>4, <2>2, DirsOfFiles
  <2> QED BY <2>1, <2>3 DEF IsDirOf
<1>5. WriteLeaves(t, new)
  BY WritesLeave
<1> HIDE DEF new, e
<1>6. PICK cleared :
        \E made \in SUBSET new : \E half \in SUBSET files, stored \in SUBSET made :
        \E torn \in SUBSET (made \ stored) :
          /\ files' = (files \ (FilesIn(t, cleared) \cup half)) \cup stored \cup TornOf(torn)
          /\ dirs' = DirsLeft(t, cleared) \cup DirsOf(made)
          /\ broken' = broken \cup DirsOf(half) \cup DirsOf(made \ stored)
  BY <1>5 DEF WriteLeaves
<1>10. PICK made \in SUBSET new :
        \E half \in SUBSET files, stored \in SUBSET made :
        \E torn \in SUBSET (made \ stored) :
          /\ files' = (files \ (FilesIn(t, cleared) \cup half)) \cup stored \cup TornOf(torn)
          /\ dirs' = DirsLeft(t, cleared) \cup DirsOf(made)
          /\ broken' = broken \cup DirsOf(half) \cup DirsOf(made \ stored)
  BY <1>6
<1>11. PICK half \in SUBSET files, stored \in SUBSET made :
        \E torn \in SUBSET (made \ stored) :
          /\ files' = (files \ (FilesIn(t, cleared) \cup half)) \cup stored \cup TornOf(torn)
          /\ dirs' = DirsLeft(t, cleared) \cup DirsOf(made)
          /\ broken' = broken \cup DirsOf(half) \cup DirsOf(made \ stored)
  BY <1>10
<1>7. PICK torn \in SUBSET (made \ stored) :
        /\ files' = (files \ (FilesIn(t, cleared) \cup half)) \cup stored \cup TornOf(torn)
        /\ dirs' = DirsLeft(t, cleared) \cup DirsOf(made)
        /\ broken' = broken \cup DirsOf(half) \cup DirsOf(made \ stored)
  BY <1>11
<1>8. ASSUME NEW f \in files', f.dir # << >>
      PROVE  (f.whole => f.rows # {}) /\ [table |-> f.table, dir |-> f.dir] \in dirs'
  <2>1. CASE f \in stored
    <3>1. f \in made /\ f \in new
      BY <1>10, <1>7, <2>1
    <3>2. [table |-> f.table, dir |-> f.dir] \in DirsOf(made)
      BY <1>3, <1>8, <3>1, OwnDir
    <3> QED BY <1>3, <1>7, <1>8, <3>1, <3>2
  <2>3. CASE f \in TornOf(torn)
    <3>1. PICK g \in torn : f = Torn(g)
      BY <2>3 DEF TornOf
    <3>2. g \in made /\ g \in new
      BY <1>7, <1>10, <3>1
    <3>3. f.table = g.table /\ f.dir = g.dir /\ f.whole \in BOOLEAN /\ ~ f.whole
      BY <1>3, <3>1, <3>2
    <3>4. [table |-> g.table, dir |-> g.dir] \in DirsOf(made)
      BY <1>3, <1>8, <3>2, <3>3, OwnDir
    <3> QED BY <1>7, <3>3, <3>4
  <2>2. CASE f \notin stored /\ f \notin TornOf(torn)
    <3> DEFINE d == [table |-> f.table, dir |-> f.dir]
    <3>1. f \in files /\ f \notin FilesIn(t, cleared)
      BY <1>7, <1>8, <2>2
    <3>2. (f.whole => f.rows # {}) /\ d \in dirs
      BY <1>8, <3>1 DEF DirsInv
    <3>3. ~ LiesUnder(f, t, cleared)
      BY <3>1 DEF FilesIn
    <3>4. ~ LiesUnder(d, t, cleared)
      BY <3>3 DEF LiesUnder
    <3>5. d \in DirsLeft(t, cleared)
      BY <3>2, <3>4 DEF DirsLeft
    <3> QED BY <1>7, <3>2, <3>5
  <2> QED BY <2>1, <2>2, <2>3
<1>9. ASSUME NEW d \in dirs'
      PROVE  /\ d.table \in DOMAIN catalog' /\ d = [table |-> d.table, dir |-> d.dir]
             /\ d.dir \in Seq(Segments) /\ d.dir # << >>
             /\ Len(d.dir) = Len(catalog'[d.table].partition_by) =>
                  d \in broken' \/ \E f \in files' : f.table = d.table /\ f.dir = d.dir
  <2>1. CASE d \in DirsOf(made)
    <3>1. /\ d.table = t /\ d = [table |-> d.table, dir |-> d.dir]
          /\ d.dir \in Seq(Segments) /\ d.dir # << >>
          /\ Len(d.dir) = Len(e.partition_by) =>
               \E f \in made : f.table = t /\ f.dir = d.dir
      BY <1>4, <2>1
    <3>2. ASSUME NEW f \in made, f.table = t, f.dir = d.dir
          PROVE  d \in broken' \/ \E g \in files' : g.table = d.table /\ g.dir = d.dir
      <4>1. CASE f \in stored
        BY <1>7, <3>1, <3>2, <4>1
      <4>2. CASE f \notin stored
        <5>1. [table |-> f.table, dir |-> f.dir] \in DirsOf(made \ stored)
          BY <3>1, <3>2, <4>2, OwnDir
        <5>2. [table |-> f.table, dir |-> f.dir] = d
          BY <3>1, <3>2
        <5> QED BY <1>7, <5>1, <5>2
      <4> QED BY <4>1, <4>2
    <3> QED BY <1>1, <1>2, <3>1, <3>2
  <2>2. CASE d \in DirsLeft(t, cleared)
    <3>1. d \in dirs /\ ~ LiesUnder(d, t, cleared)
      BY <2>2 DEF DirsLeft
    <3>2. /\ d.table \in DOMAIN catalog /\ d = [table |-> d.table, dir |-> d.dir]
          /\ d.dir \in Seq(Segments) /\ d.dir # << >>
          /\ Len(d.dir) = Len(catalog[d.table].partition_by) =>
               d \in broken \/ \E f \in files : f.table = d.table /\ f.dir = d.dir
      BY <3>1 DEF DirsInv
    <3>3. ASSUME NEW f \in files, f.table = d.table, f.dir = d.dir
          PROVE  d \in broken' \/ \E g \in files' : g.table = d.table /\ g.dir = d.dir
      <4>1. ~ LiesUnder(f, t, cleared)
        BY <3>1, <3>3 DEF LiesUnder
      <4>2. f \notin FilesIn(t, cleared)
        BY <4>1 DEF FilesIn
      <4>3. CASE f \in half
        <5>1. [table |-> f.table, dir |-> f.dir] \in DirsOf(half)
          BY <3>2, <3>3, <4>3, OwnDir
        <5>2. [table |-> f.table, dir |-> f.dir] = d
          BY <3>2, <3>3
        <5> QED BY <1>7, <5>1, <5>2
      <4>4. CASE f \notin half
        BY <1>7, <3>3, <4>2, <4>4
      <4> QED BY <4>3, <4>4
    <3>4. broken \subseteq broken'
      BY <1>7
    <3> QED BY <1>1, <3>2, <3>3, <3>4
  <2> QED BY <1>7, <2>1, <2>2
<1> QED BY <1>8, <1>9 DEF DirsInv

(* Only create_table changes the catalogue, to one that serves what it had. *)
LEMMA CatalogExtended ==
  ASSUME CatalogInv, [Next]_vars
  PROVE  Extended
<1>1. ASSUME NEW i \in Instances, NEW c \in CreateCalls, CreateTable(i, c) PROVE Extended
  <2>1. c.decl \in Entry /\ \A t \in DOMAIN catalog : catalog[t] \in Entry
    BY CallParts DEF Calls, CatalogInv, IsCatalog
  <2> DEFINE saved == Register(catalog, c.table, c.decl)
  <2>2. catalog' = saved /\ ~ Conflicts(catalog, c.table, c.decl)
    BY <1>1 DEF CreateTable
  <2>3. /\ DOMAIN saved = DOMAIN catalog \cup {c.table}
        /\ \A t \in DOMAIN catalog : Serves(saved[t], catalog[t])
    BY <2>1, <2>2, RegisterServes
  <2> QED BY <2>2, <2>3 DEF Extended
<1>2. UNCHANGED catalog => Extended
  BY ServesReflexive DEF Extended
<1>3. ASSUME NEW i \in Instances,
             \/ Open(i)
             \/ \E c \in RegisterCalls : RegisterTable(i, c)
             \/ \E c \in CreateCalls : RefuseCreate(i, c)
             \/ \E t \in Tables, input \in Inputs, overwrite \in BOOLEAN :
                  Write(i, t, input, overwrite) \/ WriteFails(i, t, input, overwrite)
      PROVE  UNCHANGED catalog
  BY <1>3 DEF Open, RegisterTable, RefuseCreate, Write, WriteFails, catalogVars
<1>4. UNCHANGED vars => UNCHANGED catalog
  BY DEF vars
<1> QED BY <1>1, <1>2, <1>3, <1>4 DEF Next

LEMMA DirsInit == Init => DirsInv
BY DEF Init, DirsInv

LEMMA DirsStep ==
  ASSUME ConformInv, DirsInv, [Next]_vars
  PROVE  DirsInv'
<1>1. Extended
  BY CatalogExtended DEF ConformInv
<1>2. ASSUME UNCHANGED fileVars PROVE DirsInv'
  <2>1. /\ UNCHANGED <<files, dirs, broken>>
        /\ \A t \in DOMAIN catalog :
             t \in DOMAIN catalog' /\ catalog'[t].partition_by = catalog[t].partition_by
    BY <1>1, <1>2 DEF fileVars, Extended, Serves
  <2> QED BY <2>1 DEF DirsInv
<1>3. ASSUME NEW i \in Instances, NEW t \in Tables, NEW input \in Inputs,
             NEW overwrite \in BOOLEAN,
             Write(i, t, input, overwrite) \/ WriteFails(i, t, input, overwrite)
      PROVE  DirsInv'
  BY <1>3, DirsWritten
<1>4. ASSUME NEW i \in Instances,
             \/ Open(i)
             \/ \E c \in RegisterCalls : RegisterTable(i, c)
             \/ \E c \in CreateCalls : CreateTable(i, c) \/ RefuseCreate(i, c)
      PROVE  UNCHANGED fileVars
  BY <1>4 DEF Open, RegisterTable, CreateTable, RefuseCreate
<1>5. UNCHANGED vars => UNCHANGED fileVars
  BY DEF vars, fileVars
<1> QED BY <1>2, <1>3, <1>4, <1>5 DEF Next

(* A name of a partition directory is read back as the value it was made of. *)
NamesParsed ==
  \A e \in Declared : \A c \in Range(e.partition_by) : \A v \in ValuesOf[e.schema[c].type] :
    ParseName[e.schema[c].type][DirName[v]] = v

(* The walk makes of the directory of a row what the row has in the keys. *)
LEMMA ParsedBack ==
  ASSUME NamesParsed, NEW e \in Declared, NEW cells,
         \A c \in Range(e.partition_by) : cells[c] \in ValuesOf[e.schema[c].type]
  PROVE  Parsed(DirOf(cells, e.partition_by), e.partition_by, e.schema)
           = [c \in Range(e.partition_by) |-> cells[c]]
<1> DEFINE keys == e.partition_by
           d == DirOf(cells, keys)
<1>1. ASSUME NEW c \in Range(keys)
      PROVE  LET k == CHOOSE n \in DOMAIN keys : keys[n] = c
             IN  ParseName[e.schema[c].type][d[k].name] = cells[c]
  <2> DEFINE k == CHOOSE n \in DOMAIN keys : keys[n] = c
  <2>1. k \in DOMAIN keys /\ keys[k] = c
    BY <1>1 DEF Range
  <2> HIDE DEF k
  <2>3. d[k].name = DirName[cells[c]]
    BY <2>1, DirSegments
  <2>4. ParseName[e.schema[c].type][DirName[cells[c]]] = cells[c]
    BY <1>1 DEF NamesParsed
  <2> QED BY <2>3, <2>4 DEF k
<1> QED BY <1>1 DEF Parsed

(* A row in a file has in the partition keys values of the types that any
   instance declares, and lies in their directory. *)
LEMMA RowKeys ==
  ASSUME ConformInv, TypesApart,
         NEW i \in Instances, NEW t \in DOMAIN meta[i],
         NEW f \in files, f.table = t, NEW r \in f.rows
  PROVE  /\ f.dir = DirOf(r.cells, meta[i][t].partition_by)
         /\ \A c \in Range(meta[i][t].partition_by) :
              r.cells[c] \in ValuesOf[meta[i][t].schema[c].type]
<1>1. PICK e : e = meta[i][t]
  OBVIOUS
<1>2. PICK entry : entry = catalog[t]
  OBVIOUS
<1>3. /\ e \in Entry /\ Prepared(e) /\ entry \in Entry /\ Serves(entry, e)
      /\ t \in DOMAIN catalog
  BY <1>1, <1>2 DEF ConformInv, CatalogInv, IsCatalog, BackedInv, Backed
<1>4. ~ Breaking(e, entry)
  BY <1>3, ServesCompatible
<1>5. /\ entry.partition_by = e.partition_by
      /\ \A c \in DOMAIN e.schema :
           c \in DOMAIN entry.schema /\ entry.schema[c].type = e.schema[c].type
  BY <1>4 DEF Breaking, Removed, Kept
<1>6. /\ f.dir = DirOf(r.cells, e.partition_by)
      /\ Padded(r.cells, entry.schema) \in Rows(entry.schema)
      /\ \A c \in Range(e.partition_by) : c \in DOMAIN r.cells /\ r.cells[c] \in KeyValues
  BY <1>2, <1>5 DEF ConformInv, FilesInv, Conforms
<1>7. NULL \notin KeyValues
  <2>1. ASSUME NEW decl \in Declared, Prepared(decl), NEW c \in Range(decl.partition_by)
        PROVE  NULL \notin ValuesOf[decl.schema[c].type]
    <3>1. decl \in Entry /\ c \in DOMAIN decl.schema
      BY <2>1, CallParts DEF Declared, Prepared
    <3> QED BY <3>1, EntryParts, ValuesAssumption
  <2> QED BY <2>1 DEF KeyValues
<1>8. ASSUME NEW c \in Range(e.partition_by)
      PROVE  r.cells[c] \in ValuesOf[e.schema[c].type]
  <2>1. c \in DOMAIN e.schema /\ c \in DOMAIN entry.schema
    BY <1>3, <1>5, <1>8 DEF Prepared
  <2>2. Padded(r.cells, entry.schema)[c] \in Cells(entry.schema[c])
    BY <1>6, <2>1 DEF Rows
  <2>3. Padded(r.cells, entry.schema)[c] = r.cells[c] /\ r.cells[c] # NULL
    BY <1>6, <1>7, <1>8, <2>1 DEF Padded
  <2> QED BY <1>5, <2>1, <2>2, <2>3 DEF Cells
<1> QED BY <1>1, <1>6, <1>8

(* distinct_values of the partition keys: the walk over the directories and the
   query say the same, but for directories in which a write has failed, when
   the names of directories are read back as they were made. *)
THEOREM DistinctAgree ==
  ASSUME Disciplined, TypesApart, NamesParsed
  PROVE  Spec => []DistinctValuesAgree
<1>1. ASSUME ConformInv, DirsInv, NEW i \in Instances, NEW t \in DOMAIN meta[i],
             meta[i][t].partition_by # << >>, Answered(TableFiles(t), {})
      PROVE  LET keys   == meta[i][t].partition_by
                 schema == meta[i][t].schema
                 walked == DistinctFromHive(t, keys, schema)
                 asked  == DistinctBySql(t, keys)
             IN
             /\ asked \subseteq walked
             /\ \A w \in walked \ asked :
                  \E d \in broken : d.table = t /\ Len(d.dir) = Len(keys)
                                    /\ w = Parsed(d.dir, keys, schema)
  <2>1. PICK e : e = meta[i][t]
    OBVIOUS
  <2> DEFINE keys   == e.partition_by
             schema == e.schema
             walked == DistinctFromHive(t, keys, schema)
             asked  == DistinctBySql(t, keys)
             ofKeys(r) == [c \in Range(keys) |-> r.cells[c]]
  <2>2. /\ e \in Entry /\ e \in Declared /\ keys \in Seq(Columns) /\ keys # << >>
        /\ t \in DOMAIN catalog /\ catalog[t].partition_by = keys
    BY <1>1, <2>1, EntryParts DEF ConformInv, CatalogInv, IsCatalog, BackedInv, Backed, Serves
  <2>3. ASSUME NEW f \in TableFiles(t), NEW r \in f.rows
        PROVE  /\ f \in files /\ f.table = t
               /\ f.dir = DirOf(r.cells, keys)
               /\ Parsed(f.dir, keys, schema) = ofKeys(r)
    <3>1. f \in files /\ f.table = t
      BY <2>3 DEF TableFiles
    <3>2. /\ f.dir = DirOf(r.cells, keys)
          /\ \A c \in Range(keys) : r.cells[c] \in ValuesOf[schema[c].type]
      BY <1>1, <2>1, <2>3, <3>1, RowKeys
    <3>3. Parsed(DirOf(r.cells, keys), keys, schema) = ofKeys(r)
      BY <2>2, <3>2, ParsedBack
    <3> QED BY <3>1, <3>2, <3>3
  <2> HIDE DEF ofKeys
  <2>4. ASSUME NEW f \in TableFiles(t), NEW r \in f.rows
        PROVE  ofKeys(r) \in walked
    <3> DEFINE d == [table |-> f.table, dir |-> f.dir]
    <3>1. /\ f \in files /\ f.table = t
          /\ f.dir = DirOf(r.cells, keys)
          /\ Parsed(f.dir, keys, schema) = ofKeys(r)
      BY <2>3, <2>4
    <3>2. DOMAIN f.dir = DOMAIN keys /\ \A k \in DOMAIN keys : f.dir[k].key = keys[k]
      <4>1. /\ DOMAIN DirOf(r.cells, keys) = DOMAIN keys
            /\ \A k \in DOMAIN keys : DirOf(r.cells, keys)[k].key = keys[k]
        BY DirSegments
      <4> HIDE DEF keys
      <4> QED BY <3>1, <4>1
    <3>3. f.dir # << >>
      BY <2>2, <3>2
    <3>4. d \in dirs
      BY <1>1, <3>1, <3>3 DEF DirsInv
    <3>5. d.table = t /\ d.dir = f.dir
      BY <3>1
    <3> HIDE DEF d, keys, schema
    <3> QED BY <3>1, <3>2, <3>4, <3>5 DEF DistinctFromHive
  <2>5. asked \subseteq walked
    <3>1. \A w \in asked : \E f \in TableFiles(t) : \E r \in f.rows : w = ofKeys(r)
      BY DEF DistinctBySql, ofKeys
    <3> HIDE DEF asked, walked
    <3> QED BY <2>4, <3>1
  <2>6. ASSUME NEW w \in walked, w \notin asked
        PROVE  \E d \in broken : d.table = t /\ Len(d.dir) = Len(keys)
                                 /\ w = Parsed(d.dir, keys, schema)
    <3>1. PICK d \in dirs : d.table = t /\ DOMAIN d.dir = DOMAIN keys
                            /\ w = Parsed(d.dir, keys, schema)
      BY <2>6 DEF DistinctFromHive
    <3>2. /\ d.dir \in Seq(Segments) /\ d.dir # << >>
          /\ Len(d.dir) = Len(catalog[d.table].partition_by) =>
               d \in broken \/ \E f \in files : f.table = d.table /\ f.dir = d.dir
      BY <1>1 DEF DirsInv
    <3>3. Len(d.dir) = Len(keys)
      <4>1. /\ DOMAIN d.dir = 1..Len(d.dir) /\ Len(d.dir) \in Nat
            /\ DOMAIN keys = 1..Len(keys) /\ Len(keys) \in Nat
        BY <2>2, <3>2, LenProperties
      <4>2. \A m, n \in Nat : 1..m = 1..n => m = n
        OBVIOUS
      <4> HIDE DEF keys
      <4> QED BY <3>1, <4>1, <4>2
    <3>4. CASE d \in broken
      BY <3>1, <3>3, <3>4
    <3>5. ASSUME NEW f \in files, f.table = t, f.dir = d.dir
          PROVE  FALSE
      <4>2. f \in TableFiles(t)
        BY <3>5 DEF TableFiles
      <4>5. f.whole
        BY <1>1, <4>2 DEF Answered, Whole
      <4>1. PICK r \in f.rows : TRUE
        BY <1>1, <3>2, <3>5, <4>5 DEF DirsInv
      <4>3. Parsed(f.dir, keys, schema) = ofKeys(r)
        BY <2>3, <4>1, <4>2
      <4>4. ofKeys(r) \in asked
        BY <4>1, <4>2 DEF DistinctBySql, ofKeys
      <4> QED BY <2>6, <3>1, <3>5, <4>3, <4>4
    <3> QED BY <2>2, <3>1, <3>2, <3>3, <3>4, <3>5
  <2> QED BY <2>1, <2>5, <2>6
<1>2. ConformInv /\ DirsInv => DistinctValuesAgree
  BY <1>1 DEF DistinctValuesAgree
<1>3. Init => DirsInv
  BY DirsInit
<1>4. ConformInv /\ DirsInv /\ [Next]_vars => DirsInv'
  BY DirsStep
<1> QED BY <1>2, <1>3, <1>4, ConformInvariant, PTL DEF Spec

-----------------------------------------------------------------------------
(***************************************************************************)
(* The store implements TableStore, for inputs and names such as these.    *)
(***************************************************************************)

(* The records of a table have its columns; those of a list, if there are any,
   have some column of each declaration; Arrow casts no dict or list. *)
PlainInputs ==
  /\ \A input \in Inputs :
       /\ input.kind \in {"list", "table"}
       /\ input.kind = "table" =>
            \A k \in DOMAIN input.records : DOMAIN input.records[k] = input.columns
       /\ input.kind = "list" /\ DOMAIN input.records # {} =>
            \A e \in Declared : Given(input, e.schema) # {}
  /\ NULL \notin DOMAIN Json
  /\ \A t \in Types : DOMAIN Json \cap DOMAIN Casts[t] = {}

(* Of the values that partition keys may have, the directory an f-string spells
   is the one that pyarrow makes. *)
KeysSpelled == \A v \in KeyValues : v \in DOMAIN DirName /\ PathName[v] = DirName[v]

Stored(f, r) == [table |-> f.table, call |-> f.call, index |-> r.index, cells |-> r.cells]

LEMMA RowsOfParts ==
  ASSUME NEW some
  PROVE  \A x : x \in RowsOf(some) <=> \E f \in some : \E r \in f.rows : x = Stored(f, r)
BY DEF RowsOf, Stored

(* The row that validation makes of a record is the one it denotes. *)
LEMMA RowDenoted ==
  ASSUME PlainInputs, NEW input \in Inputs, NEW e \in Entry, Valid(input, e.schema),
         NEW k \in DOMAIN input.records
  PROVE  TableRow(input, k, e.schema) = Abstract!RowOf(input.records[k], e.schema)
<1> DEFINE record == input.records[k]
<1>1. ASSUME NEW c \in DOMAIN e.schema
      PROVE  TableRow(input, k, e.schema)[c] = Abstract!RowOf(record, e.schema)[c]
  <2> DEFINE type == e.schema[c].type
             v == record[c]
  <2>1. type \in Types
    BY EntryParts
  <2>2. c \in DOMAIN record => c \in Given(input, e.schema)
    BY DEF Given, PlainInputs
  <2>3. CASE c \notin DOMAIN record
    BY <2>3 DEF TableRow, Cell, Cast, Abstract!RowOf
  <2>4. CASE c \in DOMAIN record /\ v = NULL
    BY <2>2, <2>4 DEF TableRow, Cell, Encoded, Cast, PlainInputs, Abstract!RowOf
  <2>5. CASE c \in DOMAIN record /\ v # NULL
    <3> DEFINE w == Encoded(input, type, v)
    <3>1. c \in Given(input, e.schema) /\ Cell(input, k, c, e.schema[c]) = w
      BY <2>2, <2>5 DEF Cell
    <3>2. TableRow(input, k, e.schema)[c] = Cast(type, w)
      BY <3>1 DEF TableRow
    <3>3. Abstract!RowOf(record, e.schema)[c] = Abstract!Denoted(type, v)
      BY <2>5 DEF Abstract!RowOf
    <3>4. w = NULL \/ w \in Castable(input, type)
      BY <3>1 DEF Valid
    <3>5. CASE input.kind = "list" /\ type \in TextTypes /\ v \in DOMAIN Json
      <4>1. w = Json[v] /\ Abstract!Denoted(type, v) = Json[v]
        BY <3>5 DEF Encoded, Abstract!Denoted
      <4>2. w # NULL => w \in ValuesOf[type]
        BY <3>4, <3>5 DEF Castable
      <4>3. Cast(type, w) = w
        BY <2>1, <4>2, CastsAssumption DEF Cast
      <4> QED BY <3>2, <3>3, <4>1, <4>3
    <3>6. CASE ~ (input.kind = "list" /\ type \in TextTypes /\ v \in DOMAIN Json)
      <4>1. w = v
        BY <3>6 DEF Encoded
      <4>2. v \in DOMAIN Casts[type]
        BY <2>1, <2>5, <3>4, <4>1, CastsAssumption DEF Castable
      <4>3. Abstract!Denoted(type, v) = Casts[type][v]
        BY <2>1, <4>2 DEF PlainInputs, Abstract!Denoted
      <4> QED BY <2>5, <3>2, <3>3, <4>1, <4>3 DEF Cast
    <3> QED BY <3>5, <3>6
  <2> QED BY <2>3, <2>4, <2>5
<1>2. /\ TableRow(input, k, e.schema)
           = [c \in DOMAIN e.schema |-> TableRow(input, k, e.schema)[c]]
      /\ Abstract!RowOf(record, e.schema)
           = [c \in DOMAIN e.schema |-> Abstract!RowOf(record, e.schema)[c]]
  BY DEF TableRow, Abstract!RowOf
<1> QED BY <1>1, <1>2

(* A row of a table is in the file of its directory. *)
LEMMA NewFileOfRow ==
  ASSUME NEW t, NEW input, NEW e, NEW r \in TableRows(input, e)
  PROVE  \E f \in NewFiles(t, input, e) : r \in f.rows
<1> DEFINE keys == e.partition_by
           d == DirOf(r.cells, keys)
           rows == TableRows(input, e)
           f == [table |-> t, dir |-> d, call |-> calls + 1, columns |-> DOMAIN e.schema,
                 whole |-> TRUE, rows |-> {s \in rows : DirOf(s.cells, keys) = d}]
<1>1. keys = << >> => d = << >>
  BY DEF DirOf
<1>2. f \in NewFiles(t, input, e)
  BY <1>1 DEF NewFiles
<1>3. r \in f.rows
  OBVIOUS
<1> QED BY <1>2, <1>3

(* What the new files hold: one row for each record. *)
LEMMA RowsDenoted ==
  ASSUME PlainInputs, NEW t, NEW input \in Inputs, NEW e \in Entry, e \in Declared,
         Valid(input, e.schema)
  PROVE  RowsOf(NewFiles(t, input, e)) = Abstract!NewRows(t, e, input)
<1>1. RowNumbers(input, e.schema) = DOMAIN input.records
  BY DEF RowNumbers, PlainInputs
<1>2. ASSUME NEW x \in RowsOf(NewFiles(t, input, e))
      PROVE  x \in Abstract!NewRows(t, e, input)
  <2>0. PICK f \in NewFiles(t, input, e) : \E r \in f.rows : x = Stored(f, r)
    BY RowsOfParts
  <2>1. PICK r \in f.rows : x = Stored(f, r)
    BY <2>0
  <2>2. /\ f.table = t /\ f.call = calls + 1
        /\ r.index \in DOMAIN input.records
        /\ r.cells = TableRow(input, r.index, e.schema)
    BY NewFilesParts, TableRowsParts
  <2>3. r.cells = Abstract!RowOf(input.records[r.index], e.schema)
    BY <2>2, RowDenoted
  <2> QED BY <2>1, <2>2, <2>3 DEF Stored, Abstract!NewRows
<1>3. ASSUME NEW x \in Abstract!NewRows(t, e, input)
      PROVE  x \in RowsOf(NewFiles(t, input, e))
  <2>1. PICK k \in DOMAIN input.records :
          x = [table |-> t, call |-> calls + 1, index |-> k,
               cells |-> Abstract!RowOf(input.records[k], e.schema)]
    BY DEF Abstract!NewRows
  <2> DEFINE r == [index |-> k, cells |-> TableRow(input, k, e.schema)]
  <2>2. r \in TableRows(input, e)
    BY <1>1 DEF TableRows
  <2>3. PICK f \in NewFiles(t, input, e) : r \in f.rows
    BY <2>2, NewFileOfRow
  <2>4. f.table = t /\ f.call = calls + 1
    BY NewFilesParts
  <2>5. x = Stored(f, r)
    BY <2>1, <2>4, RowDenoted DEF Stored
  <2> QED BY <2>3, <2>5, RowsOfParts
<1> QED BY <1>2, <1>3

-----------------------------------------------------------------------------
(* A path that is spelled of one row lies above the directory of another just
   when they agree in every partition key. *)
LEMMA PrefixMeansEqual ==
  ASSUME KeysSpelled, NEW keys \in Seq(Columns), NEW new, NEW old,
         \A c \in Range(keys) : new[c] \in KeyValues /\ old[c] \in KeyValues
  PROVE  IsPrefix(PathOf(new, keys), DirOf(old, keys))
           <=> \A c \in Range(keys) : old[c] = new[c]
<1> DEFINE p == PathOf(new, keys)
           d == DirOf(old, keys)
           n == Len(keys)
<1>1. n \in Nat /\ DOMAIN keys = 1..n
  OBVIOUS
<1>2. p = [k \in 1..n |-> [key |-> keys[k], name |-> PathName[new[keys[k]]]]]
  BY <1>1 DEF PathOf
<1>3. d = [k \in 1..n |-> [key |-> keys[k], name |-> DirName[old[keys[k]]]]]
  BY <1>1 DEF DirOf
<1>4. /\ p \in Seq({p[k] : k \in 1..n}) /\ d \in Seq({d[k] : k \in 1..n})
      /\ Len(p) = n /\ Len(d) = n
  <2>1. ASSUME NEW q, q = [k \in 1..n |-> q[k]]
        PROVE  q \in Seq({q[k] : k \in 1..n}) /\ Len(q) = n
    BY <1>1, <2>1, IsASeq
  <2> QED BY <1>2, <1>3, <2>1
<1>5. IsPrefix(p, d) <=> p = d
  <2>1. SubSeq(p, 1, n) = p /\ SubSeq(d, 1, n) = d
    BY <1>4, SubSeqFull
  <2> HIDE DEF p, d, n
  <2> QED BY <1>1, <1>4, <2>1 DEF IsPrefix
<1>6. \A k \in 1..n : keys[k] \in Range(keys)
  BY <1>1 DEF Range
<1>7. \A k \in 1..n : /\ PathName[new[keys[k]]] = DirName[new[keys[k]]]
                      /\ new[keys[k]] \in DOMAIN DirName
                      /\ old[keys[k]] \in DOMAIN DirName
  BY <1>6 DEF KeysSpelled
<1>8. p = d <=> \A k \in 1..n : DirName[new[keys[k]]] = DirName[old[keys[k]]]
  <2>1. \A k \in 1..n :
          /\ p[k] = [key |-> keys[k], name |-> PathName[new[keys[k]]]]
          /\ d[k] = [key |-> keys[k], name |-> DirName[old[keys[k]]]]
    BY <1>2, <1>3
  <2>2. p = [k \in 1..n |-> p[k]] /\ d = [k \in 1..n |-> d[k]]
    BY <1>2, <1>3
  <2> HIDE DEF p, d, n
  <2>3. ASSUME p = d, NEW k \in 1..n
        PROVE  DirName[new[keys[k]]] = DirName[old[keys[k]]]
    <3>1. p[k].name = d[k].name
      BY <2>3
    <3>2. p[k].name = PathName[new[keys[k]]] /\ d[k].name = DirName[old[keys[k]]]
      <4>1. /\ p[k] = [key |-> keys[k], name |-> PathName[new[keys[k]]]]
            /\ d[k] = [key |-> keys[k], name |-> DirName[old[keys[k]]]]
        BY <2>1, <2>3
      <4> QED BY <4>1
    <3>3. PathName[new[keys[k]]] = DirName[new[keys[k]]]
      BY <1>7, <2>3
    <3> QED BY <3>1, <3>2, <3>3
  <2>4. ASSUME \A k \in 1..n : DirName[new[keys[k]]] = DirName[old[keys[k]]]
        PROVE  p = d
    <3>1. ASSUME NEW k \in 1..n PROVE p[k] = d[k]
      <4>1. PathName[new[keys[k]]] = DirName[old[keys[k]]]
        BY <1>7, <2>4, <3>1
      <4> QED BY <2>1, <3>1, <4>1
    <3> QED BY <2>2, <3>1
  <2> QED BY <2>3, <2>4
<1>9. p = d <=> \A k \in 1..n : old[keys[k]] = new[keys[k]]
  BY <1>7, <1>8, NamesAssumption
<1>10. Range(keys) = {keys[k] : k \in 1..n}
  BY <1>1 DEF Range
<1> QED BY <1>5, <1>9, <1>10

(* The files in the directories that an overwrite deletes hold the rows whose
   partition it replaces, and no others. *)
LEMMA FilesReplaced ==
  ASSUME ConformInv, PlainInputs, KeysSpelled,
         NEW i \in Instances, NEW t \in DOMAIN meta[i], NEW input \in Inputs,
         Valid(input, meta[i][t].schema), PartitionFieldsFilled(input, meta[i][t]),
         NEW f \in files, NEW r \in f.rows
  PROVE  f \in FilesIn(t, ReplacedPaths(input, meta[i][t], TRUE)) <=>
           /\ meta[i][t].partition_by # << >>
           /\ Stored(f, r) \in
                Abstract!InTheirPartitions(RowsOf(NewFiles(t, input, meta[i][t])), t, meta[i][t])
<1> DEFINE e == meta[i][t]
           keys == e.partition_by
           new == NewFiles(t, input, e)
           paths == ReplacedPaths(input, e, TRUE)
<1>1. /\ e \in Entry /\ Prepared(e) /\ t \in DOMAIN catalog
      /\ catalog[t].partition_by = keys /\ keys \in Seq(Columns)
  BY EntryParts DEF ConformInv, CatalogInv, IsCatalog, BackedInv, Backed, Serves
<1>2. Conforms(f)
  BY DEF ConformInv, FilesInv
<1>3. ASSUME NEW s \in TableRows(input, e)
      PROVE  \A c \in Range(keys) : s.cells[c] \in KeyValues
  <2>1. PICK g \in new : s \in g.rows
    BY NewFileOfRow
  <2>2. Conforms(g)
    BY NewFileConforms DEF ConformInv
  <2>3. g.table = t
    BY NewFilesParts
  <2> QED BY <1>1, <2>1, <2>2, <2>3 DEF Conforms
<1>4. ASSUME f.table = t, NEW s \in TableRows(input, e)
      PROVE  IsPrefix(PathOf(s.cells, keys), f.dir)
               <=> \A c \in Range(keys) : r.cells[c] = s.cells[c]
  <2>1. f.dir = DirOf(r.cells, keys) /\ \A c \in Range(keys) : r.cells[c] \in KeyValues
    BY <1>1, <1>2, <1>4 DEF Conforms
  <2> QED BY <1>1, <1>3, <2>1, PrefixMeansEqual
<1>5. keys # << >> =>
        (f \in FilesIn(t, paths) <=>
           f.table = t /\ \E s \in TableRows(input, e) :
             IsPrefix(PathOf(s.cells, keys), f.dir))
  BY DEF FilesIn, LiesUnder, ReplacedPaths
<1>6. \A s \in TableRows(input, e) : \E x \in RowsOf(new) : x.cells = s.cells
  <2>1. ASSUME NEW s \in TableRows(input, e)
        PROVE  \E x \in RowsOf(new) : x.cells = s.cells
    <3>1. PICK g \in new : s \in g.rows
      BY NewFileOfRow
    <3>2. Stored(g, s) \in RowsOf(new) /\ Stored(g, s).cells = s.cells
      BY <3>1, RowsOfParts DEF Stored
    <3> QED BY <3>2
  <2> QED BY <2>1
<1>7. \A x \in RowsOf(new) : \E s \in TableRows(input, e) : x.cells = s.cells
  BY NewFilesParts, RowsOfParts DEF Stored
<1>8. Stored(f, r) \in StoredRows
  BY RowsOfParts DEF StoredRows
<1>9. Stored(f, r) \in Abstract!InTheirPartitions(RowsOf(new), t, e) <=>
        /\ f.table = t
        /\ \E x \in RowsOf(new) : \A c \in Range(keys) : r.cells[c] = x.cells[c]
  BY <1>8 DEF Stored, Abstract!InTheirPartitions, Range, Abstract!Range
<1>10. CASE keys # << >>
  <2> DEFINE agree(s) == \A c \in Range(keys) : r.cells[c] = s.cells[c]
  <2>1. f \in FilesIn(t, paths) <=> f.table = t /\ \E s \in TableRows(input, e) : agree(s)
    BY <1>4, <1>5, <1>10
  <2>2. (\E s \in TableRows(input, e) : agree(s)) <=> \E x \in RowsOf(new) : agree(x)
    BY <1>6, <1>7
  <2>3. Stored(f, r) \in Abstract!InTheirPartitions(RowsOf(new), t, e)
          <=> f.table = t /\ \E x \in RowsOf(new) : agree(x)
    BY <1>9
  <2> HIDE DEF agree, paths, new, keys
  <2>4. f \in FilesIn(t, paths) <=> Stored(f, r) \in Abstract!InTheirPartitions(RowsOf(new), t, e)
    BY <2>1, <2>2, <2>3
  <2> QED BY <1>10, <2>4 DEF keys, paths, new
<1>11. CASE keys = << >>
  BY <1>11 DEF FilesIn, LiesUnder, ReplacedPaths
<1> QED BY <1>10, <1>11

-----------------------------------------------------------------------------
(* The rules that TableStore takes from SchemaRules are this module's. *)
LEMMA SameRules ==
  /\ \A f, k, v : Abstract!Put(f, k, v) = Put(f, k, v)
  /\ \A new, old : Abstract!Serves(new, old) <=> Serves(new, old)
  /\ \A schema : Abstract!Rows(schema) = Rows(schema)
BY DEF Put, Abstract!Put, Serves, Abstract!Serves, Rows, Abstract!Rows,
       Padded, Abstract!Padded, Cells, Abstract!Cells

Replaced(t, input, e, overwrite) ==
  IF overwrite /\ e.partition_by # << >>
  THEN Abstract!InTheirPartitions(RowsOf(NewFiles(t, input, e)), t, e) ELSE {}

(* The same of any write: what lies in its paths is what it replaces. *)
LEMMA PathsReplaced ==
  ASSUME ConformInv, PlainInputs, KeysSpelled,
         NEW i \in Instances, NEW t \in DOMAIN meta[i], NEW input \in Inputs,
         NEW overwrite \in BOOLEAN,
         Valid(input, meta[i][t].schema), PartitionFieldsFilled(input, meta[i][t])
  PROVE  /\ \A f \in files : \A r \in f.rows :
              f \in FilesIn(t, ReplacedPaths(input, meta[i][t], overwrite))
                <=> Stored(f, r) \in Replaced(t, input, meta[i][t], overwrite)
         /\ Replaced(t, input, meta[i][t], overwrite) \subseteq StoredRows
<1>1. CASE overwrite
  <2>1. ReplacedPaths(input, meta[i][t], overwrite) = ReplacedPaths(input, meta[i][t], TRUE)
    BY <1>1 DEF ReplacedPaths
  <2>2. \A f \in files : \A r \in f.rows :
          f \in FilesIn(t, ReplacedPaths(input, meta[i][t], TRUE))
            <=> Stored(f, r) \in Replaced(t, input, meta[i][t], overwrite)
    BY <1>1, FilesReplaced DEF Replaced
  <2>3. Replaced(t, input, meta[i][t], overwrite) \subseteq StoredRows
    BY DEF Replaced, Abstract!InTheirPartitions
  <2> QED BY <2>1, <2>2, <2>3
<1>2. CASE ~ overwrite
  BY <1>2 DEF Replaced, ReplacedPaths, FilesIn, LiesUnder
<1> QED BY <1>1, <1>2

(* The files of two sets hold the rows of the one and of the other. *)
LEMMA RowsOfUnion ==
  /\ \A some, more : RowsOf(some \cup more) = RowsOf(some) \cup RowsOf(more)
  /\ RowsOf({}) = {}
<1>1. ASSUME NEW some, NEW more
      PROVE  RowsOf(some \cup more) = RowsOf(some) \cup RowsOf(more)
  BY RowsOfParts
<1>2. RowsOf({}) = {}
  BY RowsOfParts
<1> QED BY <1>1, <1>2

(* What a write, whether it returns or fails, does to the stored rows. *)
LEMMA RowsWritten ==
  ASSUME ConformInv, PlainInputs, KeysSpelled,
         NEW i \in Instances, NEW t \in Tables, NEW input \in Inputs,
         NEW overwrite \in BOOLEAN,
         Write(i, t, input, overwrite) \/ WriteFails(i, t, input, overwrite)
  PROVE  LET new      == RowsOf(NewFiles(t, input, meta[i][t]))
             replaced == Replaced(t, input, meta[i][t], overwrite)
         IN
         \/ RowsOf(files') = (RowsOf(files) \ replaced) \cup new
         \/ \E gone \in SUBSET replaced, stored \in SUBSET new :
              /\ stored # {} => gone = replaced
              /\ RowsOf(files') = (RowsOf(files) \ gone) \cup stored
<1> DEFINE e == meta[i][t]
           newFiles == NewFiles(t, input, e)
           paths == ReplacedPaths(input, e, overwrite)
           lying == FilesIn(t, paths)
           replaced == Replaced(t, input, e, overwrite)
<1>1. /\ t \in DOMAIN meta[i]
      /\ Valid(input, e.schema) /\ PartitionFieldsFilled(input, e)
  BY FilesAfter
<1>2. /\ \A f \in files : \A r \in f.rows : f \in lying <=> Stored(f, r) \in replaced
      /\ replaced \subseteq RowsOf(files)
  BY <1>1, PathsReplaced DEF StoredRows
<1>3. lying \subseteq files
  BY DEF FilesIn
<1>4. ASSUME NEW lost \in SUBSET lying
      PROVE  /\ RowsOf(files) \ RowsOf(files \ lost) \subseteq replaced
             /\ RowsOf(files \ lying) = RowsOf(files) \ replaced
             /\ RowsOf(files \ lost) \subseteq RowsOf(files)
  <2> HIDE DEF lying, replaced
  <2>1. ASSUME NEW x \in RowsOf(files), x \notin RowsOf(files \ lost)
        PROVE  x \in replaced
    <3>0. PICK f \in files : \E r \in f.rows : x = Stored(f, r)
      BY RowsOfParts
    <3>1. PICK r \in f.rows : x = Stored(f, r)
      BY <3>0
    <3>2. f \in lost
      BY <2>1, <3>1, RowsOfParts
    <3> QED BY <1>2, <1>4, <3>1, <3>2
  <2>2. ASSUME NEW x \in RowsOf(files), x \notin replaced
        PROVE  x \in RowsOf(files \ lying)
    <3>0. PICK f \in files : \E r \in f.rows : x = Stored(f, r)
      BY RowsOfParts
    <3>1. PICK r \in f.rows : x = Stored(f, r)
      BY <3>0
    <3>2. f \in files \ lying
      BY <1>2, <2>2, <3>1
    <3> QED BY <3>1, <3>2, RowsOfParts
  <2>3. ASSUME NEW x \in RowsOf(files \ lying)
        PROVE  x \in RowsOf(files) /\ x \notin replaced
    <3>0. PICK f \in files \ lying : \E r \in f.rows : x = Stored(f, r)
      BY RowsOfParts
    <3>1. PICK r \in f.rows : x = Stored(f, r)
      BY <3>0
    <3> QED BY <1>2, <3>1, RowsOfParts
  <2>4. RowsOf(files \ lost) \subseteq RowsOf(files)
    BY RowsOfParts
  <2> QED BY <2>1, <2>2, <2>3, <2>4
<1>5. CASE Write(i, t, input, overwrite)
  <2>1. files' = (files \ lying) \cup newFiles
    BY <1>5 DEF Write
  <2>2. RowsOf(files \ lying) = RowsOf(files) \ replaced
    BY <1>4
  <2> HIDE DEF newFiles, paths, lying, replaced, e
  <2>3. RowsOf(files') = (RowsOf(files) \ replaced) \cup RowsOf(newFiles)
    BY <2>1, <2>2, RowsOfUnion
  <2> QED BY <2>3 DEF newFiles, replaced, e
<1>6. CASE WriteFails(i, t, input, overwrite)
  <2>1. PICK cleared \in SUBSET paths, made \in SUBSET newFiles :
          /\ made # {} => cleared = paths
          /\ \E half \in SUBSET FilesIn(t, paths \ cleared), stored \in SUBSET made :
             \E torn \in SUBSET (made \ stored) :
               files' = (files \ (FilesIn(t, cleared) \cup half)) \cup stored \cup TornOf(torn)
    BY <1>6 DEF WriteFails, TornOf
  <2>10. PICK half \in SUBSET FilesIn(t, paths \ cleared), stored \in SUBSET made :
          \E torn \in SUBSET (made \ stored) :
            files' = (files \ (FilesIn(t, cleared) \cup half)) \cup stored \cup TornOf(torn)
    BY <2>1
  <2>2. PICK torn \in SUBSET (made \ stored) :
          files' = (files \ (FilesIn(t, cleared) \cup half)) \cup stored \cup TornOf(torn)
    BY <2>10
  <2>11. RowsOf(TornOf(torn)) = {}
    <3>1. ASSUME NEW f \in TornOf(torn) PROVE f.rows = {}
      <4>1. PICK g \in torn : f = Torn(g)
        BY <3>1 DEF TornOf
      <4>2. g \in newFiles
        BY <2>1, <2>2, <4>1
      <4> QED BY <4>1, <4>2, TornParts
    <3> QED BY <3>1, RowsOfParts
  <2> DEFINE lost == FilesIn(t, cleared) \cup half
             gone == RowsOf(files) \ RowsOf(files \ lost)
  <2>3. lost \in SUBSET lying
    BY DEF FilesIn, LiesUnder
  <2>4. made # {} => lost = lying
    <3>1. FilesIn(t, {}) = {}
      BY DEF FilesIn, LiesUnder
    <3>2. cleared = paths => paths \ cleared = {}
      OBVIOUS
    <3> QED BY <2>1, <3>1, <3>2
  <2>5. /\ gone \subseteq replaced
        /\ RowsOf(files \ lying) = RowsOf(files) \ replaced
        /\ RowsOf(files \ lost) \subseteq RowsOf(files)
    BY <1>4, <2>3
  <2> HIDE DEF newFiles, paths, lying, replaced, e, lost
  <2>6. RowsOf(files') = (RowsOf(files) \ gone) \cup RowsOf(stored)
    <3> DEFINE kept == files \ lost
               footless == TornOf(torn)
    <3>0. files' = (kept \cup stored) \cup footless
      BY <2>2 DEF lost
    <3>2. RowsOf(footless) = {}
      BY <2>11
    <3> HIDE DEF kept, footless
    <3>3. RowsOf(files') = RowsOf(kept \cup stored) \cup RowsOf(footless)
      BY <3>0, RowsOfUnion
    <3>4. RowsOf(kept \cup stored) = RowsOf(kept) \cup RowsOf(stored)
      BY RowsOfUnion
    <3>1. RowsOf(files') = RowsOf(files \ lost) \cup RowsOf(stored)
      BY <3>2, <3>3, <3>4 DEF kept
    <3> QED BY <2>5, <3>1
  <2>7. RowsOf(stored) \subseteq RowsOf(newFiles)
    BY RowsOfParts
  <2>8. RowsOf(stored) # {} => gone = replaced
    <3>1. ASSUME RowsOf(stored) # {} PROVE gone = replaced
      <4>1. made # {}
        BY <3>1, RowsOfUnion
      <4>2. gone = RowsOf(files) \ (RowsOf(files) \ replaced)
        BY <2>4, <2>5, <4>1
      <4> QED BY <1>2, <4>2
    <3> QED BY <3>1
  <2> HIDE DEF gone
  <2>9. \E g \in SUBSET replaced, s \in SUBSET RowsOf(newFiles) :
          /\ s # {} => g = replaced
          /\ RowsOf(files') = (RowsOf(files) \ g) \cup s
    BY <2>5, <2>6, <2>7, <2>8
  <2> QED BY <2>9 DEF newFiles, replaced, e
<1> QED BY <1>5, <1>6

-----------------------------------------------------------------------------
LEMMA StoreInit == Init => Abstract!Init
BY RowsOfUnion DEF Init, NoTables, StoredRows, Abstract!Init

(* A write of the store is one of TableStore, by a declaration that the
   catalogue serves. *)
LEMMA StoreWrite ==
  ASSUME ConformInv, PlainInputs, KeysSpelled,
         NEW i \in Instances, NEW t \in Tables, NEW input \in Inputs,
         NEW overwrite \in BOOLEAN,
         Write(i, t, input, overwrite) \/ WriteFails(i, t, input, overwrite)
  PROVE  Abstract!Next
<1> DEFINE e == meta[i][t]
<1>1. /\ t \in DOMAIN meta[i] /\ Valid(input, e.schema)
      /\ calls' = calls + 1 /\ UNCHANGED catalog
  BY FilesAfter
<1>2. e \in Entry /\ e \in Declared /\ t \in DOMAIN catalog /\ Serves(catalog[t], e)
  BY <1>1 DEF ConformInv, CatalogInv, IsCatalog, BackedInv, Backed
<1>3. RowsOf(NewFiles(t, input, e)) = Abstract!NewRows(t, e, input)
  BY <1>1, <1>2, RowsDenoted
<1>4. \A r \in Abstract!NewRows(t, e, input) : r.cells \in Abstract!Rows(e.schema)
  <2>1. ASSUME NEW k \in DOMAIN input.records
        PROVE  Abstract!RowOf(input.records[k], e.schema) \in Rows(e.schema)
    BY <1>1, <1>2, RowDenoted, ValidRowsConform
  <2> QED BY <2>1, SameRules DEF Abstract!NewRows
<1> DEFINE new == Abstract!NewRows(t, e, input)
           replaced == IF overwrite /\ e.partition_by # << >>
                       THEN Abstract!InTheirPartitions(new, t, e) ELSE {}
<1>5. \/ StoredRows' = (StoredRows \ replaced) \cup new
      \/ \E gone \in SUBSET replaced, stored \in SUBSET new :
           /\ stored # {} => gone = replaced
           /\ StoredRows' = (StoredRows \ gone) \cup stored
  <2>1. Replaced(t, input, e, overwrite) = replaced
    BY <1>3 DEF Replaced
  <2>2. StoredRows' = RowsOf(files')
    BY DEF StoredRows, RowsOf
  <2> DEFINE made == RowsOf(NewFiles(t, input, e))
             lost == Replaced(t, input, e, overwrite)
  <2>3. \/ RowsOf(files') = (RowsOf(files) \ lost) \cup made
        \/ \E gone \in SUBSET lost, stored \in SUBSET made :
             /\ stored # {} => gone = lost
             /\ RowsOf(files') = (RowsOf(files) \ gone) \cup stored
    BY RowsWritten
  <2>4. made = new /\ lost = replaced
    BY <1>3, <2>1
  <2>5. RowsOf(files) = StoredRows
    BY DEF StoredRows
  <2> HIDE DEF new, replaced, made, lost
  <2> QED BY <2>2, <2>3, <2>4, <2>5
<1>6. Abstract!Write(t, e, input, overwrite)
  BY <1>1, <1>4, <1>5 DEF Abstract!Write
<1>7. e \in {c.decl : c \in CreateCalls \cup RegisterCalls}
  BY <1>2 DEF Declared, Calls
<1>8. Abstract!Serves(catalog[t], e)
  BY <1>2, SameRules
<1> HIDE DEF e
<1> QED BY <1>2, <1>6, <1>7, <1>8 DEF Abstract!Next

LEMMA StoreStep ==
  ASSUME PlainInputs, KeysSpelled, ConformInv, [Next]_vars
  PROVE  [Abstract!Next]_(Abstract!vars)
<1>1. ASSUME NEW i \in Instances, NEW c \in CreateCalls, CreateTable(i, c)
      PROVE  Abstract!Next \/ UNCHANGED Abstract!vars
  <2>1. /\ catalog' = Register(catalog, c.table, c.decl)
        /\ ~ Conflicts(catalog, c.table, c.decl)
        /\ UNCHANGED <<files, calls>>
    BY <1>1 DEF CreateTable, fileVars
  <2>2. UNCHANGED <<StoredRows, calls>>
    BY <2>1 DEF StoredRows, RowsOf
  <2>3. CASE Changes(catalog, c.table, c.decl)
    <3>1. catalog' = Put(catalog, c.table, c.decl)
      BY <2>1, <2>3 DEF Register
    <3>2. c.table \in DOMAIN catalog => Serves(c.decl, catalog[c.table])
      <4>1. c.decl \in Entry /\ \A t \in DOMAIN catalog : catalog[t] \in Entry
        BY CallParts DEF Calls, ConformInv, CatalogInv, IsCatalog
      <4> QED BY <2>1, <4>1, CompatibleServes DEF Conflicts
    <3>3. Abstract!Create(c)
      BY <2>2, <3>1, <3>2, SameRules DEF Abstract!Create
    <3> QED BY <3>3 DEF Abstract!Next
  <2>4. CASE ~ Changes(catalog, c.table, c.decl)
    BY <2>1, <2>2, <2>4 DEF Register, Abstract!vars
  <2> QED BY <2>3, <2>4
<1>2. ASSUME NEW i \in Instances,
             \/ Open(i)
             \/ \E c \in RegisterCalls : RegisterTable(i, c)
             \/ \E c \in CreateCalls : RefuseCreate(i, c)
      PROVE  UNCHANGED <<catalog, files, calls>>
  BY <1>2 DEF Open, RegisterTable, RefuseCreate, fileVars
<1>3. ASSUME NEW i \in Instances, NEW t \in Tables, NEW input \in Inputs,
             NEW overwrite \in BOOLEAN,
             Write(i, t, input, overwrite) \/ WriteFails(i, t, input, overwrite)
      PROVE  Abstract!Next
  BY <1>3, StoreWrite
<1>4. UNCHANGED vars => UNCHANGED <<catalog, files, calls>>
  BY DEF vars
<1>5. UNCHANGED <<catalog, files, calls>> => UNCHANGED Abstract!vars
  BY DEF StoredRows, RowsOf, Abstract!vars
<1> QED BY <1>1, <1>2, <1>3, <1>4, <1>5 DEF Next

(* Through instances with declarations however stale, and writes that fail
   between any two files, the store does what base.py promises of it: one row
   per record, in tables that only grow, and an overwrite replaces the
   partitions of its records alone, all of them before it stores a row. *)
THEOREM StoreImplemented ==
  ASSUME Disciplined, PlainInputs, KeysSpelled
  PROVE  Spec => ImplementsTableStore
<1>1. Init => Abstract!Init
  BY StoreInit
<1>2. ConformInv /\ [Next]_vars => [Abstract!Next]_(Abstract!vars)
  BY StoreStep
<1> QED BY <1>1, <1>2, ConformInvariant, PTL
        DEF Spec, ImplementsTableStore, Abstract!Spec

=============================================================================
