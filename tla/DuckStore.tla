----------------------------- MODULE DuckStore ------------------------------
(***************************************************************************)
(* The DuckDB+Parquet store as one system (duckdb_parquet.py with schema.py*)
(* and filters.py): the catalogue that create_table keeps, the declarations*)
(* that each instance writes and reads by, the Parquet files with the      *)
(* columns they were written with and the Hive directories they lie in.    *)
(*                                                                         *)
(* The steps inside create_table are those of DuckRegistry, and inside an  *)
(* overwrite or beside a reader those of DuckTable; here each call is one  *)
(* step, and a write that fails or is killed leaves a part of its work.    *)
(***************************************************************************)
EXTENDS RecordRules, HiveRules

CONSTANTS Instances, Tables,
          CreateCalls,    \* [table, decl]: the create_table calls clients make
          RegisterCalls,  \* [table, decl]: the register_table calls clients make
          Inputs,         \* the records clients hand to write()
          FilterDicts,    \* the filters clients ask with
          Projections,    \* the columns they ask for
          ParseName,      \* type -> directory name -> the value it is parsed to
          MaxWrites,      \* bound: write calls that have an effect
          Disciplined     \* a service declares what provisioning has created

ASSUME StoreAssumption ==
  /\ \A c \in CreateCalls \cup RegisterCalls : c.table \in Tables /\ c.decl \in Entry
  /\ \A filters \in FilterDicts : IsFilters(filters)
  /\ MaxWrites \in Nat
  /\ Disciplined \in BOOLEAN

(* pyarrow spells no two values alike. *)
ASSUME NamesAssumption ==
  \A v, w \in DOMAIN DirName : DirName[v] = DirName[w] => v = w

VARIABLES
  catalog,  \* _registry/tables.json: created table -> its entry
  registry, \* _registry of each instance
  meta,     \* _table_meta of each instance
  files,    \* the Parquet files: [table, dir, call, columns, whole, rows]
  dirs,     \* the directories under the tables' roots: [table, dir]
  calls,    \* write calls that have had an effect
  broken    \* history: the directories a write was at work in when it failed

catalogVars == <<catalog, registry, meta>>
fileVars    == <<files, dirs, calls, broken>>
vars == <<catalog, registry, meta, files, dirs, calls, broken>>

NoTables == [t \in {} |-> t]

Init ==
  /\ catalog = NoTables
  /\ registry = [i \in Instances |-> NoTables]
  /\ meta = [i \in Instances |-> NoTables]
  /\ files = {}
  /\ dirs = {}
  /\ calls = 0
  /\ broken = {}

-----------------------------------------------------------------------------
(* A new instance takes the place of an old one: __init__ loads the file. *)
Open(i) ==
  /\ registry' = [registry EXCEPT ![i] = catalog]
  /\ meta' = [meta EXCEPT ![i] = catalog]
  /\ UNCHANGED catalog /\ UNCHANGED fileVars

(* Provisioning has run: what the service declares, it has created. *)
MayRegister(c) ==
  Disciplined => c.table \in DOMAIN catalog /\ Serves(catalog[c.table], c.decl)

RegisterTable(i, c) ==
  /\ MayRegister(c)
  /\ Prepared(c.decl)
  /\ ~ Conflicts(registry[i], c.table, c.decl)
  /\ meta' = [meta EXCEPT ![i] =
                Put(@, c.table, Register(registry[i], c.table, c.decl)[c.table])]
  /\ UNCHANGED <<catalog, registry>> /\ UNCHANGED fileVars

CreateTable(i, c) ==
  LET saved == Register(catalog, c.table, c.decl) IN
  /\ Prepared(c.decl)
  /\ ~ Conflicts(catalog, c.table, c.decl)
  /\ catalog' = saved
  /\ registry' = [registry EXCEPT ![i] = saved]
  /\ meta' = [meta EXCEPT ![i] = Put(@, c.table, saved[c.table])]
  /\ UNCHANGED fileVars

(* register() raises: the reloaded registry stays. *)
RefuseCreate(i, c) ==
  /\ Prepared(c.decl)
  /\ Conflicts(catalog, c.table, c.decl)
  /\ registry' = [registry EXCEPT ![i] = catalog]
  /\ UNCHANGED <<catalog, meta>> /\ UNCHANGED fileVars

-----------------------------------------------------------------------------
TableRows(input, entry) ==
  {[index |-> k, cells |-> TableRow(input, k, entry.schema)] :
      k \in RowNumbers(input, entry.schema)}

(* _append_records: a file in each directory that the rows have; without
   partition keys one file, of as many rows as there are. *)
NewFiles(t, input, entry) ==
  LET keys == entry.partition_by
      rows == TableRows(input, entry)
      used == IF keys = << >> THEN {<< >>} ELSE {DirOf(r.cells, keys) : r \in rows}
  IN
  {[table |-> t, dir |-> d, call |-> calls + 1, columns |-> DOMAIN entry.schema,
    whole |-> TRUE, rows |-> {r \in rows : DirOf(r.cells, keys) = d}] : d \in used}

(* A local file whose writer died before it wrote the footer: nothing can be
   read of it.  On S3 an object appears whole. *)
Torn(f) == [f EXCEPT !.whole = FALSE, !.columns = {}, !.rows = {}]

(* _fs_partition_dir *)
PathOf(cells, keys) ==
  [k \in DOMAIN keys |-> [key |-> keys[k], name |-> PathName[cells[keys[k]]]]]

(* Mutant: the directories to delete are named by the first key alone. *)
ReplacedPathsByFirst(input, entry, overwrite) ==
  IF overwrite /\ entry.partition_by # << >>
  THEN {SubSeq(PathOf(r.cells, entry.partition_by), 1, 1) : r \in TableRows(input, entry)}
  ELSE {}

(* The directories that _overwrite_partitions deletes, one for each combination
   of keys; overwrite says nothing to a table without partition keys. *)
ReplacedPaths(input, entry, overwrite) ==
  IF overwrite /\ entry.partition_by # << >>
  THEN {PathOf(r.cells, entry.partition_by) : r \in TableRows(input, entry)}
  ELSE {}

LiesUnder(x, t, paths) == x.table = t /\ \E p \in paths : IsPrefix(p, x.dir)

FilesIn(t, paths) == {f \in files : LiesUnder(f, t, paths)}

(* Mutant: the directories are emptied and left where they are. *)
DirsLeftEmptied(t, paths) == dirs

(* delete_dir of these paths, and of all that lies in them. *)
DirsLeft(t, paths) == {d \in dirs : ~ LiesUnder(d, t, paths)}

(* The directories of these files, and those above them. *)
DirsOf(some) ==
  UNION {{[table |-> f.table, dir |-> SubSeq(f.dir, 1, n)] : n \in 1..Len(f.dir)} :
            f \in some}

(* The instance knows the table and none of the checks raises. *)
MayWrite(i, t, input) ==
  /\ calls < MaxWrites
  /\ t \in DOMAIN meta[i]
  /\ Valid(input, meta[i][t].schema)
  /\ PartitionFieldsFilled(input, meta[i][t])

Write(i, t, input, overwrite) ==
  LET new   == NewFiles(t, input, meta[i][t])
      paths == ReplacedPaths(input, meta[i][t], overwrite)
  IN
  /\ MayWrite(i, t, input)
  /\ files' = (files \ FilesIn(t, paths)) \cup new
  /\ dirs' = DirsLeft(t, paths) \cup DirsOf(new)
  /\ calls' = calls + 1
  /\ UNCHANGED broken /\ UNCHANGED catalogVars

(* The write raises or its process dies: after deleting some directories and
   some files of one more; or after deleting all, and making some directories,
   with a file in some of those, and one without a footer in some others. *)
WriteFails(i, t, input, overwrite) ==
  LET new   == NewFiles(t, input, meta[i][t])
      paths == ReplacedPaths(input, meta[i][t], overwrite)
  IN
  /\ MayWrite(i, t, input)
  /\ \E cleared \in SUBSET paths, made \in SUBSET new :
       /\ made # {} => cleared = paths
       /\ \E half \in SUBSET FilesIn(t, paths \ cleared), stored \in SUBSET made :
          \E torn \in SUBSET (made \ stored) :
            /\ \A f, g \in half : f.dir = g.dir
            /\ files' = (files \ (FilesIn(t, cleared) \cup half))
                           \cup stored \cup {Torn(f) : f \in torn}
            /\ dirs' = DirsLeft(t, cleared) \cup DirsOf(made)
            /\ broken' = broken \cup DirsOf(half) \cup DirsOf(made \ stored)
  /\ calls' = calls + 1
  /\ UNCHANGED catalogVars

-----------------------------------------------------------------------------
Next ==
  \E i \in Instances :
    \/ Open(i)
    \/ \E c \in RegisterCalls : RegisterTable(i, c)
    \/ \E c \in CreateCalls : CreateTable(i, c) \/ RefuseCreate(i, c)
    \/ \E t \in Tables, input \in Inputs, overwrite \in BOOLEAN :
         Write(i, t, input, overwrite) \/ WriteFails(i, t, input, overwrite)

Spec == Init /\ [][Next]_vars

-----------------------------------------------------------------------------
(***************************************************************************)
(* Queries.  One reads files with the names of the columns of the first    *)
(* (read_parquet without union_by_name): a column it names and another file*)
(* lacks is an error, and no duckdb.IOException.  So is a file without a   *)
(* footer, which makes every query raise that has it in its glob.          *)
(***************************************************************************)
TableFiles(t) == {f \in files : f.table = t}

KeysOf(i, t) == IF t \in DOMAIN meta[i] THEN meta[i][t].partition_by ELSE << >>

Globbed(i, t, filters) ==
  {f \in TableFiles(t) : InGlob(filters, KeysOf(i, t), f.dir)}

FilterFields(filters) == {filters[k].field : k \in DOMAIN filters}

(* No writer died over any of these files. *)
Whole(some) == \A f \in some : f.whole

(* The query over these files, which names these columns, does not raise. *)
Answered(some, columns) ==
  Whole(some) /\ \A f \in some : columns \subseteq f.columns

(* The rows a WHERE clause selects from files, as <<call, index>>. *)
RowsWhere(some, where, params) ==
  UNION {{<<f.call, r.index>> : r \in {s \in f.rows : Holds(where, params, s.cells)}} :
            f \in some}

(* read(), bulk_read() and count(): glob, clause and parameters. *)
RowsRead(i, t, filters) ==
  LET sql == FiltersToSql(filters, << >>)
  IN  RowsWhere(Globbed(i, t, filters), sql.where, sql.params)

(* Mutant: the parameters of each side are numbered from 1. *)
JoinSqlApart(leftFilters, rightFilters) ==
  LET l == FiltersToSql(leftFilters, << >>)
      r == FiltersToSql(rightFilters, << >>)
  IN  [left |-> l.where, right |-> r.where, params |-> l.params \o r.params]

(* join(): two clauses, which number one list of parameters. *)
JoinSql(leftFilters, rightFilters) ==
  LET l == FiltersToSql(leftFilters, << >>)
      r == FiltersToSql(rightFilters, l.params)
  IN  [left |-> l.where, right |-> r.where, params |-> r.params]

(* The rows of its two sides. *)
JoinSides(i, left, right, leftFilters, rightFilters) ==
  LET sql == JoinSql(leftFilters, rightFilters) IN
  <<RowsWhere(Globbed(i, left, leftFilters), sql.left, sql.params),
    RowsWhere(Globbed(i, right, rightFilters), sql.right, sql.params)>>

(* distinct_values of the partition keys by SQL, as with filters={}. *)
DistinctBySql(t, keys) ==
  UNION {{[c \in Range(keys) |-> r.cells[c]] : r \in f.rows} : f \in TableFiles(t)}

(* What the walk makes of a directory that is as deep as the keys. *)
Parsed(dir, keys, schema) ==
  [c \in Range(keys) |->
     LET k == CHOOSE n \in DOMAIN keys : keys[n] = c
     IN  ParseName[schema[c].type][dir[k].name]]

(* _distinct_values_from_hive: distinct_values of the keys without filters. *)
DistinctFromHive(t, keys, schema) ==
  {Parsed(d.dir, keys, schema) :
     d \in {e \in dirs : /\ e.table = t
                         /\ DOMAIN e.dir = DOMAIN keys
                         /\ \A k \in DOMAIN keys : e.dir[k].key = keys[k]}}

-----------------------------------------------------------------------------
RowsOf(some) ==
  UNION {{[table |-> f.table, call |-> f.call, index |-> r.index, cells |-> r.cells] :
            r \in f.rows} : f \in some}

StoredRows == RowsOf(files)

(* The reference: the rows of a table that a filter dict stands for, where the
   columns a row was written without are NULL. *)
Matching(t, filters) ==
  {<<r.call, r.index>> : r \in {s \in StoredRows :
     s.table = t /\ Matches(filters, Padded(s.cells, catalog[t].schema))}}

TypeOK ==
  /\ DOMAIN catalog \subseteq Tables /\ \A t \in DOMAIN catalog : catalog[t] \in Entry
  /\ \A i \in Instances :
       /\ DOMAIN registry[i] \subseteq Tables
       /\ \A t \in DOMAIN registry[i] : registry[i][t] \in Entry
       /\ DOMAIN meta[i] \subseteq Tables
       /\ \A t \in DOMAIN meta[i] : meta[i][t] \in Entry
  /\ calls \in 0..MaxWrites
  /\ \A f \in files :
       /\ f.table \in Tables /\ f.call \in 1..calls /\ f.columns \subseteq Columns
       /\ \A r \in f.rows : DOMAIN r.cells = f.columns
       /\ f.whole \in BOOLEAN /\ (~ f.whole => f.rows = {})
  /\ broken \subseteq [table : Tables, dir : {d.dir : d \in dirs \cup broken}]

(* Rows written through the declarations of any instance, however old, and
   from lists, tables or DataFrames alike, are rows of the table as it is in
   the catalogue now ("pa.Table conforming to the schema", schema.py:147; the
   columns added since are NULL), in the directory its layout says. *)
StoredRowsConform ==
  \A f \in files :
    /\ f.table \in DOMAIN catalog
    /\ \A r \in f.rows :
         /\ Padded(r.cells, catalog[f.table].schema) \in Rows(catalog[f.table].schema)
         /\ f.dir = DirOf(r.cells, catalog[f.table].partition_by)

(* base.py:195-197: a query that is answered returns the rows its filters stand
   for, all of them and no other, through whatever declaration the instance
   has and whichever directories the glob leaves out ("relies on DuckDB's Hive
   partition pruning", duckdb_parquet.py:180-182). *)
FilteredReadsExact ==
  \A i \in Instances, t \in DOMAIN catalog, filters \in FilterDicts :
    Answered(Globbed(i, t, filters), FilterFields(filters))
      => RowsRead(i, t, filters) = Matching(t, filters)

(* base.py:291: a join is of the filtered rows of its two sides, although they
   share one list of numbered parameters (duckdb_parquet.py:608-610), in which
   every value has its placeholder. *)
JoinSidesExact ==
  \A t, u \in DOMAIN catalog, l, r \in FilterDicts :
    LET sql == JoinSql(l, r) IN
    /\ Bound(sql.left \cup sql.right, sql.params)
    /\ \A i \in Instances :
         Answered(Globbed(i, t, l), FilterFields(l)) /\ Answered(Globbed(i, u, r), FilterFields(r))
           => JoinSides(i, t, u, l, r) = <<Matching(t, l), Matching(u, r)>>

(* distinct_values says the same of the partition keys with filters=None, which
   walks the directories, and with filters={}, which asks DuckDB, whenever the
   query is answered; but for directories in which a write failed. *)
DistinctValuesAgree ==
  \A i \in Instances : \A t \in DOMAIN meta[i] :
    LET keys   == meta[i][t].partition_by
        schema == meta[i][t].schema
        walked == DistinctFromHive(t, keys, schema)
        asked  == DistinctBySql(t, keys)
    IN
    keys # << >> /\ Answered(TableFiles(t), {}) =>
      /\ asked \subseteq walked
      /\ \A w \in walked \ asked :
           \E d \in broken : d.table = t /\ Len(d.dir) = Len(keys)
                             /\ w = Parsed(d.dir, keys, schema)

(* The store implements what create_table and write promise: its files hold
   one row per record, an overwrite replaces the partitions of its records and
   no others, and a write that fails has lost or stored nothing else. *)
Abstract == INSTANCE TableStore WITH
  rows <- StoredRows, Declarations <- {c.decl : c \in CreateCalls \cup RegisterCalls}

ImplementsTableStore == Abstract!Spec

(* registry.py:157-159, "New columns must be nullable.  Existing Parquet
   partitions will return NULL": a declared column can be read from every
   file of the table.  A file written before it was added has none. *)
AddedColumnsReadNull ==
  \A i \in Instances : \A t \in DOMAIN meta[i] : \A columns \in Projections :
    ValidProjection(columns, meta[i][t].schema) /\ columns # NULL /\ Whole(TableFiles(t))
      => Answered(TableFiles(t), Range(columns))

=============================================================================
