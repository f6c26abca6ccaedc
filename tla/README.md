# amplify-db-utils in TLA+

`amplify-db-utils` is a small Python library that stores typed tables behind one
API, `ColumnarStore`, with two backends: Parquet files read by DuckDB
(`duckdb_parquet.py`, with a schema registry in one JSON file, `registry.py`) and
VAST DB (`vastdb_store.py`). It runs without a server of its own: services,
batch jobs and provisioning scripts each construct a store instance, and what
they share is a directory or a bucket. That is where it is hard to get right.
Nothing is locked, every operation is several storage calls long, and any
process may die between two of them.

This directory holds the specifications of both backends, the TLC configurations that
check them, and TLAPS proofs of every safety property that holds in the runs.
Paths like `registry.py:91` are relative to `src/amplify_db_utils/`.

## Inventory

| Component | State it keeps | Operations | Modelled by |
|---|---|---|---|
| Schema registry, `registry.py` | `_registry/tables.json`; the `_data` of an instance | load, save, check_compat, register | `SchemaRules`, `DuckRegistry` |
| DuckDB store, catalogue half, `duckdb_parquet.py:81-285` | `_registry` and `_table_meta` of each instance | constructor, register_table, create_table, list_tables | `DuckRegistry` (steps), `DuckStore` (calls) |
| DuckDB store, writing, `duckdb_parquet.py:287-375` | the Parquet files under `{root}/{table}` | write: append, overwrite | `DuckTable` (steps), `DuckStore` (calls) |
| DuckDB store, reading, `duckdb_parquet.py:377-499` | a DuckDB cursor per query | read, bulk_read, count | `DuckTable` (lazy reads), `DuckStore` (what a query selects) |
| DuckDB store, distinct_values and join, `duckdb_parquet.py:501-648` | none | Hive walk or query; join | `DuckStore`, `HiveRules` |
| Registry migration, `migrate.py` | the same `tables.json` | migrate_file, main | `DuckRegistry` (file protocol; not type strings) |
| VAST DB store, `vastdb_store.py` | tables of a server; `_table_meta`, `_server_schema_cache` | register, create, drop, write, read, count, distinct_values, join | `VastStore` (catalogue, writes), `VastQueries` (queries) |
| WORM deduplication, `vastdb_store.py:643-679` | none | dedup_by_written_at | `VastStore` |
| Record validation and projection, `schema.py` | none | validate_records, check_partition_fields, validate_projection | `RecordRules`, used by `DuckStore` |
| Filters, `filters.py`, `vastdb_store.py:41-75` | none | filter dict to SQL, to a VAST predicate, to a glob | `FilterRules`, `HiveRules` |
| Annotation types, `schema.py`, `_annotation_to_arrow` | none | Python type to Arrow type | not modelled |
| API, configuration, `base.py`, `config.py` | none | the contracts | `Catalog` (create_table), `TableStore` (create_table and write), `PartitionWrites` (write calls that overlap) |

**How they interact.** Every instance loads `tables.json` once, when it is
constructed. `register_table` compares a declaration with that snapshot and
changes `_table_meta` only. `create_table` loads the file again, compares,
changes `_registry`, and saves the whole file; `list_tables` loads it for itself.
`amplify-db-migrate` rewrites the file in place. `write` needs a declaration and
never looks at the registry; it validates the records against the declaration, creates
files with unique names in Hive directories, and an overwrite first deletes
directories whose names it spells itself. A reader chooses a glob by its own
declaration, lists files and then opens them one after the other while the
caller consumes rows. On VAST DB each call is a transaction, or, for a join, two.

**What is hard.** Read-modify-write of a shared file without a lock; truncation
before writing on a local disk, where S3 makes an object appear whole; errors
that are swallowed because they look like absence (a load that fails, a
`delete_dir` that fails, a file that has vanished); snapshots that go stale; lazy
queries beside overwrites; one directory name computed in two ways; files
of one table written under different declarations; a filter with three translations;
on VAST DB, two caches per process that nothing invalidates, timestamps taken before
the insert, and joins that are no snapshot. `PROJECT.json` lists each hazard at its line.

**What makes each component correct.**
- *Registry*: a created table is never lost, and its entry changes only so that
  rows already written stay readable; a declaration never reaches the file.
- *Instances*: what an instance believes and what is on disk keep a common ground,
  the entries it found when it was constructed.
- *Files of a table*: the rows of a returned write stay until their partition is
  replaced; an overwrite leaves its own rows and no others, a rerun after a crash
  included; whatever declaration a row was written by, it is a row of the
  catalogue's table, in the directory of its layout.
- *Queries*: a query that returns has every row that was there when it began,
  unless a partition it asked for was being replaced; it selects what its filters
  mean, whichever files the glob leaves out.
- *VAST store*: the declaration, the cached and the server's schema are compatible;
  a create_table that returned means a table that takes the declared rows; a
  join finds the payload of each index row.
- *Deduplication*: one row per key, the last one written.

## Modules

| Module | Role |
|---|---|
| `SchemaRules` | pure operators: `check_compat`, `register`, `_prepare_schema`, and `Serves`, the meaning of compatibility in terms of rows |
| `RecordRules` | pure operators: `validate_records`, `check_partition_fields`, `validate_projection` |
| `FilterRules` | pure operators: a filter dict as SQL with numbered parameters, as a VAST predicate, and `Matches`, what it means |
| `HiveRules` | pure operators: the directory of a row, and the directories in the glob of a query |
| `Catalog` | abstract specification: what `create_table` promises |
| `DuckRegistry` | the registry file, the instances, the migrator, step by step |
| `PartitionWrites` | abstract specification: what `write` promises callers that share a partitioned table |
| `DuckTable` | the Parquet files, write calls and lazy queries, step by step |
| `TableStore` | abstract specification: what `create_table` and `write` promise together |
| `DuckStore` | composition: catalogue, declarations, files with their columns and directories, queries |
| `VastStore` | the VAST DB server's tables, the instances' declarations and caches, writes, deduplication |
| `VastQueries` | bulk_read, count, distinct_values and two-transaction joins beside writers |
| `SchemaRulesProofs`, `FilterRulesProofs`, `DuckRegistryProofs`, `PartitionWritesProofs`, `DuckTableProofs`, `DuckStoreProofs`, `VastStoreProofs`, `VastQueriesProofs` | theorems and their proofs |
| `MCDuckRegistry`, `MCDuckTable`, `MCDuckStore`, `MCVastStore`, `MCVastQueries` | constant values for TLC |

### SchemaRules

A schema maps column names to `[type, nullable]`; an entry adds `partition_by`.
`Breaking(old, new)` is every `raise` of `check_compat`, `Changes` the value it
returns, `Register` what the registry then holds. These rules are syntactic. What
they are *for* is stated separately: `Serves(new, old)` says that every row of the
old schema, padded with NULL, is a row of the new one in the same layout.
The proofs and the runs use `Serves` and never the rules themselves, so an error in
the rules shows.

### RecordRules, FilterRules and HiveRules

An input of `write` is a list of dicts or a table with columns. `Valid` is every
check of `validate_records`, `TableRow` the row it makes of a record: unknown keys
dropped, missing columns NULL, structured values in text columns as JSON, values
cast. The casts that Arrow does are a constant. A list in which no record has a column
of the schema has no rows (`RowNumbers`), as in the code.

A filter dict is a sequence, because the order of insertion numbers the parameters.
`FiltersToSql` and `Holds` are the clause and its evaluation under SQL's NULL;
`Predicate` and `Passes` the same for VAST, with the early return of an empty list.
`Matches` is written from the documentation of `Filters` and shares nothing with either.

`DirOf` is the directory pyarrow makes of a row, `Under` the path the store
spells for its glob, and `InGlob` says which files a query opens.

### DuckRegistry

| Variable | Code |
|---|---|
| `file` | `tables.json`: absent, empty, garbled, legacy (`schema_fields`) or current, with its entries |
| `registry`, `meta` | `_registry._data` and `_table_meta` of each instance |
| `pc`, `call` | where an instance is inside `create_table`, and the arguments |
| `migrator` | a run of `amplify-db-migrate` |
| `opened`, `listed` | history: what a constructor loaded, what list_tables has answered |
| `alone`, `created` | history: the instances whose create_table no other rewriting of the file has overlapped, and the entries on which such calls have returned |

A step is what another process cannot see the inside of. `create_table` is
`BeginCreate` (load, check, register in memory) or `RefuseCreate` (it raises),
`OpenStream`, `WriteStream`, `CreateReturns`; `SaveFails` is an error of the
save, after which `_registry` is already changed; when the close raises, the file may
have been written too. `Exit` ends or kills the process
at any step. `Open` is the constructor; a load that raises leaves no instance and
changes nothing. `MigrateRead`, `MigrateOpen`, `MigrateWrite` and `MigrateDies` are
the migration; the legacy and the current file hold the same entries because it
carries `partition_by`, types and nullability over.

Storage: on a local disk `open_output_stream` truncates and the write follows, and
two writers can leave a garbled file; on S3 the object appears when its stream is
closed. `Loads` has the empty registry when the file is absent and, with
`ReadFaults`, at any time, because `load` catches every OSError: `pa.ArrowIOError`
is an alias of it.

`Serialized` is the discipline the documentation asks for ("call this from one
process"): one create_table or migration at a time. `register_table`, constructors
and `list_tables` run beside it, freely. `CreatedTablesPersist` and `ImplementsCatalog` do
not need it: without it creations overlap and lose one another's tables, which is why
`created` has the entries of those that nobody overlapped (`alone`).

### DuckTable and PartitionWrites

The rows of one write call in one partition are one file and one value, the number
of the call. `writer` is a `write()` in progress: `clearing` (delete each directory:
list, delete file by file, next) and then `appending` (create a file in each
partition; locally it is seen half written until it is closed). `pending` holds, per
cursor, the files that a query has listed and still has to read. `FileMissing` is
the `IOException` every read path swallows, `read` after the rows it has yielded and
`bulk_read` and `count` with none; `FileInvalid` is the half-written file,
which raises.

`DirName` and `PathName` are the two spellings of a partition directory: pyarrow's
when it writes, an f-string when the store deletes or prunes.

History: `owed` are rows of returned writes that no later call has begun to replace,
`due` those a query must return, `alone` the partitions of a call that no
other call overlapped. The documentation supports no concurrent writes; the model
has them, and the properties promise something only where calls do not collide:
appends never collide with one another, and calls on different partitions
never do.

`PartitionWrites` states that promise without files, directories, listings or faults.
It has the rows that a query finds and the calls at work, each with the partitions it
has to itself (`own`). A row appears as one of a call at work, once, and goes only from
a partition that a call at work replaces, before that call has stored any row. In its own
partitions a call stores nothing while something that it replaces is there, and it
returns when all its rows are; it may fail at any time. `DuckTable` maps to it by
`StoredRows`, the rows in files that are whole, and `CallsAtWork`.

### DuckStore and TableStore

| Variable | Code |
|---|---|
| `catalog` | the contents of `tables.json` |
| `registry`, `meta` | `_registry._data` and `_table_meta` of each instance |
| `files` | the Parquet files: table, directory, write call, columns they were written with, rows, and whether they have a footer (`whole`) |
| `dirs` | the Hive directories, with or without files: what `_distinct_values_from_hive` walks |
| `calls`, `broken` | write calls that had an effect; history: directories in which one failed |

Here each call is one step: its interleavings are those of the two modules before.
What this one adds is what a write makes of the records, under the declaration of
the instance that has it, in files that other instances wrote by other
declarations. `Write` is the whole call, validation, layout, deletion of the
replaced directories and append; `WriteFails` leaves any part of that work that
the order of the code allows, and a local file without a footer where its writer died
(`Torn`). Such a file makes every query raise that has it in its glob: `Answered` says
of a query that it has no such file and that no file lacks a column it names, and the
properties of queries are about those that are answered. `RowsRead`, `JoinSides`, `DistinctBySql` and
`DistinctFromHive` are the queries, evaluated in each state by the invariants.

`Disciplined` is the order that the documentation asks of services: declare what
provisioning has created. It restrains `register_table`, nothing else.

`TableStore` has no files, directories or instances: a catalogue whose entries grow,
and a set of rows. Its `RowOf` says what a record denotes without the checks and
the detours of `schema.py`; a write adds one row per record, an overwrite replaces
the rows with the same partition values, and a write that fails has stored nothing
until everything that it replaces is gone.

### VastStore

| Variable | Code |
|---|---|
| `server` | the tables of the server: schema and rows |
| `meta`, `cache` | `_table_meta` and `_server_schema_cache` of each instance |
| `pc`, `work` | the create_table or write call in progress |
| `clock` | the time; a tick for each write call that ends, so that calls that overlap may read the same time and calls that do not cannot |
| `calls`, `ended`, `acked`, `provisioned`, `accepted` | history |

`create_table` is one transaction: `FindTable` or `MakeTable` reads the tables and
fills the cache, inside the `with` block as in the code; the commit is a step of its
own (`CreateReturns`, or `CommitFails`, which may have been carried out all the same). `write`
reads the clock and then inserts; the insert may be rejected for a column the
server lacks, may fail after it was carried out, or die with its process. `LookUp`
is `_server_schema`. The drop helpers (which may raise after their commit was carried
out, and then leave declaration and cache) are for teardown, and are taken only by an
instance that is alone. Schemas are normalized as `_normalize_for_vastdb` does: every field nullable,
types mapped by `StoredType`, and `written_at` added. `RankedFirst` is
`dedup_by_written_at`: the rows of a key that may come first, ties and NULLs (which
come last) included.

### VastQueries

The tables are those of the example in `join`'s docstring: an index and the payload it
leads to. A client stores the payload of an item and then its index row, each a
transaction that may fail, having been carried out or not, and may take up an
item again, so that rows are duplicated. A reader's join reads its left side
(`JoinFirst`) and later its right (`JoinSecond`). The three other queries are one
transaction each, and so are operators: `BulkRead`, `Count` (by the table's
metadata when there are no filters) and `DistinctValues`.

## Runs

| Run | States | What it shows |
|---|---|---|
| `registry_local` | 305 000 | Local disk, a legacy file, crashes at each step, failed saves, one provisioner at a time. `CreatedTablesPersist`: whatever still parses has every created table, under an entry that serves its rows. `OpenedTablesAgree`: `_table_meta` and the file both serve what the constructor found, however stale the snapshot. `OnlyCreatesPersist`: nothing an instance merely registered reaches the file. `ListedTablesStay`: answers of `list_tables` never shrink. `ImplementsCatalog`: refinement of `Catalog`. |
| `registry_races` | 341 000 | Three provisioners that race on S3, with crashes and failed saves; the file always loads there. Of creations that overlap some are lost, and `CreatedTablesPersist` says that nothing else is: a table whose creation nobody overlapped stays, under an entry that serves its rows. `ImplementsCatalog`: these creations, whatever races come between them, refine `Catalog`. |
| `registry_heals` | 17 000 | No crash and no fault: the file is unreadable only while it is rewritten (`UnreadableOnlyMidSave`), and a truncated file is written in the end (`TruncationHeals`, under fairness). |
| `table_writes` | 97 000 | Two writers, three calls, appends, overwrites, crashes. `ReturnedRowsStay`; `OverwriteReplaces`, which includes the rerun of an overwrite that died half way. `ImplementsPartitionWrites`: refinement of `PartitionWrites`. |
| `table_reads` | 332 000 | Two lazy readers beside a writer, deletions may fail: `ReadsAreComplete`, for `read`, which ends after the rows it has yielded, as for `bulk_read` and `count`, which drop them. |
| `duck_store` | 6 600 | Two instances that declare, extend, write, overwrite and fail, also over a file without a footer. `StoredRowsConform`: each row is a row of the catalogue's table in the directory of its layout. `FilteredReadsExact`: each of eleven filter dicts, through SQL and glob, selects what it means, for any instance's declaration. `JoinSidesExact`: so do two of them in one parameter list, which has a placeholder for each value. `DistinctValuesAgree`: the walk over directories and the query say the same whenever the query is answered. `ImplementsTableStore`: refinement of `TableStore`. |
| `vast_store` | 372 000 | Two instances of the VAST store, three write calls, crashes, failing commits and inserts, teardown. `ProvisionedCachesAgree` and `ProvisionedAgree`: after create_table has returned, cache and declaration agree with the server, whatever others do. `AckedRowsStay`. `DedupKeepsLatest`: never a row of a call that had ended when a stored one began. `RerunAccepted`: a create_table that once returned is never refused later. |
| `vast_queries` | 80 000 | Two clients that store, fail and retry beside a join. `JoinBounded`: at least the pairs of its start, at most those of the server. `IndexedPayloadsFound`: no index row without its payload. `QueriesExact`: bulk_read, count and distinct_values against the meaning of six filter dicts. |
| `finding_read_fault` | | *violated*: one failing load, taken for "no registry", and the next create_table drops every other table. |
| `finding_short` | | *violated*: overwriting one partition silently ends a query over others. |
| `finding_names` | | *violated*: boolean partition keys are written under `flag=true` and deleted under `flag=True`; the overwrite appends. |
| `finding_columns` | | *violated*: after create_table has added a column, a query that names it raises over a file written before ("Existing Parquet files return NULL", `registry.py:153-159`). |

More disagreements are visible in the models and have no run of their own.

*Registry and catalogue*
- `list_tables` is documented as safe to call concurrently (`base.py:149`), and raises while
  a local file is truncated: `listed.ok` is FALSE after `ListTables` between `OpenStream`
  and `WriteStream`.
- `create_table` is "safe to re-run" (`base.py:95`), but a crash between truncation and
  write leaves a local file that no rerun can load (`LoadRaises`). A legacy file is
  refused by design, until it is migrated.
- The README's "a declaration that conflicts with the on-disk registry raises rather
  than silently diverging" holds only against the registry loaded at construction:
  `RegisterTable` compares with `registry[i]`, so an instance that was open before
  the table was created may declare, and write, another layout.
- `check_compat` returns False, "matches the existing entry" (`registry.py:108`), when
  a declaration widens nullability and adds no column, so create_table returns and
  records nothing: see `Changes`.
- The legacy migration cannot parse the list types that `_annotation_to_arrow` produces.

*Writing*
- Any OSError of `delete_dir` is taken for an absent partition
  (`duckdb_parquet.py:371`): `OverwriteReplaces` fails with `DeleteFaults = TRUE`.
- Writes to an unpartitioned table bypass the store's filesystem
  (`duckdb_parquet.py:338-342`): on an `s3://` root nothing reaches the bucket, and
  `ReturnedRowsStay` fails with `Partitioned = FALSE`, `Local = FALSE`. An
  `overwrite=True` on such a table appends.
- "A write to a table that was never created fails at write time" (`base.py:65-67`): on
  DuckDB it succeeds, and `StoredRowsConform` fails with `Disciplined = FALSE`.
- Records of which none has a column of the schema are dropped without an error when every
  column is nullable (`schema.py:158-161`): see `RowNumbers`.

*Reading*
- An equality filter is spelled by an f-string in the glob, so `2024.0` for a key
  stored as `2024`, or a value that pyarrow percent-encodes, finds nothing:
  `FilteredReadsExact` needs `SpellingsAgree`.
- `distinct_values` without filters returns percent-encoded directory names as they are.
- `bulk_read` of an undeclared table raises KeyError when there are no files, where
  `read` returns nothing.
- Unknown operators in a filter dict are ignored by both backends, an equality with None
  means what each engine makes of it, and `select="both"` in a join lets columns
  of one side overwrite those of the other.

*VAST DB*
- `_server_schema_cache` is "schema as the server actually holds it"
  (`vastdb_store.py:147`), but is filled before the transaction commits (line 315): when the
  commit fails it holds a table that may not exist.
- create_table never compares `partition_by`, which `base.py:97-99` says it
  does: see `FindTable`. It also refuses a declaration that lacks columns of the
  table, which the comment at `vastdb_store.py:173-177` says it allows: see `Incompatible`.
- Instances with different `add_written_at` refuse each other's create_table:
  `RerunAccepted` needs one setting.

**Bounds.** Two instances and two tables in `DuckRegistry`: a lost update needs two
processes and a table besides the one being created; a stale snapshot needs a reader and a
provisioner. `registry_races` has three instances, because what is lost when two race may
be what a third is about to extend; nobody registers there, so no guard and no property of
the run reads `_table_meta`, the snapshots or the listings, and `RacesView` leaves them out
of the fingerprint. Migrations work on local paths and are not in that run; that they race
with `create_table` is covered by the proofs. Three columns, two types, and declarations that differ by exactly one
rule each (an added nullable column, other keys, another type, a key that is no
column); `registry_heals` uses fewer. Values: one per type, enough to tell types
apart. `DuckTable`: two partitions (the one
replaced and another) and `MaxWrites` calls, 3 where crash, rerun and a rival
meet, 2 beside two readers. `DuckStore`: one table, because tables share no
directory and no entry; two partition keys, because prefixes of directories and
combinations of keys need two; three declarations (base, with a column more, of
another layout); two write calls, the one that leaves something and the one that meets
it; and inputs of both kinds, among them each of the ways in which validation
refuses, fills, drops, casts and encodes. The filter dicts have each operator, the
empty list, dict and range, NULL cells, a column that some files lack, and equality on
none, some and all of the keys. `VastStore`: one table, because tables do not
interact there, three declarations (two spellings of a type, an added column, a
changed type) and 3 write calls: a failed one, its retry, and a rival. `VastQueries`: two
items, told apart by every filter, and four inserts: two items, or one and its
retry. Instances, writers and readers are symmetric;
symmetry is not used in the run with a liveness property. `CHECK_DEADLOCK FALSE`
stands in the `DuckTable` runs, which stop when their calls are used up. The proofs
have none of these bounds.

**Fairness.** `FairSpec` has weak fairness of `CreateStep(i)` and of the
migrator's steps: straight-line code that waits for nothing, so a process that is
neither killed nor failing goes on. Nothing is assumed of clients, who may never call
again, and nothing of crashes. Safety runs use no fairness. No other module has a
liveness property: their calls wait for nobody, and the code retries nothing.

## Proofs

For every set of columns, types, values, instances, tables, files and calls that meets
the assumptions named in the modules. A theorem without a hypothesis below holds of every
deployment, with every race, crash and fault of the model.

**Rules.** `CompatibleServes` (what `check_compat` accepts serves
the old rows) and `RegisterServes` (what `register` does to a registry), on
`ServesReflexive` and `ServesTransitive`. `ServesCompatible` is the converse: what
serves every row is accepted, so the rules refuse nothing needlessly. It needs `TypesApart`:
no two types have the same values, or else another type would serve as well.
`PredicateAgrees`: a VAST predicate passes exactly the rows its filters mean.
`SqlAgrees` says that of the WHERE clause, for every list of filters, whatever `params`
holds already and whatever is appended to it later. It is an induction over the turns of
the loop in `filters_to_sql`: `TurnsAgree` takes the first turn after which the claim
fails (`LeastNatural`, from the well-foundedness of the naturals) and `TurnMeets`, one
turn, refutes it. The claim of a turn has to speak of every continuation of `params`,
because later turns, and the other side of a join, append to the same list.

**DuckRegistry.** `Disciplined == Serialized /\ ~ReadFaults`; crashes and failed
saves are allowed, on either storage.
- `TypeCorrect` needs `CallInv`: an instance in the
  middle of a save has a well-formed call whose table its registry holds.
- `OnlyCreates`: a file entry comes from an instance's `registry` or from the
  migrator, so `DeclaredInv` says the same of those two.
- `CreatedPersist` (loads do not fail; provisioners and migrations race as they like). The
  property is about readable files and so is not inductive: between truncation and write
  the tables exist in the memory of the writers only. `PersistInv` says that what any
  writer is about to write, or a migration is about to write back, keeps every created table
  (`Keeps`), and `AloneInv` that an instance that is alone is the only writer, and that
  what it has written is in the file: so when its call returns, every memory that will
  ever be written has its table. `ServesTransitive` carries it over the steps that
  extend an entry.
- `CatalogImplemented` (loads do not fail), by the same invariant: only `CreateReturns`
  moves the catalogue, and the entry it returns on serves the one before.
- `OpenedAgree` and `ListingsGrow` (Disciplined, so that there is at most one writer,
  `OneWriter`): what is about to be written follows
  what is in the file (`FollowInv`), so the file and every memory keep following
  what a constructor loaded (`OpenedInv`) and what was listed (`ListedInv`).
- `UnreadableMidSave` (Disciplined, no crash, no failing save).

Loads that fail are what `finding_read_fault` is about: it refutes `CreatedTablesPersist`.
That creations which overlap lose each other's tables is no theorem but a fact: let
`created` take the entries of all calls that return, and `registry_races` fails.

**DuckTable.** `Sound` says that the two spellings of a directory agree
(`finding_names` without it) and that the table is not an unpartitioned one on S3.
`TypeCorrect` needs no hypothesis. `ReturnedStay` (Sound) rests on `TableInv`: a
call deletes what it has listed in directories that are its own to replace
(`WriterInv`), files are told apart by partition and call (`FilesInv`), a call that
is alone in a partition is not replaced by another (`AloneInv`), has a file in each
partition it is done with (`CreatedInv`), and what is owed no call at work
replaces (`OwedInv`). `OverwritesDone` (Sound, partitioned, deletions do not fail) adds
`ClearedInv`: what earlier calls stored is still to be cleared. `WritesImplemented`, under the
same hypotheses, is the refinement of `PartitionWrites`, one lemma per action. Beginning,
returning and failing map to the steps of that name, a deletion to `Remove` or to a
stutter, since another call may have deleted the file first. A row is stored when its
file is whole: by `CreateFile` on S3, by `CloseFile` on a local disk. Besides `TableInv`
and `ClearedInv` it needs `FreshInv`: what a call has still to create is not there, so
no file takes the place of another and a call that is clearing has stored nothing.
That `PartitionWrites` promises enough is a theorem about it alone: `OwedStay`, for any
number of callers and calls, from `OwnInv`, no call replaces what another has to itself.
`ReadsComplete` (Sound) adds `QuietInv`: what is due to an undisturbed query has been
read or is in a file that it has listed and that is there.

**DuckStore.**
- `TypeCorrect`, in every deployment.
- `RowsConform` (`Disciplined`): `ConformInv` says that every declaration in any
  memory is served by the catalogue (`BackedInv`) and every file was written by
  one that is (`FilesInv`), which `ServesTransitive` preserves as the catalogue grows.
- `PruningKeepsMatches` (`Disciplined`, `SpellingsAgree`): the glob leaves out no
  file with a row that the filters select.
- `ReadsExact` and `JoinsExact` (`Disciplined`, `SpellingsAgree`): an answered query, and
  each side of a join, has exactly the rows its filters mean. `QueryExact` puts together
  three facts that fail separately: pruning loses nothing (`PruningKeepsMatches`), a
  file that lacks no column the query names answers as its padded rows do
  (`PaddingMatches`), and the clause means the filters (`SqlAgrees`).
- `DistinctAgree` (`Disciplined`, `TypesApart`, `NamesParsed`). `DirsInv`: each whole file has
  rows, the directory of each file exists, and each directory at the depth of its
  table's keys has a file or is one in which a write failed, because what is
  deleted takes its directories along. `NamesParsed` says that the name of a value is parsed back
  to it, under the type of the key, and is where percent-encoding would come in.
- `StoreImplemented` (`Disciplined`, `PlainInputs`, `KeysSpelled`): the refinement of
  `TableStore`. `PlainInputs` leaves out the lists without a column of the schema, whose
  records are dropped; `KeysSpelled` the keys whose two spellings differ. Without them
  the store does not implement its contract.

**VastStore.** `TypeCorrect`; the clock, which the calls that end move, stays in its bound.
With `Serialized`: `CachesAgree`, `DeclarationsAgree` and `AckedStay`, from `MakesInv`
(the one create_table in its transaction still finds the server as it read it) and
`KnownInv` (what is provisioned is on the server, in the cache and declared alike), and
`RerunsAccepted`, also with one setting of `add_written_at` (`SameSetting`), because
a prepared schema is normalized already. `DedupLatest`, with `written_at` added by
every instance and no other hypothesis: `StampInv` says, of stored rows and of rows
being inserted, that the stamp of a call that has ended is in the past and that a row of a
call that had ended when another began has the smaller stamp.

**VastQueries.** `QueriesAnswered`, `TypeCorrect`, `JoinsBounded` and `PayloadsFound`: the
server only grows, and an index row has its payload before it.

Only model-checked: `TruncationHeals`, because liveness is out of the prover's reach.
The hypotheses on constants above (`SpellingsAgree`, `KeysSpelled`, `PlainInputs`,
`TypesApart`, `NamesParsed`) are about pyarrow's spelling of values and about inputs, not about
what the store does; the constants of `duck_store` satisfy all of them.

## Not modelled, and why

- Formatting and wording: JSON layout, error texts, SQL text, the `select=` column lists of
  a join. Nothing a model checker reaches depends on them.
- `_annotation_to_arrow`, the type strings of the migration and its command line:
  tables of names. The numeric detail of casts is Arrow's and a constant here.
- DuckDB's detection of the types of Hive directories: a string key whose values
  look like numbers comes back as numbers. The models take a partition value to come
  back as it was written.
- A registry file that was edited by hand, and files put under a table's root by others.
- Clocks that differ between hosts: `VastStore` has one clock, and `DedupKeepsLatest`
  promises nothing without it.
- A service that adds a column by `register_table` alone, which the code allows: its rows
  have a column that the catalogue lacks, so they are no rows of the catalogue's table, and
  `Disciplined` leaves such declarations out of `DuckStore`. `DuckRegistry` and its theorems allow them.
- In `DuckStore`, that an unpartitioned table on `s3://` is written to the local machine:
  `DuckTable` has it.
- Concurrent `create_table` calls on VAST DB, which the documentation excludes: the drops
  and the creates of the model are serialized in the run, though `TypeCorrect` and
  `DedupLatest` hold without that.
- External code (pyarrow's writer and filesystems, DuckDB's reader, the VAST server) is
  modelled by what the store relies on and marked external in `PROJECT.json`.

## What is open

The plan of this project has been carried out. What would extend it: the same
refinement of `TableStore` itself by the steps of `DuckTable` (many steps implementing
one `Write`, which needs a prophecy of whether the call will fail; `PartitionWrites`
promises less of a call that is under way, and needs none), and clocks with bounded
skew in `VastStore`.
