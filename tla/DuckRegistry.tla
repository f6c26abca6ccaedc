---------------------------- MODULE DuckRegistry ----------------------------
(***************************************************************************)
(* The schema registry of the DuckDB+Parquet backend: the shared file      *)
(* {root}/_registry/tables.json (registry.py), the store instances that    *)
(* load, declare and create tables (duckdb_parquet.py), and the            *)
(* amplify-db-migrate script that rewrites a legacy file (migrate.py).     *)
(*                                                                         *)
(* Instances run in different processes.  One step is what no other        *)
(* process can see the inside of: a load, the truncation of the file by    *)
(* open_output_stream, its write, or work on an instance's own memory.     *)
(***************************************************************************)
EXTENDS SchemaRules

CONSTANTS Instances, Tables,
          CreateCalls,    \* [table, decl]: the create_table calls clients make
          RegisterCalls,  \* [table, decl]: the register_table calls clients make
          LegacyFiles     \* contents an older version may have left behind

(* The deployment and what may go wrong in it. *)
CONSTANTS Local,          \* root is a directory; otherwise an s3:// bucket
          Serialized,     \* the documented discipline: one provisioner at a time;
                  \* otherwise create_table calls and a migration may race
          CanCrash,       \* a process may die at any step
          ReadFaults,     \* opening or reading the file may fail with an OSError
          WriteFaults     \* opening or writing the file may fail

Calls    == [table : Tables, decl : Entry]

(* f maps the names of some tables to their entries: what a registry holds. *)
IsRegistry(f) ==
  /\ f = [t \in DOMAIN f |-> f[t]]
  /\ DOMAIN f \subseteq Tables
  /\ \A t \in DOMAIN f : f[t] \in Entry

ASSUME CallsAssumption ==
  \A c \in CreateCalls \cup RegisterCalls : c \in Calls

(* An older version's file holds what its create_table calls declared. *)
ASSUME LegacyAssumption ==
  \A f \in LegacyFiles :
    /\ IsRegistry(f)
    /\ \A t \in DOMAIN f :
          [table |-> t, decl |-> f[t]] \in CreateCalls /\ Prepared(f[t])

ASSUME DeploymentAssumption ==
  {Local, Serialized, CanCrash, ReadFaults, WriteFaults} \subseteq BOOLEAN

NoTables == [t \in {} |-> t]
NoCall   == [table |-> NULL, decl |-> NULL]

VARIABLES
  file,      \* tables.json: its state and, when it parses, its entries
  pc,        \* where each instance is in its life, or in create_table
  registry,  \* _registry of each instance
  meta,      \* _table_meta of each instance
  call,      \* arguments of the create_table call in progress
  migrator,  \* a run of amplify-db-migrate
  opened,    \* history: what each instance's constructor loaded
  alone,     \* history: instances whose create_table nobody has overlapped
  created,   \* history: the entry of the last such create_table to return
  listed     \* history: what callers of list_tables have been told

fileVars     == <<file, migrator>>
instanceVars == <<pc, registry, meta, call, opened>>
vars == <<file, pc, registry, meta, call, migrator, opened, alone, created, listed>>

-----------------------------------------------------------------------------
(***************************************************************************)
(* The file.  On a local disk open_output_stream truncates and the write   *)
(* follows; on S3 the object appears when the stream is closed.  A local   *)
(* write into a file another process has written since this one truncated  *)
(* it leaves the new bytes, or the new bytes before the longer one's tail. *)
(***************************************************************************)
File(state, tables) == [state |-> state, tables |-> tables]

Absent   == File("absent", NoTables)
Empty    == File("empty", NoTables)
Garbled  == File("garbled", NoTables)
Current(tables) == File("current", tables)
Legacy(tables)  == File("legacy", tables)

Truncated == IF Local THEN Empty ELSE file

Written(tables) ==
  {Current(tables)} \cup (IF Local /\ file # Empty THEN {Garbled} ELSE {})

(* A writer stops: one that was about to write may have written a part. *)
Abandoned(at) == {file} \cup (IF Local /\ at = "writing" THEN {Garbled} ELSE {})

(* SchemaRegistry.load: no file is an empty registry, and so is any OSError;
   an empty or garbled file is a JSONDecodeError, a legacy one a ValueError. *)
Loads ==
  (IF file.state \in {"absent", "current"} THEN {file.tables} ELSE {})
    \cup (IF ReadFaults THEN {NoTables} ELSE {})

LoadRaises == file.state \in {"empty", "garbled", "legacy"}

(* _registry/tables.json is not being rewritten by anyone. *)
NobodyWrites ==
  /\ \A i \in Instances : pc[i] \in {"closed", "ready"}
  /\ migrator.pc = "idle"

MayProvision == Serialized => NobodyWrites

(* Who is alone when an instance begins a create_table: it, if nobody else is
   rewriting the file; and nobody that it overlaps. *)
AloneIfFirst(i) == IF NobodyWrites THEN {i} ELSE {}

-----------------------------------------------------------------------------
Init ==
  /\ file \in {Absent} \cup {Legacy(f) : f \in LegacyFiles}
  /\ pc = [i \in Instances |-> "closed"]
  /\ registry = [i \in Instances |-> NoTables]
  /\ meta = [i \in Instances |-> NoTables]
  /\ call = [i \in Instances |-> NoCall]
  /\ migrator = [pc |-> "idle", tables |-> NoTables]
  /\ opened = [i \in Instances |-> NoTables]
  /\ alone = {}
  /\ created = file.tables
  /\ listed = [ok |-> TRUE, names |-> {}]

(* DuckDBParquetStore.__init__; when the load raises there is no instance. *)
Open(i) ==
  /\ pc[i] = "closed"
  /\ \E loaded \in Loads :
       /\ registry' = [registry EXCEPT ![i] = loaded]
       /\ meta' = [meta EXCEPT ![i] = loaded]
       /\ opened' = [opened EXCEPT ![i] = loaded]
  /\ pc' = [pc EXCEPT ![i] = "ready"]
  /\ UNCHANGED <<call, alone, created, listed>> /\ UNCHANGED fileVars

(* The process of an instance ends: by itself, or killed at any step. *)
Exit(i) ==
  /\ pc[i] # "closed"
  /\ pc[i] = "ready" \/ CanCrash
  /\ file' \in Abandoned(pc[i])
  /\ pc' = [pc EXCEPT ![i] = "closed"]
  /\ registry' = [registry EXCEPT ![i] = NoTables]
  /\ meta' = [meta EXCEPT ![i] = NoTables]
  /\ opened' = [opened EXCEPT ![i] = NoTables]
  /\ call' = [call EXCEPT ![i] = NoCall]
  /\ alone' = alone \ {i}
  /\ UNCHANGED <<migrator, created, listed>>

(* register_table: only _table_meta changes, and a declaration that adds
   nothing to the loaded entry leaves that entry in place. *)
RegisterTable(i, c) ==
  /\ pc[i] = "ready"
  /\ Prepared(c.decl)
  /\ ~ Conflicts(registry[i], c.table, c.decl)
  /\ meta' = [meta EXCEPT ![i] =
                Put(meta[i], c.table, Register(registry[i], c.table, c.decl)[c.table])]
  /\ UNCHANGED <<pc, registry, call, opened, alone, created, listed>>
  /\ UNCHANGED fileVars

-----------------------------------------------------------------------------
(***************************************************************************)
(* create_table: load; register, which may raise; open the file; write it; *)
(* then _table_meta follows _registry and the call returns.                *)
(***************************************************************************)
(* Mutant: create_table trusts the registry loaded at construction. *)
BeginCreateStale(i, c) ==
  /\ pc[i] = "ready"
  /\ MayProvision
  /\ Prepared(c.decl)
  /\ ~ Conflicts(registry[i], c.table, c.decl)
  /\ registry' = [registry EXCEPT ![i] = Register(registry[i], c.table, c.decl)]
  /\ call' = [call EXCEPT ![i] = c]
  /\ pc' = [pc EXCEPT ![i] = "saving"]
  /\ alone' = AloneIfFirst(i)
  /\ UNCHANGED <<meta, opened, created, listed>> /\ UNCHANGED fileVars

(* Mutant: create_table extends, and saves, what the instance has declared. *)
BeginCreateFromMeta(i, c) ==
  /\ pc[i] = "ready"
  /\ MayProvision
  /\ Prepared(c.decl)
  /\ ~ Conflicts(meta[i], c.table, c.decl)
  /\ registry' = [registry EXCEPT ![i] = Register(meta[i], c.table, c.decl)]
  /\ call' = [call EXCEPT ![i] = c]
  /\ pc' = [pc EXCEPT ![i] = "saving"]
  /\ alone' = AloneIfFirst(i)
  /\ UNCHANGED <<meta, opened, created, listed>> /\ UNCHANGED fileVars

BeginCreate(i, c) ==
  /\ pc[i] = "ready"
  /\ MayProvision
  /\ Prepared(c.decl)
  /\ \E loaded \in Loads :
       /\ ~ Conflicts(loaded, c.table, c.decl)
       /\ registry' = [registry EXCEPT ![i] = Register(loaded, c.table, c.decl)]
  /\ call' = [call EXCEPT ![i] = c]
  /\ pc' = [pc EXCEPT ![i] = "saving"]
  /\ alone' = AloneIfFirst(i)
  /\ UNCHANGED <<meta, opened, created, listed>> /\ UNCHANGED fileVars

(* register() raises: the reloaded registry stays, the rest is untouched. *)
RefuseCreate(i, c) ==
  /\ pc[i] = "ready"
  /\ MayProvision
  /\ Prepared(c.decl)
  /\ \E loaded \in Loads :
       /\ Conflicts(loaded, c.table, c.decl)
       /\ registry' = [registry EXCEPT ![i] = loaded]
  /\ UNCHANGED <<pc, meta, call, opened, alone, created, listed>>
  /\ UNCHANGED fileVars

OpenStream(i) ==
  /\ pc[i] = "saving"
  /\ file' = Truncated
  /\ pc' = [pc EXCEPT ![i] = "writing"]
  /\ UNCHANGED <<registry, meta, call, migrator, opened, alone, created, listed>>

(* Mutant: the stream is dropped without being written. *)
WriteForgotten(i) ==
  /\ pc[i] = "writing"
  /\ pc' = [pc EXCEPT ![i] = "written"]
  /\ UNCHANGED <<file, registry, meta, call, migrator, opened, alone, created, listed>>

WriteStream(i) ==
  /\ pc[i] = "writing"
  /\ file' \in Written(registry[i])
  /\ pc' = [pc EXCEPT ![i] = "written"]
  /\ UNCHANGED <<registry, meta, call, migrator, opened, alone, created, listed>>

(* save() raises: create_table is abandoned with _registry already changed.
   When it is the close that raises, the file may have been written. *)
SaveFails(i) ==
  /\ WriteFaults
  /\ pc[i] \in {"saving", "writing", "written"}
  /\ file' \in Abandoned(pc[i])
  /\ pc' = [pc EXCEPT ![i] = "ready"]
  /\ call' = [call EXCEPT ![i] = NoCall]
  /\ alone' = alone \ {i}
  /\ UNCHANGED <<registry, meta, migrator, opened, created, listed>>

CreateReturns(i) ==
  /\ pc[i] = "written"
  /\ LET t == call[i].table IN
       /\ meta' = [meta EXCEPT ![i] = Put(meta[i], t, registry[i][t])]
       /\ created' = IF i \in alone THEN Put(created, t, registry[i][t]) ELSE created
  /\ alone' = alone \ {i}
  /\ call' = [call EXCEPT ![i] = NoCall]
  /\ pc' = [pc EXCEPT ![i] = "ready"]
  /\ UNCHANGED <<registry, opened, listed>> /\ UNCHANGED fileVars

-----------------------------------------------------------------------------
(* list_tables, from any thread of any process: a load of its own. *)
ListTables ==
  /\ \/ \E loaded \in Loads : listed' = [ok |-> TRUE, names |-> DOMAIN loaded]
     \/ LoadRaises /\ listed' = [listed EXCEPT !.ok = FALSE]
  /\ UNCHANGED <<alone, created>> /\ UNCHANGED fileVars /\ UNCHANGED instanceVars

(* Mutant: the migration loses partition_by. *)
MigrateReadUnkeyed ==
  /\ Local
  /\ migrator.pc = "idle"
  /\ MayProvision
  /\ file.state \in {"legacy", "current"}
  /\ migrator' = [pc |-> "saving",
                  tables |-> [t \in DOMAIN file.tables |-> file.tables[t].schema]]
  /\ alone' = {}
  /\ UNCHANGED <<file, created, listed>> /\ UNCHANGED instanceVars

(* migrate_file: every entry is converted in memory before one write_text,
   which truncates and then writes; a local path only. *)
MigrateRead ==
  /\ Local
  /\ migrator.pc = "idle"
  /\ MayProvision
  /\ file.state \in {"legacy", "current"}
  /\ migrator' = [pc |-> "saving", tables |-> file.tables]
  /\ alone' = {}
  /\ UNCHANGED <<file, created, listed>> /\ UNCHANGED instanceVars

MigrateOpen ==
  /\ migrator.pc = "saving"
  /\ file' = Truncated
  /\ migrator' = [migrator EXCEPT !.pc = "writing"]
  /\ UNCHANGED <<alone, created, listed>> /\ UNCHANGED instanceVars

MigrateWrite ==
  /\ migrator.pc = "writing"
  /\ file' \in Written(migrator.tables)
  /\ migrator' = [pc |-> "idle", tables |-> NoTables]
  /\ UNCHANGED <<alone, created, listed>> /\ UNCHANGED instanceVars

MigrateDies ==
  /\ CanCrash \/ WriteFaults
  /\ migrator.pc # "idle"
  /\ file' \in Abandoned(migrator.pc)
  /\ migrator' = [pc |-> "idle", tables |-> NoTables]
  /\ UNCHANGED <<alone, created, listed>> /\ UNCHANGED instanceVars

Migrate == MigrateRead \/ MigrateOpen \/ MigrateWrite \/ MigrateDies

-----------------------------------------------------------------------------
CreateStep(i) ==
  OpenStream(i) \/ WriteStream(i) \/ SaveFails(i) \/ CreateReturns(i)

Next ==
  \/ \E i \in Instances :
       \/ Open(i) \/ Exit(i) \/ CreateStep(i)
       \/ \E c \in RegisterCalls : RegisterTable(i, c)
       \/ \E c \in CreateCalls : BeginCreate(i, c) \/ RefuseCreate(i, c)
  \/ ListTables
  \/ Migrate

Spec == Init /\ [][Next]_vars

(* A process that runs finishes the create_table or the migration it began. *)
FairSpec ==
  /\ Spec
  /\ \A i \in Instances : WF_vars(CreateStep(i))
  /\ WF_vars(MigrateOpen \/ MigrateWrite)

-----------------------------------------------------------------------------
TypeOK ==
  /\ file = File(file.state, file.tables) /\ IsRegistry(file.tables)
  /\ file.state \in {"absent", "empty", "garbled", "legacy", "current"}
  /\ pc \in [Instances -> {"closed", "ready", "saving", "writing", "written"}]
  /\ registry = [i \in Instances |-> registry[i]]
  /\ meta = [i \in Instances |-> meta[i]]
  /\ opened = [i \in Instances |-> opened[i]]
  /\ \A i \in Instances :
        IsRegistry(registry[i]) /\ IsRegistry(meta[i]) /\ IsRegistry(opened[i])
  /\ call \in [Instances -> CreateCalls \cup {NoCall}]
  /\ migrator = [pc |-> migrator.pc, tables |-> migrator.tables]
  /\ migrator.pc \in {"idle", "saving", "writing"} /\ IsRegistry(migrator.tables)
  /\ IsRegistry(created)
  /\ alone \subseteq Instances
  /\ listed \in [ok : BOOLEAN, names : SUBSET Tables]

Readable == file.state \in {"absent", "legacy", "current"}

(* "Only create_table() mutates or saves it", "nothing here can reach disk"
   (duckdb_parquet.py, __init__ and register_table): whatever the races and
   faults, each entry of the file is a well-formed declaration of some
   create_table call for that table, never one an instance registered. *)
OnlyCreatesPersist ==
  \A t \in DOMAIN file.tables :
    /\ [table |-> t, decl |-> file.tables[t]] \in CreateCalls
    /\ Prepared(file.tables[t])

(* A table whose create_table has returned, while no other provisioner was at
   work, is in every registry that loads, under an entry that still serves the
   rows written to it.  Later calls may race with one another: those that lose
   the race lose what is theirs, and nothing that was there before. *)
CreatedTablesPersist ==
  Readable =>
    \A t \in DOMAIN created :
      /\ t \in DOMAIN file.tables
      /\ Serves(file.tables[t], created[t])

(* What an instance found when it was constructed stays the common ground of
   its own _table_meta and of the file, however each has moved on since: the
   partition layout is one, and the rows of that time are rows of both. *)
OpenedTablesAgree ==
  \A i \in Instances : \A t \in DOMAIN opened[i] :
    /\ t \in DOMAIN meta[i] /\ Serves(meta[i][t], opened[i][t])
    /\ Readable =>
         t \in DOMAIN file.tables /\ Serves(file.tables[t], opened[i][t])

(* The file fails to parse only while somebody is rewriting it. *)
UnreadableOnlyMidSave ==
  file \in {Empty, Garbled} =>
    \/ \E i \in Instances : pc[i] = "writing"
    \/ migrator.pc = "writing"

(* A table that some list_tables call has reported is in every later answer. *)
ListedTablesStay == [][listed.names \subseteq listed'.names]_listed

(* A truncated file is rewritten, as long as its writer lives and its disk
   works: no reader is locked out for ever. *)
TruncationHeals == file = Empty ~> Readable

(* The answers of the concrete registry are those of the abstract catalogue:
   each create_table that returns, and that no other provisioner overlapped,
   adds a table or extends it compatibly, whatever races came before it. *)
Abstract == INSTANCE Catalog WITH
  catalog <- created, InitialCatalogs <- LegacyFiles \cup {NoTables}

ImplementsCatalog == Abstract!Spec

=============================================================================
