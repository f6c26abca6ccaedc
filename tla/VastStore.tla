----------------------------- MODULE VastStore -----------------------------
(***************************************************************************)
(* The VAST DB backend (vastdb_store.py): a server that holds the tables,  *)
(* store instances that keep the declared schemas (_table_meta) and what   *)
(* they know of the server's (_server_schema_cache), append-only writes    *)
(* stamped with written_at, and the deduplication of rows at read time.    *)
(*                                                                         *)
(* The server is external: a transaction sees the tables of its beginning, *)
(* takes effect when it commits at the end of its with block, and is rolled*)
(* back when the block raises.  An absent server schema is modelled as one *)
(* without tables.                                                         *)
(***************************************************************************)
EXTENDS SchemaRules, Naturals

CONSTANTS Instances, Tables, Keys,
          TableCalls,    \* [table, decl]: the create_table and register_table calls
          StoredType,    \* the type VAST DB stores for each declared one
          WrittenAt,     \* the column written_at
          TimeType,      \* and its type
          AddWrittenAt,  \* add_written_at of each instance's configuration
          MaxWrites      \* bound: write calls in a behaviour

(* The discipline and the faults. *)
CONSTANTS Serialized,    \* create_table is called by one process at a time
          CanDrop,       \* the drop helpers are used, when no other instance lives
          CanCrash,      \* a process may die at any step
          CommitFaults,  \* committing a create_table or a drop may fail
          WriteFaults    \* committing a write may fail

ASSUME VastAssumption ==
  /\ TableCalls \subseteq [table : Tables, decl : Entry]
  /\ StoredType \in [Types -> Types]
  /\ \A t \in Types : StoredType[StoredType[t]] = StoredType[t]
  /\ WrittenAt \in Columns /\ TimeType \in Types /\ StoredType[TimeType] = TimeType
  /\ AddWrittenAt \in [Instances -> BOOLEAN]
  /\ MaxWrites \in Nat
  /\ {Serialized, CanDrop, CanCrash, CommitFaults, WriteFaults} \subseteq BOOLEAN

Empty == [t \in {} |-> t]
Idle  == [table |-> NULL, entry |-> NULL, decl |-> NULL, creates |-> FALSE, row |-> NULL]

VARIABLES
  server,      \* table -> [schema, rows]
  pc,          \* where each instance is: create_table and write are two steps
  meta,        \* _table_meta of each instance
  cache,       \* _server_schema_cache of each instance
  work,        \* the call in progress
  clock,       \* the time, one tick for each write call that ends
  calls,       \* history: how many write calls have started
  ended,       \* history: the write calls that have returned or raised
  acked,       \* history: <<table, call>> of the writes that have returned
  provisioned, \* history: the tables create_table has returned on, by instance
  accepted     \* history: the create_table calls that have returned

writeVars == <<clock, calls, ended, acked>>
vars == <<server, pc, meta, cache, work, clock, calls, ended, acked, provisioned, accepted>>

-----------------------------------------------------------------------------
(* VastDB has no required columns and fewer types: _normalize_for_vastdb. *)
Normalized(schema) ==
  [c \in DOMAIN schema |-> [type |-> StoredType[schema[c].type], nullable |-> TRUE]]

(* Mutant: schemas are declared, compared and cached as given. *)
PrepareSchemaRaw(i, schema) ==
  IF AddWrittenAt[i] /\ WrittenAt \notin DOMAIN schema
  THEN Put(schema, WrittenAt, [type |-> TimeType, nullable |-> TRUE])
  ELSE schema

(* _prepare_schema: normalized, with written_at where the configuration asks. *)
PrepareSchema(i, schema) ==
  IF AddWrittenAt[i] /\ WrittenAt \notin DOMAIN schema
  THEN Put(Normalized(schema), WrittenAt, [type |-> TimeType, nullable |-> TRUE])
  ELSE Normalized(schema)

PreparedEntry(i, decl) == [decl EXCEPT !.schema = PrepareSchema(i, decl.schema)]

(* Mutant: _check_schema_compat without the comparison of types. *)
IncompatibleButTypes(old, new) ==
  \/ Removed(old, new) # {}
  \/ \E c \in Added(old, new) : ~ new.schema[c].nullable

(* _check_schema_compat raises ValueError. *)
Incompatible(old, new) ==
  \/ Removed(old, new) # {}
  \/ \E c \in Kept(old, new) : new.schema[c].type # old.schema[c].type
  \/ \E c \in Added(old, new) : ~ new.schema[c].nullable

MayProvision ==
  Serialized => \A j \in Instances : pc[j] # "committing"

(* A test suite drops the tables of a schema of its own. *)
MayDrop(i) == CanDrop /\ \A j \in Instances \ {i} : pc[j] = "closed"

Init ==
  /\ server = Empty
  /\ pc = [i \in Instances |-> "closed"]
  /\ meta = [i \in Instances |-> Empty]
  /\ cache = [i \in Instances |-> Empty]
  /\ work = [i \in Instances |-> Idle]
  /\ clock = 1
  /\ calls = 0
  /\ ended = {}
  /\ acked = {}
  /\ provisioned = [i \in Instances |-> {}]
  /\ accepted = {}

Open(i) ==
  /\ pc[i] = "closed"
  /\ pc' = [pc EXCEPT ![i] = "ready"]
  /\ UNCHANGED <<server, meta, cache, work, provisioned, accepted>>
  /\ UNCHANGED writeVars

(* What the server holds once the transaction of instance i has committed:
   the table create RPC is unconditional, and insert appends a row. *)
Committed(i) ==
  LET w == work[i] IN
  IF pc[i] = "inserting"
  THEN [server EXCEPT ![w.table].rows = @ \cup {w.row}]
  ELSE IF w.creates
       THEN Put(server, w.table, [schema |-> Normalized(w.entry.schema), rows |-> {}])
       ELSE server

(* The table takes the columns of the rows: insert raises otherwise. *)
Accepts(i) ==
  LET w == work[i] IN
  /\ w.table \in DOMAIN server
  /\ \A c \in DOMAIN w.entry.schema :
       /\ c \in DOMAIN server[w.table].schema
       /\ server[w.table].schema[c].type = w.entry.schema[c].type

(* Stops of a process in a transaction: before its commit or after it. *)
Interrupted(i) ==
  {server} \cup (IF pc[i] = "committing" \/ (pc[i] = "inserting" /\ Accepts(i))
                 THEN {Committed(i)} ELSE {})

(* The write call that instance i has in progress ends. *)
WriteEnds(i) ==
  /\ ended' = ended \cup {work[i].row.call}
  /\ clock' = clock + 1
  /\ UNCHANGED calls

(* The process ends, by itself or killed in the middle of a call. *)
Exit(i) ==
  /\ pc[i] # "closed"
  /\ pc[i] = "ready" \/ CanCrash
  /\ server' \in Interrupted(i)
  /\ pc' = [pc EXCEPT ![i] = "closed"]
  /\ meta' = [meta EXCEPT ![i] = Empty]
  /\ cache' = [cache EXCEPT ![i] = Empty]
  /\ work' = [work EXCEPT ![i] = Idle]
  /\ provisioned' = [provisioned EXCEPT ![i] = {}]
  /\ IF pc[i] = "inserting" THEN WriteEnds(i) ELSE UNCHANGED <<clock, calls, ended>>
  /\ UNCHANGED <<acked, accepted>>

-----------------------------------------------------------------------------
(* register_table: compared with an earlier declaration of this instance. *)
RegisterTable(i, c) ==
  LET new == PreparedEntry(i, c.decl) IN
  /\ pc[i] = "ready"
  /\ Prepared(new)
  /\ c.table \in DOMAIN meta[i] =>
       /\ new.partition_by = meta[i][c.table].partition_by
       /\ ~ Incompatible(meta[i][c.table], new)
  /\ meta' = [meta EXCEPT ![i] = Put(meta[i], c.table, new)]
  /\ UNCHANGED <<server, pc, cache, work, provisioned, accepted>>
  /\ UNCHANGED writeVars

(***************************************************************************)
(* create_table: one transaction that looks for the table and creates it.  *)
(* The cache is written inside the with block, before the commit.  An      *)
(* incompatible declaration raises in the block: nothing is changed.       *)
(***************************************************************************)
InCreate(i, c, creates) ==
  /\ work' = [work EXCEPT ![i] =
       [Idle EXCEPT !.table = c.table, !.decl = c.decl, !.creates = creates,
                    !.entry = PreparedEntry(i, c.decl)]]
  /\ pc' = [pc EXCEPT ![i] = "committing"]
  /\ UNCHANGED <<server, meta, provisioned, accepted>> /\ UNCHANGED writeVars

MayCreate(i, c) ==
  pc[i] = "ready" /\ MayProvision /\ Prepared(PreparedEntry(i, c.decl))

(* Mutant: the declared schema is cached for the one the server has. *)
FindTableCachesDeclared(i, c) ==
  /\ MayCreate(i, c)
  /\ c.table \in DOMAIN server
  /\ ~ Incompatible(server[c.table], PreparedEntry(i, c.decl))
  /\ cache' = [cache EXCEPT ![i] =
                 Put(cache[i], c.table, PreparedEntry(i, c.decl).schema)]
  /\ InCreate(i, c, FALSE)

(* The table exists and the declaration is compatible with it; columns that it
   adds are not added to the table (a TODO in the code). *)
FindTable(i, c) ==
  /\ MayCreate(i, c)
  /\ c.table \in DOMAIN server
  /\ ~ Incompatible(server[c.table], PreparedEntry(i, c.decl))
  /\ cache' = [cache EXCEPT ![i] = Put(cache[i], c.table, server[c.table].schema)]
  /\ InCreate(i, c, FALSE)

(* Mutant: create_table does not look for an existing table. *)
MakeTableAlways(i, c) ==
  /\ MayCreate(i, c)
  /\ cache' = [cache EXCEPT ![i] =
                 Put(cache[i], c.table, PreparedEntry(i, c.decl).schema)]
  /\ InCreate(i, c, TRUE)

(* Mutant: the declaration with its partition keys is cached as the schema. *)
MakeTableCachesEntry(i, c) ==
  /\ MayCreate(i, c)
  /\ c.table \notin DOMAIN server
  /\ cache' = [cache EXCEPT ![i] = Put(cache[i], c.table, PreparedEntry(i, c.decl))]
  /\ InCreate(i, c, TRUE)

MakeTable(i, c) ==
  /\ MayCreate(i, c)
  /\ c.table \notin DOMAIN server
  /\ cache' = [cache EXCEPT ![i] =
                 Put(cache[i], c.table, PreparedEntry(i, c.decl).schema)]
  /\ InCreate(i, c, TRUE)

CreateReturns(i) ==
  LET w == work[i] IN
  /\ pc[i] = "committing"
  /\ server' = Committed(i)
  /\ meta' = [meta EXCEPT ![i] = Put(meta[i], w.table, w.entry)]
  /\ provisioned' = [provisioned EXCEPT ![i] = @ \cup {w.table}]
  /\ accepted' = accepted \cup {[table |-> w.table, decl |-> w.decl]}
  /\ pc' = [pc EXCEPT ![i] = "ready"]
  /\ work' = [work EXCEPT ![i] = Idle]
  /\ UNCHANGED cache /\ UNCHANGED writeVars

(* The commit raises; the server may have carried it out all the same. *)
CommitFails(i) ==
  /\ CommitFaults
  /\ pc[i] = "committing"
  /\ server' \in Interrupted(i)
  /\ pc' = [pc EXCEPT ![i] = "ready"]
  /\ work' = [work EXCEPT ![i] = Idle]
  /\ UNCHANGED <<meta, cache, provisioned, accepted>> /\ UNCHANGED writeVars

(* _server_schema, of a read with a projection: cached for good. *)
LookUp(i, t) ==
  /\ pc[i] = "ready"
  /\ t \notin DOMAIN cache[i]
  /\ t \in DOMAIN server
  /\ cache' = [cache EXCEPT ![i] = Put(cache[i], t, server[t].schema)]
  /\ UNCHANGED <<server, pc, meta, work, provisioned, accepted>>
  /\ UNCHANGED writeVars

-----------------------------------------------------------------------------
(* Mutant: a written_at that the records carry, or miss, is kept. *)
StampKept(i, schema) == 0

(* written_at of the rows of a write: the time on the writer's clock, or NULL,
   which is 0 here and comes last in DuckDB's descending order. *)
Stamp(i, schema) ==
  IF AddWrittenAt[i] /\ WrittenAt \in DOMAIN schema THEN clock ELSE 0

(* write(): a declared table, rows that fit the declaration; then the insert. *)
BeginWrite(i, t, key) ==
  /\ pc[i] = "ready"
  /\ t \in DOMAIN meta[i]
  /\ calls < MaxWrites
  /\ calls' = calls + 1
  /\ work' = [work EXCEPT ![i] =
       [Idle EXCEPT !.table = t, !.entry = meta[i][t],
                    !.row = [key |-> key, call |-> calls + 1, after |-> ended,
                             stamp |-> Stamp(i, meta[i][t].schema)]]]
  /\ pc' = [pc EXCEPT ![i] = "inserting"]
  /\ UNCHANGED <<server, meta, cache, clock, ended, acked, provisioned, accepted>>

LeaveWrite(i) ==
  /\ pc' = [pc EXCEPT ![i] = "ready"]
  /\ work' = [work EXCEPT ![i] = Idle]
  /\ WriteEnds(i)
  /\ UNCHANGED <<meta, cache, provisioned, accepted>>

WriteReturns(i) ==
  /\ pc[i] = "inserting"
  /\ Accepts(i)
  /\ server' = Committed(i)
  /\ acked' = acked \cup {<<work[i].table, work[i].row.call>>}
  /\ LeaveWrite(i)

(* The insert raises: no such table, or not these columns. *)
WriteRejected(i) ==
  /\ pc[i] = "inserting"
  /\ ~ Accepts(i)
  /\ UNCHANGED <<server, acked>>
  /\ LeaveWrite(i)

WriteFails(i) ==
  /\ WriteFaults
  /\ pc[i] = "inserting"
  /\ server' \in Interrupted(i)
  /\ UNCHANGED acked
  /\ LeaveWrite(i)

-----------------------------------------------------------------------------
(* f without the keys in S, as after pop() and clear() of a dict. *)
Without(f, S) == [x \in DOMAIN f \ S |-> f[x]]

(* The tables of S are gone.  The commit may raise all the same; then the
   instance forgets nothing of them.  One that was not carried out does nothing. *)
Forget(i, S) ==
  /\ server' = Without(server, S)
  /\ \/ /\ meta' = [meta EXCEPT ![i] = Without(@, S)]
        /\ cache' = [cache EXCEPT ![i] = Without(@, S)]
     \/ CommitFaults /\ UNCHANGED <<meta, cache>>
  /\ provisioned' = [provisioned EXCEPT ![i] = @ \ S]
  /\ acked' = {a \in acked : a[1] \notin S}
  /\ accepted' = {c \in accepted : c.table \notin S}
  /\ UNCHANGED <<pc, work, clock, calls, ended>>

DropTable(i, t) ==
  /\ pc[i] = "ready"
  /\ MayDrop(i)
  /\ Forget(i, {t})

DropSchema(i) ==
  /\ pc[i] = "ready"
  /\ MayDrop(i)
  /\ Forget(i, Tables)

(***************************************************************************)
(* dedup_by_written_at: of the rows of a key, in descending order of       *)
(* written_at, the first; any of those that tie for it.                    *)
(***************************************************************************)
RankedFirst(rows, key) ==
  {r \in rows : /\ r.key = key
                /\ \A s \in rows : s.key = key => s.stamp <= r.stamp}

Next ==
  \E i \in Instances :
    \/ Open(i) \/ Exit(i) \/ CreateReturns(i) \/ CommitFails(i) \/ DropSchema(i)
    \/ WriteReturns(i) \/ WriteRejected(i) \/ WriteFails(i)
    \/ \E c \in TableCalls :
         RegisterTable(i, c) \/ FindTable(i, c) \/ MakeTable(i, c)
    \/ \E t \in Tables : LookUp(i, t) \/ DropTable(i, t)
    \/ \E t \in Tables, k \in Keys : BeginWrite(i, t, k)

Spec == Init /\ [][Next]_vars

-----------------------------------------------------------------------------
Row == [key : Keys, call : 1..MaxWrites, after : SUBSET (1..MaxWrites), stamp : 0..MaxWrites]

TypeOK ==
  /\ DOMAIN server \subseteq Tables
  /\ \A t \in DOMAIN server : server[t].schema \in Schema /\ server[t].rows \subseteq Row
  /\ pc \in [Instances -> {"closed", "ready", "committing", "inserting"}]
  /\ \A i \in Instances :
       /\ DOMAIN meta[i] \subseteq Tables /\ \A t \in DOMAIN meta[i] : meta[i][t] \in Entry
       /\ DOMAIN cache[i] \subseteq Tables /\ \A t \in DOMAIN cache[i] : cache[i][t] \in Schema
       /\ pc[i] = "inserting" => work[i].row \in Row
       /\ pc[i] \in {"committing", "inserting"} =>
            work[i].table \in Tables /\ work[i].entry \in Entry
  /\ clock \in 1..(MaxWrites + 1) /\ calls \in 0..MaxWrites
  /\ ended \subseteq 1..MaxWrites
  /\ acked \subseteq Tables \X (1..MaxWrites)
  /\ provisioned \in [Instances -> SUBSET Tables]
  /\ accepted \subseteq TableCalls

(* "schema as the server actually holds it" (vastdb_store.py:147), for the
   tables that create_table has returned on: however instances create, re-create
   with more columns, crash and fail, the cache of such a table is the schema
   of the server. *)
ProvisionedCachesAgree ==
  \A i \in Instances : \A t \in provisioned[i] :
    t \in DOMAIN server /\ t \in DOMAIN cache[i] /\ cache[i][t] = server[t].schema

(* An instance that has created a table declares every column the server has,
   under the server's type, whatever it or others have declared or created
   since: a write can fail for a column the server lacks and for nothing else. *)
ProvisionedAgree ==
  \A i \in Instances : \A t \in provisioned[i] :
    /\ DOMAIN server[t].schema \subseteq DOMAIN meta[i][t].schema
    /\ \A c \in DOMAIN server[t].schema :
         server[t].schema[c].type = meta[i][t].schema[c].type

(* "Append-only (WORM)": the rows of a write that returned are there until
   the table is dropped, whatever create_table calls come after it. *)
AckedRowsStay ==
  \A a \in acked : a[1] \in DOMAIN server /\ \E r \in server[a[1]].rows : r.call = a[2]

(* README, "WORM deduplication": with one clock, the row that the deduplication
   keeps for a key is never one of a write call that had ended when another
   call, whose row is there, began: re-ingestion after a failure included. *)
DedupKeepsLatest ==
  \A t \in DOMAIN server : \A k \in Keys :
    \A r \in RankedFirst(server[t].rows, k) : \A s \in server[t].rows :
      s.key = k => r.call \notin s.after

(* base.py:95, "safe to re-run": a create_table call that has returned once is
   not refused when it is made again, by this instance or another, whatever
   has been created in between. *)
RerunAccepted ==
  \A i \in Instances, c \in accepted :
    /\ c.table \in DOMAIN server
    /\ ~ Incompatible(server[c.table], PreparedEntry(i, c.decl))

=============================================================================
