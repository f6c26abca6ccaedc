----------------------------- MODULE DuckTable -----------------------------
(***************************************************************************)
(* The rows of one table of the DuckDB+Parquet backend (duckdb_parquet.py):*)
(* write() appends Parquet files, or first deletes the directories of the  *)
(* partitions it replaces; the read paths glob the files and then read     *)
(* them one after the other, through a cursor of their own.                *)
(*                                                                         *)
(* Writers and readers are threads or processes that share the storage.    *)
(* The rows of one write call in one partition are one file, and one value *)
(* here: the number of the call.                                           *)
(***************************************************************************)
EXTENDS Naturals, FiniteSets

CONSTANTS Writers, Readers,
          Partitions,   \* the partition values that occur
          MaxWrites,    \* bound: write calls in a behaviour
          Nobody        \* no partition is being deleted

(* The deployment and what may go wrong in it. *)
CONSTANTS Partitioned,  \* the table was declared with partition_by
          Local,        \* root is a directory; otherwise an s3:// bucket
          CanOverwrite, \* clients pass overwrite=True
          CanCrash,     \* a writing process may die at any step
          DeleteFaults  \* deleting a directory may fail with an OSError

(* How a partition value is spelled in a path: by pyarrow, which writes the
   files (booleans as true and false, special characters percent-encoded), and
   by the f-strings of _fs_partition_dir and _parquet_glob. *)
CONSTANTS DirName, PathName

ASSUME MaxWritesAssumption == MaxWrites \in Nat

ASSUME NamesAssumption ==
  /\ DOMAIN DirName = Partitions
  /\ DOMAIN PathName = Partitions
  /\ \A p, q \in Partitions : DirName[p] = DirName[q] => p = q

ASSUME DeploymentAssumption ==
  {Partitioned, Local, CanOverwrite, CanCrash, DeleteFaults} \subseteq BOOLEAN

VARIABLES
  files,    \* the Parquet files under {root}/{table}
  writer,   \* each writer's write() call
  pending,  \* the files each cursor's query has still to read
  reader,   \* each reader's read() call
  calls,    \* history: how many write calls have started
  owed,     \* history: <<partition, call>> that readers are entitled to
  due       \* history: the owed rows each reader's query has to return

vars == <<files, writer, pending, reader, calls, owed, due>>

-----------------------------------------------------------------------------
(* Mutant: files of a partition share one name, as with DuckDB's COPY. *)
ParquetSameName(p, call, whole) ==
  [dir |-> DirName[p], name |-> 0, partition |-> p, call |-> call, whole |-> whole]

(* A file carries the uuid of its call in its name, so no two are the same;
   `whole' is false while a local file is still being written. *)
Parquet(p, call, whole) ==
  [dir |-> DirName[p], name |-> call, partition |-> p, call |-> call, whole |-> whole]

(* The files a file of partition p written by this call takes the place of. *)
SameName(p, call) ==
  LET new == Parquet(p, call, TRUE)
  IN  {f \in files : f.dir = new.dir /\ f.name = new.name}

InDir(name) == {f \in files : f.dir = name}

IdleWriter ==
  [pc |-> "idle", call |-> 0, overwrite |-> FALSE, parts |-> {},
   clear |-> {}, clearing |-> Nobody, listing |-> {}, todo |-> {}, alone |-> {}]

IdleReader == [pc |-> "idle", asked |-> {}, got |-> {}, quiet |-> FALSE]

Active(w) == writer[w].pc # "idle"

(* Partitions another writer is replacing, or writing to. *)
ReplacedByOthers(w) ==
  UNION {writer[v].parts : v \in {u \in Writers \ {w} :
                                    Active(u) /\ writer[u].overwrite}}
WrittenByOthers(w) ==
  UNION {writer[v].parts : v \in {u \in Writers \ {w} : Active(u)}}

Init ==
  /\ files = {}
  /\ writer = [w \in Writers |-> IdleWriter]
  /\ pending = [r \in Readers |-> {}]
  /\ reader = [r \in Readers |-> IdleReader]
  /\ calls = 0
  /\ owed = {}
  /\ due = [r \in Readers |-> {}]

-----------------------------------------------------------------------------
(***************************************************************************)
(* write(): past the validation, with rows for the partitions parts.  Only *)
(* a partitioned table has anything to clear; overwrite is ignored on any  *)
(* other.  alone (history) holds the partitions of the call that no other  *)
(* call has overlapped: for an overwrite any other, for an append one that *)
(* replaces the partition.                                                 *)
(***************************************************************************)
BeginWrite(w, parts, overwrite) ==
  LET replaces == overwrite /\ Partitioned
      rivals   == IF replaces THEN WrittenByOthers(w) ELSE ReplacedByOthers(w)
  IN
  /\ ~ Active(w)
  /\ calls < MaxWrites
  /\ overwrite => CanOverwrite
  /\ calls' = calls + 1
  /\ writer' = [v \in Writers |->
       IF v = w
       THEN [IdleWriter EXCEPT
               !.pc = IF replaces THEN "clearing" ELSE "appending",
               !.call = calls + 1, !.overwrite = overwrite,
               !.parts = parts, !.todo = parts, !.alone = parts \ rivals,
               !.clear = IF replaces THEN parts ELSE {}]
       ELSE IF replaces \/ writer[v].overwrite
            THEN [writer[v] EXCEPT !.alone = @ \ parts]
            ELSE writer[v]]
  /\ owed' = {o \in owed : ~ (replaces /\ o[1] \in parts)}
  /\ due' = [r \in Readers |-> {o \in due[r] : ~ (replaces /\ o[1] \in parts)}]
  /\ reader' = [r \in Readers |->
       [reader[r] EXCEPT !.quiet = @ /\ ~ (replaces /\ reader[r].asked \cap parts # {})]]
  /\ UNCHANGED <<files, pending>>

(* Mutant: the whole table is deleted for one partition. *)
ListTable(w, p) ==
  /\ writer[w].pc = "clearing"
  /\ writer[w].clearing = Nobody
  /\ p \in writer[w].clear
  /\ writer' = [writer EXCEPT ![w].clearing = p, ![w].listing = files]
  /\ UNCHANGED <<files, pending, reader, calls, owed, due>>

(* _overwrite_partitions: delete_dir lists a directory, deletes what it has
   listed file by file, and goes on to the next directory. *)
ListDir(w, p) ==
  /\ writer[w].pc = "clearing"
  /\ writer[w].clearing = Nobody
  /\ p \in writer[w].clear
  /\ writer' = [writer EXCEPT ![w].clearing = p, ![w].listing = InDir(PathName[p])]
  /\ UNCHANGED <<files, pending, reader, calls, owed, due>>

DeleteFile(w) ==
  /\ \E f \in writer[w].listing :
       /\ files' = {g \in files : g.dir # f.dir \/ g.name # f.name}
       /\ writer' = [writer EXCEPT ![w].listing = @ \ {f}]
  /\ UNCHANGED <<pending, reader, calls, owed, due>>

(* Mutant: the deletion of directories stops after the first. *)
DirClearedOnce(w) ==
  /\ writer[w].clearing # Nobody
  /\ writer[w].listing = {} \/ DeleteFaults
  /\ writer' = [writer EXCEPT ![w].clear = {}, ![w].clearing = Nobody, ![w].listing = {}]
  /\ UNCHANGED <<files, pending, reader, calls, owed, due>>

(* The directory is gone, was never there, or raised an OSError that the
   except clause takes for "Partition didn't exist yet". *)
DirCleared(w) ==
  /\ writer[w].clearing # Nobody
  /\ writer[w].listing = {} \/ DeleteFaults
  /\ writer' = [writer EXCEPT ![w].clear = @ \ {writer[w].clearing},
                              ![w].clearing = Nobody, ![w].listing = {}]
  /\ UNCHANGED <<files, pending, reader, calls, owed, due>>

(* Mutant: the rows are appended before the directories are cleared. *)
BeginAppendEarly(w) ==
  /\ writer[w].pc = "clearing"
  /\ writer' = [writer EXCEPT ![w].pc = "appending"]
  /\ UNCHANGED <<files, pending, reader, calls, owed, due>>

BeginAppend(w) ==
  /\ writer[w].pc = "clearing"
  /\ writer[w].clear = {}
  /\ writer' = [writer EXCEPT ![w].pc = "appending"]
  /\ UNCHANGED <<files, pending, reader, calls, owed, due>>

(* _append_records.  A partitioned table is written through the configured
   filesystem; any other by os.makedirs and a plain path, which on an s3://
   root is a directory of the machine and no part of the store. *)
CreateFile(w, p) ==
  /\ writer[w].pc = "appending"
  /\ p \in writer[w].todo
  /\ files' = IF Partitioned \/ Local
              THEN (files \ SameName(p, writer[w].call))
                     \cup {Parquet(p, writer[w].call, ~ Local)}
              ELSE files
  /\ writer' = [writer EXCEPT ![w].todo = @ \ {p}]
  /\ UNCHANGED <<pending, reader, calls, owed, due>>

CloseFile(w) ==
  /\ writer[w].pc = "appending"
  /\ \E f \in files :
       /\ f.call = writer[w].call /\ ~ f.whole
       /\ files' = (files \ {f}) \cup {[f EXCEPT !.whole = TRUE]}
  /\ UNCHANGED <<writer, pending, reader, calls, owed, due>>

WriteReturns(w) ==
  /\ writer[w].pc = "appending"
  /\ writer[w].todo = {}
  /\ \A f \in files : f.call = writer[w].call => f.whole
  /\ owed' = owed \cup {<<p, writer[w].call>> : p \in writer[w].alone}
  /\ writer' = [writer EXCEPT ![w] = IdleWriter]
  /\ UNCHANGED <<files, pending, reader, calls, due>>

(* The process dies; or the directory that write_to_dataset has just made is
   deleted by another call before the file is opened in it, and write raises. *)
WriteFails(w) ==
  /\ \/ CanCrash /\ Active(w)
     \/ Local /\ writer[w].pc = "appending" /\ writer[w].todo \cap ReplacedByOthers(w) # {}
  /\ writer' = [writer EXCEPT ![w] = IdleWriter]
  /\ UNCHANGED <<files, pending, reader, calls, owed, due>>

-----------------------------------------------------------------------------
(***************************************************************************)
(* read(), bulk_read(), count(): one query over the files that match, asked*)
(* for one partition (the pruned glob) or for all.  A missing file is an   *)
(* IOException, which every read path takes for an empty table; half a     *)
(* file raises to the caller.                                              *)
(***************************************************************************)
(* Mutant: all queries share the connection, which has one pending result. *)
CursorShared(r) == CHOOSE s \in Readers : TRUE

(* _cursor: each query has a cursor of its own. *)
Cursor(r) == r

(* _parquet_glob, with an equality filter on the partition key or without. *)
Globbed(asked) ==
  IF asked = Partitions THEN files
  ELSE UNION {InDir(PathName[p]) : p \in asked}

Execute(r, asked) ==
  /\ reader[r].pc \in {"idle", "returned", "raised"}
  /\ pending' = [pending EXCEPT ![Cursor(r)] = Globbed(asked)]
  /\ reader' = [reader EXCEPT ![r] =
       [pc |-> "reading", asked |-> asked, got |-> {},
        quiet |-> \A w \in Writers : writer[w].clear \cap asked = {}]]
  /\ due' = [due EXCEPT ![r] = {o \in owed : o[1] \in asked}]
  /\ UNCHANGED <<files, writer, calls, owed>>

(* fetchmany reaches the next file, which is whole and still there. *)
FetchFile(r) ==
  /\ reader[r].pc = "reading"
  /\ \E f \in pending[Cursor(r)] :
       /\ \E g \in files : g.dir = f.dir /\ g.name = f.name /\ g.whole
       /\ pending' = [pending EXCEPT ![Cursor(r)] = @ \ {f}]
       /\ reader' = [reader EXCEPT ![r].got = @ \cup {<<f.partition, f.call>>}]
  /\ UNCHANGED <<files, writer, calls, owed, due>>

(* "except duckdb.IOException": read() ends after the rows it has yielded,
   bulk_read() and count() drop them and return an empty table, or 0. *)
FileMissing(r) ==
  /\ reader[r].pc = "reading"
  /\ \E f \in pending[Cursor(r)] :
       ~ \E g \in files : g.dir = f.dir /\ g.name = f.name
  /\ pending' = [pending EXCEPT ![Cursor(r)] = {}]
  /\ \E kept \in {reader[r].got, {}} :
       reader' = [reader EXCEPT ![r].pc = "returned", ![r].got = kept]
  /\ UNCHANGED <<files, writer, calls, owed, due>>

FileInvalid(r) ==
  /\ reader[r].pc = "reading"
  /\ \E f \in pending[Cursor(r)] :
       \E g \in files : g.dir = f.dir /\ g.name = f.name /\ ~ g.whole
  /\ pending' = [pending EXCEPT ![Cursor(r)] = {}]
  /\ reader' = [reader EXCEPT ![r].pc = "raised"]
  /\ UNCHANGED <<files, writer, calls, owed, due>>

ReadReturns(r) ==
  /\ reader[r].pc = "reading"
  /\ pending[Cursor(r)] = {}
  /\ reader' = [reader EXCEPT ![r].pc = "returned"]
  /\ UNCHANGED <<files, writer, pending, calls, owed, due>>

-----------------------------------------------------------------------------
Write(w) ==
  \/ \E parts \in SUBSET Partitions \ {{}}, overwrite \in BOOLEAN :
        BeginWrite(w, parts, overwrite)
  \/ \E p \in Partitions : ListDir(w, p) \/ CreateFile(w, p)
  \/ DeleteFile(w) \/ DirCleared(w) \/ BeginAppend(w) \/ CloseFile(w)
  \/ WriteReturns(w) \/ WriteFails(w)

Read(r) ==
  \/ \E asked \in {Partitions} \cup {{p} : p \in Partitions} : Execute(r, asked)
  \/ FetchFile(r) \/ FileMissing(r) \/ FileInvalid(r) \/ ReadReturns(r)

Next == (\E w \in Writers : Write(w)) \/ (\E r \in Readers : Read(r))

Spec == Init /\ [][Next]_vars

-----------------------------------------------------------------------------
Rowset == Partitions \X (1..MaxWrites)
File   == [dir : {DirName[p] : p \in Partitions}, name : 1..MaxWrites,
           partition : Partitions, call : 1..MaxWrites, whole : BOOLEAN]

TypeOK ==
  /\ files \subseteq File
  /\ writer \in [Writers ->
       [pc : {"idle", "clearing", "appending"}, call : 0..MaxWrites,
        overwrite : BOOLEAN, parts : SUBSET Partitions, clear : SUBSET Partitions,
        clearing : Partitions \cup {Nobody}, listing : SUBSET File,
        todo : SUBSET Partitions, alone : SUBSET Partitions]]
  /\ pending \in [Readers -> SUBSET File]
  /\ reader \in [Readers ->
       [pc : {"idle", "reading", "returned", "raised"}, asked : SUBSET Partitions,
        got : SUBSET Rowset, quiet : BOOLEAN]]
  /\ calls \in 0..MaxWrites
  /\ owed \subseteq Rowset
  /\ due \in [Readers -> SUBSET Rowset]

(* The rows of a write() that has returned are stored, whole, until a call
   replaces their partition, whatever other calls append or replace elsewhere,
   crash, or share the directory with them ("each write call gets a globally
   unique filename", duckdb_parquet.py:322-324). *)
ReturnedRowsStay ==
  \A o \in owed : \E f \in files :
    f.partition = o[1] /\ f.call = o[2] /\ f.whole

(* When an overwrite that no other call overlapped returns, its partitions
   hold its own rows and nothing of any earlier call, one that died half way
   through the same overwrite included (base.py:170-171). *)
OverwriteReplaces ==
  [][\A w \in Writers : WriteReturns(w) /\ writer[w].overwrite =>
       \A p \in writer[w].alone : \A f \in files :
         f.partition = p => f.call = writer[w].call]_vars

(* What a query can return: the rows in the files that are whole. *)
StoredRows == {<<f.partition, f.call>> : f \in {g \in files : g.whole}}

CallsAtWork ==
  [w \in Writers |-> [call |-> writer[w].call, parts |-> writer[w].parts,
                      replaces |-> writer[w].overwrite, own |-> writer[w].alone]]

(* base.py:169-171, "replace all existing rows in that partition": whatever
   calls run at once and die, rows go only from what a call at work replaces.
   In the partitions it has to itself it stores nothing while one of those is
   there, and it returns only when all of its own are. *)
Abstract == INSTANCE PartitionWrites WITH rows <- StoredRows, work <- CallsAtWork

ImplementsPartitionWrites == Abstract!Spec

(* A query that returns without an error while no partition it asked for is
   being replaced has every row that had been written when it began, however
   many calls append, and other queries run, in between. *)
ReadsAreComplete ==
  \A r \in Readers :
    reader[r].pc = "returned" /\ reader[r].quiet => due[r] \subseteq reader[r].got

(* _read_rows, duckdb_parquet.py:449: a query cut short by an IOException is
   one of an empty table.  So what it returns lacks no row, but for those of
   partitions being replaced.  An overwrite of one partition ends it early. *)
ReadsAreNeverShort ==
  \A r \in Readers : reader[r].pc = "returned" => due[r] \subseteq reader[r].got

=============================================================================
