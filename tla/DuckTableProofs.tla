-------------------------- MODULE DuckTableProofs --------------------------
(***************************************************************************)
(* Proofs about DuckTable, for every set of writers, readers and           *)
(* partitions and any number of calls, where a store spells a directory as *)
(* pyarrow does and its files reach its storage.                           *)
(*                                                                         *)
(*   TypeCorrect         Spec => []TypeOK, in every deployment             *)
(*   ReturnedStay        Spec => []ReturnedRowsStay                        *)
(*   OverwritesDone      Spec => OverwriteReplaces, when deletions do not  *)
(*                       fail                                              *)
(*   WritesImplemented   Spec => ImplementsPartitionWrites, likewise       *)
(*   ReadsComplete       Spec => []ReadsAreComplete                        *)
(***************************************************************************)
EXTENDS DuckTable, TLAPS

(* Where the promises hold: PathName is DirName, and not an unpartitioned
   table on S3. *)
Sound ==
  /\ \A p \in Partitions : PathName[p] = DirName[p]
  /\ Partitioned \/ Local
  /\ Nobody \notin Partitions

Replacing(w) == Active(w) /\ writer[w].overwrite /\ Partitioned

Named(f) == f.dir = DirName[f.partition] /\ f.name = f.call

(* A call at work has a number. *)
CallsInv == \A w \in Writers : Active(w) => writer[w].call \in 1..calls

TypeInv == TypeOK /\ CallsInv

(* It clears what it replaces one directory at a time, before it creates any
   file, and has listed files of that directory alone. *)
WriterOK(rec) ==
  /\ rec.pc # "idle" => /\ rec.alone \subseteq rec.parts
                        /\ rec.todo \subseteq rec.parts
                        /\ rec.clear \subseteq rec.parts
  /\ rec.pc = "clearing" => rec.overwrite /\ Partitioned /\ rec.todo = rec.parts
  /\ rec.pc # "clearing" => rec.clear = {}
  /\ rec.clearing # Nobody => rec.pc = "clearing" /\ rec.clearing \in rec.clear
  /\ rec.clearing = Nobody => rec.listing = {}
  /\ \A f \in rec.listing : Named(f) /\ f.partition = rec.clearing

WriterInv ==
  /\ \A w \in Writers : WriterOK(writer[w])
  /\ \A v, w \in Writers : Active(v) /\ Active(w) /\ v # w => writer[v].call # writer[w].call

(* Files are told apart by partition and call; a call at work has made those
   of its own number. *)
FilesInv ==
  /\ \A f \in files : Named(f) /\ f.call \in 1..calls
  /\ \A f, g \in files : f.partition = g.partition /\ f.call = g.call => f = g
  /\ \A f \in files : \A w \in Writers :
       Active(w) /\ f.call = writer[w].call => f.partition \in writer[w].parts

(* Of a partition that is its own, no other call deletes a file, and none at
   all is written to it while it is being replaced. *)
AloneInv ==
  \A v, w \in Writers : Active(v) /\ Active(w) /\ v # w =>
    \A p \in writer[w].alone : p \in writer[v].parts => ~ Replacing(v) /\ ~ Replacing(w)

HasFile(p, call) == \E f \in files : f.partition = p /\ f.call = call

CreatedInv ==
  \A w \in Writers : writer[w].pc = "appending" =>
    \A p \in writer[w].alone \ writer[w].todo : HasFile(p, writer[w].call)

OwedInv ==
  \A o \in owed :
    /\ o[2] \in 1..calls
    /\ \A w \in Writers : Active(w) =>
         writer[w].call # o[2] /\ (Replacing(w) => o[1] \notin writer[w].parts)

TableInv ==
  TypeInv /\ WriterInv /\ FilesInv /\ AloneInv /\ CreatedInv /\ OwedInv /\ ReturnedRowsStay

(* Of a partition that an overwrite has to itself, what earlier calls stored
   is still to be cleared. *)
ClearedInv ==
  \A w \in Writers : Replacing(w) => \A p \in writer[w].alone : \A f \in files :
    f.partition = p /\ f.call # writer[w].call =>
      /\ p \in writer[w].clear
      /\ writer[w].clearing = p => f \in writer[w].listing

(* A query whose partitions nobody has been replacing has yet to read, or has
   read, all that is due, and all that it has listed is there. *)
QuietInv ==
  \A r \in Readers : reader[r].pc = "reading" /\ reader[r].quiet =>
    /\ \A w \in Writers : writer[w].clear \cap reader[r].asked = {}
    /\ \A f \in pending[r] : Named(f) /\ f.partition \in reader[r].asked
                             /\ HasFile(f.partition, f.call)
    /\ \A o \in due[r] : \/ o \in reader[r].got
                         \/ \E f \in pending[r] : f.partition = o[1] /\ f.call = o[2]

ReadInv == QuietInv /\ ReadsAreComplete

-----------------------------------------------------------------------------
(***************************************************************************)
(* Type correctness.                                                       *)
(***************************************************************************)
WriterRec ==
  [pc : {"idle", "clearing", "appending"}, call : 0..MaxWrites,
   overwrite : BOOLEAN, parts : SUBSET Partitions, clear : SUBSET Partitions,
   clearing : Partitions \cup {Nobody}, listing : SUBSET File,
   todo : SUBSET Partitions, alone : SUBSET Partitions]

ReaderRec ==
  [pc : {"idle", "reading", "returned", "raised"}, asked : SUBSET Partitions,
   got : SUBSET Rowset, quiet : BOOLEAN]

LEMMA RecordTypes ==
  ASSUME TypeOK
  PROVE  writer \in [Writers -> WriterRec] /\ reader \in [Readers -> ReaderRec]
BY DEF TypeOK, WriterRec, ReaderRec

LEMMA IdleTypes == IdleWriter \in WriterRec /\ IdleReader \in ReaderRec
BY MaxWritesAssumption DEF IdleWriter, IdleReader, WriterRec, ReaderRec

LEMMA ParquetType ==
  ASSUME NEW p \in Partitions, NEW call \in 1..MaxWrites, NEW whole \in BOOLEAN
  PROVE  /\ Parquet(p, call, whole) \in File
         /\ Named(Parquet(p, call, whole))
         /\ Parquet(p, call, whole).partition = p /\ Parquet(p, call, whole).call = call
         /\ Parquet(p, call, whole).whole = whole
BY DEF Parquet, File, Named

LEMMA TypeInit == Init => TypeInv
BY MaxWritesAssumption, IdleTypes
   DEF Init, TypeInv, TypeOK, CallsInv, Active, IdleWriter, WriterRec, ReaderRec

(* The record that a step of write() leaves. *)
LEMMA WriterTyped ==
  ASSUME NEW rec \in WriterRec
  PROVE  /\ \A p \in Partitions, l \in SUBSET File :
              [rec EXCEPT !.clearing = p, !.listing = l] \in WriterRec
         /\ \A l \in SUBSET File : [rec EXCEPT !.listing = l] \in WriterRec
         /\ \A c \in SUBSET Partitions :
              [rec EXCEPT !.clear = c, !.clearing = Nobody, !.listing = {}] \in WriterRec
         /\ [rec EXCEPT !.pc = "appending"] \in WriterRec
         /\ \A t \in SUBSET Partitions : [rec EXCEPT !.todo = t] \in WriterRec
         /\ \A a \in SUBSET Partitions : [rec EXCEPT !.alone = a] \in WriterRec
BY DEF WriterRec

LEMMA BeginTyped ==
  ASSUME TypeInv, NEW w \in Writers, NEW parts \in SUBSET Partitions,
         NEW overwrite \in BOOLEAN, BeginWrite(w, parts, overwrite)
  PROVE  writer' \in [Writers -> WriterRec] /\ calls' \in 0..MaxWrites /\ CallsInv'
<1>1. calls' = calls + 1 /\ calls' \in 0..MaxWrites /\ calls + 1 \in 0..MaxWrites
  BY MaxWritesAssumption DEF BeginWrite, TypeInv, TypeOK
<1> DEFINE replaces == overwrite /\ Partitioned
           rivals == IF replaces THEN WrittenByOthers(w) ELSE ReplacedByOthers(w)
           new == [IdleWriter EXCEPT
                     !.pc = IF replaces THEN "clearing" ELSE "appending",
                     !.call = calls + 1, !.overwrite = overwrite,
                     !.parts = parts, !.todo = parts, !.alone = parts \ rivals,
                     !.clear = IF replaces THEN parts ELSE {}]
<1>2. new \in WriterRec
  <2> HIDE DEF rivals
  <2> QED BY <1>1 DEF IdleWriter, WriterRec
<1>3. writer' = [v \in Writers |->
         IF v = w THEN new
         ELSE IF replaces \/ writer[v].overwrite
              THEN [writer[v] EXCEPT !.alone = @ \ parts] ELSE writer[v]]
  BY DEF BeginWrite
<1> HIDE DEF new
<1>4. \A v \in Writers : writer[v] \in WriterRec /\ writer[v].alone \ parts \in SUBSET Partitions
  BY RecordTypes DEF WriterRec, TypeInv
<1>5. \A v \in Writers : [writer[v] EXCEPT !.alone = @ \ parts] \in WriterRec
  BY <1>4, WriterTyped
<1>6. writer' \in [Writers -> WriterRec]
  BY <1>2, <1>3, <1>4, <1>5
<1>7. ASSUME NEW v \in Writers, Active(v)'
      PROVE  writer'[v].call \in 1..calls'
  <2>1. CASE v = w
    <3>1. writer'[v].call = calls + 1
      BY <1>3, <2>1 DEF new, IdleWriter
    <3> QED BY <1>1, <3>1 DEF TypeInv, TypeOK
  <2>2. CASE v # w
    <3>1. writer'[v].call = writer[v].call /\ Active(v)
      <4>1. \/ writer'[v] = writer[v]
            \/ writer'[v] = [writer[v] EXCEPT !.alone = @ \ parts]
        BY <1>3, <2>2
      <4>2. writer[v] \in WriterRec /\ writer'[v].pc # "idle"
        BY <1>4, <1>7 DEF Active
      <4>3. writer'[v].call = writer[v].call /\ writer'[v].pc = writer[v].pc
        BY <4>1, <4>2 DEF WriterRec
      <4> QED BY <4>2, <4>3 DEF Active
    <3>2. writer[v].call \in 1..calls
      BY <3>1 DEF TypeInv, CallsInv
    <3> QED BY <1>1, <3>1, <3>2 DEF TypeInv, TypeOK
  <2> QED BY <2>1, <2>2
<1> QED BY <1>1, <1>6, <1>7 DEF CallsInv

(* A step of write() that changes one writer, and perhaps files and what is
   owed, keeps the types. *)
LEMMA OneWriterTyped ==
  ASSUME TypeInv, NEW w \in Writers, NEW rec \in WriterRec,
         writer' = [writer EXCEPT ![w] = rec], files' \subseteq File,
         rec.pc = "idle" \/ (rec.call = writer[w].call /\ Active(w)),
         owed' \subseteq Rowset, UNCHANGED <<pending, reader, calls, due>>
  PROVE  TypeInv'
<1>1. writer' \in [Writers -> WriterRec]
  BY RecordTypes DEF TypeInv
<1>2. TypeOK'
  BY <1>1 DEF TypeInv, TypeOK, WriterRec
<1>3. \A v \in Writers : writer'[v] = IF v = w THEN rec ELSE writer[v]
  BY RecordTypes DEF TypeInv
<1>4. CallsInv'
  BY <1>3 DEF TypeInv, CallsInv, Active
<1> QED BY <1>2, <1>4 DEF TypeInv

LEMMA TypeWrite ==
  ASSUME TypeInv, NEW w \in Writers, Write(w)
  PROVE  TypeInv'
<1>0. /\ writer[w] \in WriterRec /\ files \subseteq File /\ owed \subseteq Rowset
      /\ reader \in [Readers -> ReaderRec]
      /\ Active(w) => writer[w].call \in 1..MaxWrites
  <2>1. writer[w] \in WriterRec /\ reader \in [Readers -> ReaderRec]
    BY RecordTypes DEF TypeInv
  <2>2. Active(w) => writer[w].call \in 1..MaxWrites
    BY MaxWritesAssumption DEF TypeInv, TypeOK, CallsInv
  <2> QED BY <2>1, <2>2 DEF TypeInv, TypeOK
<1>1. ASSUME NEW parts \in SUBSET Partitions, NEW overwrite \in BOOLEAN,
             BeginWrite(w, parts, overwrite)
      PROVE  TypeInv'
  <2>1. writer' \in [Writers -> WriterRec] /\ calls' \in 0..MaxWrites /\ CallsInv'
    BY <1>1, BeginTyped
  <2>2. /\ UNCHANGED <<files, pending>> /\ owed' \subseteq Rowset
        /\ due' \in [Readers -> SUBSET Rowset]
    BY <1>1 DEF BeginWrite, TypeInv, TypeOK
  <2>3. reader' \in [Readers -> ReaderRec]
    <3>1. \A r \in Readers, q \in BOOLEAN : [reader[r] EXCEPT !.quiet = q] \in ReaderRec
      BY <1>0 DEF ReaderRec
    <3>2. \A r \in Readers : reader[r].quiet \in BOOLEAN
      BY <1>0 DEF ReaderRec
    <3> QED BY <1>1, <3>1, <3>2 DEF BeginWrite
  <2> QED BY <2>1, <2>2, <2>3 DEF WriterRec, ReaderRec, TypeInv, TypeOK
<1>2. ASSUME NEW p \in Partitions, ListDir(w, p) PROVE TypeInv'
  <2> DEFINE rec == [writer[w] EXCEPT !.clearing = p, !.listing = InDir(PathName[p])]
  <2>1. InDir(PathName[p]) \in SUBSET File
    BY <1>0 DEF InDir
  <2>2. rec \in WriterRec
    BY <1>0, <2>1, WriterTyped
  <2>4. rec.call = writer[w].call /\ Active(w)
    BY <1>0, <1>2 DEF ListDir, Active, WriterRec
  <2>3. writer' = [writer EXCEPT ![w] = rec] /\ UNCHANGED <<files, pending, reader, calls, owed, due>>
    BY <1>2 DEF ListDir
  <2> HIDE DEF rec
  <2> QED BY <1>0, <2>2, <2>3, <2>4, OneWriterTyped
<1>3. ASSUME DeleteFile(w) PROVE TypeInv'
  <2>1. PICK f \in writer[w].listing :
          /\ files' = {g \in files : g.dir # f.dir \/ g.name # f.name}
          /\ writer' = [writer EXCEPT ![w].listing = @ \ {f}]
    BY <1>3 DEF DeleteFile
  <2> DEFINE rec == [writer[w] EXCEPT !.listing = @ \ {f}]
  <2>2. writer[w].listing \in SUBSET File
    BY <1>0 DEF WriterRec
  <2>3. rec \in WriterRec
    BY <1>0, <2>2, WriterTyped
  <2>4. writer' = [writer EXCEPT ![w] = rec] /\ UNCHANGED <<pending, reader, calls, owed, due>>
    BY <1>3, <2>1 DEF DeleteFile
  <2>5. rec.pc = "idle" \/ (rec.call = writer[w].call /\ Active(w))
    BY <1>0 DEF WriterRec, Active
  <2>6. files' \subseteq File
    BY <1>0, <2>1
  <2> HIDE DEF rec
  <2> QED BY <1>0, <2>3, <2>4, <2>5, <2>6, OneWriterTyped
<1>4. ASSUME DirCleared(w) PROVE TypeInv'
  <2> DEFINE rec == [writer[w] EXCEPT !.clear = @ \ {writer[w].clearing},
                                      !.clearing = Nobody, !.listing = {}]
  <2>1. writer[w].clear \ {writer[w].clearing} \in SUBSET Partitions
    BY <1>0 DEF WriterRec
  <2>2. rec \in WriterRec
    BY <1>0, <2>1, WriterTyped
  <2>4. rec.pc = "idle" \/ (rec.call = writer[w].call /\ Active(w))
    BY <1>0 DEF WriterRec, Active
  <2>3. writer' = [writer EXCEPT ![w] = rec] /\ UNCHANGED <<files, pending, reader, calls, owed, due>>
    BY <1>4 DEF DirCleared
  <2> HIDE DEF rec
  <2> QED BY <1>0, <2>2, <2>3, <2>4, OneWriterTyped
<1>5. ASSUME BeginAppend(w) PROVE TypeInv'
  <2> DEFINE rec == [writer[w] EXCEPT !.pc = "appending"]
  <2>1. rec \in WriterRec /\ rec.call = writer[w].call /\ Active(w)
    BY <1>0, <1>5, WriterTyped DEF BeginAppend, Active, WriterRec
  <2>2. writer' = [writer EXCEPT ![w] = rec] /\ UNCHANGED <<files, pending, reader, calls, owed, due>>
    BY <1>5 DEF BeginAppend
  <2> HIDE DEF rec
  <2> QED BY <1>0, <2>1, <2>2, OneWriterTyped
<1>6. ASSUME NEW p \in Partitions, CreateFile(w, p) PROVE TypeInv'
  <2> DEFINE rec == [writer[w] EXCEPT !.todo = @ \ {p}]
             new == Parquet(p, writer[w].call, ~ Local)
  <2>1. Active(w) /\ (~ Local) \in BOOLEAN
    BY <1>6, DeploymentAssumption DEF CreateFile, Active
  <2>2. new \in File
    BY <1>0, <2>1, ParquetType
  <2>3. writer[w].todo \ {p} \in SUBSET Partitions
    BY <1>0 DEF WriterRec
  <2>4. rec \in WriterRec /\ rec.call = writer[w].call
    BY <1>0, <2>3, WriterTyped DEF WriterRec
  <2>5. writer' = [writer EXCEPT ![w] = rec] /\ UNCHANGED <<pending, reader, calls, owed, due>>
    BY <1>6 DEF CreateFile
  <2> HIDE DEF rec, new
  <2>6. files' \subseteq File
    BY <1>0, <1>6, <2>2 DEF CreateFile, new
  <2> QED BY <1>0, <2>1, <2>4, <2>5, <2>6, OneWriterTyped
<1>7. ASSUME CloseFile(w) PROVE TypeInv'
  <2>1. files' \subseteq File
    <3>1. \A f \in File : [f EXCEPT !.whole = TRUE] \in File
      BY DEF File
    <3> QED BY <1>0, <1>7, <3>1 DEF CloseFile
  <2> QED BY <1>7, <2>1 DEF CloseFile, TypeInv, TypeOK, CallsInv, Active
<1>8. ASSUME WriteReturns(w) \/ WriteFails(w) PROVE TypeInv'
  <2>1. writer' = [writer EXCEPT ![w] = IdleWriter] /\ UNCHANGED <<files, pending, reader, calls, due>>
    BY <1>8 DEF WriteReturns, WriteFails
  <2>2. owed' \subseteq Rowset
    <3>1. CASE WriteReturns(w)
      <4>1. Active(w) /\ writer[w].alone \subseteq Partitions
        BY <1>0, <3>1 DEF WriteReturns, Active, WriterRec
      <4> QED BY <1>0, <3>1, <4>1 DEF WriteReturns, Rowset
    <3>2. CASE WriteFails(w)
      BY <1>0, <3>2 DEF WriteFails
    <3> QED BY <1>8, <3>1, <3>2
  <2> DEFINE rec == IdleWriter
  <2>3. rec \in WriterRec /\ rec.pc = "idle"
    BY IdleTypes DEF IdleWriter
  <2>4. writer' = [writer EXCEPT ![w] = rec]
    BY <2>1
  <2> HIDE DEF rec
  <2> QED BY <1>0, <2>1, <2>2, <2>3, <2>4, OneWriterTyped
<1> QED BY <1>1, <1>2, <1>3, <1>4, <1>5, <1>6, <1>7, <1>8 DEF Write

LEMMA TypeRead ==
  ASSUME TypeInv, NEW r \in Readers, Read(r)
  PROVE  TypeInv'
<1>0. /\ reader \in [Readers -> ReaderRec] /\ pending \in [Readers -> SUBSET File]
      /\ files \subseteq File /\ owed \subseteq Rowset /\ due \in [Readers -> SUBSET Rowset]
      /\ reader[r] \in ReaderRec
  BY RecordTypes DEF TypeInv, TypeOK
<1>1. ASSUME reader' \in [Readers -> ReaderRec], pending' \in [Readers -> SUBSET File],
             due' \in [Readers -> SUBSET Rowset], UNCHANGED <<files, writer, calls, owed>>
      PROVE  TypeInv'
  BY <1>1 DEF ReaderRec, TypeInv, TypeOK, CallsInv, Active
<1>2. ASSUME NEW asked \in SUBSET Partitions, Execute(r, asked) PROVE TypeInv'
  <2> DEFINE quiet == \A w \in Writers : writer[w].clear \cap asked = {}
             rec == [pc |-> "reading", asked |-> asked, got |-> {}, quiet |-> quiet]
  <2>1. quiet \in BOOLEAN
    OBVIOUS
  <2> HIDE DEF quiet
  <2>2. rec \in ReaderRec
    BY <2>1 DEF ReaderRec
  <2>3. Globbed(asked) \in SUBSET File
    BY <1>0 DEF Globbed, InDir
  <2>4. /\ reader' = [reader EXCEPT ![r] = rec]
        /\ pending' = [pending EXCEPT ![r] = Globbed(asked)]
        /\ due' = [due EXCEPT ![r] = {o \in owed : o[1] \in asked}]
        /\ UNCHANGED <<files, writer, calls, owed>>
    BY <1>2 DEF Execute, Cursor, quiet
  <2> HIDE DEF rec
  <2>5. {o \in owed : o[1] \in asked} \in SUBSET Rowset
    BY <1>0
  <2> QED BY <1>0, <1>1, <2>2, <2>3, <2>4, <2>5
<1>3. ASSUME FetchFile(r) PROVE TypeInv'
  <2>1. PICK f \in pending[r] :
          /\ pending' = [pending EXCEPT ![r] = @ \ {f}]
          /\ reader' = [reader EXCEPT ![r].got = @ \cup {<<f.partition, f.call>>}]
    BY <1>3 DEF FetchFile, Cursor
  <2>2. f \in File /\ <<f.partition, f.call>> \in Rowset
    BY <1>0 DEF File, Rowset
  <2>3. [reader[r] EXCEPT !.got = @ \cup {<<f.partition, f.call>>}] \in ReaderRec
    BY <1>0, <2>2 DEF ReaderRec
  <2> QED BY <1>0, <1>1, <1>3, <2>1, <2>3 DEF FetchFile
<1>4. ASSUME FileMissing(r) \/ FileInvalid(r) \/ ReadReturns(r) PROVE TypeInv'
  <2>1. /\ pending' \in [Readers -> SUBSET File]
        /\ \E pc \in {"returned", "raised"} : reader' = [reader EXCEPT ![r].pc = pc]
        /\ UNCHANGED <<files, writer, calls, owed, due>>
    BY <1>0, <1>4 DEF FileMissing, FileInvalid, ReadReturns, Cursor
  <2>2. \A pc \in {"returned", "raised"} : [reader[r] EXCEPT !.pc = pc] \in ReaderRec
    BY <1>0 DEF ReaderRec
  <2> QED BY <1>0, <1>1, <2>1, <2>2
<1> QED BY <1>2, <1>3, <1>4 DEF Read

LEMMA TypeStep == TypeInv /\ [Next]_vars => TypeInv'
<1>1. TypeInv /\ UNCHANGED vars => TypeInv'
  BY DEF vars, TypeInv, TypeOK, CallsInv, Active
<1> QED BY <1>1, TypeWrite, TypeRead DEF Next

(* Type correctness, in every deployment and for any number of clients. *)
THEOREM TypeCorrect == Spec => []TypeOK
<1>1. TypeInv => TypeOK
  BY DEF TypeInv
<1> QED BY <1>1, TypeInit, TypeStep, PTL DEF Spec

-----------------------------------------------------------------------------
(***************************************************************************)
(* Files and what is owed.                                                 *)
(***************************************************************************)

(* Calls go on, or end; none begins, and none becomes another. *)
Moved ==
  /\ UNCHANGED calls
  /\ \A v \in Writers : Active(v)' =>
       /\ Active(v)
       /\ writer'[v].call = writer[v].call /\ writer'[v].parts = writer[v].parts
       /\ writer'[v].overwrite = writer[v].overwrite /\ writer'[v].alone = writer[v].alone

(* What one writer becomes when it alone changes. *)
LEMMA OneWriterMoves ==
  ASSUME TypeInv, NEW w \in Writers, NEW rec, writer' = [writer EXCEPT ![w] = rec]
  PROVE  writer'[w] = rec /\ \A v \in Writers : v # w => writer'[v] = writer[v]
BY DEF TypeInv, TypeOK

(* Steps that begin no call keep what relates two calls. *)
LEMMA MovedKeeps ==
  ASSUME WriterInv, AloneInv, Moved
  PROVE  /\ \A v, w \in Writers :
              (Active(v) /\ Active(w))' /\ v # w => writer'[v].call # writer'[w].call
         /\ AloneInv'
BY DEF WriterInv, AloneInv, Moved, Replacing

(* What the beginning of a call makes of the writers. *)
Begun(w, parts, overwrite) ==
  LET replaces == overwrite /\ Partitioned IN
  /\ writer'[w].pc = (IF replaces THEN "clearing" ELSE "appending")
  /\ writer'[w].call = calls + 1 /\ writer'[w].overwrite = overwrite
  /\ writer'[w].parts = parts /\ writer'[w].todo = parts
  /\ writer'[w].clear = (IF replaces THEN parts ELSE {})
  /\ writer'[w].clearing = Nobody /\ writer'[w].listing = {}
  /\ writer'[w].alone \subseteq parts
  /\ \A v \in Writers \ {w} :
       /\ Active(v) /\ (replaces \/ writer[v].overwrite) =>
            writer'[w].alone \cap writer[v].parts = {}
       /\ writer'[v].pc = writer[v].pc /\ writer'[v].call = writer[v].call
       /\ writer'[v].overwrite = writer[v].overwrite
       /\ writer'[v].parts = writer[v].parts /\ writer'[v].todo = writer[v].todo
       /\ writer'[v].clear = writer[v].clear
       /\ writer'[v].clearing = writer[v].clearing
       /\ writer'[v].listing = writer[v].listing
       /\ writer'[v].alone \subseteq writer[v].alone
       /\ replaces \/ writer[v].overwrite => writer'[v].alone \cap parts = {}

LEMMA BeginParts ==
  ASSUME TypeInv, NEW w \in Writers, NEW parts \in SUBSET Partitions,
         NEW overwrite \in BOOLEAN, BeginWrite(w, parts, overwrite)
  PROVE  Begun(w, parts, overwrite)
<1> DEFINE replaces == overwrite /\ Partitioned
           rivals == IF replaces THEN WrittenByOthers(w) ELSE ReplacedByOthers(w)
           new == [IdleWriter EXCEPT
                     !.pc = IF replaces THEN "clearing" ELSE "appending",
                     !.call = calls + 1, !.overwrite = overwrite,
                     !.parts = parts, !.todo = parts, !.alone = parts \ rivals,
                     !.clear = IF replaces THEN parts ELSE {}]
<1>1. writer' = [v \in Writers |->
         IF v = w THEN new
         ELSE IF replaces \/ writer[v].overwrite
              THEN [writer[v] EXCEPT !.alone = @ \ parts] ELSE writer[v]]
  BY DEF BeginWrite
<1>2. \A v \in Writers \ {w} :
        Active(v) /\ (replaces \/ writer[v].overwrite) => rivals \cap writer[v].parts = writer[v].parts
  BY DEF WrittenByOthers, ReplacedByOthers
<1> HIDE DEF rivals
<1>3. writer'[w] = new
  BY <1>1
<1>4. /\ new.pc = (IF replaces THEN "clearing" ELSE "appending")
      /\ new.call = calls + 1 /\ new.overwrite = overwrite
      /\ new.parts = parts /\ new.todo = parts
      /\ new.clear = (IF replaces THEN parts ELSE {})
      /\ new.clearing = Nobody /\ new.listing = {}
      /\ new.alone = parts \ rivals
  BY DEF IdleWriter
<1> HIDE DEF new
<1>5. ASSUME NEW v \in Writers \ {w}
      PROVE  /\ writer'[v].pc = writer[v].pc /\ writer'[v].call = writer[v].call
             /\ writer'[v].overwrite = writer[v].overwrite
             /\ writer'[v].parts = writer[v].parts /\ writer'[v].todo = writer[v].todo
             /\ writer'[v].clear = writer[v].clear
             /\ writer'[v].clearing = writer[v].clearing
             /\ writer'[v].listing = writer[v].listing
             /\ writer'[v].alone \subseteq writer[v].alone
             /\ replaces \/ writer[v].overwrite => writer'[v].alone \cap parts = {}
  <2>1. writer[v] \in WriterRec
    BY RecordTypes DEF TypeInv
  <2>2. writer'[v] = IF replaces \/ writer[v].overwrite
                     THEN [writer[v] EXCEPT !.alone = @ \ parts] ELSE writer[v]
    BY <1>1
  <2> HIDE DEF replaces
  <2> QED BY <2>1, <2>2 DEF WriterRec
<1>6. \A v \in Writers \ {w} :
        Active(v) /\ (replaces \/ writer[v].overwrite) => new.alone \cap writer[v].parts = {}
  BY <1>2, <1>4
<1>7. writer'[w].alone \subseteq parts
  BY <1>3, <1>4
<1> HIDE DEF replaces
<1>8. /\ writer'[w].pc = (IF replaces THEN "clearing" ELSE "appending")
      /\ writer'[w].call = calls + 1 /\ writer'[w].overwrite = overwrite
      /\ writer'[w].parts = parts /\ writer'[w].todo = parts
      /\ writer'[w].clear = (IF replaces THEN parts ELSE {})
      /\ writer'[w].clearing = Nobody /\ writer'[w].listing = {}
  BY <1>3, <1>4
<1> QED BY <1>3, <1>5, <1>6, <1>7, <1>8 DEF replaces, Begun

Rest == FilesInv /\ AloneInv /\ CreatedInv /\ OwedInv /\ ReturnedRowsStay

LEMMA BeginKeeps ==
  ASSUME TableInv, NEW w \in Writers, NEW parts \in SUBSET Partitions,
         NEW overwrite \in BOOLEAN, BeginWrite(w, parts, overwrite)
  PROVE  WriterInv' /\ Rest'
<1> DEFINE replaces == overwrite /\ Partitioned
<1>0. Begun(w, parts, overwrite)
  BY BeginParts DEF TableInv
<1>1. /\ writer'[w].pc = (IF replaces THEN "clearing" ELSE "appending")
      /\ writer'[w].call = calls + 1 /\ writer'[w].overwrite = overwrite
      /\ writer'[w].parts = parts /\ writer'[w].todo = parts
      /\ writer'[w].clear = (IF replaces THEN parts ELSE {})
      /\ writer'[w].clearing = Nobody /\ writer'[w].listing = {}
      /\ writer'[w].alone \subseteq parts
  BY <1>0 DEF Begun
<1>2. \A v \in Writers \ {w} :
        /\ Active(v) /\ (replaces \/ writer[v].overwrite) =>
             writer'[w].alone \cap writer[v].parts = {}
        /\ writer'[v].pc = writer[v].pc /\ writer'[v].call = writer[v].call
        /\ writer'[v].overwrite = writer[v].overwrite
        /\ writer'[v].parts = writer[v].parts /\ writer'[v].todo = writer[v].todo
        /\ writer'[v].clear = writer[v].clear
        /\ writer'[v].clearing = writer[v].clearing
        /\ writer'[v].listing = writer[v].listing
        /\ writer'[v].alone \subseteq writer[v].alone
        /\ replaces \/ writer[v].overwrite => writer'[v].alone \cap parts = {}
  BY <1>0 DEF Begun
<1>3. /\ calls' = calls + 1 /\ UNCHANGED files /\ calls \in Nat
      /\ owed' = {o \in owed : ~ (replaces /\ o[1] \in parts)}
      /\ ~ Active(w)
  BY DEF BeginWrite, TableInv, TypeInv, TypeOK
<1> HIDE DEF replaces
<1>4. \A v \in Writers : Active(v) => writer[v].call \in 1..calls
  BY DEF TableInv, TypeInv, CallsInv
<1>5. \A v \in Writers \ {w} : Active(v)' = Active(v)
  BY <1>2 DEF Active
<1>6. WriterInv'
  <2>1. WriterOK(writer'[w])
    BY <1>1 DEF WriterOK, replaces
  <2>2. ASSUME NEW v \in Writers \ {w} PROVE WriterOK(writer'[v])
    <3>1. WriterOK(writer[v])
      BY DEF TableInv, WriterInv
    <3> QED BY <1>2, <3>1 DEF WriterOK
  <2>3. \A v, u \in Writers : Active(v)' /\ Active(u)' /\ v # u => writer'[v].call # writer'[u].call
    <3>1. \A v \in Writers \ {w} : Active(v)' => writer'[v].call \in 1..calls
      BY <1>2, <1>4, <1>5
    <3>2. \A v \in Writers \ {w} : Active(v)' => writer'[v].call # calls + 1
      BY <1>3, <3>1
    <3> QED BY <1>1, <1>2, <1>5, <3>2 DEF TableInv, WriterInv
  <2> QED BY <2>1, <2>2, <2>3 DEF WriterInv
<1>7. FilesInv'
  <2>1. \A f \in files : f.call \in 1..calls' /\ f.call # calls + 1
    BY <1>3 DEF TableInv, FilesInv
  <2>2. \A f \in files : \A v \in Writers :
          Active(v)' /\ f.call = writer'[v].call => f.partition \in writer'[v].parts
    BY <1>1, <1>2, <1>5, <2>1 DEF TableInv, FilesInv
  <2> QED BY <1>3, <2>1, <2>2 DEF TableInv, FilesInv, Named
<1>8. AloneInv'
  <2> SUFFICES ASSUME NEW v \in Writers, NEW u \in Writers, Active(v)', Active(u)', v # u,
                      NEW p \in writer'[u].alone, p \in writer'[v].parts
               PROVE  ~ Replacing(v)' /\ ~ Replacing(u)'
    BY DEF AloneInv
  <2>1. CASE u = w
    BY <1>1, <1>2, <1>5, <2>1 DEF Replacing, replaces
  <2>2. CASE v = w
    BY <1>1, <1>2, <1>5, <2>2 DEF Replacing, replaces
  <2>3. CASE u # w /\ v # w
    BY <1>2, <1>5, <2>3 DEF Replacing, TableInv, AloneInv
  <2> QED BY <2>1, <2>2, <2>3
<1>9. CreatedInv'
  BY <1>1, <1>2, <1>3 DEF TableInv, CreatedInv, HasFile
<1>10. OwedInv'
  <2> SUFFICES ASSUME NEW o \in owed, ~ (replaces /\ o[1] \in parts)
               PROVE  /\ o[2] \in 1..calls'
                      /\ \A v \in Writers : Active(v)' =>
                           /\ writer'[v].call # o[2]
                           /\ Replacing(v)' => o[1] \notin writer'[v].parts
    BY <1>3 DEF OwedInv
  <2>1. o[2] \in 1..calls
    BY DEF TableInv, OwedInv
  <2>2. o[2] \in 1..calls' /\ o[2] # calls + 1
    BY <1>3, <2>1
  <2>3. Replacing(w)' => o[1] \notin writer'[w].parts
    BY <1>1 DEF Replacing, replaces
  <2>4. \A v \in Writers \ {w} : Active(v) =>
          writer[v].call # o[2] /\ (Replacing(v) => o[1] \notin writer[v].parts)
    BY DEF TableInv, OwedInv
  <2>5. \A v \in Writers \ {w} : Replacing(v)' = Replacing(v)
    BY <1>2, <1>5 DEF Replacing
  <2> QED BY <1>1, <1>2, <1>5, <2>2, <2>3, <2>4, <2>5
<1>11. ReturnedRowsStay'
  BY <1>3 DEF TableInv, ReturnedRowsStay
<1> QED BY <1>6, <1>7, <1>8, <1>9, <1>10, <1>11 DEF Rest

(* A call that goes on keeps what holds of all writers. *)
LEMMA WriterMoves ==
  ASSUME TableInv, Moved, NEW w \in Writers, NEW rec, WriterOK(rec),
         writer' = [writer EXCEPT ![w] = rec]
  PROVE  WriterInv' /\ AloneInv'
<1>1. WriterInv /\ AloneInv
  BY DEF TableInv
<1>2. \A v \in Writers : WriterOK(writer'[v])
  BY <1>1, OneWriterMoves DEF TableInv, WriterInv
<1> QED BY <1>1, <1>2, MovedKeeps DEF WriterInv

(* A step that changes no file, and what is owed neither. *)
LEMMA SameFilesKeep ==
  ASSUME TableInv, Moved, UNCHANGED <<files, owed>>,
         \A v \in Writers : writer'[v].pc = "appending" =>
           /\ writer'[v].todo = writer[v].todo
           /\ writer[v].pc = "appending" \/ writer[v].alone \subseteq writer[v].todo
  PROVE  FilesInv' /\ CreatedInv' /\ OwedInv' /\ ReturnedRowsStay'
<1>1. FilesInv'
  BY DEF TableInv, FilesInv, Named, Moved
<1>2. CreatedInv'
  <2> SUFFICES ASSUME NEW v \in Writers, writer'[v].pc = "appending",
                      NEW p \in writer'[v].alone \ writer'[v].todo
               PROVE  \E f \in files' : f.partition = p /\ f.call = writer'[v].call
    BY DEF CreatedInv, HasFile
  <2>1. /\ writer'[v].call = writer[v].call /\ writer'[v].alone = writer[v].alone
        /\ writer'[v].todo = writer[v].todo
    BY DEF Moved, Active
  <2>2. writer[v].pc = "appending"
    BY <2>1
  <2> QED BY <2>1, <2>2 DEF TableInv, CreatedInv, HasFile
<1>3. OwedInv'
  BY DEF TableInv, OwedInv, Moved, Replacing
<1>4. ReturnedRowsStay'
  BY DEF TableInv, ReturnedRowsStay
<1> QED BY <1>1, <1>2, <1>3, <1>4

LEMMA ListKeeps ==
  ASSUME TableInv, Sound, NEW w \in Writers, NEW p \in Partitions, ListDir(w, p)
  PROVE  WriterInv' /\ Rest'
<1> DEFINE rec == [writer[w] EXCEPT !.clearing = p, !.listing = InDir(PathName[p])]
<1>1. writer' = [writer EXCEPT ![w] = rec] /\ UNCHANGED <<files, calls, owed>>
  BY DEF ListDir
<1>2. writer[w] \in WriterRec /\ WriterOK(writer[w])
  BY RecordTypes DEF TableInv, TypeInv, WriterInv
<1>3. \A f \in InDir(PathName[p]) : Named(f) /\ f.partition = p
  <2> SUFFICES ASSUME NEW f \in files, f.dir = PathName[p]
               PROVE  Named(f) /\ f.partition = p
    BY DEF InDir
  <2>1. f \in File /\ Named(f)
    BY DEF TableInv, TypeInv, TypeOK, FilesInv
  <2>2. f.partition \in Partitions
    BY <2>1 DEF File
  <2> QED BY <2>1, <2>2, NamesAssumption DEF Named, Sound
<1>4. /\ rec.pc = writer[w].pc /\ rec.call = writer[w].call /\ rec.parts = writer[w].parts
      /\ rec.overwrite = writer[w].overwrite /\ rec.alone = writer[w].alone
      /\ rec.todo = writer[w].todo /\ rec.clear = writer[w].clear
      /\ rec.clearing = p /\ rec.listing = InDir(PathName[p])
  BY <1>2 DEF WriterRec
<1> HIDE DEF rec
<1>5. WriterOK(rec)
  BY <1>2, <1>3, <1>4 DEF ListDir, WriterOK, Sound
<1>6. writer'[w] = rec /\ \A v \in Writers : v # w => writer'[v] = writer[v]
  BY <1>1, OneWriterMoves DEF TableInv
<1>7. Moved
  BY <1>1, <1>4, <1>6 DEF Moved, Active
<1>8. WriterInv' /\ AloneInv'
  BY <1>1, <1>5, <1>7, WriterMoves
<1>9. \A v \in Writers : writer'[v].pc = "appending" =>
        writer'[v].todo = writer[v].todo /\ writer[v].pc = "appending"
  BY <1>4, <1>6
<1> QED BY <1>1, <1>7, <1>8, <1>9, SameFilesKeep DEF Rest

LEMMA ClearedKeeps ==
  ASSUME TableInv, Sound, NEW w \in Writers, DirCleared(w)
  PROVE  WriterInv' /\ Rest'
<1> DEFINE rec == [writer[w] EXCEPT !.clear = @ \ {writer[w].clearing},
                                    !.clearing = Nobody, !.listing = {}]
<1>1. writer' = [writer EXCEPT ![w] = rec] /\ UNCHANGED <<files, calls, owed>>
  BY DEF DirCleared
<1>2. writer[w] \in WriterRec /\ WriterOK(writer[w])
  BY RecordTypes DEF TableInv, TypeInv, WriterInv
<1>4. /\ rec.pc = writer[w].pc /\ rec.call = writer[w].call /\ rec.parts = writer[w].parts
      /\ rec.overwrite = writer[w].overwrite /\ rec.alone = writer[w].alone
      /\ rec.todo = writer[w].todo /\ rec.clear = writer[w].clear \ {writer[w].clearing}
      /\ rec.clearing = Nobody /\ rec.listing = {}
  BY <1>2 DEF WriterRec
<1> HIDE DEF rec
<1>5. WriterOK(rec)
  BY <1>2, <1>4 DEF DirCleared, WriterOK
<1>6. writer'[w] = rec /\ \A v \in Writers : v # w => writer'[v] = writer[v]
  BY <1>1, OneWriterMoves DEF TableInv
<1>7. Moved
  BY <1>1, <1>4, <1>6 DEF Moved, Active
<1>8. WriterInv' /\ AloneInv'
  BY <1>1, <1>5, <1>7, WriterMoves
<1>9. \A v \in Writers : writer'[v].pc = "appending" =>
        writer'[v].todo = writer[v].todo /\ writer[v].pc = "appending"
  BY <1>4, <1>6
<1> QED BY <1>1, <1>7, <1>8, <1>9, SameFilesKeep DEF Rest

LEMMA AppendKeeps ==
  ASSUME TableInv, Sound, NEW w \in Writers, BeginAppend(w)
  PROVE  WriterInv' /\ Rest'
<1> DEFINE rec == [writer[w] EXCEPT !.pc = "appending"]
<1>1. writer' = [writer EXCEPT ![w] = rec] /\ UNCHANGED <<files, calls, owed>>
  BY DEF BeginAppend
<1>2. writer[w] \in WriterRec /\ WriterOK(writer[w])
  BY RecordTypes DEF TableInv, TypeInv, WriterInv
<1>3. writer[w].pc = "clearing" /\ writer[w].clear = {}
  BY DEF BeginAppend
<1>4. /\ rec.pc = "appending" /\ rec.call = writer[w].call /\ rec.parts = writer[w].parts
      /\ rec.overwrite = writer[w].overwrite /\ rec.alone = writer[w].alone
      /\ rec.todo = writer[w].todo /\ rec.clear = writer[w].clear
      /\ rec.clearing = writer[w].clearing /\ rec.listing = writer[w].listing
  BY <1>2 DEF WriterRec
<1> HIDE DEF rec
<1>5. WriterOK(rec)
  BY <1>2, <1>3, <1>4 DEF WriterOK
<1>6. writer'[w] = rec /\ \A v \in Writers : v # w => writer'[v] = writer[v]
  BY <1>1, OneWriterMoves DEF TableInv
<1>7. Moved
  BY <1>1, <1>3, <1>4, <1>6 DEF Moved, Active
<1>8. WriterInv' /\ AloneInv'
  BY <1>1, <1>5, <1>7, WriterMoves
<1>9. writer[w].alone \subseteq writer[w].todo
  BY <1>2, <1>3 DEF WriterOK
<1>10. \A v \in Writers : writer'[v].pc = "appending" =>
         /\ writer'[v].todo = writer[v].todo
         /\ writer[v].pc = "appending" \/ writer[v].alone \subseteq writer[v].todo
  BY <1>4, <1>6, <1>9
<1> QED BY <1>1, <1>7, <1>8, <1>10, SameFilesKeep DEF Rest

LEMMA FailsKeeps ==
  ASSUME TableInv, Sound, NEW w \in Writers, WriteFails(w)
  PROVE  WriterInv' /\ Rest'
<1>1. writer' = [writer EXCEPT ![w] = IdleWriter] /\ UNCHANGED <<files, calls, owed>>
  BY DEF WriteFails
<1>2. WriterOK(IdleWriter) /\ IdleWriter.pc = "idle"
  BY DEF WriterOK, IdleWriter
<1>3. writer'[w] = IdleWriter /\ \A v \in Writers : v # w => writer'[v] = writer[v]
  BY <1>1, OneWriterMoves DEF TableInv
<1>4. Moved
  BY <1>1, <1>2, <1>3 DEF Moved, Active
<1>5. WriterInv' /\ AloneInv'
  BY <1>1, <1>2, <1>4, WriterMoves
<1>6. \A v \in Writers : writer'[v].pc = "appending" =>
        writer'[v].todo = writer[v].todo /\ writer[v].pc = "appending"
  BY <1>2, <1>3
<1> QED BY <1>1, <1>4, <1>5, <1>6, SameFilesKeep DEF Rest

LEMMA ReturnsKeeps ==
  ASSUME TableInv, Sound, NEW w \in Writers, WriteReturns(w)
  PROVE  WriterInv' /\ Rest'
<1>1. /\ writer' = [writer EXCEPT ![w] = IdleWriter] /\ UNCHANGED <<files, calls>>
      /\ owed' = owed \cup {<<p, writer[w].call>> : p \in writer[w].alone}
      /\ writer[w].pc = "appending" /\ writer[w].todo = {}
      /\ \A f \in files : f.call = writer[w].call => f.whole
  BY DEF WriteReturns
<1>2. WriterOK(IdleWriter) /\ IdleWriter.pc = "idle"
  BY DEF WriterOK, IdleWriter
<1>3. writer'[w] = IdleWriter /\ \A v \in Writers : v # w => writer'[v] = writer[v]
  BY <1>1, OneWriterMoves DEF TableInv
<1>4. Moved
  BY <1>1, <1>2, <1>3 DEF Moved, Active
<1>5. WriterInv' /\ AloneInv'
  BY <1>1, <1>2, <1>4, WriterMoves
<1>6. FilesInv'
  BY <1>1, <1>4 DEF TableInv, FilesInv, Named, Moved
<1>7. CreatedInv'
  BY <1>1, <1>2, <1>3 DEF TableInv, CreatedInv, HasFile
<1>8. Active(w) /\ writer[w].call \in 1..calls
  BY <1>1 DEF Active, TableInv, TypeInv, CallsInv
<1>9. ASSUME NEW o \in owed'
      PROVE  /\ o[2] \in 1..calls'
             /\ \A v \in Writers : Active(v)' =>
                  writer'[v].call # o[2] /\ (Replacing(v)' => o[1] \notin writer'[v].parts)
             /\ \E f \in files' : f.partition = o[1] /\ f.call = o[2] /\ f.whole
  <2>1. CASE o \in owed
    BY <1>1, <1>4, <2>1 DEF TableInv, OwedInv, Moved, Replacing, ReturnedRowsStay
  <2>2. CASE o \notin owed
    <3>1. PICK p \in writer[w].alone : o = <<p, writer[w].call>>
      BY <1>1, <2>2
    <3>2. o[1] = p /\ o[2] = writer[w].call
      BY <3>1
    <3>3. HasFile(p, writer[w].call)
      BY <1>1 DEF TableInv, CreatedInv
    <3>4. \E f \in files' : f.partition = o[1] /\ f.call = o[2] /\ f.whole
      BY <1>1, <3>2, <3>3 DEF HasFile
    <3>5. ASSUME NEW v \in Writers, Active(v)'
          PROVE  writer'[v].call # o[2] /\ (Replacing(v)' => o[1] \notin writer'[v].parts)
      <4>1. v # w /\ writer'[v] = writer[v] /\ Active(v)
        BY <1>2, <1>3, <3>5 DEF Active
      <4>2. writer[v].call # writer[w].call
        BY <1>8, <4>1 DEF TableInv, WriterInv
      <4>3. Replacing(v) => p \notin writer[v].parts
        BY <1>8, <4>1 DEF TableInv, AloneInv
      <4>4. Replacing(v)' = Replacing(v)
        BY <3>5, <4>1 DEF Replacing
      <4> QED BY <3>2, <4>1, <4>2, <4>3, <4>4
    <3> QED BY <1>1, <1>8, <3>2, <3>4, <3>5
  <2> QED BY <2>1, <2>2
<1>10. OwedInv' /\ ReturnedRowsStay'
  BY <1>9 DEF OwedInv, ReturnedRowsStay
<1> QED BY <1>5, <1>6, <1>7, <1>10 DEF Rest

LEMMA DeleteKeeps ==
  ASSUME TableInv, Sound, NEW w \in Writers, DeleteFile(w)
  PROVE  WriterInv' /\ Rest'
<1>1. PICK f \in writer[w].listing :
        /\ files' = {g \in files : g.dir # f.dir \/ g.name # f.name}
        /\ writer' = [writer EXCEPT ![w].listing = @ \ {f}]
  BY DEF DeleteFile
<1> DEFINE rec == [writer[w] EXCEPT !.listing = @ \ {f}]
<1>2. writer[w] \in WriterRec /\ WriterOK(writer[w])
  BY RecordTypes DEF TableInv, TypeInv, WriterInv
<1>3. writer' = [writer EXCEPT ![w] = rec] /\ UNCHANGED <<calls, owed>>
  BY <1>1 DEF DeleteFile
<1>4. /\ rec.pc = writer[w].pc /\ rec.call = writer[w].call /\ rec.parts = writer[w].parts
      /\ rec.overwrite = writer[w].overwrite /\ rec.alone = writer[w].alone
      /\ rec.todo = writer[w].todo /\ rec.clear = writer[w].clear
      /\ rec.clearing = writer[w].clearing /\ rec.listing = writer[w].listing \ {f}
  BY <1>2 DEF WriterRec
<1> HIDE DEF rec
<1>5. WriterOK(rec)
  BY <1>2, <1>4 DEF WriterOK
<1>6. writer'[w] = rec /\ \A v \in Writers : v # w => writer'[v] = writer[v]
  BY <1>3, OneWriterMoves DEF TableInv
<1>7. Moved
  BY <1>3, <1>4, <1>6 DEF Moved, Active
<1>8. WriterInv' /\ AloneInv'
  BY <1>3, <1>5, <1>7, WriterMoves
<1>9. /\ Named(f) /\ f.partition = writer[w].clearing
      /\ writer[w].clearing \in writer[w].parts /\ Replacing(w) /\ Active(w)
  <2>1. writer[w].clearing # Nobody /\ Named(f) /\ f.partition = writer[w].clearing
    BY <1>1, <1>2 DEF WriterOK
  <2>2. writer[w].pc = "clearing" /\ writer[w].clearing \in writer[w].clear
    BY <1>2, <2>1 DEF WriterOK
  <2> QED BY <1>2, <2>1, <2>2 DEF WriterOK, Replacing, Active
<1> DEFINE p == writer[w].clearing
<1>10. ASSUME NEW g \in files, g \notin files' PROVE g.partition = p
  <2>1. g.dir = f.dir
    BY <1>1, <1>10
  <2>2. g \in File /\ Named(g) /\ f \in File
    BY <1>1, <1>2 DEF TableInv, TypeInv, TypeOK, FilesInv, WriterRec
  <2>3. g.partition \in Partitions /\ f.partition \in Partitions
    BY <2>2 DEF File
  <2> QED BY <1>9, <2>1, <2>2, <2>3, NamesAssumption DEF Named
<1>11. files' \subseteq files
  BY <1>1
<1> HIDE DEF p
<1>12. FilesInv'
  BY <1>3, <1>7, <1>11 DEF TableInv, FilesInv, Named, Moved
<1>13. CreatedInv'
  <2> SUFFICES ASSUME NEW v \in Writers, writer'[v].pc = "appending",
                      NEW q \in writer'[v].alone \ writer'[v].todo
               PROVE  \E g \in files' : g.partition = q /\ g.call = writer'[v].call
    BY DEF CreatedInv, HasFile
  <2>1. v # w
    BY <1>2, <1>4, <1>6, <1>9 DEF WriterOK, p
  <2>2. writer'[v] = writer[v]
    BY <1>6, <2>1
  <2>3. PICK g \in files : g.partition = q /\ g.call = writer[v].call
    BY <2>2 DEF TableInv, CreatedInv, HasFile
  <2>4. Active(v) /\ q \in writer[v].alone
    BY <2>2 DEF Active
  <2>5. q # p
    BY <1>9, <2>1, <2>4 DEF TableInv, AloneInv, p
  <2> QED BY <1>10, <2>2, <2>3, <2>5
<1>14. OwedInv'
  BY <1>3, <1>7 DEF TableInv, OwedInv, Moved, Replacing
<1>15. ReturnedRowsStay'
  <2> SUFFICES ASSUME NEW o \in owed
               PROVE  \E g \in files' : g.partition = o[1] /\ g.call = o[2] /\ g.whole
    BY <1>3 DEF ReturnedRowsStay
  <2>1. o[1] # p
    BY <1>9 DEF TableInv, OwedInv, p
  <2> QED BY <1>10, <2>1 DEF TableInv, ReturnedRowsStay
<1> QED BY <1>8, <1>12, <1>13, <1>14, <1>15 DEF Rest

LEMMA CreateKeeps ==
  ASSUME TableInv, Sound, NEW w \in Writers, NEW p \in Partitions, CreateFile(w, p)
  PROVE  WriterInv' /\ Rest'
<1> DEFINE rec == [writer[w] EXCEPT !.todo = @ \ {p}]
           new == Parquet(p, writer[w].call, ~ Local)
<1>1. /\ writer' = [writer EXCEPT ![w] = rec] /\ UNCHANGED <<calls, owed>>
      /\ files' = (files \ SameName(p, writer[w].call)) \cup {new}
      /\ writer[w].pc = "appending" /\ p \in writer[w].todo /\ Active(w)
  BY DEF CreateFile, Sound, Active
<1>2. writer[w] \in WriterRec /\ WriterOK(writer[w])
  BY RecordTypes DEF TableInv, TypeInv, WriterInv
<1>3. writer[w].call \in 1..calls /\ writer[w].call \in 1..MaxWrites
  BY <1>1, MaxWritesAssumption DEF TableInv, TypeInv, CallsInv, TypeOK
<1>4. /\ rec.pc = writer[w].pc /\ rec.call = writer[w].call /\ rec.parts = writer[w].parts
      /\ rec.overwrite = writer[w].overwrite /\ rec.alone = writer[w].alone
      /\ rec.todo = writer[w].todo \ {p} /\ rec.clear = writer[w].clear
      /\ rec.clearing = writer[w].clearing /\ rec.listing = writer[w].listing
  BY <1>2 DEF WriterRec
<1>5. Named(new) /\ new.partition = p /\ new.call = writer[w].call
  BY DEF Parquet, Named
<1>6. \A f \in SameName(p, writer[w].call) :
        f \in files /\ f.partition = p /\ f.call = writer[w].call
  <2> SUFFICES ASSUME NEW f \in files, f.dir = DirName[p], f.name = writer[w].call
               PROVE  f.partition = p /\ f.call = writer[w].call
    BY DEF SameName, Parquet
  <2>1. f \in File /\ Named(f)
    BY DEF TableInv, TypeInv, TypeOK, FilesInv
  <2>2. f.partition \in Partitions
    BY <2>1 DEF File
  <2> QED BY <2>1, <2>2, NamesAssumption DEF Named
<1>7. \A f \in files : f.partition = p /\ f.call = writer[w].call =>
        f \in SameName(p, writer[w].call)
  BY DEF SameName, Parquet, TableInv, FilesInv, Named
<1> HIDE DEF rec, new
<1>8. WriterOK(rec)
  BY <1>1, <1>2, <1>4 DEF WriterOK
<1>9. writer'[w] = rec /\ \A v \in Writers : v # w => writer'[v] = writer[v]
  BY <1>1, OneWriterMoves DEF TableInv
<1>10. Moved
  BY <1>1, <1>4, <1>9 DEF Moved, Active
<1>11. WriterInv' /\ AloneInv'
  BY <1>1, <1>8, <1>10, WriterMoves
<1>12. FilesInv'
  <2>1. \A f \in files' : Named(f) /\ f.call \in 1..calls'
    BY <1>1, <1>3, <1>5 DEF TableInv, FilesInv, Named
  <2>2. \A f, g \in files' : f.partition = g.partition /\ f.call = g.call => f = g
    BY <1>1, <1>5, <1>7 DEF TableInv, FilesInv
  <2>3. p \in writer[w].parts
    BY <1>1, <1>2 DEF WriterOK
  <2>4. ASSUME NEW f \in files', NEW v \in Writers, Active(v)', f.call = writer'[v].call
        PROVE  f.partition \in writer'[v].parts
    <3>1. Active(v) /\ writer'[v].call = writer[v].call /\ writer'[v].parts = writer[v].parts
      BY <1>10, <2>4 DEF Moved
    <3>2. CASE f \in files
      BY <2>4, <3>1, <3>2 DEF TableInv, FilesInv
    <3>3. CASE f = new
      <4>1. v = w
        BY <1>1, <1>5, <2>4, <3>1, <3>3 DEF TableInv, WriterInv
      <4> QED BY <1>5, <2>3, <3>1, <3>3, <4>1
    <3> QED BY <1>1, <2>4, <3>2, <3>3
  <2> QED BY <2>1, <2>2, <2>4 DEF FilesInv, Named
<1>13. CreatedInv'
  <2> SUFFICES ASSUME NEW v \in Writers, writer'[v].pc = "appending",
                      NEW q \in writer'[v].alone \ writer'[v].todo
               PROVE  \E g \in files' : g.partition = q /\ g.call = writer'[v].call
    BY DEF CreatedInv, HasFile
  <2>1. CASE v = w /\ q = p
    BY <1>1, <1>4, <1>5, <1>9, <2>1
  <2>2. CASE ~ (v = w /\ q = p)
    <3>1. /\ writer[v].pc = "appending" /\ q \in writer[v].alone \ writer[v].todo
          /\ writer'[v].call = writer[v].call
      BY <1>4, <1>9, <2>2
    <3>2. PICK g \in files : g.partition = q /\ g.call = writer[v].call
      BY <3>1 DEF TableInv, CreatedInv, HasFile
    <3>3. v # w => writer[v].call # writer[w].call
      BY <1>1, <3>1 DEF TableInv, WriterInv, Active
    <3>4. g \notin SameName(p, writer[w].call)
      BY <1>6, <2>2, <3>2, <3>3
    <3> QED BY <1>1, <3>1, <3>2, <3>4
  <2> QED BY <2>1, <2>2
<1>14. OwedInv'
  BY <1>1, <1>10 DEF TableInv, OwedInv, Moved, Replacing
<1>15. ReturnedRowsStay'
  <2> SUFFICES ASSUME NEW o \in owed
               PROVE  \E g \in files' : g.partition = o[1] /\ g.call = o[2] /\ g.whole
    BY <1>1 DEF ReturnedRowsStay
  <2>1. o[2] # writer[w].call
    BY <1>1 DEF TableInv, OwedInv
  <2> QED BY <1>1, <1>6, <2>1 DEF TableInv, ReturnedRowsStay
<1> QED BY <1>11, <1>12, <1>13, <1>14, <1>15 DEF Rest

LEMMA CloseKeeps ==
  ASSUME TableInv, Sound, NEW w \in Writers, CloseFile(w)
  PROVE  WriterInv' /\ Rest'
<1>1. PICK f \in files : files' = (files \ {f}) \cup {[f EXCEPT !.whole = TRUE]}
  BY DEF CloseFile
<1> DEFINE new == [f EXCEPT !.whole = TRUE]
<1>2. UNCHANGED <<writer, calls, owed>>
  BY DEF CloseFile
<1>3. f \in File
  BY DEF TableInv, TypeInv, TypeOK
<1>4. /\ new.dir = f.dir /\ new.name = f.name /\ new.partition = f.partition
      /\ new.call = f.call /\ new.whole
  BY <1>3 DEF File
<1>5. files' = (files \ {f}) \cup {new}
  BY <1>1
<1> HIDE DEF new
<1>6. WriterInv' /\ AloneInv'
  BY <1>2 DEF TableInv, WriterInv, AloneInv, Active, Replacing
<1>7. FilesInv'
  <2>1. \A g \in files' : Named(g) /\ g.call \in 1..calls'
    BY <1>2, <1>4, <1>5 DEF TableInv, FilesInv, Named
  <2>2. \A g, h \in files' : g.partition = h.partition /\ g.call = h.call => g = h
    BY <1>4, <1>5 DEF TableInv, FilesInv
  <2>3. \A g \in files' : \A v \in Writers :
          Active(v)' /\ g.call = writer'[v].call => g.partition \in writer'[v].parts
    BY <1>2, <1>4, <1>5 DEF TableInv, FilesInv, Active
  <2> QED BY <2>1, <2>2, <2>3 DEF FilesInv, Named
<1>8. CreatedInv'
  BY <1>2, <1>4, <1>5 DEF TableInv, CreatedInv, HasFile
<1>9. OwedInv'
  BY <1>2 DEF TableInv, OwedInv, Active, Replacing
<1>10. ReturnedRowsStay'
  BY <1>2, <1>4, <1>5 DEF TableInv, ReturnedRowsStay
<1> QED BY <1>6, <1>7, <1>8, <1>9, <1>10 DEF Rest

LEMMA TableStep == TableInv /\ Sound /\ [Next]_vars => TableInv'
<1> SUFFICES ASSUME TableInv, Sound, [Next]_vars PROVE TableInv'
  OBVIOUS
<1>1. TypeInv'
  BY TypeStep DEF TableInv
<1>2. ASSUME NEW w \in Writers, Write(w) PROVE WriterInv' /\ Rest'
  BY <1>2, BeginKeeps, ListKeeps, ClearedKeeps, AppendKeeps, FailsKeeps, ReturnsKeeps,
     DeleteKeeps, CreateKeeps, CloseKeeps DEF Write
<1>3. ASSUME UNCHANGED <<files, writer, calls, owed>> PROVE WriterInv' /\ Rest'
  <2>1. WriterInv' /\ AloneInv'
    BY <1>3 DEF TableInv, WriterInv, AloneInv, Active, Replacing
  <2>2. FilesInv'
    BY <1>3 DEF TableInv, FilesInv, Active, Named
  <2>3. CreatedInv'
    BY <1>3 DEF TableInv, CreatedInv, HasFile
  <2>4. OwedInv'
    BY <1>3 DEF TableInv, OwedInv, Active, Replacing
  <2>5. ReturnedRowsStay'
    BY <1>3 DEF TableInv, ReturnedRowsStay
  <2> QED BY <2>1, <2>2, <2>3, <2>4, <2>5 DEF Rest
<1>4. ASSUME NEW r \in Readers, Read(r) PROVE UNCHANGED <<files, writer, calls, owed>>
  BY <1>4 DEF Read, Execute, FetchFile, FileMissing, FileInvalid, ReadReturns
<1>5. ASSUME UNCHANGED vars PROVE UNCHANGED <<files, writer, calls, owed>>
  BY <1>5 DEF vars
<1> QED BY <1>1, <1>2, <1>3, <1>4, <1>5 DEF Next, TableInv, Rest

LEMMA TableInit == Init => TableInv
<1> SUFFICES ASSUME Init PROVE TableInv
  OBVIOUS
<1>1. \A w \in Writers : writer[w] = IdleWriter /\ ~ Active(w)
  BY DEF Init, IdleWriter, Active
<1>2. WriterOK(IdleWriter) /\ IdleWriter.pc = "idle"
  BY DEF WriterOK, IdleWriter
<1>3. files = {} /\ owed = {}
  BY DEF Init
<1> QED BY <1>1, <1>2, <1>3, TypeInit
     DEF TableInv, WriterInv, FilesInv, AloneInv, CreatedInv, OwedInv, ReturnedRowsStay

(* The rows of a write that has returned stay, whole, until a call replaces
   their partition: however the others append, replace other partitions, fail
   or die, and whichever deletions fail. *)
THEOREM ReturnedStay ==
  ASSUME Sound
  PROVE  Spec => []ReturnedRowsStay
<1>1. Init => TableInv
  BY TableInit
<1>2. TableInv /\ [Next]_vars => TableInv'
  BY TableStep
<1>3. TableInv => ReturnedRowsStay
  BY DEF TableInv
<1> QED BY <1>1, <1>2, <1>3, PTL DEF Spec

-----------------------------------------------------------------------------
(***************************************************************************)
(* Overwrites.                                                             *)
(***************************************************************************)

(* A file of a partition that an overwrite has to itself is its own, or
   nobody's that is at work. *)
LEMMA OthersElsewhere ==
  ASSUME TableInv, NEW v \in Writers, NEW w \in Writers, Active(v), Replacing(w), v # w
  PROVE  writer[w].alone \cap writer[v].parts = {}
BY DEF TableInv, AloneInv, Replacing

LEMMA ClearedWrite ==
  ASSUME TableInv, Sound, ClearedInv, ~ DeleteFaults, NEW w \in Writers, Write(w)
  PROVE  ClearedInv'
<1>0. /\ writer[w] \in WriterRec /\ WriterOK(writer[w]) /\ TypeInv
      /\ \A v \in Writers : writer[v].alone \subseteq Partitions
  BY RecordTypes DEF TableInv, TypeInv, WriterInv, WriterRec
<1>1. ASSUME NEW parts \in SUBSET Partitions, NEW overwrite \in BOOLEAN,
             BeginWrite(w, parts, overwrite)
      PROVE  ClearedInv'
  <2>1. Begun(w, parts, overwrite)
    BY <1>0, <1>1, BeginParts
  <2>2. UNCHANGED files
    BY <1>1 DEF BeginWrite
  <2>3. ASSUME NEW v \in Writers, Replacing(v)', NEW p \in writer'[v].alone, NEW f \in files,
               f.partition = p, f.call # writer'[v].call
        PROVE  p \in writer'[v].clear /\ (writer'[v].clearing = p => f \in writer'[v].listing)
    <3>1. CASE v = w
      <4>1. p \in parts
        BY <2>1, <3>1 DEF Begun
      <4> QED BY <1>0, <2>1, <2>3, <3>1, <4>1 DEF Begun, Replacing, Sound
    <3>2. CASE v # w
      <4>1. /\ writer'[v].call = writer[v].call /\ writer'[v].clear = writer[v].clear
            /\ writer'[v].clearing = writer[v].clearing /\ writer'[v].listing = writer[v].listing
            /\ p \in writer[v].alone /\ Replacing(v)
        BY <2>1, <2>3, <3>2 DEF Begun, Replacing, Active
      <4> QED BY <2>3, <4>1 DEF ClearedInv
    <3> QED BY <3>1, <3>2
  <2> QED BY <2>2, <2>3 DEF ClearedInv
<1>2. ASSUME NEW p \in Partitions, ListDir(w, p) PROVE ClearedInv'
  <2> DEFINE rec == [writer[w] EXCEPT !.clearing = p, !.listing = InDir(PathName[p])]
  <2>1. writer' = [writer EXCEPT ![w] = rec] /\ UNCHANGED files /\ writer[w].clearing = Nobody
    BY <1>2 DEF ListDir
  <2>2. /\ rec.pc = writer[w].pc /\ rec.call = writer[w].call /\ rec.alone = writer[w].alone
        /\ rec.overwrite = writer[w].overwrite /\ rec.clear = writer[w].clear
        /\ rec.clearing = p /\ rec.listing = InDir(PathName[p])
    BY <1>0 DEF WriterRec
  <2> HIDE DEF rec
  <2>3. writer'[w] = rec /\ \A v \in Writers : v # w => writer'[v] = writer[v]
    BY <1>0, <2>1, OneWriterMoves
  <2>4. \A f \in files : f.partition = p => f \in InDir(PathName[p])
    BY DEF InDir, TableInv, FilesInv, Named, Sound
  <2> QED BY <2>1, <2>2, <2>3, <2>4 DEF ClearedInv, Replacing, Active
<1>3. ASSUME DeleteFile(w) PROVE ClearedInv'
  <2>1. PICK f \in writer[w].listing :
          /\ files' = {g \in files : g.dir # f.dir \/ g.name # f.name}
          /\ writer' = [writer EXCEPT ![w].listing = @ \ {f}]
    BY <1>3 DEF DeleteFile
  <2> DEFINE rec == [writer[w] EXCEPT !.listing = @ \ {f}]
  <2>2. writer' = [writer EXCEPT ![w] = rec]
    BY <2>1
  <2>3. /\ rec.pc = writer[w].pc /\ rec.call = writer[w].call /\ rec.alone = writer[w].alone
        /\ rec.overwrite = writer[w].overwrite /\ rec.clear = writer[w].clear
        /\ rec.clearing = writer[w].clearing /\ rec.listing = writer[w].listing \ {f}
    BY <1>0 DEF WriterRec
  <2> HIDE DEF rec
  <2>4. writer'[w] = rec /\ \A v \in Writers : v # w => writer'[v] = writer[v]
    BY <1>0, <2>2, OneWriterMoves
  <2>5. files' \subseteq files /\ f \notin files'
    BY <2>1
  <2> QED BY <2>3, <2>4, <2>5 DEF ClearedInv, Replacing, Active
<1>4. ASSUME DirCleared(w) PROVE ClearedInv'
  <2> DEFINE rec == [writer[w] EXCEPT !.clear = @ \ {writer[w].clearing},
                                      !.clearing = Nobody, !.listing = {}]
  <2>1. /\ writer' = [writer EXCEPT ![w] = rec] /\ UNCHANGED files
        /\ writer[w].clearing # Nobody /\ writer[w].listing = {}
    BY <1>4 DEF DirCleared
  <2>2. /\ rec.pc = writer[w].pc /\ rec.call = writer[w].call /\ rec.alone = writer[w].alone
        /\ rec.overwrite = writer[w].overwrite
        /\ rec.clear = writer[w].clear \ {writer[w].clearing} /\ rec.clearing = Nobody
    BY <1>0 DEF WriterRec
  <2> HIDE DEF rec
  <2>3. writer'[w] = rec /\ \A v \in Writers : v # w => writer'[v] = writer[v]
    BY <1>0, <2>1, OneWriterMoves
  <2>4. \A p \in writer[w].alone : p # Nobody
    BY <1>0 DEF Sound
  <2> QED BY <2>1, <2>2, <2>3, <2>4 DEF ClearedInv, Replacing, Active
<1>5. ASSUME BeginAppend(w) PROVE ClearedInv'
  <2> DEFINE rec == [writer[w] EXCEPT !.pc = "appending"]
  <2>1. writer' = [writer EXCEPT ![w] = rec] /\ UNCHANGED files /\ Active(w)
    BY <1>5 DEF BeginAppend, Active
  <2>2. /\ rec.call = writer[w].call /\ rec.alone = writer[w].alone
        /\ rec.overwrite = writer[w].overwrite /\ rec.clear = writer[w].clear
        /\ rec.clearing = writer[w].clearing /\ rec.listing = writer[w].listing
    BY <1>0 DEF WriterRec
  <2> HIDE DEF rec
  <2>3. writer'[w] = rec /\ \A v \in Writers : v # w => writer'[v] = writer[v]
    BY <1>0, <2>1, OneWriterMoves
  <2> QED BY <2>1, <2>2, <2>3 DEF ClearedInv, Replacing, Active
<1>6. ASSUME NEW p \in Partitions, CreateFile(w, p) PROVE ClearedInv'
  <2> DEFINE rec == [writer[w] EXCEPT !.todo = @ \ {p}]
             new == Parquet(p, writer[w].call, ~ Local)
  <2>1. /\ writer' = [writer EXCEPT ![w] = rec] /\ files' \subseteq files \cup {new}
        /\ Active(w) /\ p \in writer[w].todo
    BY <1>6 DEF CreateFile, Active
  <2>2. /\ rec.call = writer[w].call /\ rec.alone = writer[w].alone /\ rec.pc = writer[w].pc
        /\ rec.overwrite = writer[w].overwrite /\ rec.clear = writer[w].clear
        /\ rec.clearing = writer[w].clearing /\ rec.listing = writer[w].listing
    BY <1>0 DEF WriterRec
  <2>3. new.partition = p /\ new.call = writer[w].call
    BY DEF Parquet
  <2> HIDE DEF rec, new
  <2>4. writer'[w] = rec /\ \A v \in Writers : v # w => writer'[v] = writer[v]
    BY <1>0, <2>1, OneWriterMoves
  <2>5. p \in writer[w].parts
    BY <1>0, <2>1 DEF WriterOK, Active
  <2>6. \A v \in Writers : v # w /\ Replacing(v) => p \notin writer[v].alone
    BY <2>1, <2>5, OthersElsewhere
  <2> QED BY <2>1, <2>2, <2>3, <2>4, <2>6 DEF ClearedInv, Replacing, Active
<1>7. ASSUME CloseFile(w) PROVE ClearedInv'
  <2>1. PICK f \in files : /\ f.call = writer[w].call
                           /\ files' = (files \ {f}) \cup {[f EXCEPT !.whole = TRUE]}
    BY <1>7 DEF CloseFile
  <2> DEFINE new == [f EXCEPT !.whole = TRUE]
  <2>2. files' \subseteq files \cup {new} /\ UNCHANGED writer /\ Active(w)
    BY <1>7, <2>1 DEF CloseFile, Active
  <2>3. f \in File
    BY DEF TableInv, TypeInv, TypeOK
  <2>4. new.partition = f.partition /\ new.call = f.call
    BY <2>3 DEF File
  <2> HIDE DEF new
  <2>5. f.partition \in writer[w].parts
    BY <2>1, <2>2 DEF TableInv, FilesInv
  <2>6. \A v \in Writers : v # w /\ Replacing(v) => f.partition \notin writer[v].alone
    BY <2>2, <2>5, OthersElsewhere
  <2> QED BY <2>1, <2>2, <2>4, <2>6 DEF ClearedInv, Replacing, Active
<1>8. ASSUME WriteReturns(w) \/ WriteFails(w) PROVE ClearedInv'
  <2>1. writer' = [writer EXCEPT ![w] = IdleWriter] /\ UNCHANGED files
    BY <1>8 DEF WriteReturns, WriteFails
  <2>2. writer'[w] = IdleWriter /\ \A v \in Writers : v # w => writer'[v] = writer[v]
    BY <1>0, <2>1, OneWriterMoves
  <2>3. IdleWriter.pc = "idle"
    BY DEF IdleWriter
  <2> QED BY <2>1, <2>2, <2>3 DEF ClearedInv, Replacing, Active
<1> QED BY <1>1, <1>2, <1>3, <1>4, <1>5, <1>6, <1>7, <1>8 DEF Write

(* When an overwrite of a partitioned table returns, each partition that no
   other call overlapped holds its rows and no others, whatever was there, as
   long as deletions do not fail. *)
THEOREM OverwritesDone ==
  ASSUME Sound, Partitioned, ~ DeleteFaults
  PROVE  Spec => OverwriteReplaces
<1>1. Init => TableInv /\ ClearedInv
  <2>1. Init => ClearedInv
    BY DEF Init, ClearedInv
  <2> QED BY <2>1, TableInit
<1>2. TableInv /\ ClearedInv /\ [Next]_vars => TableInv' /\ ClearedInv'
  <2> SUFFICES ASSUME TableInv, ClearedInv, [Next]_vars PROVE ClearedInv'
    BY TableStep
  <2>1. ASSUME NEW r \in Readers, Read(r) PROVE UNCHANGED <<files, writer>>
    BY <2>1 DEF Read, Execute, FetchFile, FileMissing, FileInvalid, ReadReturns
  <2>2. ASSUME UNCHANGED <<files, writer>> PROVE ClearedInv'
    BY <2>2 DEF ClearedInv, Replacing, Active
  <2>3. ASSUME UNCHANGED vars PROVE UNCHANGED <<files, writer>>
    BY <2>3 DEF vars
  <2> QED BY <2>1, <2>2, <2>3, ClearedWrite DEF Next
<1>3. ASSUME TableInv, ClearedInv, NEW w \in Writers, WriteReturns(w), writer[w].overwrite,
             NEW p \in writer[w].alone, NEW f \in files, f.partition = p
      PROVE  f.call = writer[w].call
  <2>1. writer[w].clear = {} /\ Replacing(w)
    BY <1>3 DEF WriteReturns, TableInv, WriterInv, WriterOK, Replacing, Active
  <2> QED BY <1>3, <2>1 DEF ClearedInv
<1> DEFINE A == \A w \in Writers : WriteReturns(w) /\ writer[w].overwrite =>
                  \A p \in writer[w].alone : \A f \in files :
                    f.partition = p => f.call = writer[w].call
<1>4. TableInv /\ ClearedInv => A
  BY <1>3
<1>5. TableInv /\ ClearedInv => [A]_vars
  BY <1>4
<1> HIDE DEF A
<1>6. Spec => [][A]_vars
  BY <1>1, <1>2, <1>5, PTL DEF Spec
<1> QED BY <1>6 DEF OverwriteReplaces, A

-----------------------------------------------------------------------------
(***************************************************************************)
(* The calls of a partitioned table implement PartitionWrites.             *)
(***************************************************************************)

(* A writer without a call has nothing left of the last one, and what a call
   has still to create is not there. *)
FreshInv ==
  \A w \in Writers :
    /\ ~ Active(w) => writer[w] = IdleWriter
    /\ Active(w) => \A p \in writer[w].todo : ~ HasFile(p, writer[w].call)

(* A step that begins no call and adds no file. *)
LEMMA FreshKept ==
  ASSUME TableInv, FreshInv, NEW w \in Writers, NEW rec, Active(w),
         writer' = [writer EXCEPT ![w] = rec],
         \/ rec = IdleWriter
         \/ rec.pc # "idle" /\ rec.call = writer[w].call /\ rec.todo \subseteq writer[w].todo,
         \A f \in files' : HasFile(f.partition, f.call)
  PROVE  FreshInv'
<1>1. writer'[w] = rec /\ \A v \in Writers : v # w => writer'[v] = writer[v]
  BY OneWriterMoves DEF TableInv
<1>2. IdleWriter.pc = "idle"
  BY DEF IdleWriter
<1>3. ASSUME NEW v \in Writers, ~ Active(v)' PROVE writer'[v] = IdleWriter
  BY <1>1, <1>3 DEF FreshInv, Active
<1>4. ASSUME NEW v \in Writers, Active(v)', NEW p \in writer'[v].todo
      PROVE  ~ HasFile(p, writer[v].call)'
  <2>1. Active(v) /\ p \in writer[v].todo /\ writer'[v].call = writer[v].call
    BY <1>1, <1>2, <1>4 DEF Active
  <2>2. ~ HasFile(p, writer[v].call)
    BY <2>1 DEF FreshInv
  <2> QED BY <2>1, <2>2 DEF HasFile
<1> QED BY <1>3, <1>4 DEF FreshInv

LEMMA FreshWrite ==
  ASSUME TableInv, Sound, FreshInv, NEW w \in Writers, Write(w)
  PROVE  FreshInv'
<1>0. writer[w] \in WriterRec /\ WriterOK(writer[w]) /\ TypeInv
  BY RecordTypes DEF TableInv, TypeInv, WriterInv
<1>1. ASSUME NEW parts \in SUBSET Partitions, NEW overwrite \in BOOLEAN,
             BeginWrite(w, parts, overwrite)
      PROVE  FreshInv'
  <2>1. Begun(w, parts, overwrite) /\ UNCHANGED files
    BY <1>0, <1>1, BeginParts DEF BeginWrite
  <2>2. \A f \in files : f.call # calls + 1
    BY DEF TableInv, TypeInv, TypeOK, FilesInv
  <2>3. \A p : ~ HasFile(p, calls + 1)
    BY <2>2 DEF HasFile
  <2>4. ASSUME NEW v \in Writers \ {w}, ~ Active(v)' PROVE writer'[v] = IdleWriter
    <3>1. writer[v] = IdleWriter
      BY <2>1, <2>4 DEF Begun, Active, FreshInv
    <3>2. writer'[v] = writer[v] \/ writer'[v] = [writer[v] EXCEPT !.alone = @ \ parts]
      BY <1>1 DEF BeginWrite
    <3>3. [IdleWriter EXCEPT !.alone = @ \ parts] = IdleWriter
      <4>1. [IdleWriter EXCEPT !.alone = @ \ parts] = [IdleWriter EXCEPT !.alone = {}]
        BY DEF IdleWriter
      <4>2. ASSUME NEW rec \in WriterRec, rec.alone = {}
            PROVE  [rec EXCEPT !.alone = {}] = rec
        BY <4>2 DEF WriterRec
      <4> QED BY <4>1, <4>2, IdleTypes DEF IdleWriter
    <3> QED BY <3>1, <3>2, <3>3
  <2>5. \A v \in Writers \ {w} : Active(v)' =>
          \A p \in writer'[v].todo : ~ HasFile(p, writer'[v].call)
    BY <2>1 DEF Begun, Active, FreshInv
  <2>6. Active(w)' /\ writer'[w].call = calls + 1
    BY <2>1 DEF Begun, Active
  <2> QED BY <2>1, <2>3, <2>4, <2>5, <2>6 DEF FreshInv, HasFile
<1>2. ASSUME NEW p \in Partitions, ListDir(w, p) PROVE FreshInv'
  <2> DEFINE rec == [writer[w] EXCEPT !.clearing = p, !.listing = InDir(PathName[p])]
  <2>1. writer' = [writer EXCEPT ![w] = rec] /\ UNCHANGED files /\ Active(w)
    BY <1>2 DEF ListDir, Active
  <2>2. rec.pc = writer[w].pc /\ rec.call = writer[w].call /\ rec.todo = writer[w].todo
    BY <1>0 DEF WriterRec
  <2> HIDE DEF rec
  <2> QED BY <2>1, <2>2, FreshKept DEF HasFile, Active
<1>3. ASSUME DeleteFile(w) PROVE FreshInv'
  <2>1. PICK f \in writer[w].listing :
          /\ files' = {g \in files : g.dir # f.dir \/ g.name # f.name}
          /\ writer' = [writer EXCEPT ![w].listing = @ \ {f}]
    BY <1>3 DEF DeleteFile
  <2> DEFINE rec == [writer[w] EXCEPT !.listing = @ \ {f}]
  <2>2. writer' = [writer EXCEPT ![w] = rec] /\ files' \subseteq files /\ Active(w)
    BY <1>0, <2>1 DEF WriterOK, Active
  <2>3. rec.pc = writer[w].pc /\ rec.call = writer[w].call /\ rec.todo = writer[w].todo
    BY <1>0 DEF WriterRec
  <2> HIDE DEF rec
  <2> QED BY <2>2, <2>3, FreshKept DEF HasFile, Active
<1>4. ASSUME DirCleared(w) PROVE FreshInv'
  <2> DEFINE rec == [writer[w] EXCEPT !.clear = @ \ {writer[w].clearing},
                                      !.clearing = Nobody, !.listing = {}]
  <2>1. writer' = [writer EXCEPT ![w] = rec] /\ UNCHANGED files /\ Active(w)
    BY <1>0, <1>4 DEF DirCleared, WriterOK, Active
  <2>2. rec.pc = writer[w].pc /\ rec.call = writer[w].call /\ rec.todo = writer[w].todo
    BY <1>0 DEF WriterRec
  <2> HIDE DEF rec
  <2> QED BY <2>1, <2>2, FreshKept DEF HasFile, Active
<1>5. ASSUME BeginAppend(w) PROVE FreshInv'
  <2> DEFINE rec == [writer[w] EXCEPT !.pc = "appending"]
  <2>1. writer' = [writer EXCEPT ![w] = rec] /\ UNCHANGED files /\ Active(w)
    BY <1>5 DEF BeginAppend, Active
  <2>2. rec.pc # "idle" /\ rec.call = writer[w].call /\ rec.todo = writer[w].todo
    BY <1>0 DEF WriterRec
  <2> HIDE DEF rec
  <2> QED BY <2>1, <2>2, FreshKept DEF HasFile
<1>6. ASSUME NEW p \in Partitions, CreateFile(w, p) PROVE FreshInv'
  <2> DEFINE rec == [writer[w] EXCEPT !.todo = @ \ {p}]
             new == Parquet(p, writer[w].call, ~ Local)
  <2>1. /\ writer' = [writer EXCEPT ![w] = rec] /\ files' \subseteq files \cup {new}
        /\ Active(w) /\ p \in writer[w].todo
    BY <1>6 DEF CreateFile, Active
  <2>2. rec.pc = writer[w].pc /\ rec.call = writer[w].call /\ rec.todo = writer[w].todo \ {p}
    BY <1>0 DEF WriterRec
  <2>3. new.partition = p /\ new.call = writer[w].call
    BY DEF Parquet
  <2> HIDE DEF rec, new
  <2>4. writer'[w] = rec /\ \A v \in Writers : v # w => writer'[v] = writer[v]
    BY <1>0, <2>1, OneWriterMoves
  <2>5. \A v \in Writers : v # w /\ Active(v) => writer[v].call # writer[w].call
    BY <2>1 DEF TableInv, WriterInv
  <2> QED BY <2>1, <2>2, <2>3, <2>4, <2>5 DEF FreshInv, HasFile, Active
<1>7. ASSUME CloseFile(w) PROVE FreshInv'
  <2>1. PICK f \in files : files' = (files \ {f}) \cup {[f EXCEPT !.whole = TRUE]}
    BY <1>7 DEF CloseFile
  <2> DEFINE new == [f EXCEPT !.whole = TRUE]
  <2>2. f \in File
    BY DEF TableInv, TypeInv, TypeOK
  <2>3. new.partition = f.partition /\ new.call = f.call
    BY <2>2 DEF File
  <2>4. files' \subseteq files \cup {new} /\ UNCHANGED writer
    BY <1>7, <2>1 DEF CloseFile
  <2> HIDE DEF new
  <2> QED BY <2>3, <2>4 DEF FreshInv, HasFile, Active
<1>8. ASSUME WriteReturns(w) \/ WriteFails(w) PROVE FreshInv'
  <2>1. writer' = [writer EXCEPT ![w] = IdleWriter] /\ UNCHANGED files
    BY <1>8 DEF WriteReturns, WriteFails
  <2>2. Active(w)
    BY <1>8 DEF WriteReturns, WriteFails, Active
  <2> QED BY <2>1, <2>2, FreshKept DEF HasFile
<1> QED BY <1>1, <1>2, <1>3, <1>4, <1>5, <1>6, <1>7, <1>8 DEF Write

(* What PartitionWrites sees of a call. *)
LEMMA WorkFields ==
  ASSUME NEW w \in Writers
  PROVE  /\ CallsAtWork[w].call = writer[w].call /\ CallsAtWork[w].parts = writer[w].parts
         /\ CallsAtWork[w].replaces = writer[w].overwrite
         /\ CallsAtWork[w].own = writer[w].alone
BY DEF CallsAtWork

LEMMA Working ==
  ASSUME TypeInv, FreshInv, NEW w \in Writers
  PROVE  Abstract!AtWork(w) <=> Active(w)
<1>1. IdleWriter.call = 0
  BY DEF IdleWriter
<1>2. calls \in Nat
  BY MaxWritesAssumption DEF TypeInv, TypeOK
<1> QED BY <1>1, <1>2, WorkFields DEF Abstract!AtWork, TypeInv, CallsInv, FreshInv

(* A step of a call that leaves what it is to do. *)
LEMMA SameWork ==
  ASSUME \A v \in Writers :
           /\ writer'[v].call = writer[v].call /\ writer'[v].parts = writer[v].parts
           /\ writer'[v].overwrite = writer[v].overwrite
           /\ writer'[v].alone = writer[v].alone
  PROVE  UNCHANGED CallsAtWork
BY DEF CallsAtWork

LEMMA WorkEnds ==
  ASSUME TypeInv, NEW w \in Writers, writer' = [writer EXCEPT ![w] = IdleWriter]
  PROVE  CallsAtWork' = [CallsAtWork EXCEPT ![w] = Abstract!NoCall]
<1>1. writer'[w] = IdleWriter /\ \A v \in Writers : v # w => writer'[v] = writer[v]
  BY DEF TypeInv, TypeOK
<1>2. /\ IdleWriter.call = 0 /\ IdleWriter.parts = {}
      /\ IdleWriter.overwrite = FALSE /\ IdleWriter.alone = {}
  BY DEF IdleWriter
<1> QED BY <1>1, <1>2 DEF CallsAtWork, Abstract!NoCall

LEMMA Stored ==
  /\ \A p, c : <<p, c>> \in StoredRows <=>
       \E f \in files : f.whole /\ f.partition = p /\ f.call = c
  /\ \A r \in StoredRows :
       \E f \in files : f.whole /\ r = <<f.partition, f.call>> /\ r[1] = f.partition /\ r[2] = f.call
BY DEF StoredRows

LEMMA BeginImplements ==
  ASSUME TypeInv, FreshInv, Partitioned, NEW w \in Writers,
         NEW parts \in SUBSET Partitions, NEW overwrite \in BOOLEAN,
         BeginWrite(w, parts, overwrite)
  PROVE  Abstract!Begin(w, parts, overwrite)
<1> DEFINE rivals == IF overwrite THEN WrittenByOthers(w) ELSE ReplacedByOthers(w)
           theirs == UNION {CallsAtWork[u].parts : u \in Abstract!Rivals(w, overwrite)}
           new == [IdleWriter EXCEPT
                     !.pc = IF overwrite THEN "clearing" ELSE "appending",
                     !.call = calls + 1, !.overwrite = overwrite,
                     !.parts = parts, !.todo = parts, !.alone = parts \ rivals,
                     !.clear = IF overwrite THEN parts ELSE {}]
<1>1. writer' = [v \in Writers |->
         IF v = w THEN new
         ELSE IF overwrite \/ writer[v].overwrite
              THEN [writer[v] EXCEPT !.alone = @ \ parts] ELSE writer[v]]
  BY Zenon DEF BeginWrite
<1>2. rivals = theirs
  <2>1. ASSUME NEW p PROVE p \in rivals <=>
          \E u \in Writers \ {w} : /\ Active(u) /\ (overwrite \/ writer[u].overwrite)
                                   /\ p \in writer[u].parts
    BY DEF WrittenByOthers, ReplacedByOthers
  <2>2. ASSUME NEW p PROVE p \in theirs <=>
          \E u \in Writers \ {w} : /\ Active(u) /\ (overwrite \/ writer[u].overwrite)
                                   /\ p \in writer[u].parts
    BY Working, WorkFields DEF Abstract!Rivals
  <2> QED BY <2>1, <2>2
<1> HIDE DEF rivals, theirs
<1>3. /\ new.call = calls + 1 /\ new.overwrite = overwrite
      /\ new.parts = parts /\ new.alone = parts \ rivals
  BY DEF IdleWriter
<1> HIDE DEF new
<1>4. \A v \in Writers : writer[v] \in WriterRec
  BY RecordTypes DEF TypeInv
<1> DEFINE work2 == [v \in Writers |->
       IF v = w
       THEN [call |-> calls + 1, parts |-> parts, replaces |-> overwrite,
             own |-> parts \ theirs]
       ELSE IF overwrite \/ CallsAtWork[v].replaces
            THEN [CallsAtWork[v] EXCEPT !.own = @ \ parts] ELSE CallsAtWork[v]]
<1>5. CallsAtWork' = work2
  <2>1. CallsAtWork' = [v \in Writers |->
          [call |-> writer'[v].call, parts |-> writer'[v].parts,
           replaces |-> writer'[v].overwrite, own |-> writer'[v].alone]]
    BY DEF CallsAtWork
  <2>2. ASSUME NEW v \in Writers
        PROVE  work2[v] = [call |-> writer'[v].call, parts |-> writer'[v].parts,
                           replaces |-> writer'[v].overwrite, own |-> writer'[v].alone]
    <3>1. CASE v = w
      BY <1>1, <1>2, <1>3, <3>1
    <3>2. CASE v # w /\ (overwrite \/ writer[v].overwrite)
      <4>1. writer'[v] = [writer[v] EXCEPT !.alone = @ \ parts]
        BY <1>1, <3>2
      <4>2. /\ writer'[v].call = writer[v].call /\ writer'[v].parts = writer[v].parts
            /\ writer'[v].overwrite = writer[v].overwrite
            /\ writer'[v].alone = writer[v].alone \ parts
        BY <1>4, <4>1 DEF WriterRec
      <4>3. CallsAtWork[v] = [call |-> writer[v].call, parts |-> writer[v].parts,
                              replaces |-> writer[v].overwrite, own |-> writer[v].alone]
        BY DEF CallsAtWork
      <4>4. work2[v] = [CallsAtWork[v] EXCEPT !.own = @ \ parts]
        BY <3>2, WorkFields
      <4>5. [CallsAtWork[v] EXCEPT !.own = @ \ parts] =
              [call |-> writer[v].call, parts |-> writer[v].parts,
               replaces |-> writer[v].overwrite, own |-> writer[v].alone \ parts]
        BY <4>3
      <4> HIDE DEF work2
      <4> QED BY <4>2, <4>4, <4>5
    <3>3. CASE v # w /\ ~ (overwrite \/ writer[v].overwrite)
      <4>1. writer'[v] = writer[v] /\ work2[v] = CallsAtWork[v]
        BY <1>1, <3>3, WorkFields
      <4> HIDE DEF work2
      <4> QED BY <4>1 DEF CallsAtWork
    <3> QED BY <3>1, <3>2, <3>3
  <2>3. work2 = [v \in Writers |-> work2[v]]
    OBVIOUS
  <2> HIDE DEF work2
  <2> QED BY <2>1, <2>2, <2>3
<1>6. ~ Abstract!AtWork(w) /\ UNCHANGED StoredRows
  BY Working DEF BeginWrite, StoredRows
<1>7. /\ calls' = calls + 1
      /\ owed' = {o \in owed : ~ (overwrite /\ o[1] \in parts)}
  BY DEF BeginWrite
<1> QED BY <1>5, <1>6, <1>7 DEF Abstract!Begin, theirs

(* A step that leaves the calls as they were, and the files. *)
LEMMA Stutters ==
  ASSUME UNCHANGED <<files, calls, owed>>, UNCHANGED CallsAtWork
  PROVE  UNCHANGED Abstract!vars
BY DEF StoredRows, Abstract!vars

LEMMA OneStutters ==
  ASSUME TypeInv, NEW w \in Writers, NEW rec, writer' = [writer EXCEPT ![w] = rec],
         rec.call = writer[w].call, rec.parts = writer[w].parts,
         rec.overwrite = writer[w].overwrite, rec.alone = writer[w].alone,
         UNCHANGED <<files, calls, owed>>
  PROVE  UNCHANGED Abstract!vars
BY OneWriterMoves, SameWork, Stutters

(* Once it appends, of what it replaces nothing is left in its own partitions. *)
LEMMA NothingLeft ==
  ASSUME TableInv, ClearedInv, Partitioned, NEW w \in Writers,
         writer[w].pc = "appending"
  PROVE  CallsAtWork[w].replaces =>
           \A r \in StoredRows : r[1] \in CallsAtWork[w].own => r[2] = CallsAtWork[w].call
<1> SUFFICES ASSUME writer[w].overwrite, NEW f \in files, f.partition \in writer[w].alone
             PROVE  f.call = writer[w].call
  BY Stored, WorkFields
<1>1. Replacing(w) /\ writer[w].clear = {}
  BY DEF TableInv, WriterInv, WriterOK, Replacing, Active
<1> QED BY <1>1 DEF ClearedInv

LEMMA DeleteImplements ==
  ASSUME TableInv, FreshInv, Sound, NEW w \in Writers, DeleteFile(w)
  PROVE  Abstract!Remove(w) \/ UNCHANGED Abstract!vars
<1>1. PICK f \in writer[w].listing :
        /\ files' = {g \in files : g.dir # f.dir \/ g.name # f.name}
        /\ writer' = [writer EXCEPT ![w].listing = @ \ {f}]
  BY DEF DeleteFile
<1>2. writer[w] \in WriterRec /\ WriterOK(writer[w]) /\ TypeInv /\ UNCHANGED <<calls, owed>>
  BY RecordTypes DEF TableInv, TypeInv, WriterInv, DeleteFile
<1>3. UNCHANGED CallsAtWork
  <2> DEFINE rec == [writer[w] EXCEPT !.listing = @ \ {f}]
  <2>1. writer' = [writer EXCEPT ![w] = rec]
    BY <1>1
  <2>2. /\ rec.call = writer[w].call /\ rec.parts = writer[w].parts
        /\ rec.overwrite = writer[w].overwrite /\ rec.alone = writer[w].alone
    BY <1>2 DEF WriterRec
  <2> HIDE DEF rec
  <2>3. writer'[w] = rec /\ \A v \in Writers : v # w => writer'[v] = writer[v]
    BY <1>2, <2>1, OneWriterMoves
  <2> QED BY <2>2, <2>3, SameWork
<1>4. /\ Named(f) /\ f.partition \in writer[w].parts /\ f.partition \in Partitions
      /\ writer[w].overwrite /\ writer[w].todo = writer[w].parts /\ Active(w)
  BY <1>1, <1>2 DEF WriterOK, WriterRec, Active
<1>5. ASSUME NEW g \in files, g.dir = f.dir, g.name = f.name
      PROVE  g.partition = f.partition /\ g.call = f.call
  <2>1. g \in File /\ Named(g)
    BY <1>5 DEF TableInv, TypeInv, TypeOK, FilesInv
  <2>2. g.partition \in Partitions
    BY <2>1 DEF File
  <2> QED BY <1>4, <1>5, <2>1, <2>2, NamesAssumption DEF Named
<1>6. ASSUME NEW g \in files, g.partition = f.partition, g.call = f.call
      PROVE  g.dir = f.dir /\ g.name = f.name
  BY <1>4, <1>6 DEF TableInv, FilesInv, Named
<1> DEFINE row == <<f.partition, f.call>>
<1>7. StoredRows' = StoredRows \ {row}
  <2>1. ASSUME NEW g \in files', g.whole PROVE <<g.partition, g.call>> \in StoredRows \ {row}
    BY <1>1, <1>6, <2>1 DEF StoredRows
  <2>2. ASSUME NEW g \in files, g.whole, <<g.partition, g.call>> # row
        PROVE  g \in files'
    BY <1>1, <1>5, <2>2
  <2>3. ASSUME NEW r \in StoredRows' PROVE r \in StoredRows \ {row}
    BY <2>1, <2>3 DEF StoredRows
  <2>4. ASSUME NEW r \in StoredRows \ {row} PROVE r \in StoredRows'
    BY <2>2, <2>4 DEF StoredRows
  <2> QED BY <2>3, <2>4
<1>8. \A r \in StoredRows : r[2] # CallsAtWork[w].call
  <2> SUFFICES ASSUME NEW g \in files, g.whole PROVE g.call # writer[w].call
    BY Stored, WorkFields
  <2>1. g.call = writer[w].call => g.partition \in writer[w].todo
    BY <1>4 DEF TableInv, FilesInv
  <2> QED BY <1>4, <2>1 DEF FreshInv, HasFile
<1>9. CASE row \in StoredRows
  <2>1. row[1] \in CallsAtWork[w].parts /\ CallsAtWork[w].replaces /\ Abstract!AtWork(w)
    BY <1>2, <1>4, Working, WorkFields
  <2> HIDE DEF row
  <2> QED BY <1>2, <1>3, <1>7, <1>8, <1>9, <2>1 DEF Abstract!Remove
<1>10. CASE row \notin StoredRows
  <2> HIDE DEF row
  <2>1. UNCHANGED StoredRows
    BY <1>7, <1>10
  <2> QED BY <1>2, <1>3, <2>1 DEF Abstract!vars
<1> QED BY <1>9, <1>10

LEMMA CreateImplements ==
  ASSUME TableInv, ClearedInv, FreshInv, Sound, Partitioned,
         NEW w \in Writers, NEW p \in Partitions, CreateFile(w, p)
  PROVE  Abstract!Store(w, p) \/ UNCHANGED Abstract!vars
<1> DEFINE new == Parquet(p, writer[w].call, ~ Local)
           row == <<p, writer[w].call>>
<1>1. /\ writer' = [writer EXCEPT ![w].todo = @ \ {p}] /\ UNCHANGED <<calls, owed>>
      /\ files' = (files \ SameName(p, writer[w].call)) \cup {new}
      /\ writer[w].pc = "appending" /\ p \in writer[w].todo /\ Active(w)
  BY DEF CreateFile, Active
<1>2. writer[w] \in WriterRec /\ WriterOK(writer[w]) /\ TypeInv
  BY RecordTypes DEF TableInv, TypeInv, WriterInv
<1>3. UNCHANGED CallsAtWork
  <2> DEFINE rec == [writer[w] EXCEPT !.todo = @ \ {p}]
  <2>1. writer' = [writer EXCEPT ![w] = rec]
    BY <1>1
  <2>2. /\ rec.call = writer[w].call /\ rec.parts = writer[w].parts
        /\ rec.overwrite = writer[w].overwrite /\ rec.alone = writer[w].alone
    BY <1>2 DEF WriterRec
  <2> HIDE DEF rec
  <2>3. writer'[w] = rec /\ \A v \in Writers : v # w => writer'[v] = writer[v]
    BY <1>2, <2>1, OneWriterMoves
  <2> QED BY <2>2, <2>3, SameWork
<1>4. new.partition = p /\ new.call = writer[w].call /\ new.whole = ~ Local
  BY DEF Parquet
<1>5. ~ HasFile(p, writer[w].call)
  BY <1>1 DEF FreshInv
<1>6. SameName(p, writer[w].call) = {}
  <2> SUFFICES ASSUME NEW f \in files, f.dir = DirName[p], f.name = writer[w].call
               PROVE  FALSE
    BY DEF SameName, Parquet
  <2>1. f \in File /\ Named(f)
    BY DEF TableInv, TypeInv, TypeOK, FilesInv
  <2>2. f.partition \in Partitions
    BY <2>1 DEF File
  <2> QED BY <1>5, <2>1, <2>2, NamesAssumption DEF Named, HasFile
<1> HIDE DEF new
<1>7. files' = files \cup {new}
  BY <1>1, <1>6
<1>8. StoredRows' = IF Local THEN StoredRows ELSE StoredRows \cup {row}
  <2>1. ASSUME NEW r \in StoredRows' PROVE r \in StoredRows \/ (~ Local /\ r = row)
    BY <1>4, <1>7, <2>1 DEF StoredRows
  <2>2. ASSUME NEW r \in StoredRows PROVE r \in StoredRows'
    BY <1>7, <2>2 DEF StoredRows
  <2>3. ~ Local => row \in StoredRows'
    BY <1>4, <1>7 DEF StoredRows
  <2> HIDE DEF row
  <2> QED BY <2>1, <2>2, <2>3
<1>9. row \notin StoredRows
  BY <1>5, Stored DEF HasFile
<1>10. /\ Abstract!AtWork(w) /\ p \in CallsAtWork[w].parts
       /\ row = <<p, CallsAtWork[w].call>>
  BY <1>1, <1>2, Working, WorkFields DEF WriterOK, Active
<1>11. CallsAtWork[w].replaces =>
         \A r \in StoredRows : r[1] \in CallsAtWork[w].own => r[2] = CallsAtWork[w].call
  BY <1>1, NothingLeft
<1> HIDE DEF row
<1>12. CASE Local
  <2>1. UNCHANGED StoredRows
    BY <1>8, <1>12
  <2> QED BY <1>1, <1>3, <2>1 DEF Abstract!vars
<1>13. CASE ~ Local
  <2>1. StoredRows' = StoredRows \cup {row}
    BY <1>8, <1>13
  <2> QED BY <1>1, <1>3, <1>9, <1>10, <1>11, <2>1 DEF Abstract!Store
<1> QED BY <1>12, <1>13

LEMMA CloseImplements ==
  ASSUME TableInv, ClearedInv, FreshInv, Partitioned, NEW w \in Writers, CloseFile(w)
  PROVE  \E p \in Partitions : Abstract!Store(w, p)
<1>1. PICK f \in files : /\ f.call = writer[w].call /\ ~ f.whole
                         /\ files' = (files \ {f}) \cup {[f EXCEPT !.whole = TRUE]}
  BY DEF CloseFile
<1> DEFINE new == [f EXCEPT !.whole = TRUE]
           row == <<f.partition, f.call>>
<1>2. writer[w].pc = "appending" /\ Active(w) /\ TypeInv /\ UNCHANGED <<writer, calls, owed>>
  BY DEF CloseFile, Active, TableInv
<1>3. f \in File /\ f.partition \in Partitions
  BY DEF TableInv, TypeInv, TypeOK, File
<1>4. new.partition = f.partition /\ new.call = f.call /\ new.whole
  BY <1>3 DEF File
<1>5. files' = (files \ {f}) \cup {new}
  BY <1>1
<1> HIDE DEF new
<1>6. row \notin StoredRows
  BY <1>1, Stored DEF TableInv, FilesInv
<1>7. StoredRows' = StoredRows \cup {row}
  <2>1. ASSUME NEW r \in StoredRows' PROVE r \in StoredRows \/ r = row
    BY <1>4, <1>5, <2>1 DEF StoredRows
  <2>2. ASSUME NEW r \in StoredRows PROVE r \in StoredRows'
    BY <1>1, <1>5, <2>2 DEF StoredRows
  <2>3. row \in StoredRows'
    BY <1>4, <1>5 DEF StoredRows
  <2> HIDE DEF row
  <2> QED BY <2>1, <2>2, <2>3
<1>8. /\ Abstract!AtWork(w) /\ f.partition \in CallsAtWork[w].parts
      /\ row = <<f.partition, CallsAtWork[w].call>>
  BY <1>1, <1>2, Working, WorkFields DEF TableInv, FilesInv
<1>9. CallsAtWork[w].replaces =>
        \A r \in StoredRows : r[1] \in CallsAtWork[w].own => r[2] = CallsAtWork[w].call
  BY <1>2, NothingLeft
<1>10. UNCHANGED CallsAtWork
  BY <1>2 DEF CallsAtWork
<1> HIDE DEF row
<1> QED BY <1>2, <1>3, <1>6, <1>7, <1>8, <1>9, <1>10 DEF Abstract!Store

LEMMA ReturnImplements ==
  ASSUME TableInv, ClearedInv, FreshInv, Partitioned, NEW w \in Writers, WriteReturns(w)
  PROVE  Abstract!Return(w)
<1>1. /\ writer[w].pc = "appending" /\ writer[w].todo = {} /\ Active(w) /\ TypeInv
      /\ \A f \in files : f.call = writer[w].call => f.whole
      /\ owed' = owed \cup {<<p, writer[w].call>> : p \in writer[w].alone}
      /\ writer' = [writer EXCEPT ![w] = IdleWriter]
      /\ UNCHANGED <<files, calls>>
  BY DEF WriteReturns, Active, TableInv
<1>2. \A p \in CallsAtWork[w].own : <<p, CallsAtWork[w].call>> \in StoredRows
  <2> SUFFICES ASSUME NEW p \in writer[w].alone PROVE <<p, writer[w].call>> \in StoredRows
    BY WorkFields
  <2>1. PICK f \in files : f.partition = p /\ f.call = writer[w].call
    BY <1>1 DEF TableInv, CreatedInv, HasFile
  <2> QED BY <1>1, <2>1 DEF StoredRows
<1>3. CallsAtWork[w].replaces =>
        \A r \in StoredRows : r[1] \in CallsAtWork[w].own => r[2] = CallsAtWork[w].call
  BY <1>1, NothingLeft
<1>4. CallsAtWork' = [CallsAtWork EXCEPT ![w] = Abstract!NoCall]
  BY <1>1, WorkEnds
<1>5. owed' = owed \cup {<<p, CallsAtWork[w].call>> : p \in CallsAtWork[w].own}
  BY <1>1, WorkFields
<1>6. Abstract!AtWork(w) /\ UNCHANGED StoredRows
  BY <1>1, Working DEF StoredRows
<1> QED BY <1>1, <1>2, <1>3, <1>4, <1>5, <1>6 DEF Abstract!Return

LEMMA WriteImplements ==
  ASSUME TableInv, ClearedInv, FreshInv, Sound, Partitioned, NEW w \in Writers, Write(w)
  PROVE  [Abstract!Next]_(Abstract!vars)
<1>0. writer[w] \in WriterRec /\ WriterOK(writer[w]) /\ TypeInv
  BY RecordTypes DEF TableInv, TypeInv, WriterInv
<1>1. ASSUME NEW parts \in SUBSET Partitions, NEW overwrite \in BOOLEAN,
             BeginWrite(w, parts, overwrite)
      PROVE  Abstract!Next
  BY <1>0, <1>1, BeginImplements DEF Abstract!Next
<1>2. ASSUME NEW p \in Partitions, ListDir(w, p) PROVE UNCHANGED Abstract!vars
  <2> DEFINE rec == [writer[w] EXCEPT !.clearing = p, !.listing = InDir(PathName[p])]
  <2>1. writer' = [writer EXCEPT ![w] = rec] /\ UNCHANGED <<files, calls, owed>>
    BY <1>2 DEF ListDir
  <2>2. /\ rec.call = writer[w].call /\ rec.parts = writer[w].parts
        /\ rec.overwrite = writer[w].overwrite /\ rec.alone = writer[w].alone
    BY <1>0 DEF WriterRec
  <2> HIDE DEF rec
  <2> QED BY <1>0, <2>1, <2>2, OneStutters
<1>3. ASSUME DeleteFile(w) PROVE [Abstract!Next]_(Abstract!vars)
  BY <1>3, DeleteImplements DEF Abstract!Next
<1>4. ASSUME DirCleared(w) PROVE UNCHANGED Abstract!vars
  <2> DEFINE rec == [writer[w] EXCEPT !.clear = @ \ {writer[w].clearing},
                                      !.clearing = Nobody, !.listing = {}]
  <2>1. writer' = [writer EXCEPT ![w] = rec] /\ UNCHANGED <<files, calls, owed>>
    BY <1>4 DEF DirCleared
  <2>2. /\ rec.call = writer[w].call /\ rec.parts = writer[w].parts
        /\ rec.overwrite = writer[w].overwrite /\ rec.alone = writer[w].alone
    BY <1>0 DEF WriterRec
  <2> HIDE DEF rec
  <2> QED BY <1>0, <2>1, <2>2, OneStutters
<1>5. ASSUME BeginAppend(w) PROVE UNCHANGED Abstract!vars
  <2> DEFINE rec == [writer[w] EXCEPT !.pc = "appending"]
  <2>1. writer' = [writer EXCEPT ![w] = rec] /\ UNCHANGED <<files, calls, owed>>
    BY <1>5 DEF BeginAppend
  <2>2. /\ rec.call = writer[w].call /\ rec.parts = writer[w].parts
        /\ rec.overwrite = writer[w].overwrite /\ rec.alone = writer[w].alone
    BY <1>0 DEF WriterRec
  <2> HIDE DEF rec
  <2> QED BY <1>0, <2>1, <2>2, OneStutters
<1>6. ASSUME NEW p \in Partitions, CreateFile(w, p) PROVE [Abstract!Next]_(Abstract!vars)
  BY <1>6, CreateImplements DEF Abstract!Next
<1>7. ASSUME CloseFile(w) PROVE Abstract!Next
  BY <1>7, CloseImplements DEF Abstract!Next
<1>8. ASSUME WriteReturns(w) PROVE Abstract!Next
  BY <1>8, ReturnImplements DEF Abstract!Next
<1>9. ASSUME WriteFails(w) PROVE Abstract!Next
  <2>1. Abstract!AtWork(w) /\ UNCHANGED <<StoredRows, owed, calls>>
    BY <1>0, <1>9, Working DEF WriteFails, Active, StoredRows
  <2>2. CallsAtWork' = [CallsAtWork EXCEPT ![w] = Abstract!NoCall]
    BY <1>0, <1>9, WorkEnds DEF WriteFails
  <2>3. Abstract!Fail(w)
    BY <2>1, <2>2 DEF Abstract!Fail
  <2> QED BY <2>3 DEF Abstract!Next
<1> QED BY <1>1, <1>2, <1>3, <1>4, <1>5, <1>6, <1>7, <1>8, <1>9 DEF Write

(* However calls on a partitioned table interleave, fail between any two of
   their steps and are made again, rows go only from partitions that a call at
   work replaces, before it has stored any.  In the partitions it has to itself
   none of its rows is stored while something that it replaces is there, and
   it returns only when all its rows are. *)
THEOREM WritesImplemented ==
  ASSUME Sound, Partitioned, ~ DeleteFaults
  PROVE  Spec => ImplementsPartitionWrites
<1> DEFINE Inv == TableInv /\ ClearedInv /\ FreshInv
<1>1. Init => Inv /\ Abstract!Init
  <2> SUFFICES ASSUME Init PROVE Inv /\ Abstract!Init
    OBVIOUS
  <2>1. files = {} /\ owed = {} /\ calls = 0 /\ \A w \in Writers : writer[w] = IdleWriter
    BY DEF Init
  <2>2. /\ IdleWriter.pc = "idle" /\ IdleWriter.call = 0 /\ IdleWriter.parts = {}
        /\ IdleWriter.overwrite = FALSE /\ IdleWriter.alone = {}
    BY DEF IdleWriter
  <2>3. ClearedInv /\ FreshInv
    BY <2>1, <2>2 DEF ClearedInv, FreshInv, Active
  <2>4. StoredRows = {}
    BY <2>1 DEF StoredRows
  <2>5. CallsAtWork = [w \in Writers |-> Abstract!NoCall]
    BY <2>1, <2>2 DEF CallsAtWork, Abstract!NoCall
  <2> QED BY <2>1, <2>3, <2>4, <2>5, TableInit DEF Abstract!Init
<1>2. ASSUME Inv, [Next]_vars PROVE Inv' /\ [Abstract!Next]_(Abstract!vars)
  <2>1. TableInv'
    BY <1>2, TableStep
  <2>2. CASE \E w \in Writers : Write(w)
    BY <1>2, <2>1, <2>2, ClearedWrite, FreshWrite, WriteImplements
  <2>3. CASE UNCHANGED <<files, writer, calls, owed>>
    <3>1. ClearedInv' /\ FreshInv'
      BY <1>2, <2>3 DEF ClearedInv, FreshInv, HasFile, Replacing, Active
    <3>2. UNCHANGED Abstract!vars
      BY <2>3, Stutters DEF CallsAtWork
    <3> QED BY <2>1, <3>1, <3>2
  <2>4. ASSUME NEW r \in Readers, Read(r) PROVE UNCHANGED <<files, writer, calls, owed>>
    BY <2>4 DEF Read, Execute, FetchFile, FileMissing, FileInvalid, ReadReturns
  <2>5. ASSUME UNCHANGED vars PROVE UNCHANGED <<files, writer, calls, owed>>
    BY <2>5 DEF vars
  <2> QED BY <1>2, <2>2, <2>3, <2>4, <2>5 DEF Next
<1> HIDE DEF Inv
<1>3. Inv /\ [Next]_vars => Inv' /\ [Abstract!Next]_(Abstract!vars)
  BY <1>2
<1> QED BY <1>1, <1>3, PTL DEF Spec, ImplementsPartitionWrites, Abstract!Spec

-----------------------------------------------------------------------------
(***************************************************************************)
(* Reads.                                                                  *)
(***************************************************************************)

(* A step of write() that replaces no further partition and takes no file from
   one that nobody replaces. *)
LEMMA WriteKeepsReads ==
  ASSUME TableInv, ReadInv, UNCHANGED <<reader, pending, due>>,
         \A v \in Writers : writer'[v].clear \subseteq writer[v].clear,
         \A f \in files : (\A v \in Writers : f.partition \notin writer[v].clear) =>
           \E g \in files' : g.partition = f.partition /\ g.call = f.call
  PROVE  ReadInv'
<1>1. ReadsAreComplete'
  BY DEF ReadInv, ReadsAreComplete
<1>2. ASSUME NEW r \in Readers, reader[r].pc = "reading", reader[r].quiet
      PROVE  /\ \A w \in Writers : writer'[w].clear \cap reader[r].asked = {}
             /\ \A f \in pending[r] : Named(f) /\ f.partition \in reader[r].asked
                                      /\ \E g \in files' : g.partition = f.partition /\ g.call = f.call
             /\ \A o \in due[r] : \/ o \in reader[r].got
                                  \/ \E f \in pending[r] : f.partition = o[1] /\ f.call = o[2]
  <2>1. /\ \A w \in Writers : writer[w].clear \cap reader[r].asked = {}
        /\ \A f \in pending[r] : Named(f) /\ f.partition \in reader[r].asked
                                 /\ HasFile(f.partition, f.call)
        /\ \A o \in due[r] : \/ o \in reader[r].got
                             \/ \E f \in pending[r] : f.partition = o[1] /\ f.call = o[2]
    BY <1>2 DEF ReadInv, QuietInv
  <2>2. ASSUME NEW f \in pending[r]
        PROVE  \E g \in files' : g.partition = f.partition /\ g.call = f.call
    <3>1. PICK h \in files : h.partition = f.partition /\ h.call = f.call
      BY <2>1 DEF HasFile
    <3>2. \A v \in Writers : h.partition \notin writer[v].clear
      BY <2>1, <3>1
    <3> QED BY <3>1, <3>2
  <2> QED BY <2>1, <2>2
<1>3. QuietInv'
  BY <1>2 DEF QuietInv, HasFile, Named
<1> QED BY <1>1, <1>3 DEF ReadInv

LEMMA ReadInvWrite ==
  ASSUME TableInv, Sound, ReadInv, NEW w \in Writers, Write(w)
  PROVE  ReadInv'
<1>0. writer[w] \in WriterRec /\ WriterOK(writer[w]) /\ TypeInv
  BY RecordTypes DEF TableInv, TypeInv, WriterInv
<1>1. ASSUME NEW parts \in SUBSET Partitions, NEW overwrite \in BOOLEAN,
             BeginWrite(w, parts, overwrite)
      PROVE  ReadInv'
  <2> DEFINE replaces == overwrite /\ Partitioned
  <2>1. Begun(w, parts, overwrite)
    BY <1>0, <1>1, BeginParts
  <2>2. /\ UNCHANGED <<files, pending>>
        /\ reader' = [r \in Readers |-> [reader[r] EXCEPT
             !.quiet = @ /\ ~ (replaces /\ reader[r].asked \cap parts # {})]]
        /\ \A r \in Readers : due'[r] \subseteq due[r]
    BY <1>1 DEF BeginWrite
  <2>3. ASSUME NEW r \in Readers
        PROVE  /\ reader'[r].pc = reader[r].pc /\ reader'[r].asked = reader[r].asked
               /\ reader'[r].got = reader[r].got
               /\ reader'[r].quiet =>
                    reader[r].quiet /\ ~ (replaces /\ reader[r].asked \cap parts # {})
    <3>1. reader[r] \in ReaderRec
      BY <1>0, RecordTypes DEF TypeInv
    <3>2. reader'[r] = [reader[r] EXCEPT
             !.quiet = @ /\ ~ (replaces /\ reader[r].asked \cap parts # {})]
      BY <2>2
    <3> QED BY <3>1, <3>2 DEF ReaderRec
  <2>4. \A v \in Writers : writer'[v].clear = writer[v].clear
                          \/ (replaces /\ writer'[v].clear = parts) \/ writer'[v].clear = {}
    BY <2>1 DEF Begun
  <2> HIDE DEF replaces
  <2>5. ReadsAreComplete'
    BY <2>2, <2>3 DEF ReadInv, ReadsAreComplete
  <2>6. ASSUME NEW r \in Readers, reader'[r].pc = "reading", reader'[r].quiet
        PROVE  /\ \A v \in Writers : writer'[v].clear \cap reader'[r].asked = {}
               /\ \A f \in pending'[r] : Named(f) /\ f.partition \in reader'[r].asked
                                         /\ \E g \in files' : g.partition = f.partition /\ g.call = f.call
               /\ \A o \in due'[r] : \/ o \in reader'[r].got
                                     \/ \E f \in pending'[r] : f.partition = o[1] /\ f.call = o[2]
    <3>1. reader[r].pc = "reading" /\ reader[r].quiet
          /\ ~ (replaces /\ reader[r].asked \cap parts # {})
      BY <2>3, <2>6
    <3>2. /\ \A v \in Writers : writer[v].clear \cap reader[r].asked = {}
          /\ \A f \in pending[r] : Named(f) /\ f.partition \in reader[r].asked
                                   /\ HasFile(f.partition, f.call)
          /\ \A o \in due[r] : \/ o \in reader[r].got
                               \/ \E f \in pending[r] : f.partition = o[1] /\ f.call = o[2]
      BY <3>1 DEF ReadInv, QuietInv
    <3>3. \A v \in Writers : writer'[v].clear \cap reader'[r].asked = {}
      BY <2>3, <2>4, <3>1, <3>2
    <3>4. \A f \in pending'[r] : Named(f) /\ f.partition \in reader'[r].asked
                                /\ \E g \in files' : g.partition = f.partition /\ g.call = f.call
      BY <2>2, <2>3, <3>2 DEF HasFile
    <3>5. \A o \in due'[r] : \/ o \in reader'[r].got
                            \/ \E f \in pending'[r] : f.partition = o[1] /\ f.call = o[2]
      BY <2>2, <2>3, <3>2
    <3> QED BY <3>3, <3>4, <3>5
  <2>7. QuietInv'
    BY <2>6 DEF QuietInv, HasFile, Named
  <2> QED BY <2>5, <2>7 DEF ReadInv
<1>2. ASSUME UNCHANGED files,
             UNCHANGED <<reader, pending, due>>, NEW rec,
             writer' = [writer EXCEPT ![w] = rec], rec.clear \subseteq writer[w].clear
      PROVE  ReadInv'
  <2>1. \A v \in Writers : writer'[v].clear \subseteq writer[v].clear
    BY <1>0, <1>2, OneWriterMoves
  <2> QED BY <1>2, <2>1, WriteKeepsReads
<1>3. ASSUME NEW p \in Partitions, ListDir(w, p) PROVE ReadInv'
  <2> DEFINE rec == [writer[w] EXCEPT !.clearing = p, !.listing = InDir(PathName[p])]
  <2>1. writer' = [writer EXCEPT ![w] = rec] /\ UNCHANGED <<files, reader, pending, due>>
    BY <1>3 DEF ListDir
  <2>2. rec.clear = writer[w].clear
    BY <1>0 DEF WriterRec
  <2> HIDE DEF rec
  <2> QED BY <1>2, <2>1, <2>2
<1>4. ASSUME DirCleared(w) PROVE ReadInv'
  <2> DEFINE rec == [writer[w] EXCEPT !.clear = @ \ {writer[w].clearing},
                                      !.clearing = Nobody, !.listing = {}]
  <2>1. writer' = [writer EXCEPT ![w] = rec] /\ UNCHANGED <<files, reader, pending, due>>
    BY <1>4 DEF DirCleared
  <2>2. rec.clear = writer[w].clear \ {writer[w].clearing}
    BY <1>0 DEF WriterRec
  <2> HIDE DEF rec
  <2> QED BY <1>2, <2>1, <2>2
<1>5. ASSUME BeginAppend(w) PROVE ReadInv'
  <2> DEFINE rec == [writer[w] EXCEPT !.pc = "appending"]
  <2>1. writer' = [writer EXCEPT ![w] = rec] /\ UNCHANGED <<files, reader, pending, due>>
    BY <1>5 DEF BeginAppend
  <2>2. rec.clear = writer[w].clear
    BY <1>0 DEF WriterRec
  <2> HIDE DEF rec
  <2> QED BY <1>2, <2>1, <2>2
<1>6. ASSUME WriteReturns(w) \/ WriteFails(w) PROVE ReadInv'
  <2>1. writer' = [writer EXCEPT ![w] = IdleWriter] /\ UNCHANGED <<files, reader, pending, due>>
    BY <1>6 DEF WriteReturns, WriteFails
  <2>2. IdleWriter.clear = {}
    BY DEF IdleWriter
  <2> QED BY <1>2, <2>1, <2>2
<1>7. ASSUME DeleteFile(w) PROVE ReadInv'
  <2>1. PICK f \in writer[w].listing :
          /\ files' = {g \in files : g.dir # f.dir \/ g.name # f.name}
          /\ writer' = [writer EXCEPT ![w].listing = @ \ {f}]
    BY <1>7 DEF DeleteFile
  <2> DEFINE rec == [writer[w] EXCEPT !.listing = @ \ {f}]
  <2>2. writer' = [writer EXCEPT ![w] = rec] /\ UNCHANGED <<reader, pending, due>>
    BY <1>7, <2>1 DEF DeleteFile
  <2>3. rec.clear = writer[w].clear
    BY <1>0 DEF WriterRec
  <2> HIDE DEF rec
  <2>4. \A v \in Writers : writer'[v].clear \subseteq writer[v].clear
    BY <1>0, <2>2, <2>3, OneWriterMoves
  <2>5. Named(f) /\ f.partition \in writer[w].clear
    BY <1>0, <2>1 DEF WriterOK
  <2>6. ASSUME NEW g \in files, \A v \in Writers : g.partition \notin writer[v].clear
        PROVE  g \in files'
    <3>1. g \in File /\ Named(g) /\ f \in File
      BY <1>0, <2>1 DEF TableInv, TypeInv, TypeOK, FilesInv, WriterRec
    <3>2. g.partition \in Partitions /\ f.partition \in Partitions
      BY <3>1 DEF File
    <3>3. g.dir # f.dir
      BY <2>5, <2>6, <3>1, <3>2, NamesAssumption DEF Named
    <3> QED BY <2>1, <3>3
  <2> QED BY <2>2, <2>4, <2>6, WriteKeepsReads
<1>8. ASSUME NEW p \in Partitions, CreateFile(w, p) PROVE ReadInv'
  <2> DEFINE rec == [writer[w] EXCEPT !.todo = @ \ {p}]
             new == Parquet(p, writer[w].call, ~ Local)
  <2>1. /\ writer' = [writer EXCEPT ![w] = rec] /\ UNCHANGED <<reader, pending, due>>
        /\ files' = (files \ SameName(p, writer[w].call)) \cup {new}
    BY <1>8 DEF CreateFile, Sound
  <2>2. rec.clear = writer[w].clear
    BY <1>0 DEF WriterRec
  <2>3. new.partition = p /\ new.call = writer[w].call
    BY DEF Parquet
  <2>4. ASSUME NEW f \in SameName(p, writer[w].call)
        PROVE  f.partition = p /\ f.call = writer[w].call
    <3>1. f \in files /\ f.dir = DirName[p] /\ f.name = writer[w].call
      BY DEF SameName, Parquet
    <3>2. f \in File /\ Named(f)
      BY <1>0, <3>1 DEF TableInv, TypeInv, TypeOK, FilesInv
    <3>3. f.partition \in Partitions
      BY <3>2 DEF File
    <3> QED BY <3>1, <3>2, <3>3, NamesAssumption DEF Named
  <2> HIDE DEF rec, new
  <2>5. \A v \in Writers : writer'[v].clear \subseteq writer[v].clear
    BY <1>0, <2>1, <2>2, OneWriterMoves
  <2>6. \A f \in files : \E g \in files' : g.partition = f.partition /\ g.call = f.call
    BY <2>1, <2>3, <2>4
  <2> QED BY <2>1, <2>5, <2>6, WriteKeepsReads
<1>9. ASSUME CloseFile(w) PROVE ReadInv'
  <2>1. PICK f \in files : files' = (files \ {f}) \cup {[f EXCEPT !.whole = TRUE]}
    BY <1>9 DEF CloseFile
  <2> DEFINE new == [f EXCEPT !.whole = TRUE]
  <2>2. files' = (files \ {f}) \cup {new} /\ UNCHANGED <<writer, reader, pending, due>>
    BY <1>9, <2>1 DEF CloseFile
  <2>3. f \in File
    BY <1>0 DEF TypeInv, TypeOK
  <2>4. new.partition = f.partition /\ new.call = f.call
    BY <2>3 DEF File
  <2> HIDE DEF new
  <2>5. \A g \in files : \E h \in files' : h.partition = g.partition /\ h.call = g.call
    BY <2>2, <2>4
  <2> QED BY <2>2, <2>5, WriteKeepsReads
<1> QED BY <1>1, <1>3, <1>4, <1>5, <1>6, <1>7, <1>8, <1>9 DEF Write

(* A query changes nothing of the others'. *)
LEMMA ReadInvRead ==
  ASSUME TableInv, Sound, ReadInv, NEW r \in Readers, Read(r)
  PROVE  ReadInv'
<1>0. /\ reader \in [Readers -> ReaderRec] /\ pending \in [Readers -> SUBSET File]
      /\ due \in [Readers -> SUBSET Rowset] /\ files \subseteq File /\ owed \subseteq Rowset
      /\ reader[r] \in ReaderRec /\ TypeInv
  BY RecordTypes DEF TableInv, TypeInv, TypeOK
<1> DEFINE Quiet(s) ==
      /\ \A w \in Writers : writer[w].clear \cap reader[s].asked = {}
      /\ \A f \in pending[s] : Named(f) /\ f.partition \in reader[s].asked
                               /\ HasFile(f.partition, f.call)
      /\ \A o \in due[s] : \/ o \in reader[s].got
                           \/ \E f \in pending[s] : f.partition = o[1] /\ f.call = o[2]
<1>1. \A s \in Readers : reader[s].pc = "reading" /\ reader[s].quiet => Quiet(s)
  BY DEF ReadInv, QuietInv
<1>2. UNCHANGED <<files, writer>>
  BY DEF Read, Execute, FetchFile, FileMissing, FileInvalid, ReadReturns
<1>3. \A s \in Readers : s # r =>
        reader'[s] = reader[s] /\ pending'[s] = pending[s] /\ due'[s] = due[s]
  BY <1>0 DEF Read, Execute, FetchFile, FileMissing, FileInvalid, ReadReturns, Cursor
<1>4. ASSUME reader'[r].pc = "reading" /\ reader'[r].quiet => Quiet(r)',
             reader'[r].pc = "returned" /\ reader'[r].quiet => due'[r] \subseteq reader'[r].got
      PROVE  ReadInv'
  <2>1. \A s \in Readers : reader'[s].pc = "reading" /\ reader'[s].quiet => Quiet(s)'
    BY <1>1, <1>2, <1>3, <1>4 DEF HasFile, Named
  <2>2. QuietInv'
    BY <2>1 DEF QuietInv
  <2>3. ReadsAreComplete'
    BY <1>3, <1>4 DEF ReadInv, ReadsAreComplete
  <2> QED BY <2>2, <2>3 DEF ReadInv
<1>5. ASSUME NEW asked \in SUBSET Partitions, Execute(r, asked) PROVE ReadInv'
  <2> DEFINE quiet == \A w \in Writers : writer[w].clear \cap asked = {}
             rec == [pc |-> "reading", asked |-> asked, got |-> {}, quiet |-> quiet]
  <2>1. /\ reader' = [reader EXCEPT ![r] = rec]
        /\ pending' = [pending EXCEPT ![r] = Globbed(asked)]
        /\ due' = [due EXCEPT ![r] = {o \in owed : o[1] \in asked}]
    BY <1>5 DEF Execute, Cursor
  <2>2. /\ reader'[r] = rec /\ pending'[r] = Globbed(asked)
        /\ due'[r] = {o \in owed : o[1] \in asked}
    BY <1>0, <2>1
  <2>3. rec.pc = "reading" /\ rec.asked = asked /\ rec.quiet = quiet
    OBVIOUS
  <2>4. \A f \in files : f.partition \in Partitions /\ Named(f)
    BY <1>0 DEF File, TableInv, FilesInv
  <2>5. \A f \in Globbed(asked) : f \in files /\ f.partition \in asked
    BY <2>4, NamesAssumption DEF Globbed, InDir, Sound, Named
  <2>6. \A f \in files : f.partition \in asked => f \in Globbed(asked)
    BY <2>4 DEF Globbed, InDir, Sound, Named
  <2> HIDE DEF rec, quiet
  <2>7. ASSUME quiet PROVE Quiet(r)'
    <3>1. \A w \in Writers : writer'[w].clear \cap reader'[r].asked = {}
      BY <1>2, <2>2, <2>3, <2>7 DEF quiet
    <3>2. \A f \in pending'[r] : /\ Named(f) /\ f.partition \in reader'[r].asked
                                 /\ \E g \in files' : g.partition = f.partition /\ g.call = f.call
      BY <1>2, <2>2, <2>3, <2>4, <2>5
    <3>3. \A o \in due'[r] : \E f \in pending'[r] : f.partition = o[1] /\ f.call = o[2]
      BY <2>2, <2>6 DEF TableInv, ReturnedRowsStay
    <3> QED BY <3>1, <3>2, <3>3 DEF HasFile, Named
  <2> QED BY <1>4, <2>2, <2>3, <2>7
<1>6. ASSUME FetchFile(r) PROVE ReadInv'
  <2>1. PICK f \in pending[r] :
          /\ pending' = [pending EXCEPT ![r] = @ \ {f}]
          /\ reader' = [reader EXCEPT ![r].got = @ \cup {<<f.partition, f.call>>}]
    BY <1>6 DEF FetchFile, Cursor
  <2>2. UNCHANGED due /\ reader[r].pc = "reading"
    BY <1>6 DEF FetchFile
  <2>3. pending'[r] = pending[r] \ {f}
    BY <1>0, <2>1
  <2>4. reader'[r] = [reader[r] EXCEPT !.got = @ \cup {<<f.partition, f.call>>}]
    BY <1>0, <2>1
  <2>5. /\ reader'[r].pc = reader[r].pc /\ reader'[r].asked = reader[r].asked
        /\ reader'[r].quiet = reader[r].quiet
        /\ reader'[r].got = reader[r].got \cup {<<f.partition, f.call>>}
    BY <1>0, <2>4 DEF ReaderRec
  <2>6. \A o \in due[r] : o = <<o[1], o[2]>>
    BY <1>0 DEF Rowset
  <2>7. ASSUME reader'[r].quiet PROVE Quiet(r)'
    <3>1. Quiet(r)
      BY <1>1, <2>2, <2>5, <2>7
    <3>2. \A o \in due'[r] : \/ o \in reader'[r].got
                            \/ \E g \in pending'[r] : g.partition = o[1] /\ g.call = o[2]
      BY <2>2, <2>3, <2>5, <2>6, <3>1
    <3>3. \A w \in Writers : writer'[w].clear \cap reader'[r].asked = {}
      BY <1>2, <2>5, <3>1
    <3>4. \A g \in pending'[r] : /\ Named(g) /\ g.partition \in reader'[r].asked
                                 /\ \E h \in files' : h.partition = g.partition /\ h.call = g.call
      BY <1>2, <2>3, <2>5, <3>1 DEF HasFile
    <3> QED BY <3>2, <3>3, <3>4 DEF HasFile, Named
  <2> QED BY <1>4, <2>2, <2>5, <2>7
<1>7. ASSUME NEW pc \in {"returned", "raised"}, reader' = [reader EXCEPT ![r].pc = pc]
      PROVE  reader'[r].pc = pc /\ reader'[r].got = reader[r].got
             /\ reader'[r].quiet = reader[r].quiet
  <2>1. reader'[r] = [reader[r] EXCEPT !.pc = pc]
    BY <1>0, <1>7
  <2> QED BY <1>0, <2>1 DEF ReaderRec
<1>8. ASSUME FileMissing(r) PROVE ReadInv'
  <2>1. /\ \E kept \in {reader[r].got, {}} :
             reader' = [reader EXCEPT ![r].pc = "returned", ![r].got = kept]
        /\ reader[r].pc = "reading"
        /\ \E f \in pending[r] : ~ \E g \in files : g.dir = f.dir /\ g.name = f.name
    BY <1>8 DEF FileMissing, Cursor
  <2>2. reader'[r].pc = "returned" /\ reader'[r].quiet = reader[r].quiet
    <3>1. PICK kept : reader'[r] = [reader[r] EXCEPT !.pc = "returned", !.got = kept]
      BY <1>0, <2>1
    <3> QED BY <1>0, <3>1 DEF ReaderRec
  <2>3. ~ reader[r].quiet
    BY <1>1, <2>1 DEF HasFile, TableInv, FilesInv, Named
  <2> QED BY <1>4, <2>2, <2>3
<1>9. ASSUME FileInvalid(r) PROVE ReadInv'
  <2>1. reader' = [reader EXCEPT ![r].pc = "raised"]
    BY <1>9 DEF FileInvalid
  <2>2. reader'[r].pc = "raised"
    BY <1>7, <2>1
  <2> QED BY <1>4, <2>2
<1>10. ASSUME ReadReturns(r) PROVE ReadInv'
  <2>1. /\ reader' = [reader EXCEPT ![r].pc = "returned"] /\ reader[r].pc = "reading"
        /\ pending[r] = {} /\ UNCHANGED due
    BY <1>10 DEF ReadReturns, Cursor
  <2>2. /\ reader'[r].pc = "returned" /\ reader'[r].quiet = reader[r].quiet
        /\ reader'[r].got = reader[r].got
    BY <1>7, <2>1
  <2>3. reader[r].quiet => due[r] \subseteq reader[r].got
    BY <1>1, <2>1
  <2> QED BY <1>4, <2>1, <2>2, <2>3
<1> QED BY <1>5, <1>6, <1>8, <1>9, <1>10 DEF Read

(* A query that returns without an error while no partition it asked for is
   being replaced has every row written before it began: it never takes one
   of an overwrite's missing files for an empty table, and its cursor is not
   disturbed by other queries. *)
THEOREM ReadsComplete ==
  ASSUME Sound
  PROVE  Spec => []ReadsAreComplete
<1>1. Init => TableInv /\ ReadInv
  <2>1. Init => ReadInv
    BY DEF Init, ReadInv, QuietInv, ReadsAreComplete, IdleReader
  <2> QED BY <2>1, TableInit
<1>2. TableInv /\ ReadInv /\ [Next]_vars => TableInv' /\ ReadInv'
  <2> SUFFICES ASSUME TableInv, ReadInv, [Next]_vars PROVE ReadInv'
    BY TableStep
  <2>1. ASSUME UNCHANGED vars PROVE ReadInv'
    BY <2>1 DEF vars, ReadInv, QuietInv, ReadsAreComplete, HasFile, Named
  <2> QED BY <2>1, ReadInvWrite, ReadInvRead DEF Next
<1>3. ReadInv => ReadsAreComplete
  BY DEF ReadInv
<1> QED BY <1>1, <1>2, <1>3, PTL DEF Spec

=============================================================================
