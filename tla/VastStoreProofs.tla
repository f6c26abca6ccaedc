-------------------------- MODULE VastStoreProofs --------------------------
(***************************************************************************)
(* Proofs about VastStore, for every set of instances, tables, keys and    *)
(* declarations and any number of calls.                                   *)
(*                                                                         *)
(*   TypeCorrect        Spec => []TypeOK, in every deployment              *)
(*   CachesAgree        Spec => []ProvisionedCachesAgree                   *)
(*   DeclarationsAgree  Spec => []ProvisionedAgree                         *)
(*   AckedStay          Spec => []AckedRowsStay                            *)
(*   RerunsAccepted     Spec => []RerunAccepted                            *)
(*   DedupLatest        Spec => []DedupKeepsLatest                         *)
(*                                                                         *)
(* The four in the middle are of deployments that call create_table from   *)
(* one process at a time (Serialized); the last is of every deployment in  *)
(* which all instances add written_at.                                     *)
(***************************************************************************)
EXTENDS VastStore, FiniteSetTheorems, TLAPS

Table == [schema : Schema, rows : SUBSET Row]

Inserting == {i \in Instances : pc[i] = "inserting"}

(* The variables that instances have one each of, and the server's tables. *)
ShapeInv ==
  /\ DOMAIN server \subseteq Tables /\ \A t \in DOMAIN server : server[t] \in Table
  /\ pc \in [Instances -> {"closed", "ready", "committing", "inserting"}]
  /\ DOMAIN meta = Instances /\ DOMAIN cache = Instances /\ DOMAIN work = Instances
  /\ provisioned \in [Instances -> SUBSET Tables]
  /\ acked \subseteq Tables \X (1..MaxWrites)
  /\ accepted \subseteq TableCalls

(* What an instance has declared and cached, and the call it is in. *)
LocalOK(i) ==
  /\ DOMAIN meta[i] \subseteq Tables /\ \A t \in DOMAIN meta[i] : meta[i][t] \in Entry
  /\ DOMAIN cache[i] \subseteq Tables /\ \A t \in DOMAIN cache[i] : cache[i][t] \in Schema
  /\ pc[i] = "committing" =>
       \E c \in TableCalls : /\ work[i].table = c.table /\ work[i].decl = c.decl
                             /\ work[i].entry = PreparedEntry(i, c.decl)
  /\ pc[i] = "inserting" =>
       work[i].row \in Row /\ work[i].table \in Tables /\ work[i].entry \in Entry

(* The clock counts the calls that have ended; each call ends once. *)
ClockInv ==
  /\ calls \in 0..MaxWrites /\ ended \subseteq 1..calls
  /\ clock = Cardinality(ended) + 1
  /\ \A i \in Inserting : work[i].row.call \in (1..calls) \ ended
  /\ \A i, j \in Inserting : work[i].row.call = work[j].row.call => i = j

TypeInv == ShapeInv /\ (\A i \in Instances : LocalOK(i)) /\ ClockInv

-----------------------------------------------------------------------------
(***************************************************************************)
(* The operators.                                                          *)
(***************************************************************************)
LEMMA NormalizedFacts ==
  ASSUME NEW schema \in Schema
  PROVE  /\ Normalized(schema) \in Schema
         /\ Normalized(Normalized(schema)) = Normalized(schema)
         /\ DOMAIN Normalized(schema) = DOMAIN schema
<1>1. schema \in [DOMAIN schema -> Field] /\ DOMAIN schema \in SUBSET Columns
  BY DEF Schema
<1>2. \A c \in DOMAIN schema : schema[c].type \in Types
  BY <1>1 DEF Field
<1>3. \A c \in DOMAIN schema : /\ StoredType[schema[c].type] \in Types
        /\ StoredType[StoredType[schema[c].type]] = StoredType[schema[c].type]
  BY <1>2, VastAssumption
<1>4. Normalized(schema) \in [DOMAIN schema -> Field]
  BY <1>3 DEF Normalized, Field
<1>5. Normalized(Normalized(schema)) = Normalized(schema)
  BY <1>3 DEF Normalized
<1> QED BY <1>1, <1>4, <1>5 DEF Schema, Normalized

LEMMA PreparedFacts ==
  ASSUME NEW i \in Instances, NEW decl \in Entry
  PROVE  /\ PreparedEntry(i, decl) \in Entry
         /\ PreparedEntry(i, decl).schema = PrepareSchema(i, decl.schema)
         /\ PrepareSchema(i, decl.schema) \in Schema
         /\ Normalized(PrepareSchema(i, decl.schema)) = PrepareSchema(i, decl.schema)
         /\ AddWrittenAt[i] => WrittenAt \in DOMAIN PrepareSchema(i, decl.schema)
<1> DEFINE n == Normalized(decl.schema)
           field == [type |-> TimeType, nullable |-> TRUE]
<1>1. decl.schema \in Schema
  BY DEF Entry
<1>2. n \in Schema /\ Normalized(n) = n
  BY <1>1, NormalizedFacts
<1>3. PrepareSchema(i, decl.schema) = n \/ PrepareSchema(i, decl.schema) = Put(n, WrittenAt, field)
  BY DEF PrepareSchema
<1>4. field \in Field /\ WrittenAt \in Columns /\ StoredType[TimeType] = TimeType
  BY VastAssumption DEF Field
<1> HIDE DEF n
<1>5. n \in [DOMAIN n -> Field] /\ DOMAIN n \in SUBSET Columns
  BY <1>2 DEF Schema
<1>6. Put(n, WrittenAt, field) \in Schema
  <2>1. Put(n, WrittenAt, field) \in [DOMAIN n \cup {WrittenAt} -> Field]
    BY <1>4, <1>5 DEF Put
  <2>2. DOMAIN n \cup {WrittenAt} \in SUBSET Columns
    BY <1>4, <1>5
  <2> QED BY <2>1, <2>2 DEF Schema
<1>7. Normalized(Put(n, WrittenAt, field)) = Put(n, WrittenAt, field)
  <2>1. \A c \in DOMAIN n : n[c] = [type |-> StoredType[n[c].type], nullable |-> TRUE]
    <3>1. \A c \in DOMAIN n : Normalized(n)[c] = [type |-> StoredType[n[c].type], nullable |-> TRUE]
      BY DEF Normalized
    <3> QED BY <1>2, <3>1
  <2> QED BY <1>4, <2>1 DEF Normalized, Put
<1>8. /\ PrepareSchema(i, decl.schema) \in Schema
      /\ Normalized(PrepareSchema(i, decl.schema)) = PrepareSchema(i, decl.schema)
  BY <1>2, <1>3, <1>6, <1>7
<1>9. PreparedEntry(i, decl) \in Entry /\ PreparedEntry(i, decl).schema = PrepareSchema(i, decl.schema)
  BY <1>8 DEF PreparedEntry, Entry
<1>10. AddWrittenAt[i] => WrittenAt \in DOMAIN PrepareSchema(i, decl.schema)
  BY DEF PrepareSchema, Put, Normalized
<1> QED BY <1>8, <1>9, <1>10

LEMMA CallsTyped ==
  ASSUME NEW i \in Instances, NEW c \in TableCalls
  PROVE  c.table \in Tables /\ c.decl \in Entry /\ PreparedEntry(i, c.decl) \in Entry
BY VastAssumption, PreparedFacts

LEMMA PutTyped ==
  ASSUME NEW f, NEW k, NEW v, NEW S, NEW T, DOMAIN f \subseteq S, k \in S,
         \A x \in DOMAIN f : f[x] \in T, v \in T
  PROVE  DOMAIN Put(f, k, v) \subseteq S /\ \A x \in DOMAIN Put(f, k, v) : Put(f, k, v)[x] \in T
BY DEF Put

LEMMA EndedCounted ==
  ASSUME ClockInv
  PROVE  IsFiniteSet(ended) /\ Cardinality(ended) \in Nat /\ Cardinality(ended) <= calls
<1>1. calls \in Nat /\ ended \in SUBSET (1..calls)
  BY VastAssumption DEF ClockInv
<1>2. IsFiniteSet(1..calls) /\ Cardinality(1..calls) = calls
  <2>1. IsFiniteSet(1..calls) /\ Cardinality(1..calls) = IF 1 > calls THEN 0 ELSE calls - 1 + 1
    BY <1>1, FS_Interval
  <2> QED BY <1>1, <2>1
<1>3. IsFiniteSet(ended) /\ Cardinality(ended) <= Cardinality(1..calls)
  BY <1>1, <1>2, FS_Subset
<1> QED BY <1>2, <1>3, FS_CardinalityType

-----------------------------------------------------------------------------
(***************************************************************************)
(* Type correctness.                                                       *)
(***************************************************************************)
Step(i) ==
  \/ Open(i) \/ Exit(i) \/ CreateReturns(i) \/ CommitFails(i) \/ DropSchema(i)
  \/ WriteReturns(i) \/ WriteRejected(i) \/ WriteFails(i)
  \/ \E c \in TableCalls :
       RegisterTable(i, c) \/ FindTable(i, c) \/ MakeTable(i, c)
  \/ \E t \in Tables : LookUp(i, t) \/ DropTable(i, t)
  \/ \E t \in Tables, k \in Keys : BeginWrite(i, t, k)

(* One instance moves at a time. *)
Frame(i) ==
  /\ DOMAIN meta' = Instances /\ DOMAIN cache' = Instances /\ DOMAIN work' = Instances
  /\ \A j \in Instances \ {i} :
       /\ pc'[j] = pc[j] /\ meta'[j] = meta[j] /\ cache'[j] = cache[j]
       /\ work'[j] = work[j] /\ provisioned'[j] = provisioned[j]

LEMMA Frames ==
  ASSUME ShapeInv, NEW i \in Instances, Step(i)
  PROVE  Frame(i)
<1>1. CASE Open(i)
  BY <1>1 DEF Open, ShapeInv, Frame
<1>2. CASE Exit(i)
  BY <1>2 DEF Exit, ShapeInv, Frame
<1>3. CASE CreateReturns(i) \/ CommitFails(i)
  BY <1>3 DEF CreateReturns, CommitFails, ShapeInv, Frame
<1>4. CASE WriteReturns(i) \/ WriteRejected(i) \/ WriteFails(i)
  BY <1>4 DEF WriteReturns, WriteRejected, WriteFails, LeaveWrite, ShapeInv, Frame
<1>5. ASSUME NEW c \in TableCalls, RegisterTable(i, c) PROVE Frame(i)
  BY <1>5 DEF RegisterTable, ShapeInv, Frame
<1>6. ASSUME NEW c \in TableCalls, FindTable(i, c) \/ MakeTable(i, c) PROVE Frame(i)
  BY <1>6 DEF FindTable, MakeTable, InCreate, ShapeInv, Frame
<1>7. ASSUME NEW t \in Tables, LookUp(i, t) PROVE Frame(i)
  BY <1>7 DEF LookUp, ShapeInv, Frame
<1>8. ASSUME NEW S, Forget(i, S) PROVE Frame(i)
  BY <1>8 DEF Forget, ShapeInv, Frame
<1>9. ASSUME NEW t \in Tables, NEW k \in Keys, BeginWrite(i, t, k) PROVE Frame(i)
  BY <1>9 DEF BeginWrite, ShapeInv, Frame
<1> QED BY <1>1, <1>2, <1>3, <1>4, <1>5, <1>6, <1>7, <1>8, <1>9 DEF Step, DropTable, DropSchema

(* The acting instance. *)
LEMMA IdleLocal ==
  ASSUME TypeInv, NEW i \in Instances,
         pc'[i] \in {"closed", "ready"},
         meta'[i] = meta[i] \/ meta'[i] = Empty, cache'[i] = cache[i] \/ cache'[i] = Empty
  PROVE  LocalOK(i)'
BY DEF TypeInv, LocalOK, Empty

LEMMA LocalStep ==
  ASSUME TypeInv, NEW i \in Instances, Step(i)
  PROVE  LocalOK(i)'
<1>0. ShapeInv /\ LocalOK(i)
  BY DEF TypeInv
<1>1. CASE Open(i)
  <2>1. pc'[i] = "ready" /\ UNCHANGED <<meta, cache>>
    BY <1>0, <1>1 DEF Open, ShapeInv
  <2> QED BY <2>1, IdleLocal
<1>2. CASE Exit(i)
  <2>1. pc'[i] = "closed" /\ meta'[i] = Empty /\ cache'[i] = Empty
    BY <1>0, <1>2 DEF Exit, ShapeInv
  <2> QED BY <2>1, IdleLocal
<1>3. CASE CommitFails(i) \/ WriteReturns(i) \/ WriteRejected(i) \/ WriteFails(i)
  <2>1. pc'[i] = "ready" /\ UNCHANGED <<meta, cache>>
    BY <1>0, <1>3 DEF CommitFails, WriteReturns, WriteRejected, WriteFails, LeaveWrite, ShapeInv
  <2> QED BY <2>1, IdleLocal
<1>4. CASE CreateReturns(i)
  <2>1. /\ pc'[i] = "ready" /\ UNCHANGED cache
        /\ meta'[i] = Put(meta[i], work[i].table, work[i].entry) /\ pc[i] = "committing"
    BY <1>0, <1>4 DEF CreateReturns, ShapeInv
  <2>2. work[i].table \in Tables /\ work[i].entry \in Entry
    BY <1>0, <2>1, CallsTyped DEF LocalOK
  <2>3. DOMAIN meta'[i] \subseteq Tables /\ \A t \in DOMAIN meta'[i] : meta'[i][t] \in Entry
    BY <1>0, <2>1, <2>2, PutTyped DEF LocalOK
  <2> QED BY <1>0, <2>1, <2>3 DEF LocalOK
<1>5. ASSUME NEW c \in TableCalls, RegisterTable(i, c) PROVE LocalOK(i)'
  <2>1. /\ pc'[i] = "ready" /\ UNCHANGED cache
        /\ meta'[i] = Put(meta[i], c.table, PreparedEntry(i, c.decl))
    BY <1>0, <1>5 DEF RegisterTable, ShapeInv
  <2>2. c.table \in Tables /\ PreparedEntry(i, c.decl) \in Entry
    BY CallsTyped
  <2>3. DOMAIN meta'[i] \subseteq Tables /\ \A t \in DOMAIN meta'[i] : meta'[i][t] \in Entry
    BY <1>0, <2>1, <2>2, PutTyped DEF LocalOK
  <2> QED BY <1>0, <2>1, <2>3 DEF LocalOK
<1>6. ASSUME NEW c \in TableCalls, FindTable(i, c) \/ MakeTable(i, c) PROVE LocalOK(i)'
  <2> DEFINE entry == PreparedEntry(i, c.decl)
  <2>1. /\ pc'[i] = "committing" /\ UNCHANGED meta
        /\ \E s \in Schema : cache'[i] = Put(cache[i], c.table, s)
    <3>1. entry.schema \in Schema
      BY CallsTyped DEF Entry
    <3>2. CASE FindTable(i, c)
      BY <1>0, <3>2 DEF FindTable, InCreate, ShapeInv, Table
    <3>3. CASE MakeTable(i, c)
      BY <1>0, <3>1, <3>3 DEF MakeTable, InCreate, ShapeInv
    <3> QED BY <1>6, <3>2, <3>3
  <2>2. PICK b \in BOOLEAN : work'[i] =
          [Idle EXCEPT !.table = c.table, !.decl = c.decl, !.creates = b, !.entry = entry]
    BY <1>0, <1>6 DEF FindTable, MakeTable, InCreate, ShapeInv
  <2> HIDE DEF entry
  <2>3. work'[i].table = c.table /\ work'[i].decl = c.decl /\ work'[i].entry = entry
    BY <2>2 DEF Idle
  <2>4. c.table \in Tables
    BY CallsTyped
  <2>5. DOMAIN cache'[i] \subseteq Tables /\ \A t \in DOMAIN cache'[i] : cache'[i][t] \in Schema
    BY <1>0, <2>1, <2>4, PutTyped DEF LocalOK
  <2> QED BY <1>0, <2>1, <2>3, <2>5 DEF LocalOK, entry
<1>7. ASSUME NEW t \in Tables, LookUp(i, t) PROVE LocalOK(i)'
  <2>1. /\ pc'[i] = "ready" /\ UNCHANGED meta
        /\ cache'[i] = Put(cache[i], t, server[t].schema) /\ server[t].schema \in Schema
    BY <1>0, <1>7 DEF LookUp, ShapeInv, Table
  <2>2. DOMAIN cache'[i] \subseteq Tables /\ \A u \in DOMAIN cache'[i] : cache'[i][u] \in Schema
    BY <1>0, <2>1, PutTyped DEF LocalOK
  <2> QED BY <1>0, <2>1, <2>2 DEF LocalOK
<1>8. ASSUME NEW S, pc[i] = "ready", Forget(i, S) PROVE LocalOK(i)'
  <2>1. /\ pc'[i] = "ready"
        /\ \/ meta'[i] = Without(meta[i], S) /\ cache'[i] = Without(cache[i], S)
           \/ UNCHANGED <<meta, cache>>
    BY <1>0, <1>8 DEF Forget, ShapeInv
  <2> QED BY <1>0, <2>1 DEF LocalOK, Without
<1>9. ASSUME NEW t \in Tables, NEW k \in Keys, BeginWrite(i, t, k) PROVE LocalOK(i)'
  <2> DEFINE row == [key |-> k, call |-> calls + 1, after |-> ended,
                     stamp |-> Stamp(i, meta[i][t].schema)]
  <2>1. /\ pc'[i] = "inserting" /\ UNCHANGED <<meta, cache>> /\ t \in DOMAIN meta[i]
        /\ work'[i] = [Idle EXCEPT !.table = t, !.entry = meta[i][t], !.row = row]
        /\ calls < MaxWrites
    BY <1>0, <1>9 DEF BeginWrite, ShapeInv
  <2>2. row \in Row
    <3>1. calls \in Nat /\ calls + 1 \in 1..MaxWrites /\ ended \subseteq 1..MaxWrites
      BY <2>1, VastAssumption DEF TypeInv, ClockInv
    <3>2. clock \in 0..MaxWrites
      <4>1. Cardinality(ended) \in Nat /\ Cardinality(ended) <= calls
        BY EndedCounted DEF TypeInv
      <4> QED BY <2>1, <3>1, <4>1, VastAssumption DEF TypeInv, ClockInv
    <3>3. Stamp(i, meta[i][t].schema) \in 0..MaxWrites
      BY <3>2, VastAssumption DEF Stamp
    <3> QED BY <3>1, <3>3 DEF Row
  <2> HIDE DEF row
  <2>3. work'[i].row = row /\ work'[i].table = t /\ work'[i].entry = meta[i][t]
    BY <2>1 DEF Idle
  <2> QED BY <1>0, <2>1, <2>2, <2>3 DEF LocalOK
<1> QED BY <1>1, <1>2, <1>3, <1>4, <1>5, <1>6, <1>7, <1>8, <1>9 DEF Step, DropTable, DropSchema

(* What a call that ends, and one that begins, make of the clock. *)
LEMMA EndKeepsClock ==
  ASSUME TypeInv, NEW i \in Instances, Frame(i), pc[i] = "inserting", pc'[i] # "inserting",
         WriteEnds(i)
  PROVE  ClockInv'
<1> DEFINE call == work[i].row.call
<1>1. call \in (1..calls) \ ended
  BY DEF TypeInv, ClockInv, Inserting
<1>2. calls' = calls /\ ended' = ended \cup {call} /\ clock' = clock + 1
  BY DEF WriteEnds
<1>3. \A j \in Inserting' : j \in Inserting /\ j # i /\ work'[j] = work[j]
  BY DEF Frame, Inserting
<1>4. \A j \in Inserting' : work'[j].row.call \in (1..calls) \ ended /\ work'[j].row.call # call
  BY <1>3 DEF TypeInv, ClockInv, Inserting
<1>5. \A j, k \in Inserting' : work'[j].row.call = work'[k].row.call => j = k
  BY <1>3 DEF TypeInv, ClockInv
<1> HIDE DEF call
<1>6. clock' = Cardinality(ended') + 1
  <2>1. IsFiniteSet(ended) /\ Cardinality(ended) \in Nat
    BY EndedCounted DEF TypeInv
  <2>2. Cardinality(ended \cup {call}) = Cardinality(ended) + 1
    BY <1>1, <2>1, FS_AddElement
  <2> QED BY <1>2, <2>1, <2>2 DEF TypeInv, ClockInv
<1>7. calls' \in 0..MaxWrites /\ ended' \subseteq 1..calls'
  BY <1>1, <1>2 DEF TypeInv, ClockInv
<1> QED BY <1>2, <1>4, <1>5, <1>6, <1>7 DEF ClockInv

LEMMA BeginKeepsClock ==
  ASSUME TypeInv, NEW i \in Instances, NEW t \in Tables, NEW k \in Keys, BeginWrite(i, t, k)
  PROVE  ClockInv'
<1>0. ShapeInv /\ ClockInv
  BY DEF TypeInv
<1>1. /\ calls' = calls + 1 /\ UNCHANGED <<clock, ended>> /\ calls < MaxWrites
      /\ calls \in Nat /\ MaxWrites \in Nat
  BY <1>0, VastAssumption DEF BeginWrite, ClockInv
<1>2. work'[i].row.call = calls + 1
  BY <1>0 DEF BeginWrite, ShapeInv, Idle
<1>3. \A j \in Inserting' : j # i => j \in Inserting /\ work'[j] = work[j]
  BY <1>0 DEF BeginWrite, ShapeInv, Inserting
<1>4. \A j \in Inserting : work[j].row.call \in (1..calls) \ ended /\ work[j].row.call # calls + 1
  BY <1>0, <1>1 DEF ClockInv
<1>5. calls + 1 \in (1..(calls + 1)) \ ended /\ calls + 1 \in 0..MaxWrites
      /\ ended \subseteq 1..(calls + 1)
  BY <1>0, <1>1 DEF ClockInv
<1>6. \A j \in Inserting' : work'[j].row.call \in (1..(calls + 1)) \ ended
  BY <1>1, <1>2, <1>3, <1>4, <1>5
<1>7. \A j, m \in Inserting' : work'[j].row.call = work'[m].row.call => j = m
  BY <1>0, <1>2, <1>3, <1>4 DEF ClockInv
<1> QED BY <1>0, <1>1, <1>5, <1>6, <1>7 DEF ClockInv

LEMMA OthersKeepClock ==
  ASSUME TypeInv, NEW i \in Instances, Frame(i), pc'[i] # "inserting",
         UNCHANGED <<clock, calls, ended>>
  PROVE  ClockInv'
<1>1. \A j \in Inserting' : j \in Inserting /\ work'[j] = work[j]
  BY DEF Frame, Inserting
<1> QED BY <1>1 DEF TypeInv, ClockInv

LEMMA ClockStep ==
  ASSUME TypeInv, NEW i \in Instances, Step(i)
  PROVE  ClockInv'
<1>0. Frame(i) /\ ShapeInv
  BY Frames DEF TypeInv
<1>1. CASE WriteReturns(i) \/ WriteRejected(i) \/ WriteFails(i)
  <2>1. pc[i] = "inserting" /\ pc'[i] = "ready" /\ WriteEnds(i)
    BY <1>0, <1>1 DEF WriteReturns, WriteRejected, WriteFails, LeaveWrite, ShapeInv
  <2> QED BY <1>0, <2>1, EndKeepsClock
<1>2. CASE Exit(i)
  <2>1. pc'[i] = "closed"
    BY <1>0, <1>2 DEF Exit, ShapeInv
  <2>2. CASE pc[i] = "inserting"
    BY <1>0, <1>2, <2>1, <2>2, EndKeepsClock DEF Exit
  <2>3. CASE pc[i] # "inserting"
    BY <1>0, <1>2, <2>1, <2>3, OthersKeepClock DEF Exit
  <2> QED BY <2>2, <2>3
<1>3. CASE Open(i) \/ CreateReturns(i) \/ CommitFails(i)
  <2>1. pc'[i] = "ready" /\ UNCHANGED <<clock, calls, ended>>
    BY <1>0, <1>3 DEF Open, CreateReturns, CommitFails, ShapeInv, writeVars
  <2> QED BY <1>0, <2>1, OthersKeepClock
<1>4. ASSUME NEW c \in TableCalls, RegisterTable(i, c) \/ FindTable(i, c) \/ MakeTable(i, c)
      PROVE  ClockInv'
  <2>1. pc'[i] # "inserting" /\ UNCHANGED <<clock, calls, ended>>
    BY <1>0, <1>4 DEF RegisterTable, FindTable, MakeTable, InCreate, ShapeInv, writeVars
  <2> QED BY <1>0, <2>1, OthersKeepClock
<1>5. ASSUME NEW t \in Tables, LookUp(i, t) PROVE ClockInv'
  <2>1. pc'[i] # "inserting" /\ UNCHANGED <<clock, calls, ended>>
    BY <1>0, <1>5 DEF LookUp, ShapeInv, writeVars
  <2> QED BY <1>0, <2>1, OthersKeepClock
<1>6. ASSUME NEW S, pc[i] = "ready", Forget(i, S) PROVE ClockInv'
  <2>1. pc'[i] # "inserting" /\ UNCHANGED <<clock, calls, ended>>
    BY <1>0, <1>6 DEF Forget
  <2> QED BY <1>0, <2>1, OthersKeepClock
<1> QED BY <1>1, <1>2, <1>3, <1>4, <1>5, <1>6, BeginKeepsClock DEF Step, DropTable, DropSchema

(* What a transaction leaves on the server. *)
LEMMA CommittedTyped ==
  ASSUME TypeInv, NEW i \in Instances,
         pc[i] = "committing" \/ (pc[i] = "inserting" /\ Accepts(i))
  PROVE  /\ DOMAIN Committed(i) \subseteq Tables
         /\ \A t \in DOMAIN Committed(i) : Committed(i)[t] \in Table
<1>0. ShapeInv /\ LocalOK(i)
  BY DEF TypeInv
<1>1. CASE pc[i] = "inserting"
  <2> DEFINE t == work[i].table
             rec == [server[t] EXCEPT !.rows = @ \cup {work[i].row}]
  <2>1. t \in DOMAIN server /\ work[i].row \in Row
    BY <1>0, <1>1 DEF LocalOK, Accepts
  <2>2. server[t] \in Table
    BY <1>0, <2>1 DEF ShapeInv
  <2>3. rec \in Table
    BY <2>1, <2>2 DEF Table
  <2>4. Committed(i) = [server EXCEPT ![t] = rec]
    BY <1>1 DEF Committed
  <2> HIDE DEF rec, t
  <2> QED BY <1>0, <2>1, <2>3, <2>4 DEF ShapeInv
<1>2. CASE pc[i] # "inserting"
  <2>1. PICK c \in TableCalls : work[i].table = c.table /\ work[i].entry = PreparedEntry(i, c.decl)
    BY <1>0, <1>2 DEF LocalOK
  <2>2. work[i].table \in Tables /\ work[i].entry.schema \in Schema
    BY <2>1, CallsTyped DEF Entry
  <2> DEFINE rec == [schema |-> Normalized(work[i].entry.schema), rows |-> {}]
  <2>3. rec \in Table
    BY <2>2, NormalizedFacts DEF Table
  <2>4. Committed(i) = server \/ Committed(i) = Put(server, work[i].table, rec)
    BY <1>2 DEF Committed
  <2> HIDE DEF rec
  <2> QED BY <1>0, <2>2, <2>3, <2>4, PutTyped DEF ShapeInv
<1> QED BY <1>1, <1>2

(* What a step does to the server. *)
ServerMoves(i) ==
  \/ UNCHANGED server
  \/ /\ pc[i] = "committing" \/ (pc[i] = "inserting" /\ Accepts(i))
     /\ server' = Committed(i)
  \/ \E S : pc[i] = "ready" /\ MayDrop(i) /\ Forget(i, S)

LEMMA ServerStep ==
  ASSUME NEW i \in Instances, Step(i)
  PROVE  ServerMoves(i)
<1>1. CASE Exit(i) \/ CommitFails(i) \/ WriteFails(i)
  BY <1>1 DEF Exit, CommitFails, WriteFails, Interrupted, ServerMoves
<1>2. CASE CreateReturns(i) \/ WriteReturns(i)
  BY <1>2 DEF CreateReturns, WriteReturns, ServerMoves
<1>3. CASE Open(i) \/ WriteRejected(i)
  BY <1>3 DEF Open, WriteRejected, ServerMoves
<1>4. ASSUME NEW c \in TableCalls, RegisterTable(i, c) \/ FindTable(i, c) \/ MakeTable(i, c)
      PROVE  ServerMoves(i)
  BY <1>4 DEF RegisterTable, FindTable, MakeTable, InCreate, ServerMoves
<1>5. ASSUME NEW t \in Tables, LookUp(i, t) PROVE ServerMoves(i)
  BY <1>5 DEF LookUp, ServerMoves
<1>6. ASSUME NEW t \in Tables, NEW k \in Keys, BeginWrite(i, t, k) PROVE ServerMoves(i)
  BY <1>6 DEF BeginWrite, ServerMoves
<1>7. ASSUME NEW t \in Tables, DropTable(i, t) PROVE ServerMoves(i)
  BY <1>7 DEF DropTable, ServerMoves
<1>8. CASE DropSchema(i)
  BY <1>8 DEF DropSchema, ServerMoves
<1> QED BY <1>1, <1>2, <1>3, <1>4, <1>5, <1>6, <1>7, <1>8 DEF Step

Histories ==
  /\ pc \in [Instances -> {"closed", "ready", "committing", "inserting"}]
  /\ provisioned \in [Instances -> SUBSET Tables]
  /\ acked \subseteq Tables \X (1..MaxWrites)
  /\ accepted \subseteq TableCalls

LEMMA ShapeStep ==
  ASSUME TypeInv, NEW i \in Instances, Step(i)
  PROVE  ShapeInv'
<1>0. Frame(i) /\ ShapeInv /\ LocalOK(i)
  BY Frames DEF TypeInv
<1>1. DOMAIN server' \subseteq Tables /\ \A t \in DOMAIN server' : server'[t] \in Table
  <2>1. ASSUME NEW S, server' = Without(server, S)
        PROVE  DOMAIN server' \subseteq Tables /\ \A t \in DOMAIN server' : server'[t] \in Table
    BY <1>0, <2>1 DEF Without, ShapeInv
  <2> QED BY <1>0, <2>1, ServerStep, CommittedTyped DEF ServerMoves, ShapeInv, Forget
<1>2. pc[i] = "committing" => work[i].table \in Tables
        /\ [table |-> work[i].table, decl |-> work[i].decl] \in TableCalls
  <2> SUFFICES ASSUME pc[i] = "committing"
               PROVE  work[i].table \in Tables
                      /\ [table |-> work[i].table, decl |-> work[i].decl] \in TableCalls
    OBVIOUS
  <2>1. PICK c \in TableCalls : work[i].table = c.table /\ work[i].decl = c.decl
    BY <1>0 DEF LocalOK
  <2> QED BY <2>1, CallsTyped, VastAssumption
<1>3. pc[i] = "inserting" => <<work[i].table, work[i].row.call>> \in Tables \X (1..MaxWrites)
  BY <1>0 DEF LocalOK, Row
<1>4. Histories'
  <2>1. CASE Open(i) \/ Exit(i) \/ CommitFails(i) \/ WriteRejected(i) \/ WriteFails(i)
    BY <1>0, <2>1 DEF Open, Exit, CommitFails, WriteRejected, WriteFails, LeaveWrite, writeVars, ShapeInv, Histories
  <2>2. CASE CreateReturns(i)
    BY <1>0, <1>2, <2>2 DEF CreateReturns, writeVars, ShapeInv, Histories
  <2>3. CASE WriteReturns(i)
    BY <1>0, <1>3, <2>3 DEF WriteReturns, LeaveWrite, ShapeInv, Histories
  <2>4. ASSUME NEW c \in TableCalls, RegisterTable(i, c) \/ FindTable(i, c) \/ MakeTable(i, c)
        PROVE  Histories'
    BY <1>0, <2>4 DEF RegisterTable, FindTable, MakeTable, InCreate, writeVars, ShapeInv, Histories
  <2>5. ASSUME NEW t \in Tables, LookUp(i, t) PROVE Histories'
    BY <1>0, <2>5 DEF LookUp, writeVars, ShapeInv, Histories
  <2>6. ASSUME NEW t \in Tables, NEW k \in Keys, BeginWrite(i, t, k) PROVE Histories'
    BY <1>0, <2>6 DEF BeginWrite, ShapeInv, Histories
  <2>7. ASSUME NEW S, Forget(i, S) PROVE Histories'
    BY <1>0, <2>7 DEF Forget, ShapeInv, Histories
  <2> QED BY <2>1, <2>2, <2>3, <2>4, <2>5, <2>6, <2>7 DEF Step, DropTable, DropSchema
<1> QED BY <1>0, <1>1, <1>4 DEF ShapeInv, Frame, Histories

LEMMA TypeStep == TypeInv /\ [Next]_vars => TypeInv'
<1>1. ASSUME TypeInv, NEW i \in Instances, Step(i) PROVE TypeInv'
  <2>1. Frame(i)
    BY <1>1, Frames DEF TypeInv
  <2>2. \A j \in Instances \ {i} : LocalOK(j)'
    BY <1>1, <2>1 DEF Frame, TypeInv, LocalOK
  <2> QED BY <1>1, <2>2, LocalStep, ShapeStep, ClockStep DEF TypeInv
<1>2. TypeInv /\ UNCHANGED vars => TypeInv'
  BY DEF vars, writeVars, TypeInv, ShapeInv, LocalOK, ClockInv, Inserting
<1> QED BY <1>1, <1>2 DEF Next, Step

LEMMA TypeInit == Init => TypeInv
<1> SUFFICES ASSUME Init PROVE TypeInv
  OBVIOUS
<1>1. ShapeInv
  BY DEF Init, ShapeInv, Empty
<1>2. \A i \in Instances : LocalOK(i)
  BY DEF Init, LocalOK, Empty
<1>3. ClockInv
  BY VastAssumption, FS_EmptySet DEF Init, ClockInv, Inserting
<1> QED BY <1>1, <1>2, <1>3 DEF TypeInv

LEMMA TypeInvTypes == TypeInv => TypeOK
<1> SUFFICES ASSUME TypeInv PROVE TypeOK
  OBVIOUS
<1>1. \A t \in DOMAIN server : server[t].schema \in Schema /\ server[t].rows \subseteq Row
  BY DEF TypeInv, ShapeInv, Table
<1>2. ASSUME NEW i \in Instances, pc[i] = "committing"
      PROVE  work[i].table \in Tables /\ work[i].entry \in Entry
  BY <1>2, CallsTyped DEF TypeInv, LocalOK
<1>3. clock \in 1..(MaxWrites + 1) /\ calls \in 0..MaxWrites /\ ended \subseteq 1..MaxWrites
  <2>1. Cardinality(ended) \in Nat /\ Cardinality(ended) <= calls
    BY EndedCounted DEF TypeInv
  <2> QED BY <2>1, VastAssumption DEF TypeInv, ClockInv
<1> QED BY <1>1, <1>2, <1>3 DEF TypeInv, ShapeInv, LocalOK, TypeOK

(* Type correctness, in every deployment: with any races, crashes and faults,
   and the clock, which the calls that end move, never runs past its bound. *)
THEOREM TypeCorrect == Spec => []TypeOK
BY TypeInit, TypeStep, TypeInvTypes, PTL DEF Spec

-----------------------------------------------------------------------------
(***************************************************************************)
(* What the instances know of the server.                                  *)
(***************************************************************************)

(* One create_table is in its transaction.  It creates a table that is not
   there, or has found one that its declaration is compatible with; the cache
   has the schema the table will have, or has. *)
MakesOK(i) ==
  LET w == work[i] IN
  /\ w.table \in DOMAIN cache[i]
  /\ w.creates => w.table \notin DOMAIN server /\ cache[i][w.table] = w.entry.schema
  /\ ~ w.creates => /\ w.table \in DOMAIN server
                    /\ cache[i][w.table] = server[w.table].schema
                    /\ ~ Incompatible(server[w.table], w.entry)

MakesInv ==
  /\ \A i, j \in Instances : pc[i] = "committing" /\ pc[j] = "committing" => i = j
  /\ \A i \in Instances : pc[i] = "committing" => MakesOK(i)

(* A declaration has the columns of the table, under the types of the table. *)
Declares(entry, schema) ==
  /\ DOMAIN schema \subseteq DOMAIN entry.schema
  /\ \A c \in DOMAIN schema : schema[c].type = entry.schema[c].type

Known(i, t) ==
  /\ t \in DOMAIN server /\ t \in DOMAIN cache[i] /\ t \in DOMAIN meta[i]
  /\ cache[i][t] = server[t].schema
  /\ Declares(meta[i][t], server[t].schema)

KnownInv ==
  \A i \in Instances :
    /\ pc[i] = "closed" => provisioned[i] = {}
    /\ \A t \in provisioned[i] : Known(i, t)

ServerInv == TypeInv /\ MakesInv /\ KnownInv /\ AckedRowsStay

(* No table goes, is made anew, or loses a row. *)
Grows ==
  /\ DOMAIN server \subseteq DOMAIN server'
  /\ \A t \in DOMAIN server : /\ server'[t].schema = server[t].schema
                             /\ server[t].rows \subseteq server'[t].rows

LEMMA CompatibleDeclares ==
  ASSUME NEW old, NEW new, ~ Incompatible(old, new)
  PROVE  Declares(new, old.schema)
BY DEF Incompatible, Removed, Kept, Declares

LEMMA DeclaresTransitive ==
  ASSUME NEW a, NEW b, NEW schema, Declares(a, schema), Declares(b, a.schema)
  PROVE  Declares(b, schema)
BY DEF Declares

LEMMA CommitGrows ==
  ASSUME ServerInv, NEW i \in Instances, server' = Committed(i),
         pc[i] = "committing" \/ (pc[i] = "inserting" /\ Accepts(i))
  PROVE  Grows /\ (pc[i] = "inserting" => DOMAIN server' = DOMAIN server)
<1>1. CASE pc[i] = "inserting"
  <2> DEFINE t == work[i].table
             rec == [server[t] EXCEPT !.rows = @ \cup {work[i].row}]
  <2>1. t \in DOMAIN server /\ server[t] \in Table
    BY <1>1 DEF Accepts, ServerInv, TypeInv, ShapeInv
  <2>2. rec.schema = server[t].schema /\ server[t].rows \subseteq rec.rows
    BY <2>1 DEF Table
  <2>3. server' = [server EXCEPT ![t] = rec]
    BY <1>1 DEF Committed
  <2> HIDE DEF rec, t
  <2> QED BY <2>1, <2>2, <2>3 DEF Grows
<1>2. CASE pc[i] = "committing"
  <2>1. work[i].creates => work[i].table \notin DOMAIN server
    BY <1>2 DEF ServerInv, MakesInv, MakesOK
  <2>2. \/ server' = server
        \/ /\ work[i].creates
           /\ \E rec : server' = Put(server, work[i].table, rec)
    BY <1>2 DEF Committed
  <2> QED BY <1>2, <2>1, <2>2 DEF Grows, Put
<1> QED BY <1>1, <1>2

LEMMA GrowsOrDrops ==
  ASSUME ServerInv, NEW i \in Instances, Step(i)
  PROVE  Grows \/ \E S : pc[i] = "ready" /\ MayDrop(i) /\ Forget(i, S)
<1>1. UNCHANGED server => Grows
  BY DEF Grows
<1> QED BY <1>1, ServerStep, CommitGrows DEF ServerMoves

LEMMA CreatesBegin ==
  ASSUME ShapeInv, NEW i \in Instances, Step(i), pc'[i] = "committing"
  PROVE  \E c \in TableCalls : FindTable(i, c) \/ MakeTable(i, c)
<1>1. CASE Open(i) \/ Exit(i) \/ CreateReturns(i) \/ CommitFails(i)
           \/ WriteReturns(i) \/ WriteRejected(i) \/ WriteFails(i)
  BY <1>1 DEF Open, Exit, CreateReturns, CommitFails, WriteReturns, WriteRejected, WriteFails,
              LeaveWrite, ShapeInv
<1>2. ASSUME NEW c \in TableCalls, RegisterTable(i, c) PROVE FALSE
  BY <1>2 DEF RegisterTable
<1>3. ASSUME NEW t \in Tables, LookUp(i, t) PROVE FALSE
  BY <1>3 DEF LookUp
<1>4. ASSUME NEW S, pc[i] = "ready", Forget(i, S) PROVE FALSE
  BY <1>4 DEF Forget
<1>5. ASSUME NEW t \in Tables, NEW k \in Keys, BeginWrite(i, t, k) PROVE FALSE
  BY <1>5 DEF BeginWrite, ShapeInv
<1> QED BY <1>1, <1>2, <1>3, <1>4, <1>5 DEF Step, DropTable, DropSchema

LEMMA MakesStep ==
  ASSUME ServerInv, Serialized, NEW i \in Instances, Step(i)
  PROVE  MakesInv'
<1>0. ShapeInv /\ MakesInv /\ Frame(i)
  BY Frames DEF ServerInv, TypeInv
<1>1. ASSUME pc'[i] = "committing"
      PROVE  (\A j \in Instances : pc'[j] = "committing" => j = i) /\ MakesOK(i)'
  <2>1. PICK c \in TableCalls : FindTable(i, c) \/ MakeTable(i, c)
    BY <1>0, <1>1, CreatesBegin
  <2>2. (\A j \in Instances : pc[j] # "committing") /\ UNCHANGED server
    BY <2>1 DEF FindTable, MakeTable, InCreate, MayCreate, MayProvision
  <2>3. \A j \in Instances : pc'[j] = "committing" => j = i
    BY <1>0, <2>2 DEF Frame
  <2> DEFINE entry == PreparedEntry(i, c.decl)
             w(b) == [Idle EXCEPT !.table = c.table, !.decl = c.decl, !.creates = b, !.entry = entry]
  <2>4. \A b \in BOOLEAN : w(b).table = c.table /\ w(b).creates = b /\ w(b).entry = entry
    BY DEF Idle
  <2>5. CASE FindTable(i, c)
    <3>1. /\ work'[i] = w(FALSE) /\ c.table \in DOMAIN server
          /\ ~ Incompatible(server[c.table], entry)
          /\ cache'[i] = Put(cache[i], c.table, server[c.table].schema)
      BY <1>0, <2>5 DEF FindTable, InCreate, ShapeInv
    <3>2. c.table \in DOMAIN cache'[i] /\ cache'[i][c.table] = server[c.table].schema
      BY <3>1 DEF Put
    <3> HIDE DEF w, entry
    <3>3. work'[i].table = c.table /\ ~ work'[i].creates /\ work'[i].entry = entry
      BY <2>4, <3>1
    <3>4. MakesOK(i)'
      BY <2>2, <3>1, <3>2, <3>3 DEF MakesOK
    <3> QED BY <2>3, <3>4
  <2>6. CASE MakeTable(i, c)
    <3>1. /\ work'[i] = w(TRUE) /\ c.table \notin DOMAIN server
          /\ cache'[i] = Put(cache[i], c.table, entry.schema)
      BY <1>0, <2>6 DEF MakeTable, InCreate, ShapeInv
    <3>2. c.table \in DOMAIN cache'[i] /\ cache'[i][c.table] = entry.schema
      BY <3>1 DEF Put
    <3> HIDE DEF w, entry
    <3>3. work'[i].table = c.table /\ work'[i].creates /\ work'[i].entry = entry
      BY <2>4, <3>1
    <3>4. MakesOK(i)'
      BY <2>2, <3>1, <3>2, <3>3 DEF MakesOK
    <3> QED BY <2>3, <3>4
  <2> QED BY <2>1, <2>5, <2>6
<1>2. ASSUME NEW j \in Instances, j # i, pc'[j] = "committing"
      PROVE  MakesOK(j)'
  <2>1. pc[j] = "committing" /\ work'[j] = work[j] /\ cache'[j] = cache[j]
    BY <1>0, <1>2 DEF Frame
  <2>2. pc[i] # "committing"
    BY <1>0, <1>2, <2>1 DEF MakesInv
  <2>3. ~ MayDrop(i)
    BY <1>2, <2>1 DEF MayDrop
  <2>4. Grows /\ DOMAIN server' = DOMAIN server
    BY <2>2, <2>3, ServerStep, CommitGrows DEF ServerMoves, Grows
  <2>5. MakesOK(j)
    BY <1>0, <2>1 DEF MakesInv
  <2>6. \A t \in DOMAIN server : \A e : Incompatible(server'[t], e) = Incompatible(server[t], e)
    BY <2>4 DEF Grows, Incompatible, Removed, Kept, Added
  <2>7. ~ Incompatible(server[work[j].table], work[j].entry) /\ work[j].table \in DOMAIN server
          => ~ Incompatible(server'[work[j].table], work[j].entry)
    BY <2>6
  <2> QED BY <2>1, <2>4, <2>5, <2>7 DEF Grows, MakesOK
<1>3. \A j, k \in Instances : pc'[j] = "committing" /\ pc'[k] = "committing" => j = k
  BY <1>0, <1>1 DEF Frame, MakesInv
<1> QED BY <1>1, <1>2, <1>3 DEF MakesInv

LEMMA KnownKept ==
  ASSUME NEW i \in Instances, NEW t, Known(i, t), Grows,
         t \in DOMAIN cache'[i], cache'[i][t] \in {cache[i][t], server[t].schema},
         t \in DOMAIN meta'[i],
         meta'[i][t] = meta[i][t] \/ Declares(meta'[i][t], meta[i][t].schema)
  PROVE  Known(i, t)'
BY DEF Known, Grows, Declares

(* A create_table that returns. *)
LEMMA CreatedKnown ==
  ASSUME ServerInv, NEW i \in Instances, CreateReturns(i), NEW t, t = work[i].table
  PROVE  Known(i, t)'
<1> DEFINE w == work[i]
<1>0. ShapeInv /\ LocalOK(i) /\ MakesInv /\ pc[i] = "committing"
  BY DEF ServerInv, TypeInv, CreateReturns
<1>1. /\ server' = Committed(i) /\ UNCHANGED cache
      /\ meta'[i] = Put(meta[i], w.table, w.entry)
  BY <1>0 DEF CreateReturns, ShapeInv
<1>2. w.table \in DOMAIN meta'[i] /\ meta'[i][w.table] = w.entry
  BY <1>1 DEF Put
<1>3. MakesOK(i)
  BY <1>0 DEF MakesInv
<1>4. CASE w.creates
  <2>1. server' = Put(server, w.table, [schema |-> Normalized(w.entry.schema), rows |-> {}])
    BY <1>0, <1>1, <1>4 DEF Committed
  <2>2. PICK c \in TableCalls : w.entry = PreparedEntry(i, c.decl)
    BY <1>0 DEF LocalOK
  <2>3. Normalized(w.entry.schema) = w.entry.schema
    BY <2>2, CallsTyped, PreparedFacts
  <2>4. w.table \in DOMAIN server' /\ server'[w.table].schema = w.entry.schema
    BY <2>1, <2>3 DEF Put
  <2> QED BY <1>1, <1>2, <1>3, <1>4, <2>4 DEF MakesOK, Known, Declares
<1>5. CASE ~ w.creates
  <2>1. server' = server
    BY <1>0, <1>1, <1>5 DEF Committed
  <2>2. Declares(w.entry, server[w.table].schema)
    BY <1>3, <1>5, CompatibleDeclares DEF MakesOK
  <2> QED BY <1>1, <1>2, <1>3, <1>5, <2>1, <2>2 DEF MakesOK, Known
<1> QED BY <1>4, <1>5

LEMMA KnownStep ==
  ASSUME ServerInv, NEW i \in Instances, Step(i)
  PROVE  KnownInv'
<1>0. ShapeInv /\ LocalOK(i) /\ MakesInv /\ KnownInv /\ Frame(i)
  BY Frames DEF ServerInv, TypeInv
<1>1. ASSUME NEW S, pc[i] = "ready", MayDrop(i), Forget(i, S) PROVE KnownInv'
  <2>1. \A j \in Instances \ {i} : pc'[j] = "closed" /\ provisioned'[j] = {}
    BY <1>0, <1>1 DEF MayDrop, Frame, KnownInv
  <2>2. /\ pc'[i] = "ready" /\ server' = Without(server, S)
        /\ \/ meta'[i] = Without(meta[i], S) /\ cache'[i] = Without(cache[i], S)
           \/ UNCHANGED <<meta, cache>>
        /\ provisioned'[i] = provisioned[i] \ S
    BY <1>0, <1>1 DEF Forget, ShapeInv
  <2>3. \A t \in provisioned'[i] : Known(i, t)'
    BY <1>0, <2>2 DEF KnownInv, Known, Without
  <2> QED BY <2>1, <2>2, <2>3 DEF KnownInv
<1>2. ASSUME Grows PROVE KnownInv'
  <2>1. ASSUME NEW j \in Instances, j # i
        PROVE  /\ pc'[j] = "closed" => provisioned'[j] = {}
               /\ \A t \in provisioned'[j] : Known(j, t)'
    BY <1>0, <1>2, <2>1, KnownKept DEF Frame, KnownInv, Known
  <2>2. ASSUME pc'[i] = "closed" => provisioned'[i] = {},
               \A t \in provisioned'[i] : Known(i, t)'
        PROVE  KnownInv'
    BY <2>1, <2>2 DEF KnownInv
  <2>3. CASE Exit(i)
    BY <1>0, <2>2, <2>3 DEF Exit, ShapeInv
  <2>4. ASSUME pc'[i] # "closed", UNCHANGED <<meta, cache, provisioned>> PROVE KnownInv'
    BY <1>0, <1>2, <2>2, <2>4, KnownKept DEF KnownInv, Known
  <2>5. CASE Open(i) \/ CommitFails(i) \/ WriteReturns(i) \/ WriteRejected(i) \/ WriteFails(i)
    <3>1. pc'[i] = "ready" /\ UNCHANGED <<meta, cache, provisioned>>
      BY <1>0, <2>5 DEF Open, CommitFails, WriteReturns, WriteRejected, WriteFails, LeaveWrite, ShapeInv
    <3> QED BY <2>4, <3>1
  <2>6. CASE CreateReturns(i)
    <3>1. /\ pc'[i] = "ready" /\ UNCHANGED cache
          /\ meta'[i] = Put(meta[i], work[i].table, work[i].entry)
          /\ provisioned'[i] = provisioned[i] \cup {work[i].table}
      BY <1>0, <2>6 DEF CreateReturns, ShapeInv
    <3>2. ASSUME NEW t, t = work[i].table PROVE Known(i, t)'
      BY <2>6, <3>2, CreatedKnown
    <3>3. ASSUME NEW t \in provisioned[i], t # work[i].table PROVE Known(i, t)'
      <4>1. Known(i, t)
        BY <1>0 DEF KnownInv
      <4>2. t \in DOMAIN meta'[i] /\ meta'[i][t] = meta[i][t]
        BY <3>1, <3>3, <4>1 DEF Put, Known
      <4> QED BY <1>2, <3>1, <4>1, <4>2, KnownKept DEF Known
    <3>4. \A t \in provisioned'[i] : Known(i, t)'
      BY <3>1, <3>2, <3>3
    <3> QED BY <2>2, <3>1, <3>4
  <2>7. ASSUME NEW c \in TableCalls, RegisterTable(i, c) PROVE KnownInv'
    <3>1. /\ pc'[i] = "ready" /\ UNCHANGED <<cache, provisioned>>
          /\ meta'[i] = Put(meta[i], c.table, PreparedEntry(i, c.decl))
          /\ c.table \in DOMAIN meta[i] =>
               ~ Incompatible(meta[i][c.table], PreparedEntry(i, c.decl))
      BY <1>0, <2>7 DEF RegisterTable, ShapeInv
    <3>2. c.table \in DOMAIN meta[i] =>
            Declares(PreparedEntry(i, c.decl), meta[i][c.table].schema)
      BY <3>1, CompatibleDeclares
    <3>3. ASSUME NEW t \in provisioned[i] PROVE Known(i, t)'
      <4>1. Known(i, t)
        BY <1>0 DEF KnownInv
      <4>2. t \in DOMAIN meta'[i]
            /\ (meta'[i][t] = meta[i][t] \/ Declares(meta'[i][t], meta[i][t].schema))
        BY <3>1, <3>2, <4>1 DEF Put, Known
      <4> QED BY <1>2, <3>1, <4>1, <4>2, KnownKept DEF Known
    <3> QED BY <2>2, <3>1, <3>3
  <2>8. ASSUME NEW t \in Tables, NEW x, UNCHANGED <<meta, provisioned>>, pc'[i] # "closed",
               cache'[i] = Put(cache[i], t, x), t \in provisioned[i] => x = server[t].schema
        PROVE  KnownInv'
    <3>1. ASSUME NEW u \in provisioned[i] PROVE Known(i, u)'
      <4>1. Known(i, u)
        BY <1>0 DEF KnownInv
      <4>2. u \in DOMAIN cache'[i] /\ cache'[i][u] \in {cache[i][u], server[u].schema}
        BY <2>8, <4>1 DEF Put, Known
      <4> QED BY <1>2, <2>8, <4>1, <4>2, KnownKept DEF Known
    <3> QED BY <2>2, <2>8, <3>1
  <2>9. ASSUME NEW c \in TableCalls, FindTable(i, c) PROVE KnownInv'
    <3>1. /\ pc'[i] # "closed" /\ UNCHANGED <<meta, provisioned>>
          /\ cache'[i] = Put(cache[i], c.table, server[c.table].schema)
      BY <1>0, <2>9 DEF FindTable, InCreate, ShapeInv
    <3> QED BY <2>8, <3>1, CallsTyped
  <2>10. ASSUME NEW c \in TableCalls, MakeTable(i, c) PROVE KnownInv'
    <3>1. /\ pc'[i] # "closed" /\ UNCHANGED <<meta, provisioned>> /\ c.table \notin DOMAIN server
          /\ cache'[i] = Put(cache[i], c.table, PreparedEntry(i, c.decl).schema)
      BY <1>0, <2>10 DEF MakeTable, InCreate, ShapeInv
    <3>2. c.table \notin provisioned[i]
      BY <1>0, <3>1 DEF KnownInv, Known
    <3> QED BY <2>8, <3>1, <3>2, CallsTyped
  <2>11. ASSUME NEW t \in Tables, LookUp(i, t) PROVE KnownInv'
    <3>1. /\ pc'[i] # "closed" /\ UNCHANGED <<meta, provisioned>>
          /\ cache'[i] = Put(cache[i], t, server[t].schema)
      BY <1>0, <2>11 DEF LookUp, ShapeInv
    <3> QED BY <2>8, <3>1
  <2>12. ASSUME NEW t \in Tables, NEW k \in Keys, BeginWrite(i, t, k) PROVE KnownInv'
    <3>1. pc'[i] = "inserting" /\ UNCHANGED <<meta, cache, provisioned>>
      BY <1>0, <2>12 DEF BeginWrite, ShapeInv
    <3> QED BY <2>4, <3>1
  <2>13. ASSUME NEW S, pc[i] = "ready", MayDrop(i), Forget(i, S) PROVE KnownInv'
    BY <1>1, <2>13
  <2> QED BY <2>3, <2>5, <2>6, <2>7, <2>9, <2>10, <2>11, <2>12, <2>13 DEF Step, DropTable, DropSchema
<1> QED BY <1>1, <1>2, GrowsOrDrops

LEMMA AckedStep ==
  ASSUME ServerInv, NEW i \in Instances, Step(i)
  PROVE  AckedRowsStay'
<1>0. ShapeInv /\ LocalOK(i) /\ AckedRowsStay
  BY DEF ServerInv, TypeInv
<1>1. ASSUME NEW S, Forget(i, S) PROVE AckedRowsStay'
  BY <1>0, <1>1 DEF Forget, Without, AckedRowsStay
<1>2. CASE WriteReturns(i)
  <2> DEFINE t == work[i].table
             rec == [server[t] EXCEPT !.rows = @ \cup {work[i].row}]
  <2>1. /\ t \in DOMAIN server /\ server[t] \in Table /\ server' = [server EXCEPT ![t] = rec]
        /\ acked' = acked \cup {<<t, work[i].row.call>>}
    BY <1>0, <1>2 DEF WriteReturns, Accepts, Committed, ShapeInv
  <2>2. rec.rows = server[t].rows \cup {work[i].row}
    BY <2>1 DEF Table
  <2> HIDE DEF rec, t
  <2>3. \A u \in DOMAIN server : u \in DOMAIN server' /\ server[u].rows \subseteq server'[u].rows
    BY <2>1, <2>2
  <2>4. work[i].row \in server'[t].rows /\ t \in DOMAIN server'
    BY <2>1, <2>2
  <2> QED BY <1>0, <2>1, <2>3, <2>4 DEF AckedRowsStay
<1>3. ASSUME UNCHANGED acked, Grows PROVE AckedRowsStay'
  BY <1>0, <1>3 DEF AckedRowsStay, Grows
<1>4. (WriteReturns(i) \/ \E S : Forget(i, S)) \/ UNCHANGED acked
  <2>1. CASE Open(i) \/ Exit(i) \/ CreateReturns(i) \/ CommitFails(i) \/ WriteRejected(i) \/ WriteFails(i)
    BY <2>1 DEF Open, Exit, CreateReturns, CommitFails, WriteRejected, WriteFails, writeVars
  <2>2. ASSUME NEW c \in TableCalls, RegisterTable(i, c) \/ FindTable(i, c) \/ MakeTable(i, c)
        PROVE  UNCHANGED acked
    BY <2>2 DEF RegisterTable, FindTable, MakeTable, InCreate, writeVars
  <2>3. ASSUME NEW t \in Tables, LookUp(i, t) PROVE UNCHANGED acked
    BY <2>3 DEF LookUp, writeVars
  <2>4. ASSUME NEW t \in Tables, NEW k \in Keys, BeginWrite(i, t, k) PROVE UNCHANGED acked
    BY <2>4 DEF BeginWrite
  <2> QED BY <2>1, <2>2, <2>3, <2>4 DEF Step, DropTable, DropSchema
<1> QED BY <1>1, <1>2, <1>3, <1>4, GrowsOrDrops

LEMMA ServerInvStep == ServerInv /\ Serialized /\ [Next]_vars => ServerInv'
<1>1. ASSUME ServerInv, Serialized, NEW i \in Instances, Step(i) PROVE ServerInv'
  BY <1>1, TypeStep, MakesStep, KnownStep, AckedStep DEF ServerInv, Next, Step
<1>2. ServerInv /\ UNCHANGED vars => ServerInv'
  BY TypeStep DEF vars, writeVars, ServerInv, MakesInv, MakesOK, KnownInv, Known, AckedRowsStay
<1> QED BY <1>1, <1>2 DEF Next, Step

LEMMA ServerInvInit == Init => ServerInv
<1> SUFFICES ASSUME Init PROVE ServerInv
  OBVIOUS
<1>1. MakesInv /\ KnownInv /\ AckedRowsStay
  BY DEF Init, MakesInv, KnownInv, AckedRowsStay
<1> QED BY <1>1, TypeInit DEF ServerInv

(* With one create_table at a time, and any crashes, failing commits and other
   calls beside it: a cache that create_table has filled is right for good. *)
THEOREM CachesAgree ==
  ASSUME Serialized
  PROVE  Spec => []ProvisionedCachesAgree
<1>1. ServerInv /\ [Next]_vars => ServerInv'
  BY ServerInvStep
<1>2. ServerInv => ProvisionedCachesAgree
  BY DEF ServerInv, KnownInv, Known, ProvisionedCachesAgree
<1> QED BY <1>1, <1>2, ServerInvInit, PTL DEF Spec

(* And what an instance declares of such a table covers what the server has. *)
THEOREM DeclarationsAgree ==
  ASSUME Serialized
  PROVE  Spec => []ProvisionedAgree
<1>1. ServerInv /\ [Next]_vars => ServerInv'
  BY ServerInvStep
<1>2. ServerInv => ProvisionedAgree
  BY DEF ServerInv, KnownInv, Known, Declares, ProvisionedAgree
<1> QED BY <1>1, <1>2, ServerInvInit, PTL DEF Spec

(* The rows of a write that has returned are there until the table is dropped. *)
THEOREM AckedStay ==
  ASSUME Serialized
  PROVE  Spec => []AckedRowsStay
<1>1. ServerInv /\ [Next]_vars => ServerInv'
  BY ServerInvStep
<1>2. ServerInv => AckedRowsStay
  BY DEF ServerInv
<1> QED BY <1>1, <1>2, ServerInvInit, PTL DEF Spec


-----------------------------------------------------------------------------
(***************************************************************************)
(* The same create_table again.  RerunAccepted is its own strengthening of *)
(* the invariant above, where all instances have the same configuration.   *)
(***************************************************************************)
SameSetting == \A i, j \in Instances : AddWrittenAt[i] = AddWrittenAt[j]

LEMMA SamePrepared ==
  ASSUME SameSetting, NEW i \in Instances, NEW j \in Instances, NEW decl
  PROVE  PreparedEntry(i, decl) = PreparedEntry(j, decl)
BY DEF SameSetting, PreparedEntry, PrepareSchema

LEMMA SameSchemaCompatible ==
  ASSUME NEW old, NEW new, old.schema = new.schema
  PROVE  ~ Incompatible(old, new)
BY DEF Incompatible, Removed, Kept, Added

(* The table fits what the create_table in progress has prepared. *)
LEMMA CreatedAccepted ==
  ASSUME ServerInv, NEW i \in Instances, CreateReturns(i), NEW t, NEW e,
         t = work[i].table, e = work[i].entry
  PROVE  t \in DOMAIN server' /\ ~ Incompatible(server'[t], e)
<1>0. ShapeInv /\ LocalOK(i) /\ MakesOK(i) /\ pc[i] = "committing" /\ server' = Committed(i)
  BY DEF ServerInv, TypeInv, MakesInv, CreateReturns
<1>1. CASE work[i].creates
  <2>1. server' = Put(server, t, [schema |-> Normalized(e.schema), rows |-> {}])
    BY <1>0, <1>1 DEF Committed
  <2>2. PICK c \in TableCalls : e = PreparedEntry(i, c.decl)
    BY <1>0 DEF LocalOK
  <2>3. Normalized(e.schema) = e.schema
    BY <2>2, CallsTyped, PreparedFacts
  <2>4. t \in DOMAIN server' /\ server'[t].schema = e.schema
    BY <2>1, <2>3 DEF Put
  <2> QED BY <2>4, SameSchemaCompatible
<1>2. CASE ~ work[i].creates
  BY <1>0, <1>2 DEF Committed, MakesOK
<1> QED BY <1>1, <1>2

LEMMA AcceptedStep ==
  ASSUME ServerInv, RerunAccepted, SameSetting, NEW i \in Instances, Step(i)
  PROVE  RerunAccepted'
<1>0. ShapeInv /\ LocalOK(i)
  BY DEF ServerInv, TypeInv
<1>1. ASSUME NEW S, Forget(i, S) PROVE RerunAccepted'
  BY <1>1 DEF Forget, Without, RerunAccepted
<1>2. ASSUME Grows, NEW j \in Instances, NEW c \in accepted
      PROVE  c.table \in DOMAIN server' /\ ~ Incompatible(server'[c.table], PreparedEntry(j, c.decl))
  BY <1>2 DEF RerunAccepted, Grows, Incompatible, Removed, Kept, Added
<1>3. CASE CreateReturns(i)
  <2> DEFINE new == [table |-> work[i].table, decl |-> work[i].decl]
  <2>1. accepted' = accepted \cup {new} /\ pc[i] = "committing"
    BY <1>3 DEF CreateReturns
  <2>2. PICK c \in TableCalls : work[i].table = c.table /\ work[i].decl = c.decl
                                /\ work[i].entry = PreparedEntry(i, c.decl)
    BY <1>0, <2>1 DEF LocalOK
  <2>3. c.table \in DOMAIN server' /\ ~ Incompatible(server'[c.table], PreparedEntry(i, c.decl))
    BY <1>3, <2>2, CreatedAccepted
  <2>4. ASSUME NEW j \in Instances
        PROVE  ~ Incompatible(server'[c.table], PreparedEntry(j, c.decl))
    BY <2>3, SamePrepared
  <2>5. Grows
    BY <1>3, <2>1, CommitGrows DEF CreateReturns
  <2>6. new.table = c.table /\ new.decl = c.decl
    BY <2>2
  <2> HIDE DEF new
  <2>7. ASSUME NEW j \in Instances, NEW d \in accepted'
        PROVE  d.table \in DOMAIN server' /\ ~ Incompatible(server'[d.table], PreparedEntry(j, d.decl))
    <3>1. CASE d \in accepted
      BY <1>2, <2>5, <2>7, <3>1
    <3>2. CASE d = new
      BY <2>3, <2>4, <2>6, <2>7, <3>2
    <3> QED BY <2>1, <2>7, <3>1, <3>2
  <2> QED BY <2>7 DEF RerunAccepted
<1>4. ASSUME UNCHANGED accepted, Grows PROVE RerunAccepted'
  <2>1. \A j \in Instances, c \in accepted' :
          c.table \in DOMAIN server' /\ ~ Incompatible(server'[c.table], PreparedEntry(j, c.decl))
    BY <1>2, <1>4
  <2> QED BY <2>1 DEF RerunAccepted
<1>5. (CreateReturns(i) \/ \E S : Forget(i, S)) \/ UNCHANGED accepted
  <2>1. CASE Open(i) \/ Exit(i) \/ CommitFails(i) \/ WriteReturns(i) \/ WriteRejected(i) \/ WriteFails(i)
    BY <2>1 DEF Open, Exit, CommitFails, WriteReturns, WriteRejected, WriteFails, LeaveWrite
  <2>2. ASSUME NEW c \in TableCalls, RegisterTable(i, c) \/ FindTable(i, c) \/ MakeTable(i, c)
        PROVE  UNCHANGED accepted
    BY <2>2 DEF RegisterTable, FindTable, MakeTable, InCreate
  <2>3. ASSUME NEW t \in Tables, LookUp(i, t) PROVE UNCHANGED accepted
    BY <2>3 DEF LookUp
  <2>4. ASSUME NEW t \in Tables, NEW k \in Keys, BeginWrite(i, t, k) PROVE UNCHANGED accepted
    BY <2>4 DEF BeginWrite
  <2> QED BY <2>1, <2>2, <2>3, <2>4 DEF Step, DropTable, DropSchema
<1> QED BY <1>1, <1>3, <1>4, <1>5, GrowsOrDrops

(* "Safe to re-run" (base.py:95): between instances that agree on add_written_at
   a create_table call that has returned is not refused when it comes again. *)
THEOREM RerunsAccepted ==
  ASSUME Serialized, SameSetting
  PROVE  Spec => []RerunAccepted
<1> DEFINE Inv == ServerInv /\ RerunAccepted
<1>1. Init => Inv
  BY ServerInvInit DEF Init, RerunAccepted
<1>2. Inv /\ [Next]_vars => Inv'
  <2>1. ASSUME Inv, NEW i \in Instances, Step(i) PROVE RerunAccepted'
    BY <2>1, AcceptedStep
  <2>2. Inv /\ UNCHANGED vars => RerunAccepted'
    BY DEF vars, RerunAccepted
  <2> QED BY <2>1, <2>2, ServerInvStep DEF Next, Step
<1> QED BY <1>1, <1>2, PTL DEF Spec

-----------------------------------------------------------------------------
(***************************************************************************)
(* The deduplication.  A row's stamp is the time at which its write call   *)
(* began, so the rows of calls that had ended by then have earlier ones;   *)
(* the invariant says so of the rows that are stored and being inserted.   *)
(***************************************************************************)
AlwaysStamped == \A i \in Instances : AddWrittenAt[i]

Held(r) ==
  \/ \E t \in DOMAIN server : r \in server[t].rows
  \/ \E i \in Inserting : r = work[i].row

(* Every declaration that an instance writes by, or is creating by, has the
   column written_at. *)
StampedMeta ==
  \A i \in Instances : \A t \in DOMAIN meta[i] : WrittenAt \in DOMAIN meta[i][t].schema

StampInv ==
  /\ \A r : Held(r) => /\ r.stamp <= clock /\ r.after \subseteq ended
                       /\ r.call \in ended => r.stamp < clock
  /\ \A r, s : Held(r) /\ Held(s) /\ r.call \in s.after => r.stamp < s.stamp

LEMMA HeldTyped ==
  ASSUME TypeInv, NEW r, Held(r)
  PROVE  r \in Row /\ r.stamp \in Nat
<1>1. r \in Row
  BY DEF TypeInv, ShapeInv, LocalOK, Held, Inserting, Table
<1> QED BY <1>1, VastAssumption DEF Row

LEMMA ClockTyped ==
  ASSUME TypeInv
  PROVE  clock \in Nat /\ calls \in Nat /\ ended \subseteq 1..calls
BY EndedCounted, VastAssumption DEF TypeInv, ClockInv

LEMMA StampedMetaStep ==
  ASSUME TypeInv, StampedMeta, AlwaysStamped, NEW i \in Instances, Step(i)
  PROVE  StampedMeta'
<1>0. ShapeInv /\ LocalOK(i) /\ Frame(i)
  BY Frames DEF TypeInv
<1>1. \A c \in TableCalls : WrittenAt \in DOMAIN PreparedEntry(i, c.decl).schema
  BY CallsTyped, PreparedFacts DEF AlwaysStamped
<1>2. SUFFICES \A t \in DOMAIN meta'[i] : WrittenAt \in DOMAIN meta'[i][t].schema
  BY <1>0 DEF Frame, StampedMeta
<1>3. CASE CreateReturns(i)
  <2>1. meta'[i] = Put(meta[i], work[i].table, work[i].entry)
        /\ WrittenAt \in DOMAIN work[i].entry.schema
    BY <1>0, <1>1, <1>3 DEF CreateReturns, ShapeInv, LocalOK
  <2> QED BY <2>1 DEF Put, StampedMeta
<1>4. ASSUME NEW c \in TableCalls, RegisterTable(i, c)
      PROVE  \A t \in DOMAIN meta'[i] : WrittenAt \in DOMAIN meta'[i][t].schema
  <2>1. meta'[i] = Put(meta[i], c.table, PreparedEntry(i, c.decl))
    BY <1>0, <1>4 DEF RegisterTable, ShapeInv
  <2> QED BY <1>1, <2>1 DEF Put, StampedMeta
<1>5. ASSUME NEW S, Forget(i, S)
      PROVE  \A t \in DOMAIN meta'[i] : WrittenAt \in DOMAIN meta'[i][t].schema
  BY <1>0, <1>5 DEF Forget, ShapeInv, Without, StampedMeta
<1>6. CASE Exit(i)
  BY <1>0, <1>6 DEF Exit, ShapeInv, Empty
<1>7. ASSUME UNCHANGED meta
      PROVE  \A t \in DOMAIN meta'[i] : WrittenAt \in DOMAIN meta'[i][t].schema
  BY <1>7 DEF StampedMeta
<1>8. CASE Open(i) \/ CommitFails(i) \/ WriteReturns(i) \/ WriteRejected(i) \/ WriteFails(i)
  BY <1>7, <1>8 DEF Open, CommitFails, WriteReturns, WriteRejected, WriteFails, LeaveWrite
<1>9. ASSUME NEW c \in TableCalls, FindTable(i, c) \/ MakeTable(i, c) PROVE UNCHANGED meta
  BY <1>9 DEF FindTable, MakeTable, InCreate
<1>10. ASSUME NEW t \in Tables, LookUp(i, t) PROVE UNCHANGED meta
  BY <1>10 DEF LookUp
<1>11. ASSUME NEW t \in Tables, NEW k \in Keys, BeginWrite(i, t, k) PROVE UNCHANGED meta
  BY <1>11 DEF BeginWrite
<1> QED BY <1>3, <1>4, <1>5, <1>6, <1>7, <1>8, <1>9, <1>10, <1>11 DEF Step, DropTable, DropSchema

(* No row appears but by a write call that begins. *)
LEMMA CommittedHeld ==
  ASSUME TypeInv, NEW i \in Instances, NEW t \in DOMAIN Committed(i), NEW r \in Committed(i)[t].rows,
         pc[i] = "committing" \/ (pc[i] = "inserting" /\ Accepts(i))
  PROVE  Held(r)
<1>1. CASE pc[i] = "inserting"
  <2> DEFINE u == work[i].table
             rec == [server[u] EXCEPT !.rows = @ \cup {work[i].row}]
  <2>1. u \in DOMAIN server /\ server[u] \in Table /\ Committed(i) = [server EXCEPT ![u] = rec]
    BY <1>1 DEF Accepts, TypeInv, ShapeInv, Committed
  <2>2. rec.rows = server[u].rows \cup {work[i].row}
    BY <2>1 DEF Table
  <2> HIDE DEF rec, u
  <2>3. r = work[i].row \/ (t \in DOMAIN server /\ r \in server[t].rows)
    BY <2>1, <2>2
  <2> QED BY <1>1, <2>3 DEF Held, Inserting
<1>2. CASE pc[i] = "committing"
  <2>1. t \in DOMAIN server /\ r \in server[t].rows
    BY <1>2 DEF Committed, Put
  <2> QED BY <2>1 DEF Held
<1> QED BY <1>1, <1>2

LEMMA HeldStep ==
  ASSUME TypeInv, NEW i \in Instances, Step(i), NEW r, Held(r)', pc'[i] # "inserting"
  PROVE  Held(r)
<1>0. Frame(i)
  BY Frames DEF TypeInv
<1>1. ASSUME NEW t \in DOMAIN server', r \in server'[t].rows PROVE Held(r)
  <2>1. CASE UNCHANGED server
    BY <1>1, <2>1 DEF Held
  <2>2. ASSUME NEW S, Forget(i, S) PROVE Held(r)
    BY <1>1, <2>2 DEF Forget, Without, Held
  <2> QED BY <1>1, <2>1, <2>2, ServerStep, CommittedHeld DEF ServerMoves
<1>2. ASSUME NEW j \in Inserting', r = work'[j].row PROVE Held(r)
  BY <1>0, <1>2 DEF Frame, Inserting, Held
<1> QED BY <1>1, <1>2 DEF Held

LEMMA ClockSteps ==
  ASSUME TypeInv, NEW i \in Instances, Step(i), pc'[i] # "inserting"
  PROVE  \/ UNCHANGED <<clock, ended>>
         \/ clock' = clock + 1 /\ ended \subseteq ended'
<1>0. ShapeInv
  BY DEF TypeInv
<1>1. CASE Exit(i) \/ WriteReturns(i) \/ WriteRejected(i) \/ WriteFails(i)
  BY <1>1 DEF Exit, WriteReturns, WriteRejected, WriteFails, LeaveWrite, WriteEnds
<1>2. CASE Open(i) \/ CreateReturns(i) \/ CommitFails(i)
  BY <1>2 DEF Open, CreateReturns, CommitFails, writeVars
<1>3. ASSUME NEW c \in TableCalls, RegisterTable(i, c) \/ FindTable(i, c) \/ MakeTable(i, c)
      PROVE  UNCHANGED <<clock, ended>>
  BY <1>3 DEF RegisterTable, FindTable, MakeTable, InCreate, writeVars
<1>4. ASSUME NEW t \in Tables, LookUp(i, t) PROVE UNCHANGED <<clock, ended>>
  BY <1>4 DEF LookUp, writeVars
<1>5. ASSUME NEW t \in Tables, NEW k \in Keys, BeginWrite(i, t, k) PROVE FALSE
  BY <1>0, <1>5 DEF BeginWrite, ShapeInv
<1>6. ASSUME NEW S, Forget(i, S) PROVE UNCHANGED <<clock, ended>>
  BY <1>6 DEF Forget
<1> QED BY <1>1, <1>2, <1>3, <1>4, <1>5, <1>6 DEF Step, DropTable, DropSchema

LEMMA StampStep ==
  ASSUME TypeInv, StampInv, StampedMeta, AlwaysStamped, NEW i \in Instances, Step(i)
  PROVE  StampInv'
<1>0. ShapeInv /\ Frame(i) /\ ClockInv
  BY Frames DEF TypeInv
<1>1. CASE pc'[i] # "inserting"
  <2>1. \A r : Held(r)' => Held(r)
    BY <1>1, HeldStep
  <2>2. clock \in Nat /\ (\A r : Held(r) => r.stamp \in Nat)
    BY ClockTyped, HeldTyped
  <2>3. CASE UNCHANGED <<clock, ended>>
    BY <2>1, <2>3 DEF StampInv
  <2>4. CASE clock' = clock + 1 /\ ended \subseteq ended'
    <3>1. \A r : Held(r) => r.stamp <= clock' /\ r.stamp < clock' /\ r.after \subseteq ended'
      BY <2>2, <2>4 DEF StampInv
    <3> QED BY <2>1, <3>1 DEF StampInv
  <2> QED BY <1>1, <2>3, <2>4, ClockSteps
<1>2. CASE pc'[i] = "inserting"
  <2>1. PICK t \in Tables, k \in Keys : BeginWrite(i, t, k)
    <3>1. CASE Open(i) \/ Exit(i) \/ CreateReturns(i) \/ CommitFails(i)
               \/ WriteReturns(i) \/ WriteRejected(i) \/ WriteFails(i)
      BY <1>0, <1>2, <3>1 DEF Open, Exit, CreateReturns, CommitFails, WriteReturns,
                              WriteRejected, WriteFails, LeaveWrite, ShapeInv
    <3>2. ASSUME NEW c \in TableCalls, RegisterTable(i, c) \/ FindTable(i, c) \/ MakeTable(i, c)
          PROVE  FALSE
      BY <1>0, <1>2, <3>2 DEF RegisterTable, FindTable, MakeTable, MayCreate, InCreate, ShapeInv
    <3>3. ASSUME NEW t \in Tables, LookUp(i, t) PROVE FALSE
      BY <1>2, <3>3 DEF LookUp
    <3>4. ASSUME NEW S, pc[i] = "ready", Forget(i, S) PROVE FALSE
      BY <1>2, <3>4 DEF Forget
    <3> QED BY <3>1, <3>2, <3>3, <3>4 DEF Step, DropTable, DropSchema
  <2> DEFINE new == [key |-> k, call |-> calls + 1, after |-> ended,
                     stamp |-> Stamp(i, meta[i][t].schema)]
  <2>2. /\ UNCHANGED <<server, clock, ended>> /\ t \in DOMAIN meta[i] /\ pc[i] = "ready"
        /\ work'[i] = [Idle EXCEPT !.table = t, !.entry = meta[i][t], !.row = new]
    BY <1>0, <2>1 DEF BeginWrite, ShapeInv
  <2>3. new.stamp = clock /\ new.call = calls + 1 /\ new.after = ended
    BY <2>2 DEF Stamp, StampedMeta, AlwaysStamped
  <2> HIDE DEF new
  <2>4. work'[i].row = new
    BY <2>2 DEF Idle
  <2>5. \A r : Held(r)' => Held(r) \/ r = new
    <3>1. \A r : (\E u \in DOMAIN server' : r \in server'[u].rows) => Held(r)
      BY <2>2 DEF Held
    <3>2. \A j \in Inserting' : j # i => Held(work'[j].row)
      BY <1>0 DEF Frame, Inserting, Held
    <3> QED BY <2>4, <3>1, <3>2 DEF Held
  <2>6. clock \in Nat /\ calls + 1 \notin ended
    BY ClockTyped
  <2>7. \A r : Held(r) => calls + 1 \notin r.after
    BY <2>6 DEF StampInv
  <2>8. \A r : Held(r)' => /\ r.stamp <= clock /\ r.after \subseteq ended
                           /\ r.call \in ended => r.stamp < clock
    BY <2>3, <2>5, <2>6 DEF StampInv
  <2>9. \A r, s : Held(r)' /\ Held(s)' /\ r.call \in s.after => r.stamp < s.stamp
    BY <2>3, <2>5, <2>6, <2>7 DEF StampInv
  <2> QED BY <2>2, <2>8, <2>9 DEF StampInv
<1> QED BY <1>1, <1>2

(* README, "WORM deduplication", with one clock and written_at added by every
   instance: the row that is kept for a key is of no call that had ended when
   another, whose row is there, began.  Races of create_table included. *)
THEOREM DedupLatest ==
  ASSUME AlwaysStamped
  PROVE  Spec => []DedupKeepsLatest
<1> DEFINE Inv == TypeInv /\ StampedMeta /\ StampInv
<1>1. Init => Inv
  <2>1. Init => StampedMeta
    BY DEF Init, StampedMeta, Empty
  <2>2. Init => \A r : ~ Held(r)
    BY DEF Init, Held, Inserting, Empty
  <2> QED BY <2>1, <2>2, TypeInit DEF StampInv
<1>2. Inv /\ [Next]_vars => Inv'
  <2>1. ASSUME Inv, NEW i \in Instances, Step(i) PROVE StampedMeta' /\ StampInv'
    BY <2>1, StampedMetaStep, StampStep
  <2>2. Inv /\ UNCHANGED vars => StampedMeta' /\ StampInv'
    BY DEF vars, writeVars, StampedMeta, StampInv, Held, Inserting
  <2> QED BY <2>1, <2>2, TypeStep DEF Next, Step
<1>3. Inv => DedupKeepsLatest
  <2> SUFFICES ASSUME Inv, NEW t \in DOMAIN server, NEW k \in Keys,
                      NEW r \in RankedFirst(server[t].rows, k), NEW s \in server[t].rows,
                      s.key = k, r.call \in s.after
               PROVE  FALSE
    BY DEF DedupKeepsLatest
  <2>1. Held(r) /\ Held(s) /\ s.stamp <= r.stamp
    BY DEF Held, RankedFirst
  <2>2. r.stamp \in Nat /\ s.stamp \in Nat
    BY <2>1, HeldTyped
  <2>3. r.stamp < s.stamp
    BY <2>1 DEF StampInv
  <2> QED BY <2>1, <2>2, <2>3
<1> QED BY <1>1, <1>2, <1>3, PTL DEF Spec

=============================================================================
