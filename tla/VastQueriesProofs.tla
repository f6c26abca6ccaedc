------------------------- MODULE VastQueriesProofs -------------------------
(***************************************************************************)
(* Proofs about VastQueries, for every set of clients, items and filters.  *)
(*                                                                         *)
(*   QueriesAnswered  Spec => []QueriesExact                               *)
(*   TypeCorrect      Spec => []TypeOK                                     *)
(*   PayloadsFound    Spec => []IndexedPayloadsFound                       *)
(*   JoinsBounded     Spec => []JoinBounded                                *)
(***************************************************************************)
EXTENDS VastQueries, FilterRulesProofs

(* bulk_read returns the rows that the filters stand for. *)
LEMMA BulkReadMatches ==
  ASSUME NEW t \in Tables, NEW filters, IsFilters(filters)
  PROVE  BulkRead(t, filters) = Matching(t, filters)
BY PredicateAgrees DEF BulkRead, Matching

(* A query without filters returns every row. *)
LEMMA NoFiltersMatchAll ==
  ASSUME NEW t \in Tables
  PROVE  Matching(t, << >>) = server[t] /\ IsFilters(<< >>)
BY DEF Matching, Matches, IsFilters

LEMMA FilterDictsAreFilters ==
  /\ \A filters \in FilterDicts : IsFilters(filters)
  /\ \A filters \in JoinFilters : \A t \in Tables : IsFilters(filters[t])
BY QueriesAssumption

(* bulk_read, count and distinct_values, by the predicate and by the metadata,
   say of any rows what the filters stand for. *)
THEOREM QueriesAnswered == Spec => []QueriesExact
<1>1. QueriesExact
  <2>1. ASSUME NEW t \in Tables, NEW filters \in FilterDicts
        PROVE  /\ BulkRead(t, filters) = Matching(t, filters)
               /\ Count(t, filters) = Cardinality(Matching(t, filters))
    <3>1. BulkRead(t, filters) = Matching(t, filters)
      BY BulkReadMatches, FilterDictsAreFilters
    <3>2. CASE filters = << >>
      BY <3>1, <3>2, NoFiltersMatchAll DEF Count
    <3>3. CASE filters # << >>
      BY <3>1, <3>3 DEF Count
    <3> QED BY <3>1, <3>2, <3>3
  <2>2. ASSUME NEW t \in Tables, NEW filters \in FilterDicts
        PROVE  DistinctValues(t, {On}, filters)
                 = {[c \in {On} |-> r.cells[c]] : r \in Matching(t, filters)}
    BY <2>1 DEF DistinctValues
  <2> QED BY <2>1, <2>2 DEF QueriesExact
<1> QED BY <1>1, PTL

-----------------------------------------------------------------------------
(* Rows of items only, and each index row with its payload; a client that is
   about to store an index row has stored the payload. *)
HasPayload(id) == \E p \in server.payload : p.cells[On] = id

ServerInv ==
  /\ \A l \in server["index"] : HasPayload(l.cells[On])
  /\ \A w \in Writers : writer[w].pc = "index" => HasPayload(writer[w].item.payload[On])

(* What a join has read, and what it was promised. *)
HalfRead(r) ==
  /\ reader[r].rows["index"] =
       {l \in reader[r].rows["index"] : Matches(reader[r].filters["index"], l.cells)}
  /\ before[r] \subseteq
       Pairs(reader[r].rows["index"], Matching("payload", reader[r].filters.payload))

Read(r) ==
  /\ reader[r].rows.payload =
       {p \in reader[r].rows.payload : Matches(reader[r].filters.payload, p.cells)}
  /\ before[r] \subseteq Joined(r)
  /\ reader[r].filters.payload = << >> =>
       \A l \in reader[r].rows["index"] :
         \E p \in reader[r].rows.payload : p.cells[On] = l.cells[On]

ReaderInv ==
  \A r \in Readers :
    /\ reader[r].pc \in {"half", "joined"} => HalfRead(r)
    /\ reader[r].pc = "joined" => Read(r)

IInv == TypeOK /\ ServerInv /\ ReaderInv

LEMMA TwoTables == "index" \in Tables /\ "payload" \in Tables /\ ReadOrder[1] = "index"
                   /\ ReadOrder[2] = "payload"
BY DEF Tables, ReadOrder

(* Nothing is there at first. *)
LEMMA Initially == Init => IInv
<1> SUFFICES ASSUME Init PROVE IInv
  OBVIOUS
<1>1. TypeOK
  BY QueriesAssumption DEF Init, TypeOK, NoJoin, NoRows
<1>2. ServerInv
  BY TwoTables DEF Init, ServerInv, NoRows, Idle
<1>3. ReaderInv
  BY DEF Init, ReaderInv, NoJoin
<1> QED BY <1>1, <1>2, <1>3 DEF IInv

(* A row that is inserted is one of the item, and the others stay. *)
LEMMA InsertedRows ==
  ASSUME TypeOK, NEW w \in Writers, NEW t \in Tables, NEW s \in {server, Inserted(w, t)},
         writer[w].pc = t, writes < MaxWrites
  PROVE  /\ DOMAIN s = Tables
         /\ \A u \in Tables : server[u] \subseteq s[u]
         /\ \A u \in Tables : \A row \in s[u] :
              \/ row \in server[u]
              \/ u = t /\ row = [call |-> writes + 1, cells |-> writer[w].item[t]]
         /\ \A u \in Tables : \A row \in s[u] :
              row.call \in 1..(writes + 1) /\ \E item \in Items : row.cells = item[u]
<1>1. DOMAIN server = Tables /\ writes \in Nat
  BY QueriesAssumption DEF TypeOK
<1>2. writer[w].item \in Items
  BY DEF TypeOK, Idle, Tables
<1>3. /\ DOMAIN s = Tables
      /\ \A u \in Tables : server[u] \subseteq s[u]
      /\ \A u \in Tables : \A row \in s[u] :
              \/ row \in server[u]
              \/ u = t /\ row = [call |-> writes + 1, cells |-> writer[w].item[t]]
  BY <1>1 DEF Inserted
<1>4. ASSUME NEW u \in Tables, NEW row \in s[u]
      PROVE  row.call \in 1..(writes + 1) /\ \E item \in Items : row.cells = item[u]
  <2>1. CASE row \in server[u]
    <3>1. row.call \in 1..writes /\ \E item \in Items : row.cells = item[u]
      BY <2>1 DEF TypeOK
    <3> QED BY <3>1, <1>1
  <2>2. CASE u = t /\ row = [call |-> writes + 1, cells |-> writer[w].item[t]]
    BY <2>2, <1>1, <1>2
  <2> QED BY <1>3, <2>1, <2>2
<1> QED BY <1>3, <1>4

(* What holds of the joins goes on to hold when only the server has grown. *)
LEMMA JoinsKept ==
  ASSUME IInv, UNCHANGED <<reader, before>>,
         \A t \in Tables : server[t] \subseteq server'[t]
  PROVE  ReaderInv'
<1>1. \A filters : Matching("payload", filters) \subseteq Matching("payload", filters)'
  BY TwoTables DEF Matching
<1>2. \A filters, left : Pairs(left, Matching("payload", filters))
                           \subseteq Pairs(left, Matching("payload", filters)')
  BY <1>1 DEF Pairs
<1> QED BY <1>2 DEF IInv, ReaderInv, HalfRead, Read, Joined

(* Insert or InsertFails: the server becomes s, the client moves on or stops. *)
LEMMA InsertStep ==
  ASSUME IInv, NEW w \in Writers, NEW t \in Tables,
         Insert(w, t) \/ InsertFails(w, t)
  PROVE  IInv'
<1>1. /\ writer[w].pc = t /\ writes < MaxWrites
      /\ server' \in {server, Inserted(w, t)}
      /\ writes' = writes + 1
      /\ UNCHANGED <<reader, before>>
      /\ \/ writer' = [writer EXCEPT ![w] = Idle]
         \/ /\ t = "payload" /\ server' = Inserted(w, t)
            /\ writer' = [writer EXCEPT ![w] = [@ EXCEPT !.pc = "index"]]
  BY DEF Insert, InsertFails
<1>2. /\ DOMAIN server' = Tables
      /\ \A u \in Tables : server[u] \subseteq server'[u]
      /\ \A u \in Tables : \A row \in server'[u] :
           \/ row \in server[u]
           \/ u = t /\ row = [call |-> writes + 1, cells |-> writer[w].item[t]]
      /\ \A u \in Tables : \A row \in server'[u] :
           row.call \in 1..(writes + 1) /\ \E item \in Items : row.cells = item[u]
  BY <1>1, InsertedRows DEF IInv
<1>3. writer[w] # Idle /\ writer[w].item \in Items
      /\ writer[w] = [pc |-> writer[w].pc, item |-> writer[w].item]
  BY <1>1, QueriesAssumption DEF IInv, TypeOK, Idle, Tables
<1>4. TypeOK'
  BY <1>1, <1>2, <1>3, TwoTables, QueriesAssumption DEF IInv, TypeOK
<1>5. ServerInv'
  <2>1. \A id : HasPayload(id) => HasPayload(id)'
    BY <1>2, TwoTables DEF HasPayload
  <2>2. ASSUME NEW l \in server'["index"] PROVE HasPayload(l.cells[On])'
    <3>1. CASE l \in server["index"]
      BY <2>1, <3>1 DEF IInv, ServerInv
    <3>2. CASE t = "index" /\ l.cells = writer[w].item["index"]
      <4>1. HasPayload(writer[w].item.payload[On])
        BY <1>1, <3>2 DEF IInv, ServerInv
      <4>2. l.cells[On] = writer[w].item.payload[On]
        BY <1>3, <3>2, QueriesAssumption
      <4> QED BY <2>1, <4>1, <4>2
    <3> QED BY <1>2, <3>1, <3>2, TwoTables
  <2>3. ASSUME NEW v \in Writers, writer'[v].pc = "index"
        PROVE  HasPayload(writer[v].item.payload[On])' /\ writer'[v].item = writer[v].item
    <3>1. CASE writer'[v] = writer[v]
      BY <2>1, <2>3, <3>1 DEF IInv, ServerInv
    <3>2. CASE writer'[v] # writer[v]
      <4>1. v = w /\ t = "payload" /\ server' = Inserted(w, t)
            /\ writer'[v].item = writer[v].item
        BY <1>1, <2>3, <3>2 DEF IInv, TypeOK, Idle
      <4>2. [call |-> writes + 1, cells |-> writer[w].item.payload] \in server'.payload
        BY <4>1, TwoTables DEF Inserted, IInv, TypeOK
      <4> QED BY <4>1, <4>2 DEF HasPayload
    <3> QED BY <3>1, <3>2
  <2> QED BY <2>2, <2>3 DEF ServerInv
<1>6. ReaderInv'
  BY <1>1, <1>2, JoinsKept
<1> QED BY <1>4, <1>5, <1>6 DEF IInv

(* A side that a join reads has the rows the server has, those that match. *)
LEMMA SideRead ==
  ASSUME IInv, NEW r \in Readers, NEW t \in Tables, NEW filters, IsFilters(filters)
  PROVE  /\ ReadSide(r, t, filters) = [reader[r].rows EXCEPT ![t] = Matching(t, filters)]
         /\ Matching(t, filters) \subseteq server[t]
         /\ \A u \in Tables : ReadSide(r, t, filters)[u] \subseteq server[u]
         /\ ReadSide(r, t, filters)[t] = Matching(t, filters)
         /\ \A u \in Tables \ {t} : ReadSide(r, t, filters)[u] = reader[r].rows[u]
         /\ ReadSide(r, t, filters) \in
              [Tables -> SUBSET (server["index"] \cup server.payload)]
<1>1. reader[r].rows \in [Tables -> SUBSET (server["index"] \cup server.payload)]
  BY DEF IInv, TypeOK, NoJoin, NoRows
<1>2. ReadSide(r, t, filters) = [reader[r].rows EXCEPT ![t] = Matching(t, filters)]
  BY BulkReadMatches DEF ReadSide
<1>3. Matching(t, filters) \subseteq server[t]
  BY DEF Matching
<1>4. \A u \in Tables : server[u] \subseteq server["index"] \cup server.payload
  BY DEF Tables
<1> QED BY <1>1, <1>2, <1>3, <1>4 DEF IInv, TypeOK

(* A join that another one does not touch is as it was. *)
LEMMA OtherJoin ==
  ASSUME IInv, NEW s \in Readers, reader'[s] = reader[s], before'[s] = before[s],
         server' = server
  PROVE  /\ reader'[s].pc \in {"half", "joined"} => HalfRead(s)'
         /\ reader'[s].pc = "joined" => Read(s)'
<1>1. Matching("payload", reader[s].filters.payload)'
        = Matching("payload", reader[s].filters.payload)
  BY DEF Matching
<1>2. HalfRead(s) => HalfRead(s)'
  BY <1>1 DEF HalfRead
<1>3. Read(s) => Read(s)'
  BY DEF Read, Joined
<1> QED BY <1>2, <1>3 DEF IInv, ReaderInv

LEMMA FirstStep ==
  ASSUME IInv, NEW r \in Readers, NEW filters \in JoinFilters, JoinFirst(r, filters)
  PROVE  IInv'
<1> DEFINE side == ReadSide(r, "index", filters["index"])
<1>1. IsFilters(filters["index"])
  BY TwoTables, FilterDictsAreFilters
<1>2. /\ reader' = [reader EXCEPT ![r] = [pc |-> "half", filters |-> filters, rows |-> side]]
      /\ before' = [before EXCEPT ![r] = MatchingPairs(filters)]
      /\ UNCHANGED <<server, writer, writes>>
  BY TwoTables DEF JoinFirst
<1>3. /\ side["index"] = Matching("index", filters["index"])
      /\ side \in [Tables -> SUBSET (server["index"] \cup server.payload)]
      /\ \A u \in Tables : side[u] \subseteq server[u]
  BY <1>1, TwoTables, SideRead
<1> HIDE DEF side
<1>4. TypeOK'
  BY <1>2, <1>3 DEF IInv, TypeOK
<1>5. ServerInv'
  BY <1>2 DEF IInv, ServerInv, HasPayload
<1>6. ReaderInv'
  <2>1. HalfRead(r)'
    <3>1. /\ reader'[r].rows = side /\ reader'[r].filters = filters
          /\ before'[r] = MatchingPairs(filters)
      BY <1>2 DEF IInv, TypeOK
    <3>2. Matching("payload", filters.payload)' = Matching("payload", filters.payload)
      BY <1>2 DEF Matching
    <3>3. \A l \in side["index"] : Matches(filters["index"], l.cells)
      BY <1>3 DEF Matching
    <3> QED BY <3>1, <3>2, <3>3, <1>3 DEF HalfRead, MatchingPairs
  <2>2. reader'[r].pc = "half"
    BY <1>2 DEF IInv, TypeOK
  <2>3. ASSUME NEW s \in Readers \ {r}
        PROVE  /\ reader'[s].pc \in {"half", "joined"} => HalfRead(s)'
               /\ reader'[s].pc = "joined" => Read(s)'
    <3>1. reader'[s] = reader[s] /\ before'[s] = before[s]
      BY <1>2 DEF IInv, TypeOK
    <3> QED BY <1>2, <3>1, OtherJoin
  <2> QED BY <2>1, <2>2, <2>3 DEF ReaderInv
<1> QED BY <1>4, <1>5, <1>6 DEF IInv

LEMMA SecondStep ==
  ASSUME IInv, NEW r \in Readers, JoinSecond(r)
  PROVE  IInv'
<1> DEFINE filters == reader[r].filters
           side == ReadSide(r, "payload", filters.payload)
<1>1. reader[r].pc = "half" /\ filters \in JoinFilters /\ HalfRead(r)
      /\ IsFilters(filters.payload)
  BY TwoTables, FilterDictsAreFilters DEF JoinSecond, IInv, TypeOK, NoJoin, ReaderInv
<1>2. /\ reader' = [reader EXCEPT ![r].pc = "joined", ![r].rows = side]
      /\ UNCHANGED <<server, writer, writes, before>>
  BY TwoTables DEF JoinSecond
<1>3. /\ side.payload = Matching("payload", filters.payload)
      /\ side["index"] = reader[r].rows["index"]
      /\ side \in [Tables -> SUBSET (server["index"] \cup server.payload)]
      /\ \A u \in Tables : side[u] \subseteq server[u]
  BY <1>1, TwoTables, SideRead
<1> HIDE DEF side
<1>4. reader[r] = [pc |-> "half", filters |-> filters, rows |-> reader[r].rows]
  BY <1>1 DEF IInv, TypeOK, NoJoin
<1>5. /\ reader'[r] = [pc |-> "joined", filters |-> filters, rows |-> side]
      /\ \A s \in Readers \ {r} : reader'[s] = reader[s]
      /\ DOMAIN reader' = Readers
      /\ reader' = [s \in Readers |-> IF s = r THEN reader'[r] ELSE reader[s]]
  BY <1>2, <1>4 DEF IInv, TypeOK
<1>6. TypeOK'
  BY <1>1, <1>2, <1>3, <1>5 DEF IInv, TypeOK
<1>7. ServerInv'
  BY <1>2 DEF IInv, ServerInv, HasPayload
<1>8. ReaderInv'
  <2>1. HalfRead(r)'
    <3>1. \A given : Matching("payload", given)' = Matching("payload", given)
      BY <1>2 DEF Matching
    <3>2. reader'[r].rows["index"] = reader[r].rows["index"] /\ reader'[r].filters = filters
      BY <1>3, <1>5
    <3> QED BY <1>1, <1>2, <3>1, <3>2 DEF HalfRead
  <2>2. Read(r)'
    <3>1. \A p \in side.payload : Matches(filters.payload, p.cells)
      BY <1>3 DEF Matching
    <3>2. before[r] \subseteq Joined(r)'
      BY <1>1, <1>3, <1>5 DEF HalfRead, Joined
    <3>3. ASSUME filters.payload = << >>, NEW l \in side["index"]
          PROVE  \E p \in side.payload : p.cells[On] = l.cells[On]
      <4>1. l \in server["index"]
        BY <1>3, TwoTables
      <4>2. HasPayload(l.cells[On])
        BY <4>1 DEF IInv, ServerInv
      <4>3. side.payload = server.payload
        BY <1>3, <3>3, NoFiltersMatchAll, TwoTables
      <4> QED BY <4>2, <4>3 DEF HasPayload
    <3> QED BY <1>2, <1>5, <3>1, <3>2, <3>3 DEF Read
  <2>3. ASSUME NEW s \in Readers \ {r}
        PROVE  /\ reader'[s].pc \in {"half", "joined"} => HalfRead(s)'
               /\ reader'[s].pc = "joined" => Read(s)'
    BY <1>2, <1>5, OtherJoin
  <2> QED BY <2>1, <2>2, <2>3 DEF ReaderInv
<1> QED BY <1>6, <1>7, <1>8 DEF IInv

(* The invariant is inductive. *)
LEMMA Inductive == IInv /\ [Next]_vars => IInv'
<1> SUFFICES ASSUME IInv, [Next]_vars PROVE IInv'
  OBVIOUS
<1>1. ASSUME NEW w \in Writers, NEW item \in Items, Ingest(w, item) PROVE IInv'
  <2>1. TypeOK'
    BY <1>1, TwoTables DEF Ingest, IInv, TypeOK
  <2>2. ServerInv'
    BY <1>1 DEF Ingest, IInv, TypeOK, ServerInv, HasPayload
  <2>3. ReaderInv'
    BY <1>1, JoinsKept DEF Ingest
  <2> QED BY <2>1, <2>2, <2>3 DEF IInv
<1>2. ASSUME NEW w \in Writers, NEW t \in Tables, Insert(w, t) \/ InsertFails(w, t)
      PROVE  IInv'
  BY <1>2, InsertStep
<1>3. ASSUME NEW r \in Readers, NEW filters \in JoinFilters, JoinFirst(r, filters)
      PROVE  IInv'
  BY <1>3, FirstStep
<1>4. ASSUME NEW r \in Readers, JoinSecond(r) PROVE IInv'
  BY <1>4, SecondStep
<1>5. CASE UNCHANGED vars
  <2>1. TypeOK'
    BY <1>5 DEF vars, IInv, TypeOK
  <2>2. ServerInv'
    BY <1>5 DEF vars, IInv, ServerInv, HasPayload
  <2>3. ReaderInv'
    BY <1>5, JoinsKept DEF vars
  <2> QED BY <2>1, <2>2, <2>3 DEF IInv
<1> QED BY <1>1, <1>2, <1>3, <1>4, <1>5 DEF Next

LEMMA Invariant == Spec => []IInv
<1>1. Init => IInv
  BY Initially
<1>2. IInv /\ [Next]_vars => IInv'
  BY Inductive
<1> QED BY <1>1, <1>2, PTL DEF Spec

(* The types of VastQueries, the sides of a join among them. *)
THEOREM TypeCorrect == Spec => []TypeOK
<1>1. IInv => TypeOK
  BY DEF IInv
<1> QED BY <1>1, Invariant, PTL

(* A pair of rows that a join has read is one that it finds. *)
LEMMA IndexRowsHaveKeys ==
  ASSUME IInv, NEW l \in server["index"]
  PROVE  l.cells[On] # NULL
<1>1. PICK item \in Items : l.cells = item["index"]
  BY TwoTables DEF IInv, TypeOK
<1> QED BY <1>1, QueriesAssumption

(* A join that is no snapshot still finds the payload of every index row it
   has read, when clients store the payload first. *)
THEOREM PayloadsFound == Spec => []IndexedPayloadsFound
<1>1. IInv => IndexedPayloadsFound
  <2> SUFFICES ASSUME IInv, NEW r \in Readers, reader[r].pc = "joined",
                      reader[r].filters.payload = << >>, NEW l \in reader[r].rows["index"]
               PROVE  \E p \in Joined(r) : p[1] = l
    BY DEF IndexedPayloadsFound
  <2>1. PICK p \in reader[r].rows.payload : p.cells[On] = l.cells[On]
    BY DEF IInv, ReaderInv, Read
  <2>2. l \in server["index"]
    BY TwoTables DEF IInv, TypeOK
  <2>3. l.cells[On] # NULL
    BY <2>2, IndexRowsHaveKeys
  <2>4. <<l, p>> \in Joined(r) /\ <<l, p>>[1] = l
    BY <2>1, <2>3 DEF Joined, Pairs
  <2> QED BY <2>4
<1> QED BY <1>1, Invariant, PTL

(* It has each pair there was when it was called and none that is not there. *)
THEOREM JoinsBounded == Spec => []JoinBounded
<1>1. IInv => JoinBounded
  <2> SUFFICES ASSUME IInv, NEW r \in Readers, reader[r].pc = "joined"
               PROVE  /\ before[r] \subseteq Joined(r)
                      /\ Joined(r) \subseteq MatchingPairs(reader[r].filters)
    BY DEF JoinBounded
  <2>1. HalfRead(r) /\ Read(r)
    BY DEF IInv, ReaderInv
  <2>2. reader[r].rows["index"] \subseteq server["index"]
        /\ reader[r].rows.payload \subseteq server.payload
    BY TwoTables DEF IInv, TypeOK
  <2>3. reader[r].rows["index"] \subseteq Matching("index", reader[r].filters["index"])
    BY <2>1, <2>2 DEF HalfRead, Matching
  <2>4. reader[r].rows.payload \subseteq Matching("payload", reader[r].filters.payload)
    BY <2>1, <2>2 DEF Read, Matching
  <2>5. Joined(r) \subseteq MatchingPairs(reader[r].filters)
    BY <2>3, <2>4 DEF Joined, MatchingPairs, Pairs
  <2> QED BY <2>1, <2>5 DEF Read
<1> QED BY <1>1, Invariant, PTL

=============================================================================
