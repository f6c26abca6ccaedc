---------------------------- MODULE VastQueries -----------------------------
(***************************************************************************)
(* Queries of the VAST DB backend (vastdb_store.py) beside writers: each   *)
(* bulk_read is one transaction, count one more, and join reads its left   *)
(* side in one and its right side in another.                              *)
(*                                                                         *)
(* The tables are those of the example in base.py, join: an index of rows  *)
(* to find and the payload that they lead to.  Clients store the payload of*)
(* an item before its index row; they may die at any point, and try again. *)
(***************************************************************************)
EXTENDS FilterRules

CONSTANTS Writers, Readers,
          Items,        \* [index, payload]: the two rows of an item
          On,           \* the column to join on
          FilterDicts,  \* the filters clients ask with
          JoinFilters,  \* table -> filters: those of their join() calls
          MaxWrites     \* bound: rows written

Tables == {"index", "payload"}

ASSUME QueriesAssumption ==
  /\ \A item \in Items : item["index"][On] = item.payload[On] /\ item.payload[On] # NULL
  /\ \A filters \in FilterDicts : IsFilters(filters)
  /\ \A filters \in JoinFilters : \A t \in Tables : IsFilters(filters[t])
  /\ MaxWrites \in Nat

VARIABLES
  server,   \* table -> its rows: [call, cells]
  writer,   \* the item a client is storing, and how far it is
  reader,   \* a join() call: its filters, the two sides it has read
  writes,   \* insert transactions that have begun
  before    \* history: the pairs a join would have found when it was called

vars == <<server, writer, reader, writes, before>>

Idle   == [pc |-> "idle", item |-> NULL]
NoRows == [t \in Tables |-> {}]
NoJoin == [pc |-> "idle", filters |-> NULL, rows |-> NoRows]

Init ==
  /\ server = NoRows
  /\ writer = [w \in Writers |-> Idle]
  /\ reader = [r \in Readers |-> NoJoin]
  /\ writes = 0
  /\ before = [r \in Readers |-> {}]

-----------------------------------------------------------------------------
(* The client takes up an item, a new one or one it has tried before. *)
Ingest(w, item) ==
  /\ writer[w].pc = "idle"
  /\ writer' = [writer EXCEPT ![w] = [pc |-> "payload", item |-> item]]
  /\ UNCHANGED <<server, reader, writes, before>>

(* Mutant: a row that is written again takes the place of the first. *)
InsertedOnce(w, t) ==
  [server EXCEPT ![t] = {row \in @ : row.cells # writer[w].item[t]}
                          \cup {[call |-> writes + 1, cells |-> writer[w].item[t]]}]

(* write(): one transaction that inserts the row into this table. *)
Inserted(w, t) ==
  [server EXCEPT ![t] = @ \cup {[call |-> writes + 1, cells |-> writer[w].item[t]]}]

Insert(w, t) ==
  /\ writer[w].pc = t
  /\ writes < MaxWrites
  /\ server' = Inserted(w, t)
  /\ writer' = [writer EXCEPT ![w] =
                  IF t = "payload" THEN [@ EXCEPT !.pc = "index"] ELSE Idle]
  /\ writes' = writes + 1
  /\ UNCHANGED <<reader, before>>

(* The write raises, or the client dies; the server may have committed it. *)
InsertFails(w, t) ==
  /\ writer[w].pc = t
  /\ writes < MaxWrites
  /\ server' \in {server, Inserted(w, t)}
  /\ writer' = [writer EXCEPT ![w] = Idle]
  /\ writes' = writes + 1
  /\ UNCHANGED <<reader, before>>

-----------------------------------------------------------------------------
(* bulk_read in one transaction, with the predicate pushed down. *)
BulkRead(t, filters) ==
  {row \in server[t] : Passes(Predicate(filters), row.cells)}

(* count: the metadata of the table when there are no filters, else a scan. *)
Count(t, filters) ==
  IF filters = << >> THEN Cardinality(server[t]) ELSE Cardinality(BulkRead(t, filters))

(* distinct_values: of a bulk_read that is projected to the fields. *)
DistinctValues(t, fields, filters) ==
  {[c \in fields |-> row.cells[c]] : row \in BulkRead(t, filters)}

(* What DuckDB joins, of the rows of two sides. *)
Pairs(left, right) ==
  {p \in left \X right : p[1].cells[On] = p[2].cells[On] /\ p[1].cells[On] # NULL}

(* The reference: the matching rows that the server has of a table. *)
Matching(t, filters) == {row \in server[t] : Matches(filters, row.cells)}

MatchingPairs(filters) ==
  Pairs(Matching("index", filters["index"]), Matching("payload", filters.payload))

(* Mutant: the payload is read before the index. *)
PayloadFirst == <<"payload", "index">>

(* The index is the left table of the join: left_arrow is read first. *)
ReadOrder == <<"index", "payload">>

(* join() reads one of its sides, of the rows that these filters leave. *)
ReadSide(r, t, filters) == [reader[r].rows EXCEPT ![t] = BulkRead(t, filters)]

JoinFirst(r, filters) ==
  LET t == ReadOrder[1] IN
  /\ reader[r].pc # "half"
  /\ reader' = [reader EXCEPT ![r] = [pc |-> "half", filters |-> filters,
                                      rows |-> ReadSide(r, t, filters[t])]]
  /\ before' = [before EXCEPT ![r] = MatchingPairs(filters)]
  /\ UNCHANGED <<server, writer, writes>>

(* Mutant: the filters of the other side are applied to this one. *)
JoinSecondByFirst(r) ==
  LET t == ReadOrder[2] IN
  /\ reader[r].pc = "half"
  /\ reader' = [reader EXCEPT ![r].pc = "joined",
                              ![r].rows = ReadSide(r, t, reader[r].filters[ReadOrder[1]])]
  /\ UNCHANGED <<server, writer, writes, before>>

(* The other side, in a later transaction; DuckDB joins the two. *)
JoinSecond(r) ==
  LET t == ReadOrder[2] IN
  /\ reader[r].pc = "half"
  /\ reader' = [reader EXCEPT ![r].pc = "joined",
                              ![r].rows = ReadSide(r, t, reader[r].filters[t])]
  /\ UNCHANGED <<server, writer, writes, before>>

Joined(r) == Pairs(reader[r].rows["index"], reader[r].rows.payload)

-----------------------------------------------------------------------------
Next ==
  \/ \E w \in Writers :
       \/ \E item \in Items : Ingest(w, item)
       \/ \E t \in Tables : Insert(w, t) \/ InsertFails(w, t)
  \/ \E r \in Readers :
       \/ \E filters \in JoinFilters : JoinFirst(r, filters)
       \/ JoinSecond(r)

Spec == Init /\ [][Next]_vars

-----------------------------------------------------------------------------
TypeOK ==
  /\ DOMAIN server = Tables
  /\ \A t \in Tables : \A row \in server[t] :
       row.call \in 1..writes /\ \E item \in Items : row.cells = item[t]
  /\ writer \in [Writers -> {Idle} \cup [pc : Tables, item : Items]]
  /\ reader \in [Readers -> {NoJoin} \cup
       [pc : {"half", "joined"}, filters : JoinFilters,
        rows : [Tables -> SUBSET (server["index"] \cup server.payload)]]]
  /\ \A r \in Readers, t \in Tables : reader[r].rows[t] \subseteq server[t]
  /\ DOMAIN before = Readers
  /\ writes \in 0..MaxWrites

(* base.py:195-197, 277-279: what bulk_read, distinct_values and count say, by
   the predicate and by the metadata, is what the filters stand for. *)
QueriesExact ==
  \A t \in Tables, filters \in FilterDicts :
    /\ BulkRead(t, filters) = Matching(t, filters)
    /\ Count(t, filters) = Cardinality(Matching(t, filters))
    /\ DistinctValues(t, {On}, filters) = {[c \in {On} |-> r.cells[c]] : r \in Matching(t, filters)}

(* base.py:291: a join, which is no snapshot of its two tables, has each pair
   there was when it was called, and none that the server does not have. *)
JoinBounded ==
  \A r \in Readers : reader[r].pc = "joined" =>
    /\ before[r] \subseteq Joined(r)
    /\ Joined(r) \subseteq MatchingPairs(reader[r].filters)

(* base.py:294-295, a filter index joined with its payload: a client that
   stores the payload first is never found with an index row alone, however
   writers fail, try again and write while the join is between its two sides. *)
IndexedPayloadsFound ==
  \A r \in Readers : reader[r].pc = "joined" /\ reader[r].filters.payload = << >> =>
    \A l \in reader[r].rows["index"] : \E p \in Joined(r) : p[1] = l

=============================================================================
