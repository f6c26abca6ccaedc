----------------------------- MODULE TableStore -----------------------------
(***************************************************************************)
(* What create_table and write promise their callers (base.py), without    *)
(* files, directories, instances or stale declarations: a table has an     *)
(* entry that only ever grows; a write stores one row per record; an       *)
(* overwrite replaces the rows with the same partition key values.         *)
(***************************************************************************)
EXTENDS RecordRules

CONSTANTS CreateCalls,  \* [table, decl]: the create_table calls clients make
          Declarations, \* the entries that clients declare tables with
          Inputs        \* the records clients hand to write()

VARIABLES
  catalog,  \* created table -> its entry
  rows,     \* [table, call, index, cells]: what is stored
  calls     \* how many write calls have had an effect

vars == <<catalog, rows, calls>>

Init ==
  /\ catalog = [t \in {} |-> t]
  /\ rows = {}
  /\ calls = 0

Create(call) ==
  /\ catalog' = Put(catalog, call.table, call.decl)
  /\ UNCHANGED <<rows, calls>>
  /\ call.table \in DOMAIN catalog => Serves(call.decl, catalog[call.table])

-----------------------------------------------------------------------------
(* The value a client's value stands for in a column of this type: itself,
   cast, or the JSON text of a structured one. *)
Denoted(type, v) ==
  IF type \in TextTypes /\ v \in DOMAIN Json THEN Json[v] ELSE Casts[type][v]

(* The row of a record: what it says of each column, and NULL in those of
   which it says nothing.  Keys that are no columns are dropped. *)
RowOf(record, schema) ==
  [c \in DOMAIN schema |->
     IF c \in DOMAIN record /\ record[c] # NULL
     THEN Denoted(schema[c].type, record[c]) ELSE NULL]

(* One row for each record, and no other. *)
NewRows(table, entry, input) ==
  {[table |-> table, call |-> calls + 1, index |-> k,
    cells |-> RowOf(input.records[k], entry.schema)] : k \in DOMAIN input.records}

(* Stored rows in the partitions of the new ones. *)
InTheirPartitions(new, table, entry) ==
  {r \in rows : r.table = table /\ \E s \in new :
     \A c \in Range(entry.partition_by) : r.cells[c] = s.cells[c]}

(* write() returns, or does not and leaves a part of its work done. *)
Write(table, entry, input, overwrite) ==
  LET new == NewRows(table, entry, input)
      replaced == IF overwrite /\ entry.partition_by # << >>
                  THEN InTheirPartitions(new, table, entry) ELSE {}
  IN
  /\ calls' = calls + 1
  /\ UNCHANGED catalog
  /\ \/ rows' = (rows \ replaced) \cup new
     \/ \E gone \in SUBSET replaced, stored \in SUBSET new :
          /\ stored # {} => gone = replaced
          /\ rows' = (rows \ gone) \cup stored
  /\ \A r \in new : r.cells \in Rows(entry.schema)

(* Clients write by an entry they declared and the catalogue still serves. *)
Next ==
  \/ \E call \in CreateCalls : Create(call)
  \/ \E table \in DOMAIN catalog, entry \in Declarations :
       /\ \E input \in Inputs, overwrite \in BOOLEAN :
            Write(table, entry, input, overwrite)
       /\ Serves(catalog[table], entry)

Spec == Init /\ [][Next]_vars

=============================================================================
