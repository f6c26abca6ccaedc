---------------------------- MODULE RecordRules ----------------------------
(***************************************************************************)
(* What write() makes of the records a client hands it (schema.py):        *)
(* validate_records, which turns a list of dicts or an Arrow table into a  *)
(* table of the declared schema or raises, and check_partition_fields;     *)
(* and validate_projection, for the columns a reader asks for.             *)
(*                                                                         *)
(* An input is [kind, columns, records].  The records of a list are dicts, *)
(* functions on the keys they have; those of a table (or a DataFrame) have *)
(* all its columns.  Keys need not be columns of the schema.               *)
(***************************************************************************)
EXTENDS SchemaRules, Naturals

CONSTANTS TextTypes,  \* utf8 and large_utf8
          Json,       \* a dict or list -> its JSON text
          Casts       \* type -> the values Arrow casts to it, and what to

ASSUME CastsAssumption ==
  /\ DOMAIN Casts = Types
  /\ \A t \in Types : /\ ValuesOf[t] \subseteq DOMAIN Casts[t]
                      /\ \A v \in DOMAIN Casts[t] : Casts[t][v] \in ValuesOf[t]
                      /\ \A v \in ValuesOf[t] : Casts[t][v] = v
                      /\ NULL \notin DOMAIN Casts[t]

(* The columns of the schema that the input has.  For a list, those that some
   record has: present_names. *)
Given(input, schema) ==
  DOMAIN schema \cap
    (IF input.kind = "table" THEN input.columns
     ELSE UNION {DOMAIN input.records[k] : k \in DOMAIN input.records})

(* _preprocess_list_records: dicts and lists in text columns become JSON. *)
Encoded(input, type, v) ==
  IF input.kind = "list" /\ type \in TextTypes /\ v \in DOMAIN Json THEN Json[v] ELSE v

(* The cell of one record in a column of the schema, before the cast. *)
Cell(input, k, c, field) ==
  IF c \in DOMAIN input.records[k]
  THEN Encoded(input, field.type, input.records[k][c])
  ELSE NULL

(* from_pylist takes values of the column's type, cast what Arrow can cast. *)
Castable(input, type) ==
  IF input.kind = "list" THEN ValuesOf[type] ELSE DOMAIN Casts[type]

Cast(type, v) == IF v = NULL THEN NULL ELSE Casts[type][v]

(* Mutant: a null in a required column is let through. *)
ValidNullsPass(input, schema) ==
  /\ \A c \in DOMAIN schema \ Given(input, schema) : schema[c].nullable
  /\ \A k \in DOMAIN input.records : \A c \in Given(input, schema) :
       LET v == Cell(input, k, c, schema[c]) IN
       v = NULL \/ v \in Castable(input, schema[c].type)

(* validate_records does not raise: no required column is missing, each value
   can be had in the type of its column, and no required cell is null. *)
Valid(input, schema) ==
  /\ \A c \in DOMAIN schema \ Given(input, schema) : schema[c].nullable
  /\ \A k \in DOMAIN input.records : \A c \in Given(input, schema) :
       LET v == Cell(input, k, c, schema[c]) IN
       IF v = NULL THEN schema[c].nullable ELSE v \in Castable(input, schema[c].type)

(* The rows of the Arrow table.  One that from_pylist builds with no column
   has no rows, however many records there are. *)
RowNumbers(input, schema) ==
  IF input.kind = "list" /\ Given(input, schema) = {} THEN {} ELSE DOMAIN input.records

(* Mutant: columns that the input lacks are not filled in. *)
TableRowUnfilled(input, k, schema) ==
  [c \in Given(input, schema) |->
     Cast(schema[c].type, Cell(input, k, c, schema[c]))]

(* validate_records: unknown columns dropped, missing ones NULL, values cast. *)
TableRow(input, k, schema) ==
  [c \in DOMAIN schema |->
     IF c \in Given(input, schema)
     THEN Cast(schema[c].type, Cell(input, k, c, schema[c])) ELSE NULL]

(* check_partition_fields does not raise.  Validation has put each key in the
   table already; a null is possible where the key is nullable. *)
PartitionFieldsFilled(input, entry) ==
  \A c \in Range(entry.partition_by) : \A k \in RowNumbers(input, entry.schema) :
    TableRow(input, k, entry.schema)[c] # NULL

(* validate_projection does not raise: None, or distinct columns, at least one. *)
ValidProjection(columns, schema) ==
  columns # NULL =>
    /\ columns # << >>
    /\ \A j, k \in DOMAIN columns : columns[j] = columns[k] => j = k
    /\ Range(columns) \subseteq DOMAIN schema

=============================================================================
