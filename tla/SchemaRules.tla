---------------------------- MODULE SchemaRules ----------------------------
(***************************************************************************)
(* The schema rules of the DuckDB+Parquet backend as pure operators:       *)
(* SchemaRegistry.check_compat and register (registry.py) and the check of *)
(* DuckDBParquetStore._prepare_schema (duckdb_parquet.py).                 *)
(*                                                                         *)
(* A schema is a function from its column names to their fields.  Column   *)
(* order is left out: check_compat compares fields by name.  A missing     *)
(* partition_by (None) and an empty one are both << >>, as norm_new and    *)
(* norm_existing make them.                                                *)
(***************************************************************************)
EXTENDS Sequences, Functions

CONSTANTS Columns,  \* column names
          Types,    \* Arrow types
          Values,   \* cell values
          ValuesOf, \* the values of each type
          NULL      \* the null cell

ASSUME ValuesAssumption ==
  /\ ValuesOf \in [Types -> SUBSET Values]
  /\ NULL \notin Values

Field  == [type : Types, nullable : BOOLEAN]
Schema == UNION {[C -> Field] : C \in SUBSET Columns}
Entry  == [schema : Schema, partition_by : Seq(Columns)]

(* f with the value v for the key k, as in the assignment f[k] = v of a dict. *)
Put(f, k, v) == [x \in DOMAIN f \cup {k} |-> IF x = k THEN v ELSE f[x]]

Removed(old, new) == DOMAIN old.schema \ DOMAIN new.schema
Added(old, new)   == DOMAIN new.schema \ DOMAIN old.schema
Kept(old, new)    == DOMAIN old.schema \cap DOMAIN new.schema

-----------------------------------------------------------------------------
(* Partition keys must be columns of the declared schema. *)
Prepared(decl) == Range(decl.partition_by) \subseteq DOMAIN decl.schema

(* Mutant: check_compat without the partition_by comparison. *)
BreakingButKeys(old, new) ==
  \/ Removed(old, new) # {}
  \/ \E c \in Kept(old, new) : new.schema[c].type # old.schema[c].type
  \/ \E c \in Added(old, new) : ~ new.schema[c].nullable

(* Mutant: check_compat without the comparison of types. *)
BreakingButTypes(old, new) ==
  \/ new.partition_by # old.partition_by
  \/ Removed(old, new) # {}
  \/ \E c \in Kept(old, new) : old.schema[c].nullable /\ ~ new.schema[c].nullable
  \/ \E c \in Added(old, new) : ~ new.schema[c].nullable

(* check_compat raises ValueError: the declaration `new' breaks `old'. *)
Breaking(old, new) ==
  \/ new.partition_by # old.partition_by
  \/ Removed(old, new) # {}
  \/ \E c \in Kept(old, new) :
        \/ new.schema[c].type # old.schema[c].type
        \/ old.schema[c].nullable /\ ~ new.schema[c].nullable
  \/ \E c \in Added(old, new) : ~ new.schema[c].nullable

(* The declaration cannot be registered in the registry reg. *)
Conflicts(reg, table, decl) ==
  table \in DOMAIN reg /\ Breaking(reg[table], decl)

(* The value check_compat returns when it does not raise. *)
Changes(reg, table, decl) ==
  table \notin DOMAIN reg \/ Added(reg[table], decl) # {}

(* register() on a declaration that does not conflict. *)
Register(reg, table, decl) ==
  IF Changes(reg, table, decl) THEN Put(reg, table, decl) ELSE reg

-----------------------------------------------------------------------------
(***************************************************************************)
(* What the rules are for.  A row of a schema gives each column a value of *)
(* its type, or NULL where the field allows it.  The entry `new' still     *)
(* serves `old' when the partition layout is the same and each row written *)
(* under old, padded with NULL for the columns it lacks, is a row of new.  *)
(***************************************************************************)
Cells(field) == ValuesOf[field.type] \cup (IF field.nullable THEN {NULL} ELSE {})

Rows(schema) ==
  {row \in [DOMAIN schema -> Values \cup {NULL}] :
      \A c \in DOMAIN schema : row[c] \in Cells(schema[c])}

Padded(row, schema) ==
  [c \in DOMAIN schema |-> IF c \in DOMAIN row THEN row[c] ELSE NULL]

Serves(new, old) ==
  /\ new.partition_by = old.partition_by
  /\ DOMAIN old.schema \subseteq DOMAIN new.schema
  /\ \A row \in Rows(old.schema) : Padded(row, new.schema) \in Rows(new.schema)

=============================================================================
