------------------------- MODULE SchemaRulesProofs -------------------------
(***************************************************************************)
(* What SchemaRegistry.check_compat and register guarantee, for every set  *)
(* of columns, types and values: the relation "still serves" is a preorder *)
(* and a declaration that check_compat accepts stands in it to the entry   *)
(* it replaces.  Conversely, when no value is of two types, a declaration  *)
(* that would serve the entry is one that check_compat accepts.            *)
(***************************************************************************)
EXTENDS SchemaRules, TLAPS

(* An entry serves itself. *)
LEMMA ServesReflexive ==
  ASSUME NEW e
  PROVE  Serves(e, e)
<1>1. ASSUME NEW row \in Rows(e.schema)
      PROVE  Padded(row, e.schema) \in Rows(e.schema)
  <2>1. row \in [DOMAIN e.schema -> Values \cup {NULL}]
    BY DEF Rows
  <2>2. Padded(row, e.schema) = row
    BY <2>1 DEF Padded
  <2> QED BY <2>2
<1> QED BY <1>1 DEF Serves

(* What serves an entry that serves another serves that other. *)
LEMMA ServesTransitive ==
  ASSUME NEW a, NEW b, NEW c, Serves(b, a), Serves(c, b)
  PROVE  Serves(c, a)
<1>1. ASSUME NEW row \in Rows(a.schema)
      PROVE  Padded(row, c.schema) \in Rows(c.schema)
  <2> DEFINE mid == Padded(row, b.schema)
  <2>1. mid \in Rows(b.schema)
    BY DEF Serves
  <2>2. Padded(mid, c.schema) \in Rows(c.schema)
    BY <2>1 DEF Serves
  <2>3. DOMAIN row = DOMAIN a.schema
    BY DEF Rows
  <2>4. DOMAIN a.schema \subseteq DOMAIN b.schema
    BY DEF Serves
  <2>5. Padded(mid, c.schema) = Padded(row, c.schema)
    BY <2>3, <2>4 DEF Padded
  <2> QED BY <2>2, <2>5
<1> QED BY <1>1 DEF Serves

(* check_compat lets through only declarations that serve the old entry:
   the Parquet files written under it stay readable, with NULL in the
   columns they lack. *)
THEOREM CompatibleServes ==
  ASSUME NEW old \in Entry, NEW new \in Entry, ~ Breaking(old, new)
  PROVE  Serves(new, old)
<1>1. DOMAIN old.schema \subseteq DOMAIN new.schema
  BY DEF Breaking, Removed
<1>2. new.partition_by = old.partition_by
  BY DEF Breaking
<1>3. ASSUME NEW row \in Rows(old.schema)
      PROVE  Padded(row, new.schema) \in Rows(new.schema)
  <2>1. /\ DOMAIN row = DOMAIN old.schema
        /\ \A c \in DOMAIN old.schema : row[c] \in Cells(old.schema[c])
        /\ \A c \in DOMAIN old.schema : row[c] \in Values \cup {NULL}
    BY DEF Rows
  <2>2. ASSUME NEW c \in DOMAIN new.schema
        PROVE  /\ Padded(row, new.schema)[c] \in Cells(new.schema[c])
               /\ Padded(row, new.schema)[c] \in Values \cup {NULL}
    <3>1. CASE c \in DOMAIN old.schema
      <4>1. /\ new.schema[c].type = old.schema[c].type
            /\ old.schema[c].nullable => new.schema[c].nullable
        BY <3>1 DEF Breaking, Kept
      <4>2. Padded(row, new.schema)[c] = row[c]
        BY <2>1, <3>1 DEF Padded
      <4> QED BY <2>1, <3>1, <4>1, <4>2 DEF Cells
    <3>2. CASE c \notin DOMAIN old.schema
      <4>1. new.schema[c].nullable
        BY <3>2 DEF Breaking, Added
      <4>2. Padded(row, new.schema)[c] = NULL
        BY <2>1, <3>2 DEF Padded
      <4> QED BY <4>1, <4>2 DEF Cells
    <3> QED BY <3>1, <3>2
  <2>3. Padded(row, new.schema) \in [DOMAIN new.schema -> Values \cup {NULL}]
    BY <2>2 DEF Padded
  <2> QED BY <2>2, <2>3 DEF Rows
<1> QED BY <1>1, <1>2, <1>3 DEF Serves

(* Every type has values, and no value is of two. *)
TypesApart ==
  /\ \A type \in Types : ValuesOf[type] # {}
  /\ \A one, other \in Types : ValuesOf[one] \cap ValuesOf[other] # {} => one = other

(* Then every schema has a row without NULL. *)
LEMMA FullRow ==
  ASSUME TypesApart, NEW schema \in Schema
  PROVE  \E row \in Rows(schema) : \A c \in DOMAIN schema : row[c] \in ValuesOf[schema[c].type]
<1> DEFINE row == [c \in DOMAIN schema |-> CHOOSE v : v \in ValuesOf[schema[c].type]]
<1>1. \A c \in DOMAIN schema : schema[c].type \in Types
  <2>1. PICK C \in SUBSET Columns : schema \in [C -> Field]
    BY DEF Schema
  <2> QED BY <2>1 DEF Field
<1>2. \A c \in DOMAIN schema :
        row[c] \in ValuesOf[schema[c].type] /\ ValuesOf[schema[c].type] \subseteq Values
  BY <1>1, ValuesAssumption DEF TypesApart
<1>3. row \in Rows(schema)
  BY <1>2 DEF Rows, Cells
<1> QED BY <1>2, <1>3

(* check_compat is exact: it refuses no declaration that would serve the old
   entry.  Each thing that it rejects is met by some row. *)
THEOREM ServesCompatible ==
  ASSUME TypesApart, NEW old \in Entry, NEW new \in Entry, Serves(new, old)
  PROVE  ~ Breaking(old, new)
<1>1. /\ new.partition_by = old.partition_by
      /\ DOMAIN old.schema \subseteq DOMAIN new.schema
      /\ \A row \in Rows(old.schema) : Padded(row, new.schema) \in Rows(new.schema)
  BY DEF Serves
<1>2. PICK row \in Rows(old.schema) :
        \A c \in DOMAIN old.schema : row[c] \in ValuesOf[old.schema[c].type]
  BY FullRow DEF Entry
<1>3. ASSUME NEW C \in SUBSET Columns, NEW schema \in [C -> Field], NEW c \in DOMAIN schema
      PROVE  schema[c].type \in Types /\ schema[c].nullable \in BOOLEAN
  BY DEF Field
<1>4. /\ \A c \in DOMAIN old.schema : old.schema[c].type \in Types
      /\ \A c \in DOMAIN new.schema : new.schema[c].type \in Types
  BY <1>3 DEF Entry, Schema
<1>5. ASSUME NEW r \in Rows(old.schema), NEW c \in DOMAIN old.schema
      PROVE  r[c] \in Cells(new.schema[c])
  <2>1. Padded(r, new.schema)[c] \in Cells(new.schema[c])
    BY <1>1, <1>5 DEF Rows
  <2>2. c \in DOMAIN r /\ c \in DOMAIN new.schema
    BY <1>1, <1>5 DEF Rows
  <2> QED BY <2>1, <2>2 DEF Padded
<1>6. ASSUME NEW c \in DOMAIN old.schema
      PROVE  new.schema[c].type = old.schema[c].type
  <2>1. row[c] \in ValuesOf[old.schema[c].type] /\ row[c] \in Cells(new.schema[c])
    BY <1>2, <1>5, <1>6
  <2>2. old.schema[c].type \in Types /\ new.schema[c].type \in Types
    BY <1>1, <1>4, <1>6
  <2>3. row[c] \in ValuesOf[new.schema[c].type]
    BY <2>1, <2>2, ValuesAssumption DEF Cells
  <2> QED BY <2>1, <2>2, <2>3 DEF TypesApart
<1>7. ASSUME NEW c \in DOMAIN old.schema, old.schema[c].nullable
      PROVE  new.schema[c].nullable
  <2> DEFINE hole == [row EXCEPT ![c] = NULL]
  <2>1. hole \in Rows(old.schema)
    BY <1>7 DEF Rows, Cells
  <2>2. hole[c] = NULL
    BY <1>7 DEF Rows
  <2> HIDE DEF hole
  <2>3. NULL \in Cells(new.schema[c])
    BY <1>5, <1>7, <2>1, <2>2
  <2>4. NULL \notin ValuesOf[new.schema[c].type]
    BY <1>1, <1>4, <1>7, ValuesAssumption
  <2> QED BY <2>3, <2>4 DEF Cells
<1>8. ASSUME NEW c \in DOMAIN new.schema \ DOMAIN old.schema
      PROVE  new.schema[c].nullable
  <2>1. Padded(row, new.schema)[c] \in Cells(new.schema[c])
    BY <1>1, <1>8 DEF Rows
  <2>2. Padded(row, new.schema)[c] = NULL
    BY <1>8 DEF Padded, Rows
  <2>3. NULL \notin ValuesOf[new.schema[c].type]
    BY <1>4, <1>8, ValuesAssumption
  <2> QED BY <2>1, <2>2, <2>3 DEF Cells
<1> QED BY <1>1, <1>6, <1>7, <1>8 DEF Breaking, Removed, Added, Kept

(* register() leaves an entry that serves whatever it found, and takes any
   new entry from the declaration. *)
THEOREM RegisterServes ==
  ASSUME NEW reg, NEW table, NEW decl \in Entry,
         \A t \in DOMAIN reg : reg[t] \in Entry,
         ~ Conflicts(reg, table, decl)
  PROVE  LET after == Register(reg, table, decl) IN
         /\ DOMAIN after = DOMAIN reg \cup {table}
         /\ \A t \in DOMAIN reg : Serves(after[t], reg[t])
         /\ \A t \in DOMAIN after :
              \/ t \in DOMAIN reg /\ after[t] = reg[t]
              \/ t = table /\ after[t] = decl
<1>1. CASE Changes(reg, table, decl)
  <2>1. Register(reg, table, decl) = Put(reg, table, decl)
    BY <1>1 DEF Register
  <2>2. table \in DOMAIN reg => Serves(decl, reg[table])
    BY CompatibleServes DEF Conflicts
  <2> QED BY <2>1, <2>2, ServesReflexive DEF Put
<1>2. CASE ~ Changes(reg, table, decl)
  <2>1. Register(reg, table, decl) = reg /\ table \in DOMAIN reg
    BY <1>2 DEF Register, Changes
  <2> QED BY <2>1, ServesReflexive
<1> QED BY <1>1, <1>2

=============================================================================
