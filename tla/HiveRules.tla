----------------------------- MODULE HiveRules -----------------------------
(***************************************************************************)
(* Hive partition directories (duckdb_parquet.py): the one a row is written*)
(* to, and those that a query with these filters has to open.  A directory *)
(* is a sequence of [key, name] from the table's root down.                *)
(***************************************************************************)
EXTENDS FilterRules

CONSTANTS DirName,  \* partition value -> its directory, as pyarrow spells it
          PathName, \* the same as an f-string spells it
          Pathable  \* the strings, numbers and booleans among the values

(* Where _append_records puts a row: the segments of its directory. *)
DirOf(row, keys) ==
  [k \in DOMAIN keys |-> [key |-> keys[k], name |-> DirName[row[keys[k]]]]]

(* The value of the filter on this key can be put in a path: an equality. *)
Scalars(filters, key) ==
  {filters[k].cond.equals :
     k \in {j \in DOMAIN filters : /\ filters[j].field = key
                                  /\ "equals" \in DOMAIN filters[j].cond
                                  /\ filters[j].cond.equals \in Pathable}}

(* The directory dir lies under the path that an f-string spells of these keys
   and the values they are filtered by. *)
Under(filters, keys, dir) ==
  \A k \in DOMAIN keys :
    /\ k \in DOMAIN dir
    /\ dir[k].key = keys[k]
    /\ \E v \in Scalars(filters, keys[k]) : dir[k].name = PathName[v]

(* Mutant: a key without an equality filter is left out of the path. *)
InGlobSkipping(filters, keys, dir) ==
  Under(filters, SelectSeq(keys, LAMBDA key : Scalars(filters, key) # {}), dir)

(* _parquet_glob: with an equality filter on every partition key the files
   under one directory; otherwise all files, and so without filters. *)
InGlob(filters, keys, dir) ==
  (keys # << >> /\ \A k \in DOMAIN keys : Scalars(filters, keys[k]) # {})
    => Under(filters, keys, dir)

(* The two spellings of a directory agree. *)
SpellingsAgree == \A v \in Pathable : PathName[v] = DirName[v]

=============================================================================
