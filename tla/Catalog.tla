------------------------------ MODULE Catalog ------------------------------
(***************************************************************************)
(* What create_table promises its callers (base.py, create_table; README,  *)
(* "Schema evolution"): a table, once created, stays; creating it again    *)
(* either changes nothing or replaces its entry by one that still serves   *)
(* every row written under the old entry.  There are no files, instances   *)
(* or faults here.                                                         *)
(***************************************************************************)
EXTENDS SchemaRules

CONSTANTS CreateCalls,     \* [table, decl]: the create_table calls clients make
          InitialCatalogs  \* the catalogues a deployment may start from

VARIABLE catalog           \* created table -> its entry

Init == catalog \in InitialCatalogs

(* A create_table call returns; the entry is one that some call declared. *)
Create(call) ==
  /\ call.table \in DOMAIN catalog => Serves(call.decl, catalog[call.table])
  /\ catalog' = Put(catalog, call.table, call.decl)

Next == \E call \in CreateCalls : Create(call)

Spec == Init /\ [][Next]_catalog

=============================================================================
