---------------------------- MODULE FilterRules ----------------------------
(***************************************************************************)
(* A filter dict and what the backends make of it: a SQL WHERE clause with *)
(* numbered parameters (filters.py) or a VAST DB predicate                 *)
(* (vastdb_store.py, _filters_to_predicate).                               *)
(*                                                                         *)
(* A dict is a sequence of [field, cond] in insertion order.  A condition  *)
(* is a function on its operators: "equals" for a plain value, "in" for a  *)
(* list, any of the range operators.  Values are ordered, as integers.     *)
(***************************************************************************)
EXTENDS SchemaRules, Integers, SequencesExt

RangeOps == <<"gte", "gt", "lte", "lt">>

Satisfies(op, x, y) ==
  \/ op \in {"equals", "in"} /\ x = y
  \/ op = "gte" /\ x >= y
  \/ op = "gt"  /\ x > y
  \/ op = "lte" /\ x <= y
  \/ op = "lt"  /\ x < y

(* The conditions that base.py documents, Filters: one kind in each. *)
IsCondition(cond) ==
  \/ DOMAIN cond = {"equals"}
  \/ DOMAIN cond = {"in"} /\ cond["in"] \in Seq(Int)
  \/ DOMAIN cond \subseteq {"gte", "gt", "lte", "lt"}

IsFilters(filters) ==
  /\ filters \in Seq(Range(filters))
  /\ \A k \in DOMAIN filters : IsCondition(filters[k].cond)

(***************************************************************************)
(* What a filter means: a row is selected when, for each condition, its    *)
(* cell is not NULL, equals the plain value, is one of the listed ones, and*)
(* is within each bound.  A dict without an operator says nothing.         *)
(***************************************************************************)
Meets(cond, cell) ==
  \A op \in DOMAIN cond :
    /\ cell # NULL
    /\ IF op = "in" THEN \E k \in DOMAIN cond[op] : cell = cond[op][k]
                    ELSE Satisfies(op, cell, cond[op])

Matches(filters, row) ==
  \A k \in DOMAIN filters : Meets(filters[k].cond, row[filters[k].field])

-----------------------------------------------------------------------------
(* The range operators of a condition, in the order of _RANGE_OPS. *)
Emitted(cond) ==
  LET kept(k) == IF RangeOps[k] \in DOMAIN cond THEN <<RangeOps[k]>> ELSE << >>
  IN  kept(1) \o kept(2) \o kept(3) \o kept(4)

(* The values one condition appends to params. *)
Arguments(cond) ==
  IF "equals" \in DOMAIN cond THEN <<cond.equals>>
  ELSE IF "in" \in DOMAIN cond THEN cond["in"]
  ELSE [k \in DOMAIN Emitted(cond) |-> cond[Emitted(cond)[k]]]

(* Its clauses, with the numbers of their placeholders, when params has n
   values already.  An empty list gives "1=0", a clause with no placeholder. *)
Clauses(item, n) ==
  LET clause(op, at) == [field |-> item.field, op |-> op, at |-> at]
      cond == item.cond
  IN
  IF "equals" \in DOMAIN cond THEN {clause("equals", {n + 1})}
  ELSE IF "in" \in DOMAIN cond THEN {clause("in", {n + k : k \in DOMAIN cond["in"]})}
  ELSE {clause(Emitted(cond)[k], {n + k}) : k \in DOMAIN Emitted(cond)}

(* One turn of the loop over the conditions. *)
Translated(sql, item) ==
  [where  |-> sql.where \cup Clauses(item, Len(sql.params)),
   params |-> sql.params \o Arguments(item.cond)]

(* filters_to_sql: the clauses of the conjunction, and params afterwards. *)
FiltersToSql(filters, params) ==
  LET after[n \in 0..Len(filters)] ==
        IF n = 0 THEN [where |-> {}, params |-> params]
                 ELSE Translated(after[n - 1], filters[n])
  IN  after[Len(filters)]

(* A WHERE clause selects a row when each comparison is true; with NULL none
   is.  IN is true when one of its items is equal. *)
Holds(where, params, row) ==
  \A clause \in where :
    /\ row[clause.field] # NULL
    /\ \E k \in clause.at : Satisfies(clause.op, row[clause.field], params[k])

(* DuckDB binds the values to the placeholders by number, and runs a statement
   that has a value for each placeholder and a placeholder for each value. *)
Numbers(where) == UNION {clause.at : clause \in where}

Bound(where, params) == Numbers(where) = DOMAIN params

-----------------------------------------------------------------------------
(* One comparison of a predicate: the cell satisfies op with one of `with'. *)
Comparisons(item) ==
  LET cond == item.cond
      compare(op, with) == [field |-> item.field, op |-> op, with |-> with]
  IN
  IF "in" \in DOMAIN cond
  THEN {compare("in", {cond["in"][k] : k \in DOMAIN cond["in"]})}
  ELSE {compare(op, {cond[op]}) : op \in DOMAIN cond}

EmptyIn(item) == "in" \in DOMAIN item.cond /\ item.cond["in"] = << >>

(* Mutant: an empty list is skipped, as one that restricts nothing. *)
PredicateSkipsEmpty(filters) ==
  UNION {Comparisons(filters[k]) : k \in {j \in DOMAIN filters : ~ EmptyIn(filters[j])}}

(* _filters_to_predicate: the conjunction of these; but an empty list is
   returned at once, alone: the first, and which one it is tells no row. *)
Predicate(filters) ==
  IF \E k \in DOMAIN filters : EmptyIn(filters[k])
  THEN Comparisons(filters[CHOOSE k \in DOMAIN filters : EmptyIn(filters[k])])
  ELSE UNION {Comparisons(filters[k]) : k \in DOMAIN filters}

Passes(predicate, row) ==
  \A p \in predicate :
    /\ row[p.field] # NULL
    /\ \E y \in p.with : Satisfies(p.op, row[p.field], y)

=============================================================================
