------------------------- MODULE FilterRulesProofs -------------------------
(***************************************************************************)
(* The VAST predicate of a filter dict, and the SQL clause with its numbered *)
(* parameters, select the rows that the dict stands for, whatever rows and *)
(* values there are.                                                       *)
(*                                                                         *)
(*   PredicateAgrees  _filters_to_predicate (vastdb_store.py)              *)
(*   SqlAgrees        filters_to_sql (filters.py)                          *)
(***************************************************************************)
EXTENDS FilterRules, SequenceTheorems, WellFoundedInduction, TLAPS

(* A dict with an empty list stands for no row. *)
LEMMA EmptyInMatchesNothing ==
  ASSUME NEW filters, NEW row, NEW k \in DOMAIN filters, EmptyIn(filters[k])
  PROVE  ~ Matches(filters, row) /\ ~ Passes(Comparisons(filters[k]), row)
<1> DEFINE cond == filters[k].cond
<1>1. "in" \in DOMAIN cond /\ cond["in"] = << >>
  BY DEF EmptyIn
<1>2. ~ Meets(cond, row[filters[k].field])
  BY <1>1 DEF Meets
<1>3. Comparisons(filters[k]) = {[field |-> filters[k].field, op |-> "in", with |-> {}]}
  BY <1>1 DEF Comparisons
<1> QED BY <1>2, <1>3 DEF Matches, Passes

(* The comparisons of one condition hold when the cell meets it. *)
LEMMA ComparisonsMeet ==
  ASSUME NEW item, NEW row, IsCondition(item.cond)
  PROVE  Passes(Comparisons(item), row) <=> Meets(item.cond, row[item.field])
<1> DEFINE cond == item.cond
           cell == row[item.field]
<1>1. CASE "in" \in DOMAIN cond
  <2>1. DOMAIN cond = {"in"}
    BY <1>1 DEF IsCondition
  <2>2. Comparisons(item) =
          {[field |-> item.field, op |-> "in",
            with |-> {cond["in"][k] : k \in DOMAIN cond["in"]}]}
    BY <1>1 DEF Comparisons
  <2>3. Passes(Comparisons(item), row) <=>
          cell # NULL /\ \E k \in DOMAIN cond["in"] : Satisfies("in", cell, cond["in"][k])
    BY <2>2 DEF Passes
  <2>4. \A y : Satisfies("in", cell, y) <=> cell = y
    BY DEF Satisfies
  <2> QED BY <2>1, <2>3, <2>4 DEF Meets
<1>2. CASE "in" \notin DOMAIN cond
  <2> DEFINE compare(op) == [field |-> item.field, op |-> op, with |-> {cond[op]}]
             holds(p) == row[p.field] # NULL /\ \E y \in p.with : Satisfies(p.op, row[p.field], y)
  <2>1. Comparisons(item) = {compare(op) : op \in DOMAIN cond}
    BY <1>2 DEF Comparisons
  <2>4. ASSUME NEW op
        PROVE  holds(compare(op)) <=> cell # NULL /\ Satisfies(op, cell, cond[op])
    <3>1. compare(op).field = item.field /\ compare(op).op = op /\ compare(op).with = {cond[op]}
      OBVIOUS
    <3> HIDE DEF compare
    <3> QED BY <3>1
  <2>5. Passes(Comparisons(item), row) <=> \A op \in DOMAIN cond : holds(compare(op))
    <3> HIDE DEF compare
    <3> QED BY <2>1 DEF Passes
  <2>2. Passes(Comparisons(item), row) <=>
          \A op \in DOMAIN cond : cell # NULL /\ Satisfies(op, cell, cond[op])
    <3> HIDE DEF compare, holds
    <3> QED BY <2>4, <2>5
  <2>3. \A op \in DOMAIN cond : op # "in"
    BY <1>2
  <2> QED BY <2>2, <2>3 DEF Meets
<1> QED BY <1>1, <1>2

(* _filters_to_predicate: the predicate passes a row exactly when the dict
   stands for it, an empty list, an empty dict and NULL cells included. *)
THEOREM PredicateAgrees ==
  ASSUME NEW filters, NEW row, IsFilters(filters)
  PROVE  Passes(Predicate(filters), row) <=> Matches(filters, row)
<1>1. CASE \E k \in DOMAIN filters : EmptyIn(filters[k])
  <2> DEFINE first == CHOOSE k \in DOMAIN filters : EmptyIn(filters[k])
  <2>1. first \in DOMAIN filters /\ EmptyIn(filters[first])
    BY <1>1
  <2>2. Predicate(filters) = Comparisons(filters[first])
    BY <1>1 DEF Predicate
  <2> QED BY <2>1, <2>2, EmptyInMatchesNothing
<1>2. CASE ~ \E k \in DOMAIN filters : EmptyIn(filters[k])
  <2>1. Predicate(filters) = UNION {Comparisons(filters[k]) : k \in DOMAIN filters}
    BY <1>2 DEF Predicate
  <2>2. Passes(Predicate(filters), row) <=>
          \A k \in DOMAIN filters : Passes(Comparisons(filters[k]), row)
    BY <2>1 DEF Passes
  <2>3. \A k \in DOMAIN filters :
          Passes(Comparisons(filters[k]), row)
            <=> Meets(filters[k].cond, row[filters[k].field])
    BY ComparisonsMeet DEF IsFilters
  <2> QED BY <2>2, <2>3 DEF Matches
<1> QED BY <1>1, <1>2

-----------------------------------------------------------------------------
(***************************************************************************)
(* The loop of filters_to_sql.  Induction is on the number of turns, in the*)
(* form of the least one that would be wrong.                              *)
(***************************************************************************)
LEMMA LeastNatural ==
  ASSUME NEW T, T \subseteq Nat, T # {}
  PROVE  \E n \in T : \A m \in T : n <= m
<1>1. PICK n \in T : \A m \in T : ~ (<<m, n>> \in OpToRel(<, Nat))
  BY NatLessThanWellFounded, WFMin, Zenon
<1>2. \A m \in T : <<m, n>> \in Nat \X Nat
  OBVIOUS
<1>3. \A m \in T : ~ (m < n)
  BY <1>1, <1>2 DEF OpToRel
<1> QED BY <1>3

(* The turns of the loop up to the n-th, from sql. *)
AreTurns(after, filters, sql, n) ==
  after = [m \in 0..n |-> IF m = 0 THEN sql ELSE Translated(after[m - 1], filters[m])]

LEMMA TurnsExist ==
  ASSUME NEW filters, NEW sql, NEW n \in Nat
  PROVE  \E after : AreTurns(after, filters, sql, n)
<1> DEFINE Stuck == {m \in Nat : ~ \E after : AreTurns(after, filters, sql, m)}
<1>1. ASSUME Stuck # {} PROVE FALSE
  <2>1. PICK m \in Stuck : \A k \in Stuck : m <= k
    BY <1>1, LeastNatural
  <2>2. CASE m = 0
    <3> DEFINE start == [k \in 0..0 |-> sql]
    <3>1. \A k \in 0..0 : k = 0
      OBVIOUS
    <3>2. start = [k \in 0..0 |-> IF k = 0 THEN sql ELSE Translated(start[k - 1], filters[k])]
      BY <3>1
    <3> HIDE DEF start
    <3>3. AreTurns(start, filters, sql, 0)
      BY <3>2 DEF AreTurns
    <3> QED BY <2>1, <2>2, <3>3
  <2>3. CASE m # 0
    <3>1. m \in Nat \ {0} /\ m - 1 \in Nat /\ m - 1 \notin Stuck
      BY <2>1, <2>3
    <3>2. PICK before : AreTurns(before, filters, sql, m - 1)
      BY <3>1
    <3> DEFINE after == [k \in 0..m |-> IF k = m THEN Translated(before[m - 1], filters[m])
                                                 ELSE before[k]]
    <3>3. ASSUME NEW k \in 0..m
          PROVE  after[k] = IF k = 0 THEN sql ELSE Translated(after[k - 1], filters[k])
      <4>1. CASE k = m
        BY <2>3, <3>1, <4>1
      <4>2. CASE k # m
        <5>1. k \in 0..(m - 1) /\ after[k] = before[k]
          BY <3>1, <4>2
        <5>2. before[k] = IF k = 0 THEN sql ELSE Translated(before[k - 1], filters[k])
          BY <3>2, <5>1 DEF AreTurns
        <5>3. k # 0 => after[k - 1] = before[k - 1]
          BY <3>1, <4>2, <5>1
        <5> HIDE DEF after
        <5> QED BY <5>1, <5>2, <5>3
      <4> QED BY <4>1, <4>2
    <3>4. after = [k \in 0..m |-> after[k]]
      OBVIOUS
    <3> HIDE DEF after
    <3>5. AreTurns(after, filters, sql, m)
      BY <3>3, <3>4 DEF AreTurns
    <3> QED BY <2>1, <3>5
  <2> QED BY <2>2, <2>3
<1> QED BY <1>1

(* What filters_to_sql returns: the state of the loop after its last turn. *)
LEMMA SqlIsLastTurn ==
  ASSUME NEW S, NEW filters \in Seq(S), NEW params
  PROVE  \E after : /\ AreTurns(after, filters, [where |-> {}, params |-> params], Len(filters))
                    /\ FiltersToSql(filters, params) = after[Len(filters)]
<1> DEFINE start == [where |-> {}, params |-> params]
           after == CHOOSE f : AreTurns(f, filters, start, Len(filters))
<1>1. AreTurns(after, filters, start, Len(filters))
  <2> HIDE DEF start
  <2> QED BY TurnsExist
<1>2. FiltersToSql(filters, params) = after[Len(filters)]
  BY DEF FiltersToSql, AreTurns
<1> QED BY <1>1, <1>2

-----------------------------------------------------------------------------
(***************************************************************************)
(* The parameters and the clauses of one condition.                        *)
(***************************************************************************)
ValuesIn(cond) == Int \cup {cond[op] : op \in DOMAIN cond}

(* The loop over _RANGE_OPS emits each range operator that the condition has. *)
LEMMA EmittedOps ==
  ASSUME NEW cond, DOMAIN cond \subseteq {"gte", "gt", "lte", "lt"}
  PROVE  /\ Emitted(cond) \in Seq(DOMAIN cond)
         /\ \A op \in DOMAIN cond : \E k \in DOMAIN Emitted(cond) : Emitted(cond)[k] = op
<1> DEFINE kept(op) == IF op \in DOMAIN cond THEN <<op>> ELSE << >>
           a == kept("gte")
           b == kept("gt")
           c == kept("lte")
           d == kept("lt")
<1>1. ASSUME NEW op
      PROVE  /\ kept(op) \in Seq(DOMAIN cond)
             /\ op \in DOMAIN cond => op \in Range(kept(op))
  <2>1. CASE op \in DOMAIN cond
    <3>1. <<op>> \in Seq(DOMAIN cond) /\ 1 \in DOMAIN <<op>> /\ <<op>>[1] = op
      BY <2>1
    <3>2. op \in Range(<<op>>)
      BY <3>1 DEF Range
    <3> QED BY <2>1, <3>1, <3>2
  <2>2. CASE op \notin DOMAIN cond
    BY <2>2
  <2> QED BY <2>1, <2>2
<1> HIDE DEF kept
<1>2. Emitted(cond) = a \o b \o c \o d
  BY DEF Emitted, RangeOps, kept
<1>3. /\ a \in Seq(DOMAIN cond) /\ b \in Seq(DOMAIN cond)
      /\ c \in Seq(DOMAIN cond) /\ d \in Seq(DOMAIN cond)
  BY <1>1
<1>4. \A op \in DOMAIN cond : op \in Range(a) \cup Range(b) \cup Range(c) \cup Range(d)
  BY <1>1
<1> HIDE DEF a, b, c, d
<1>5. \A s, t \in Seq(DOMAIN cond) : /\ s \o t \in Seq(DOMAIN cond)
                                     /\ Range(s \o t) = Range(s) \cup Range(t)
  BY ConcatProperties, RangeConcatenation
<1> DEFINE ab == a \o b
           abc == ab \o c
           abcd == abc \o d
<1>6. /\ abcd \in Seq(DOMAIN cond)
      /\ Range(abcd) = Range(a) \cup Range(b) \cup Range(c) \cup Range(d)
  <2>1. ab \in Seq(DOMAIN cond) /\ Range(ab) = Range(a) \cup Range(b)
    BY <1>3, <1>5
  <2> HIDE DEF ab
  <2>2. abc \in Seq(DOMAIN cond) /\ Range(abc) = Range(ab) \cup Range(c)
    BY <1>3, <1>5, <2>1
  <2> HIDE DEF abc
  <2>3. abcd \in Seq(DOMAIN cond) /\ Range(abcd) = Range(abc) \cup Range(d)
    BY <1>3, <1>5, <2>2
  <2> QED BY <2>1, <2>2, <2>3
<1>8. Emitted(cond) = abcd
  BY <1>2
<1> HIDE DEF abcd
<1>7. \A op \in DOMAIN cond : op \in Range(Emitted(cond))
  BY <1>4, <1>6, <1>8
<1> QED BY <1>6, <1>7, <1>8 DEF Range

(* One condition appends its own values to params. *)
LEMMA ArgumentsListed ==
  ASSUME NEW cond, IsCondition(cond)
  PROVE  Arguments(cond) \in Seq(ValuesIn(cond))
<1>1. CASE DOMAIN cond = {"equals"}
  <2>1. Arguments(cond) = <<cond["equals"]>> /\ cond["equals"] \in ValuesIn(cond)
    BY <1>1 DEF Arguments, ValuesIn
  <2> QED BY <2>1
<1>2. CASE DOMAIN cond = {"in"} /\ cond["in"] \in Seq(Int)
  <2>1. Arguments(cond) = cond["in"] /\ Int \subseteq ValuesIn(cond)
    BY <1>2 DEF Arguments, ValuesIn
  <2> QED BY <1>2, <2>1, SeqMonotonic
<1>3. CASE DOMAIN cond \subseteq {"gte", "gt", "lte", "lt"}
  <2> DEFINE n == Len(Emitted(cond))
  <2>1. Emitted(cond) \in Seq(DOMAIN cond)
    BY <1>3, EmittedOps
  <2>2. n \in Nat /\ DOMAIN Emitted(cond) = 1..n
    BY <2>1
  <2>3. Arguments(cond) = [k \in 1..n |-> cond[Emitted(cond)[k]]]
    BY <1>3, <2>2 DEF Arguments
  <2>4. \A k \in 1..n : cond[Emitted(cond)[k]] \in ValuesIn(cond)
    BY <2>1, <2>2 DEF ValuesIn
  <2> HIDE DEF n
  <2> QED BY <2>2, <2>3, <2>4, IsASeq
<1> QED BY <1>1, <1>2, <1>3 DEF IsCondition

(* The values of a list of parameters stand in a longer one at their numbers. *)
Continues(later, params) == \A k \in DOMAIN params : later[k] = params[k]

(* The clauses of one condition hold when the cell meets it, if its values stand
   in the parameters after the n that were there before. *)
LEMMA ClausesMeet ==
  ASSUME NEW item, IsCondition(item.cond), NEW n \in Nat, NEW later, NEW row,
         \A k \in DOMAIN Arguments(item.cond) : later[n + k] = Arguments(item.cond)[k]
  PROVE  Holds(Clauses(item, n), later, row) <=> Meets(item.cond, row[item.field])
<1> DEFINE cond == item.cond
           cell == row[item.field]
           clause(op, at) == [field |-> item.field, op |-> op, at |-> at]
           holds(c) == row[c.field] # NULL /\ \E k \in c.at : Satisfies(c.op, row[c.field], later[k])
<1>0. ASSUME NEW op, NEW at
      PROVE  holds(clause(op, at)) <=>
               cell # NULL /\ \E k \in at : Satisfies(op, cell, later[k])
  <2>1. /\ clause(op, at).field = item.field /\ clause(op, at).op = op
        /\ clause(op, at).at = at
    OBVIOUS
  <2> HIDE DEF clause
  <2> QED BY <2>1
<1>1. CASE DOMAIN cond = {"equals"}
  <2>1. Clauses(item, n) = {clause("equals", {n + 1})}
    BY <1>1 DEF Clauses
  <2>2. Holds(Clauses(item, n), later, row) <=> holds(clause("equals", {n + 1}))
    <3> HIDE DEF clause
    <3> QED BY <2>1 DEF Holds
  <2>3. later[n + 1] = cond["equals"]
    <3>1. Arguments(cond) = <<cond["equals"]>>
      BY <1>1 DEF Arguments
    <3> QED BY <3>1
  <2>4. holds(clause("equals", {n + 1})) <=> cell # NULL /\ Satisfies("equals", cell, cond["equals"])
    <3> HIDE DEF clause, holds
    <3> QED BY <1>0, <2>3
  <2> QED BY <1>1, <2>2, <2>4 DEF Meets
<1>2. CASE DOMAIN cond = {"in"} /\ cond["in"] \in Seq(Int)
  <2> DEFINE at == {n + k : k \in DOMAIN cond["in"]}
  <2>1. Clauses(item, n) = {clause("in", at)}
    BY <1>2 DEF Clauses
  <2>2. Holds(Clauses(item, n), later, row) <=> holds(clause("in", at))
    <3> HIDE DEF clause, at
    <3> QED BY <2>1 DEF Holds
  <2>3. \A k \in DOMAIN cond["in"] : later[n + k] = cond["in"][k]
    <3>1. Arguments(cond) = cond["in"]
      BY <1>2 DEF Arguments
    <3> QED BY <3>1
  <2>4. holds(clause("in", at)) <=>
          cell # NULL /\ \E k \in DOMAIN cond["in"] : Satisfies("in", cell, cond["in"][k])
    <3>1. holds(clause("in", at)) <=>
            cell # NULL /\ \E k \in at : Satisfies("in", cell, later[k])
      <4> HIDE DEF clause, holds, at
      <4> QED BY <1>0
    <3> HIDE DEF clause, holds
    <3> QED BY <2>3, <3>1
  <2>5. \A y : Satisfies("in", cell, y) <=> cell = y
    BY DEF Satisfies
  <2> QED BY <1>2, <2>2, <2>4, <2>5 DEF Meets
<1>3. CASE DOMAIN cond \subseteq {"gte", "gt", "lte", "lt"}
  <2> DEFINE emitted == Emitted(cond)
  <2>1. Clauses(item, n) = {clause(emitted[k], {n + k}) : k \in DOMAIN emitted}
    BY <1>3 DEF Clauses
  <2>2. Holds(Clauses(item, n), later, row) <=>
          \A k \in DOMAIN emitted : holds(clause(emitted[k], {n + k}))
    <3> HIDE DEF clause, emitted
    <3> QED BY <2>1 DEF Holds
  <2>3. \A k \in DOMAIN emitted : later[n + k] = cond[emitted[k]]
    <3>1. Arguments(cond) = [k \in DOMAIN emitted |-> cond[emitted[k]]]
      BY <1>3 DEF Arguments
    <3> HIDE DEF emitted
    <3> QED BY <3>1
  <2>4. ASSUME NEW k \in DOMAIN emitted
        PROVE  holds(clause(emitted[k], {n + k})) <=>
                 cell # NULL /\ Satisfies(emitted[k], cell, cond[emitted[k]])
    <3> HIDE DEF clause, holds, emitted
    <3> QED BY <1>0, <2>3, <2>4
  <2>5. /\ \A op \in DOMAIN cond : \E k \in DOMAIN emitted : emitted[k] = op
        /\ \A k \in DOMAIN emitted : emitted[k] \in DOMAIN cond
    <3>1. emitted \in Seq(DOMAIN cond)
      BY <1>3, EmittedOps
    <3>2. \A op \in DOMAIN cond : \E k \in DOMAIN emitted : emitted[k] = op
      BY <1>3, EmittedOps
    <3> HIDE DEF emitted
    <3> QED BY <3>1, <3>2
  <2>6. Holds(Clauses(item, n), later, row) <=>
          \A op \in DOMAIN cond : cell # NULL /\ Satisfies(op, cell, cond[op])
    <3> HIDE DEF clause, holds, emitted
    <3> QED BY <2>2, <2>4, <2>5
  <2>7. \A op \in DOMAIN cond : op # "in"
    BY <1>3
  <2> QED BY <2>6, <2>7 DEF Meets
<1> QED BY <1>1, <1>2, <1>3 DEF IsCondition

(* They number the values that the condition appends, each of them. *)
LEMMA ClauseNumbers ==
  ASSUME NEW item, IsCondition(item.cond), NEW n \in Nat
  PROVE  Numbers(Clauses(item, n)) = {n + k : k \in DOMAIN Arguments(item.cond)}
<1> DEFINE cond == item.cond
           clause(op, at) == [field |-> item.field, op |-> op, at |-> at]
<1>0. \A op, at : clause(op, at).at = at
  OBVIOUS
<1>1. CASE DOMAIN cond = {"equals"}
  <2>1. Clauses(item, n) = {clause("equals", {n + 1})}
    BY <1>1 DEF Clauses
  <2>2. DOMAIN Arguments(cond) = {1}
    BY <1>1 DEF Arguments
  <2> HIDE DEF clause, cond
  <2>3. Numbers(Clauses(item, n)) = {n + 1}
    BY <1>0, <2>1 DEF Numbers
  <2> QED BY <2>2, <2>3 DEF cond
<1>2. CASE DOMAIN cond = {"in"} /\ cond["in"] \in Seq(Int)
  <2> DEFINE at == {n + k : k \in DOMAIN cond["in"]}
  <2>1. Clauses(item, n) = {clause("in", at)}
    BY <1>2 DEF Clauses
  <2>2. Arguments(cond) = cond["in"]
    BY <1>2 DEF Arguments
  <2> HIDE DEF clause, at
  <2>3. Numbers(Clauses(item, n)) = at
    BY <1>0, <2>1 DEF Numbers
  <2> QED BY <2>2, <2>3 DEF at
<1>3. CASE DOMAIN cond \subseteq {"gte", "gt", "lte", "lt"}
  <2> DEFINE emitted == Emitted(cond)
  <2>1. Clauses(item, n) = {clause(emitted[k], {n + k}) : k \in DOMAIN emitted}
    BY <1>3 DEF Clauses
  <2>2. DOMAIN Arguments(cond) = DOMAIN emitted
    BY <1>3 DEF Arguments
  <2> HIDE DEF clause, emitted
  <2>3. Numbers(Clauses(item, n)) = {n + k : k \in DOMAIN emitted}
    <3>1. \A c \in Clauses(item, n) : \E k \in DOMAIN emitted : c.at = {n + k}
      BY <1>0, <2>1
    <3>2. ASSUME NEW k \in DOMAIN emitted
          PROVE  \E c \in Clauses(item, n) : c.at = {n + k}
      <4>1. clause(emitted[k], {n + k}) \in Clauses(item, n)
        BY <2>1
      <4> QED BY <1>0, <4>1
    <3>3. \A x : x \in Numbers(Clauses(item, n)) <=> \E c \in Clauses(item, n) : x \in c.at
      BY DEF Numbers
    <3>4. ASSUME NEW x \in Numbers(Clauses(item, n))
          PROVE  \E k \in DOMAIN emitted : x = n + k
      <4>1. PICK c \in Clauses(item, n) : x \in c.at
        BY <3>3, <3>4
      <4>2. PICK k \in DOMAIN emitted : c.at = {n + k}
        BY <3>1
      <4> QED BY <4>1, <4>2
    <3>5. ASSUME NEW k \in DOMAIN emitted PROVE n + k \in Numbers(Clauses(item, n))
      <4>1. PICK c \in Clauses(item, n) : c.at = {n + k}
        BY <3>2
      <4> QED BY <3>3, <4>1
    <3> QED BY <3>4, <3>5
  <2> QED BY <2>2, <2>3
<1> QED BY <1>1, <1>2, <1>3 DEF IsCondition

(* One turn: the parameters before it keep their numbers, and the clauses after
   it ask for one condition more. *)
LEMMA TurnMeets ==
  ASSUME NEW V, NEW sql, sql.params \in Seq(V),
         NEW item, IsCondition(item.cond), ValuesIn(item.cond) \subseteq V
  PROVE  LET next == Translated(sql, item) IN
         /\ next.params \in Seq(V)
         /\ Continues(next.params, sql.params)
         /\ DOMAIN sql.params \subseteq DOMAIN next.params
         /\ Numbers(next.where) = Numbers(sql.where) \cup (DOMAIN next.params \ DOMAIN sql.params)
         /\ \A later : Continues(later, next.params) => Continues(later, sql.params)
         /\ \A later, row : Continues(later, next.params) =>
              (Holds(next.where, later, row) <=>
                 Holds(sql.where, later, row) /\ Meets(item.cond, row[item.field]))
<1> DEFINE next == Translated(sql, item)
           args == Arguments(item.cond)
           n == Len(sql.params)
<1>1. args \in Seq(V)
  BY ArgumentsListed, SeqMonotonic
<1>2. /\ next.params = sql.params \o args
      /\ next.where = sql.where \cup Clauses(item, n)
  BY DEF Translated
<1> HIDE DEF next, args
<1>3. /\ n \in Nat /\ DOMAIN sql.params = 1..n /\ DOMAIN args = 1..Len(args) /\ Len(args) \in Nat
      /\ next.params \in Seq(V)
      /\ DOMAIN next.params = 1..(n + Len(args))
      /\ \A k \in 1..n : next.params[k] = sql.params[k]
      /\ \A k \in 1..Len(args) : next.params[n + k] = args[k]
  BY <1>1, <1>2, ConcatProperties, LenProperties
<1> HIDE DEF n
<1>4. Continues(next.params, sql.params)
  BY <1>3 DEF Continues
<1>5. ASSUME NEW later, Continues(later, next.params)
      PROVE  /\ Continues(later, sql.params)
             /\ \A k \in DOMAIN args : later[n + k] = args[k]
  <2> DEFINE m == Len(args)
  <2>1. \A k \in DOMAIN next.params : later[k] = next.params[k]
    BY <1>5 DEF Continues
  <2>2. n \in Nat /\ m \in Nat /\ DOMAIN next.params = 1..(n + m) /\ DOMAIN args = 1..m
    BY <1>3
  <2>3. /\ \A k \in 1..n : next.params[k] = sql.params[k]
        /\ \A k \in 1..m : next.params[n + k] = args[k]
    BY <1>3
  <2> HIDE DEF m
  <2>4. \A k \in 1..n : later[k] = sql.params[k]
    BY <2>1, <2>2, <2>3
  <2>5. ASSUME NEW k \in 1..m PROVE later[n + k] = args[k]
    <3>1. n + k \in DOMAIN next.params
      BY <2>2
    <3> QED BY <2>1, <2>3, <3>1
  <2> QED BY <1>3, <2>2, <2>4, <2>5 DEF Continues
<1>6. ASSUME NEW later, NEW row, Continues(later, next.params)
      PROVE  Holds(next.where, later, row) <=>
               Holds(sql.where, later, row) /\ Meets(item.cond, row[item.field])
  <2>1. Holds(Clauses(item, n), later, row) <=> Meets(item.cond, row[item.field])
    BY <1>3, <1>5, <1>6, ClausesMeet DEF args
  <2>2. Holds(next.where, later, row) <=>
          Holds(sql.where, later, row) /\ Holds(Clauses(item, n), later, row)
    BY <1>2 DEF Holds
  <2> QED BY <2>1, <2>2
<1>8. /\ DOMAIN sql.params \subseteq DOMAIN next.params
      /\ Numbers(next.where) = Numbers(sql.where) \cup (DOMAIN next.params \ DOMAIN sql.params)
  <2> DEFINE m == Len(args)
  <2>1. Numbers(Clauses(item, n)) = {n + k : k \in 1..m}
    BY <1>3, ClauseNumbers DEF args
  <2>2. n \in Nat /\ m \in Nat /\ DOMAIN sql.params = 1..n /\ DOMAIN next.params = 1..(n + m)
    BY <1>3
  <2> HIDE DEF m
  <2>3. {n + k : k \in 1..m} = (1..(n + m)) \ (1..n)
    <3>1. ASSUME NEW x \in (1..(n + m)) \ (1..n) PROVE x \in {n + k : k \in 1..m}
      <4>1. x - n \in 1..m /\ x = n + (x - n)
        BY <2>2, <3>1
      <4> QED BY <4>1
    <3>2. ASSUME NEW k \in 1..m PROVE n + k \in (1..(n + m)) \ (1..n)
      BY <2>2
    <3> QED BY <3>1, <3>2
  <2>4. Numbers(next.where) = Numbers(sql.where) \cup Numbers(Clauses(item, n))
    BY <1>2 DEF Numbers
  <2>5. (1..n) \subseteq 1..(n + m)
    BY <2>2
  <2> QED BY <2>1, <2>2, <2>3, <2>4, <2>5
<1>7. /\ next.params \in Seq(V)
      /\ Continues(next.params, sql.params)
      /\ DOMAIN sql.params \subseteq DOMAIN next.params
      /\ Numbers(next.where) = Numbers(sql.where) \cup (DOMAIN next.params \ DOMAIN sql.params)
      /\ \A later : Continues(later, next.params) => Continues(later, sql.params)
      /\ \A later, row : Continues(later, next.params) =>
           (Holds(next.where, later, row) <=>
              Holds(sql.where, later, row) /\ Meets(item.cond, row[item.field]))
  BY <1>3, <1>4, <1>5, <1>6, <1>8
<1> QED BY <1>7 DEF next

(* The values of the parameters after the translation. *)
ValuesOfParams(filters, P) == P \cup UNION {ValuesIn(filters[k].cond) : k \in DOMAIN filters}

(* After n turns, from parameters of P, the clauses say what n conditions say,
   and number the values appended since. *)
AgreesAfter(sql, filters, params, V, n) ==
  /\ sql.params \in Seq(V)
  /\ Continues(sql.params, params)
  /\ DOMAIN params \subseteq DOMAIN sql.params
  /\ Numbers(sql.where) = DOMAIN sql.params \ DOMAIN params
  /\ \A later : Continues(later, sql.params) => Continues(later, params)
  /\ \A later, row : Continues(later, sql.params) =>
       (Holds(sql.where, later, row) <=>
          \A k \in 1..n : Meets(filters[k].cond, row[filters[k].field]))

LEMMA TurnsAgree ==
  ASSUME NEW S, NEW filters \in Seq(S), IsFilters(filters),
         NEW P, NEW params \in Seq(P), NEW after,
         AreTurns(after, filters, [where |-> {}, params |-> params], Len(filters))
  PROVE  AgreesAfter(after[Len(filters)], filters, params,
                     ValuesOfParams(filters, P), Len(filters))
<1> DEFINE V == ValuesOfParams(filters, P)
           N == Len(filters)
           Wrong == {n \in 0..N : ~ AgreesAfter(after[n], filters, params, V, n)}
<1>1. N \in Nat /\ DOMAIN filters = 1..N
  OBVIOUS
<1>2. \A n \in 0..N : after[n] = IF n = 0 THEN [where |-> {}, params |-> params]
                                 ELSE Translated(after[n - 1], filters[n])
  BY DEF AreTurns
<1> HIDE DEF N
<1>3. AgreesAfter(after[0], filters, params, V, 0)
  <2>1. after[0] = [where |-> {}, params |-> params]
    <3>1. 0 \in 0..N
      BY <1>1
    <3> QED BY <1>2, <3>1
  <2>2. after[0].params = params /\ after[0].where = {}
    BY <2>1
  <2>3. params \in Seq(V)
    <3>1. P \subseteq V
      BY DEF ValuesOfParams
    <3> HIDE DEF V
    <3> QED BY <3>1, SeqMonotonic
  <2>4. Continues(params, params)
    BY DEF Continues
  <2>5. \A later, row : Holds({}, later, row)
    BY DEF Holds
  <2>6. 1..0 = {}
    OBVIOUS
  <2>7. Numbers({}) = {}
    BY DEF Numbers
  <2> HIDE DEF V
  <2> QED BY <2>2, <2>3, <2>4, <2>5, <2>6, <2>7 DEF AgreesAfter
<1>4. ASSUME NEW n \in 1..N, AgreesAfter(after[n - 1], filters, params, V, n - 1)
      PROVE  AgreesAfter(after[n], filters, params, V, n)
  <2> DEFINE sql == after[n - 1]
             item == filters[n]
             next == Translated(sql, item)
  <2>1. after[n] = next
    BY <1>1, <1>2, <1>4
  <2>2. IsCondition(item.cond) /\ ValuesIn(item.cond) \subseteq V
    BY <1>1, <1>4 DEF IsFilters, ValuesOfParams
  <2> HIDE DEF V
  <2>3. /\ sql.params \in Seq(V)
        /\ Continues(sql.params, params)
        /\ DOMAIN params \subseteq DOMAIN sql.params
        /\ Numbers(sql.where) = DOMAIN sql.params \ DOMAIN params
        /\ \A later : Continues(later, sql.params) => Continues(later, params)
        /\ \A later, row : Continues(later, sql.params) =>
             (Holds(sql.where, later, row) <=>
                \A k \in 1..(n - 1) : Meets(filters[k].cond, row[filters[k].field]))
    BY <1>4 DEF AgreesAfter
  <2> HIDE DEF sql, item
  <2>4. /\ next.params \in Seq(V)
        /\ Continues(next.params, sql.params)
        /\ DOMAIN sql.params \subseteq DOMAIN next.params
        /\ Numbers(next.where) = Numbers(sql.where) \cup (DOMAIN next.params \ DOMAIN sql.params)
        /\ \A later : Continues(later, next.params) => Continues(later, sql.params)
        /\ \A later, row : Continues(later, next.params) =>
             (Holds(next.where, later, row) <=>
                Holds(sql.where, later, row) /\ Meets(item.cond, row[item.field]))
    BY <2>2, <2>3, TurnMeets
  <2> HIDE DEF next
  <2>5. 1..n = 1..(n - 1) \cup {n}
    BY <1>1, <1>4
  <2>6. ASSUME NEW row
        PROVE  (\A k \in 1..n : Meets(filters[k].cond, row[filters[k].field])) <=>
                 /\ \A k \in 1..(n - 1) : Meets(filters[k].cond, row[filters[k].field])
                 /\ Meets(item.cond, row[item.field])
    BY <2>5 DEF item
  <2>7. Continues(next.params, params)
    BY <2>3, <2>4
  <2>9. /\ DOMAIN params \subseteq DOMAIN next.params
        /\ Numbers(next.where) = DOMAIN next.params \ DOMAIN params
    BY <2>3, <2>4
  <2>8. AgreesAfter(next, filters, params, V, n)
    BY <2>3, <2>4, <2>6, <2>7, <2>9 DEF AgreesAfter
  <2> QED BY <2>1, <2>8
<1> HIDE DEF V
<1>5. ASSUME Wrong # {} PROVE FALSE
  <2>1. Wrong \subseteq Nat
    BY <1>1
  <2>2. PICK n \in Wrong : \A m \in Wrong : n <= m
    BY <1>5, <2>1, LeastNatural
  <2>3. n # 0
    BY <1>3, <2>2
  <2>4. n \in 1..N /\ n - 1 \in 0..N /\ n - 1 \notin Wrong
    BY <1>1, <2>2, <2>3
  <2>5. AgreesAfter(after[n - 1], filters, params, V, n - 1)
    BY <2>4
  <2> QED BY <1>4, <2>2, <2>4, <2>5
<1>6. N \in 0..N
  BY <1>1
<1> QED BY <1>5, <1>6 DEF V, N

(* filters_to_sql: with its parameters in the places that it numbers, among
   those of the caller before and of another call after, the clause selects a
   row exactly when the dict stands for it; an empty list, an empty dict and
   NULL cells included.  Its placeholders number the values it has appended,
   each of them and no other. *)
THEOREM SqlAgrees ==
  ASSUME NEW filters, IsFilters(filters), NEW P, NEW params \in Seq(P)
  PROVE  LET sql == FiltersToSql(filters, params) IN
         /\ sql.params \in Seq(ValuesOfParams(filters, P))
         /\ Continues(sql.params, params)
         /\ DOMAIN params \subseteq DOMAIN sql.params
         /\ Numbers(sql.where) = DOMAIN sql.params \ DOMAIN params
         /\ \A later, row : Continues(later, sql.params) =>
              (Holds(sql.where, later, row) <=> Matches(filters, row))
<1> DEFINE sql == FiltersToSql(filters, params)
<1>0. filters \in Seq(Range(filters))
  BY DEF IsFilters
<1>1. AgreesAfter(sql, filters, params, ValuesOfParams(filters, P), Len(filters))
  BY <1>0, SqlIsLastTurn, TurnsAgree
<1>2. DOMAIN filters = 1..Len(filters)
  BY <1>0
<1> HIDE DEF sql
<1>3. /\ sql.params \in Seq(ValuesOfParams(filters, P))
      /\ Continues(sql.params, params)
      /\ DOMAIN params \subseteq DOMAIN sql.params
      /\ Numbers(sql.where) = DOMAIN sql.params \ DOMAIN params
      /\ \A later, row : Continues(later, sql.params) =>
           (Holds(sql.where, later, row) <=> Matches(filters, row))
  BY <1>1, <1>2 DEF AgreesAfter, Matches
<1> QED BY <1>3 DEF sql

=============================================================================
