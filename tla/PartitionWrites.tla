-------------------------- MODULE PartitionWrites --------------------------
(***************************************************************************)
(* What write() promises callers that share a partitioned table (base.py), *)
(* without files, directories, listings or faults.  A row appears only as  *)
(* one of a call at work, once.  A row vanishes only from a partition that *)
(* a call at work replaces, and only before that call has stored any.  A   *)
(* call may fail at any time; when it returns, of the partitions it had to *)
(* itself, its rows are there, and nothing that it replaced.               *)
(*                                                                         *)
(* The rows of one call in one partition are one value, <<partition, call>>*)
(***************************************************************************)
EXTENDS Naturals

CONSTANTS Writers, Partitions

VARIABLES
  rows,  \* what a query finds: <<partition, call>>
  work,  \* each writer's call in progress; own: the partitions it has to itself
  owed,  \* rows of calls that have returned, and that none has since replaced
  calls  \* how many calls have begun

vars == <<rows, work, owed, calls>>

NoCall == [call |-> 0, parts |-> {}, replaces |-> FALSE, own |-> {}]

AtWork(w) == work[w].call # 0

Init ==
  /\ rows = {}
  /\ work = [w \in Writers |-> NoCall]
  /\ owed = {}
  /\ calls = 0

(* Two calls are in each other's way in a partition when one replaces it. *)
Rivals(w, replaces) == {v \in Writers \ {w} : AtWork(v) /\ (replaces \/ work[v].replaces)}

Begin(w, parts, replaces) ==
  /\ ~ AtWork(w)
  /\ calls' = calls + 1
  /\ work' = [v \in Writers |->
       IF v = w
       THEN [call |-> calls + 1, parts |-> parts, replaces |-> replaces,
             own |-> parts \ UNION {work[u].parts : u \in Rivals(w, replaces)}]
       ELSE IF replaces \/ work[v].replaces
            THEN [work[v] EXCEPT !.own = @ \ parts] ELSE work[v]]
  /\ owed' = {o \in owed : ~ (replaces /\ o[1] \in parts)}
  /\ UNCHANGED rows

(* Replaced rows go one by one, before the call has stored any of its own. *)
Remove(w) ==
  /\ AtWork(w) /\ work[w].replaces
  /\ \A r \in rows : r[2] # work[w].call
  /\ \E r \in rows : r[1] \in work[w].parts /\ rows' = rows \ {r}
  /\ UNCHANGED <<work, owed, calls>>

(* None is stored while something is there that the call replaces, in the
   partitions it has to itself. *)
Store(w, p) ==
  /\ AtWork(w) /\ p \in work[w].parts
  /\ <<p, work[w].call>> \notin rows
  /\ work[w].replaces =>
       \A r \in rows : r[1] \in work[w].own => r[2] = work[w].call
  /\ rows' = rows \cup {<<p, work[w].call>>}
  /\ UNCHANGED <<work, owed, calls>>

Return(w) ==
  /\ AtWork(w)
  /\ \A p \in work[w].own : <<p, work[w].call>> \in rows
  /\ work[w].replaces =>
       \A r \in rows : r[1] \in work[w].own => r[2] = work[w].call
  /\ owed' = owed \cup {<<p, work[w].call>> : p \in work[w].own}
  /\ work' = [work EXCEPT ![w] = NoCall]
  /\ UNCHANGED <<rows, calls>>

Fail(w) ==
  /\ AtWork(w)
  /\ work' = [work EXCEPT ![w] = NoCall]
  /\ UNCHANGED <<rows, owed, calls>>

Next ==
  \E w \in Writers :
    \/ \E parts \in SUBSET Partitions, replaces \in BOOLEAN : Begin(w, parts, replaces)
    \/ \E p \in Partitions : Store(w, p)
    \/ Remove(w) \/ Return(w) \/ Fail(w)

Spec == Init /\ [][Next]_vars

=============================================================================
