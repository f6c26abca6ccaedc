----------------------- MODULE PartitionWritesProofs -----------------------
(***************************************************************************)
(* What PartitionWrites promises is worth having: the rows of a call that  *)
(* has returned are found until a call replaces their partition.           *)
(*                                                                         *)
(*   OwedStay         Spec => [](owed \subseteq rows)                      *)
(***************************************************************************)
EXTENDS PartitionWrites, TLAPS

Call == [call : Nat, parts : SUBSET Partitions, replaces : BOOLEAN, own : SUBSET Partitions]

TypeOK == work \in [Writers -> Call] /\ calls \in Nat

(* No call replaces what another has to itself. *)
OwnInv ==
  \A v, w \in Writers : v # w /\ AtWork(v) /\ AtWork(w) /\ work[w].replaces =>
    work[v].own \cap work[w].parts = {}

(* What is owed no call at work replaces. *)
OwedInv ==
  \A o \in owed : \A w \in Writers :
    AtWork(w) /\ work[w].replaces => o[1] \notin work[w].parts

Inv == TypeOK /\ OwnInv /\ OwedInv /\ owed \subseteq rows

LEMMA NoCallType == NoCall \in Call /\ NoCall.call = 0
BY DEF NoCall, Call

LEMMA BeginKeeps ==
  ASSUME Inv, NEW w \in Writers, NEW parts \in SUBSET Partitions,
         NEW replaces \in BOOLEAN, Begin(w, parts, replaces)
  PROVE  Inv'
<1> DEFINE theirs == UNION {work[u].parts : u \in Rivals(w, replaces)}
           new == [call |-> calls + 1, parts |-> parts, replaces |-> replaces,
                   own |-> parts \ theirs]
<1>1. /\ work' = [v \in Writers |->
            IF v = w THEN new
            ELSE IF replaces \/ work[v].replaces
                 THEN [work[v] EXCEPT !.own = @ \ parts] ELSE work[v]]
      /\ calls' = calls + 1
      /\ owed' = {o \in owed : ~ (replaces /\ o[1] \in parts)}
      /\ rows' = rows
  BY DEF Begin
<1>2. \A u \in Writers \ {w} :
        AtWork(u) /\ (replaces \/ work[u].replaces) => work[u].parts \subseteq theirs
  BY DEF Rivals
<1> HIDE DEF theirs
<1>3. calls \in Nat /\ \A v \in Writers : work[v] \in Call
  BY DEF Inv, TypeOK
<1>4. /\ new \in Call /\ new.parts = parts /\ new.replaces = replaces
      /\ new.own = parts \ theirs
  BY <1>3 DEF Call
<1> HIDE DEF new
<1>5. work'[w] = new
  BY <1>1
<1>6. ASSUME NEW v \in Writers \ {w}
      PROVE  /\ work'[v] \in Call /\ work'[v].call = work[v].call
             /\ work'[v].parts = work[v].parts /\ work'[v].replaces = work[v].replaces
             /\ work'[v].own \subseteq work[v].own
             /\ replaces \/ work[v].replaces => work'[v].own \cap parts = {}
  <2>1. work'[v] = IF replaces \/ work[v].replaces
                   THEN [work[v] EXCEPT !.own = @ \ parts] ELSE work[v]
    BY <1>1
  <2> QED BY <1>3, <2>1 DEF Call
<1>7. TypeOK'
  <2>1. \A v \in Writers : work'[v] \in Call
    BY <1>4, <1>5, <1>6
  <2>2. work' = [v \in Writers |-> work'[v]]
    BY <1>1
  <2> QED BY <1>1, <1>3, <2>1, <2>2 DEF TypeOK
<1>8. OwnInv'
  <2> SUFFICES ASSUME NEW u \in Writers, NEW v \in Writers, u # v,
                      AtWork(u)', AtWork(v)', work'[v].replaces
               PROVE  work'[u].own \cap work'[v].parts = {}
    BY DEF OwnInv, AtWork
  <2>1. CASE u = w
    BY <1>2, <1>4, <1>5, <1>6, <2>1 DEF AtWork
  <2>2. CASE v = w
    BY <1>4, <1>5, <1>6, <2>2
  <2>3. CASE u # w /\ v # w
    BY <1>6, <2>3 DEF Inv, OwnInv, AtWork
  <2> QED BY <2>1, <2>2, <2>3
<1>9. OwedInv'
  <2> SUFFICES ASSUME NEW o \in owed', NEW v \in Writers, AtWork(v)', work'[v].replaces
               PROVE  o[1] \notin work'[v].parts
    BY DEF OwedInv
  <2>1. CASE v = w
    BY <1>1, <1>4, <1>5, <2>1
  <2>2. CASE v # w
    BY <1>1, <1>6, <2>2 DEF Inv, OwedInv, AtWork
  <2> QED BY <2>1, <2>2
<1> QED BY <1>1, <1>7, <1>8, <1>9 DEF Inv

(* A call that ends, whether or not its rows are owed from then on. *)
LEMMA EndKeeps ==
  ASSUME Inv, NEW w \in Writers, AtWork(w), work' = [work EXCEPT ![w] = NoCall],
         UNCHANGED <<rows, calls>>,
         \A o \in owed' : \/ o \in owed
                          \/ o \in rows /\ o[1] \in work[w].own
  PROVE  Inv'
<1>1. /\ work'[w] = NoCall /\ \A v \in Writers : v # w => work'[v] = work[v]
      /\ TypeOK'
  BY NoCallType DEF Inv, TypeOK
<1>2. \A v \in Writers : AtWork(v)' => v # w /\ AtWork(v) /\ work'[v] = work[v]
  BY <1>1, NoCallType DEF AtWork
<1>3. OwnInv'
  BY <1>2 DEF Inv, OwnInv
<1>4. OwedInv'
  BY <1>2 DEF Inv, OwnInv, OwedInv
<1> QED BY <1>1, <1>3, <1>4 DEF Inv

LEMMA NextKeeps == Inv /\ [Next]_vars => Inv'
<1> SUFFICES ASSUME Inv, [Next]_vars PROVE Inv'
  OBVIOUS
<1>1. ASSUME NEW w \in Writers, NEW p \in Partitions, Store(w, p) PROVE Inv'
  BY <1>1 DEF Store, Inv, TypeOK, OwnInv, OwedInv, AtWork
<1>2. ASSUME NEW w \in Writers, Remove(w) PROVE Inv'
  <2>1. PICK r \in rows : r[1] \in work[w].parts /\ rows' = rows \ {r}
    BY <1>2 DEF Remove
  <2>2. r \notin owed /\ UNCHANGED <<work, owed, calls>>
    BY <1>2, <2>1 DEF Remove, Inv, OwedInv
  <2> QED BY <2>1, <2>2 DEF Inv, TypeOK, OwnInv, OwedInv, AtWork
<1>3. ASSUME NEW w \in Writers, Return(w) PROVE Inv'
  <2>1. /\ AtWork(w) /\ work' = [work EXCEPT ![w] = NoCall] /\ UNCHANGED <<rows, calls>>
        /\ \A p \in work[w].own : <<p, work[w].call>> \in rows
        /\ owed' = owed \cup {<<p, work[w].call>> : p \in work[w].own}
    BY <1>3 DEF Return
  <2>2. \A o \in owed' : o \in owed \/ (o \in rows /\ o[1] \in work[w].own)
    BY <2>1
  <2> QED BY <2>1, <2>2, EndKeeps
<1>4. ASSUME NEW w \in Writers, Fail(w) PROVE Inv'
  BY <1>4, EndKeeps DEF Fail
<1>5. CASE UNCHANGED vars
  BY <1>5 DEF vars, Inv, TypeOK, OwnInv, OwedInv, AtWork
<1> QED BY <1>1, <1>2, <1>3, <1>4, <1>5, BeginKeeps DEF Next

(* However calls overlap and fail, the rows of one that has returned, in the
   partitions it had to itself, are found until a call replaces them: the
   contract of write() in base.py:169-171 is enough for that. *)
THEOREM OwedStay == Spec => [](owed \subseteq rows)
<1>1. Init => Inv
  BY NoCallType DEF Init, Inv, TypeOK, OwnInv, OwedInv, AtWork
<1>2. Inv /\ [Next]_vars => Inv'
  BY NextKeeps
<1>3. Inv => owed \subseteq rows
  BY DEF Inv
<1> QED BY <1>1, <1>2, <1>3, PTL DEF Spec

=============================================================================
