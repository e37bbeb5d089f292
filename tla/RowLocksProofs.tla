--------------------------- MODULE RowLocksProofs ---------------------------
(***************************************************************************)
(* Proofs about RowLocks, for any number of sessions, videos and job       *)
(* types: the locks are those of calls in progress, deadlocks are with a   *)
(* DELETE only, and the interleaved statements implement VideoStore.       *)
(***************************************************************************)
EXTENDS RowLocks, VideoStoreProofs, FiniteSetTheorems

TwoTable == {"complete", "fail", "reset"}

Operation == {"none", "claim", "delete"} \cup TwoTable

\* The rows the call of s is about, and those it has still to lock.
RowsOf(s) ==
    {row \in Row :
        \/ op[s] = "delete"
        \/ op[s] \in {"claim"} \cup TwoTable /\ row = type[s]
        \/ op[s] \in TwoTable /\ row = "video"}

Ahead(s) == Range(todo[s])

NoDuplicates(seq) == \A i, j \in 1 .. Len(seq) : seq[i] = seq[j] => i = j

\* How far a call has come with its plan.
FollowsPlan(s) ==
    /\ op[s] = "none" => todo[s] = <<>>
    /\ op[s] = "claim" => todo[s] \in {<<type[s]>>, <<>>}
    /\ op[s] \in TwoTable => todo[s] \in {<<type[s], "video">>, <<"video">>, <<>>}
    /\ op[s] = "delete" =>
          /\ NoDuplicates(todo[s])
          /\ "video" \in Ahead(s) => Head(todo[s]) = "video" /\ Ahead(s) = Row

\* The rows behind it are locked, unless they are gone and nobody looked.
LocksWhatIsBehind(s) ==
    \A row \in Row :
        /\ Holds(s, row) => row \in RowsOf(s) \ Ahead(s) /\ target[s] \in rows
        /\ row \in RowsOf(s) \ Ahead(s) =>
              Holds(s, row) \/ (op[s] \in {"complete", "fail"} /\ target[s] \notin rows)

\* A deleted row stays deleted for the calls that know its id.
KnowsItsRow(s) == op[s] \in {"claim"} \cup TwoTable => target[s] \in issued

LocksOwnTarget(s) == \A v \in Videos, row \in Row : lock[v][row] = s => v = target[s]

LockTypes ==
    /\ op \in [Sessions -> Operation]
    /\ target \in [Sessions -> Videos]
    /\ type \in [Sessions -> JobTypes]
    /\ todo \in [Sessions -> Seq(Row)]
    /\ lock \in [Videos -> [Row -> Sessions \cup {Nobody}]]
    /\ issued \subseteq Videos
    /\ rows \subseteq issued

SessionOK(s) ==
    FollowsPlan(s) /\ LocksWhatIsBehind(s) /\ KnowsItsRow(s) /\ LocksOwnTarget(s)

LockInv == LockTypes /\ \A s \in Sessions : SessionOK(s)

\* The claims in progress are counted in what Begin allows.
ClaimsInBudget ==
    \A v \in Videos, t \in JobTypes :
        attemptCount[v][t] + Cardinality(Claiming(v, t)) <= MaxClaims

RowInv == StoreInv /\ LockInv /\ ClaimsInBudget

-----------------------------------------------------------------------------
(***************************************************************************)
(* Rows and plans.                                                         *)
(***************************************************************************)

LEMMA RowFacts ==
  /\ "video" \notin JobTypes /\ "video" \in Row /\ JobTypes \subseteq Row
  /\ IsFiniteSet(JobTypes)
  /\ AnyVideo \in Videos /\ AnyType \in JobTypes
<1>1. IsFiniteSet(AllJobTypes)
  <2>1. IsFiniteSet({}) /\ IsFiniteSet({} \cup {"hls"})
    BY FS_EmptySet, FS_AddElement, Zenon
  <2>2. IsFiniteSet({} \cup {"hls"} \cup {"thumbnail"})
    BY <2>1, FS_AddElement, Zenon
  <2>3. IsFiniteSet({} \cup {"hls"} \cup {"thumbnail"} \cup {"caption"})
    BY <2>2, FS_AddElement, Zenon
  <2>4. AllJobTypes = {} \cup {"hls"} \cup {"thumbnail"} \cup {"caption"}
    BY DEF AllJobTypes
  <2> QED  BY <2>3, <2>4
<1>2. IsFiniteSet(JobTypes)
  BY <1>1, JobTypesAssumption, FS_Subset
<1>3. "video" \notin AllJobTypes
  BY DEF AllJobTypes
<1> QED
  BY <1>2, <1>3, JobTypesAssumption, SessionAssumption DEF Row, AnyVideo, AnyType

LEMMA ShortPlans ==
  /\ Range(<<>>) = {}
  /\ \A a : Range(<<a>>) = {a}
  /\ \A a, b : Range(<<a, b>>) = {a, b}
  /\ \A a : Head(<<a>>) = a /\ Tail(<<a>>) = <<>> /\ <<a>> # <<>>
  /\ \A a, b : Head(<<a, b>>) = a /\ Tail(<<a, b>>) = <<b>>
<1>1. /\ Range(<<>>) = {}
      /\ \A a : Range(<<a>>) = {a}
      /\ \A a, b : Range(<<a, b>>) = {a, b}
  BY DEF Range
<1>2. \A a : Head(<<a>>) = a /\ Tail(<<a>>) = <<>> /\ <<a>> # <<>>
  OBVIOUS
<1>3. \A a, b : Head(<<a, b>>) = a /\ Tail(<<a, b>>) = <<b>>
  OBVIOUS
<1> QED  BY <1>1, <1>2, <1>3

LEMMA HeadAndTail ==
  ASSUME NEW S, NEW q \in Seq(S), q # <<>>
  PROVE  /\ Head(q) \in S /\ Tail(q) \in Seq(S)
         /\ Range(q) = {Head(q)} \cup Range(Tail(q))
         /\ NoDuplicates(q) => NoDuplicates(Tail(q)) /\ Head(q) \notin Range(Tail(q))
<1>1. /\ Len(q) \in Nat \ {0} /\ DOMAIN q = 1 .. Len(q) /\ Head(q) = q[1]
      /\ Tail(q) \in Seq(S) /\ Len(Tail(q)) = Len(q) - 1
      /\ DOMAIN Tail(q) = 1 .. Len(q) - 1
      /\ \A i \in 1 .. Len(q) - 1 : Tail(q)[i] = q[i + 1]
  OBVIOUS
<1>2. Range(q) = {Head(q)} \cup Range(Tail(q))
  <2>1. ASSUME NEW x \in Range(q) PROVE x \in {Head(q)} \cup Range(Tail(q))
    <3>1. PICK i \in 1 .. Len(q) : x = q[i]
      BY <1>1 DEF Range
    <3>2. i = 1 \/ (i - 1 \in 1 .. Len(q) - 1 /\ q[i] = Tail(q)[i - 1])
      BY <1>1
    <3> QED  BY <1>1, <3>1, <3>2 DEF Range
  <2>2. ASSUME NEW x \in Range(Tail(q)) PROVE x \in Range(q)
    BY <1>1 DEF Range
  <2>3. Head(q) \in Range(q)
    BY <1>1 DEF Range
  <2> QED  BY <2>1, <2>2, <2>3
<1>3. ASSUME NoDuplicates(q) PROVE NoDuplicates(Tail(q)) /\ Head(q) \notin Range(Tail(q))
  <2>1. \A i \in 1 .. Len(q) - 1 : i + 1 \in 1 .. Len(q) /\ i + 1 # 1
    BY <1>1
  <2> QED  BY <1>1, <1>3, <2>1 DEF NoDuplicates, Range
<1> QED  BY <1>1, <1>2, <1>3

\* The cascade visits every job row once.
LEMMA CascadePlan ==
  ASSUME NEW c \in CascadeOrders
  PROVE  LET plan == <<"video">> \o c
         IN  /\ plan \in Seq(Row) /\ plan # <<>>
             /\ Head(plan) = "video" /\ Range(plan) = Row /\ NoDuplicates(plan)
<1> DEFINE n == Cardinality(JobTypes)
           plan == <<"video">> \o c
<1>1. n \in Nat /\ IsFiniteSet(1 .. n) /\ Cardinality(1 .. n) = n
  <2>1. n \in Nat
    BY RowFacts, FS_CardinalityType
  <2>2. IsFiniteSet(1 .. n) /\ Cardinality(1 .. n) = IF 1 <= n THEN n - 1 + 1 ELSE 0
    BY <2>1, FS_Interval
  <2> HIDE DEF n
  <2> QED  BY <2>1, <2>2
<1>2. c \in [1 .. n -> JobTypes] /\ Range(c) = JobTypes
  BY DEF CascadeOrders
<1> HIDE DEF n
<1>3. c \in Surjection(1 .. n, JobTypes)
  BY <1>2 DEF Surjection, Range
<1>4. c \in Injection(1 .. n, JobTypes)
  <2>1. Cardinality(1 .. n) = Cardinality(JobTypes)
    BY <1>1 DEF n
  <2> QED  BY <1>1, <1>3, <2>1, FS_SurjSameCardinalityImpliesInj
<1>5. c \in Seq(JobTypes) /\ Len(c) = n
  BY <1>1, <1>2
<1>6. /\ plan \in Seq(Row) /\ Len(plan) = n + 1 /\ plan[1] = "video"
      /\ \A i \in 1 .. n : plan[i + 1] = c[i]
      /\ plan # <<>> /\ Head(plan) = "video" /\ Tail(plan) = c
  <2>1. c \in Seq(Row) /\ <<"video">> \in Seq(Row)
    BY <1>5, RowFacts
  <2> QED  BY <1>1, <1>5, <2>1
<1>7. Range(plan) = Row
  <2> HIDE DEF plan
  <2> QED  BY <1>2, <1>6, HeadAndTail DEF Row
<1>8. NoDuplicates(plan)
  <2> SUFFICES ASSUME NEW i \in 1 .. n + 1, NEW j \in 1 .. n + 1, plan[i] = plan[j]
               PROVE  i = j
    BY <1>6 DEF NoDuplicates
  <2>1. \A k \in 1 .. n + 1 : k = 1 \/ (k - 1 \in 1 .. n /\ plan[k] = c[k - 1])
    BY <1>1, <1>6
  <2>2. \A k \in 1 .. n : c[k] # "video"
    BY <1>2, RowFacts
  <2>3. \A k, l \in 1 .. n : c[k] = c[l] => k = l
    BY <1>2, <1>4 DEF Injection, IsInjective
  <2>4. plan[1] = "video"
    BY <1>6
  <2> HIDE DEF plan
  <2>5. CASE i = 1 \/ j = 1
    BY <2>1, <2>2, <2>4, <2>5
  <2>6. CASE i # 1 /\ j # 1
    <3>1. i - 1 \in 1 .. n /\ j - 1 \in 1 .. n /\ c[i - 1] = c[j - 1]
      BY <2>1, <2>6
    <3>2. i - 1 = j - 1
      BY <2>3, <3>1
    <3> QED  BY <1>1, <3>2
  <2> QED  BY <2>5, <2>6
<1> QED  BY <1>6, <1>7, <1>8

-----------------------------------------------------------------------------
(***************************************************************************)
(* The locks.                                                              *)
(***************************************************************************)

\* A session nobody else's step touches.
LEMMA OthersKeep ==
  ASSUME LockTypes, NEW q \in Sessions, SessionOK(q),
         op'[q] = op[q], target'[q] = target[q], type'[q] = type[q], todo'[q] = todo[q],
         \A v \in Videos, row \in Row : lock'[v][row] = q <=> lock[v][row] = q,
         \A row \in Row : Holds(q, row) => target[q] \in rows',
         issued \subseteq issued',
         target[q] \in issued /\ target[q] \notin rows => target[q] \notin rows'
  PROVE  SessionOK(q)'
<1>1. target[q] \in Videos
  BY DEF LockTypes
<1>2. Ahead(q)' = Ahead(q) /\ RowsOf(q)' = RowsOf(q) /\ \A row \in Row : Holds(q, row)' = Holds(q, row)
  BY <1>1 DEF Ahead, RowsOf, Holds
<1>3. FollowsPlan(q)'
  BY <1>2 DEF SessionOK, FollowsPlan
<1>4. KnowsItsRow(q)' /\ LocksOwnTarget(q)'
  BY DEF SessionOK, KnowsItsRow, LocksOwnTarget
<1>5. LocksWhatIsBehind(q)'
  <2> SUFFICES ASSUME NEW row \in Row
               PROVE  /\ Holds(q, row)' => row \in RowsOf(q)' \ Ahead(q)' /\ target'[q] \in rows'
                      /\ row \in RowsOf(q)' \ Ahead(q)' =>
                            \/ Holds(q, row)'
                            \/ op'[q] \in {"complete", "fail"} /\ target'[q] \notin rows'
    BY DEF LocksWhatIsBehind
  <2>1. op[q] \in {"complete", "fail"} => target[q] \in issued
    BY DEF SessionOK, KnowsItsRow, TwoTable
  <2> QED  BY <1>2, <2>1 DEF SessionOK, LocksWhatIsBehind
<1> QED  BY <1>3, <1>4, <1>5 DEF SessionOK

\* The end of a call, whatever it has written.
LEMMA EndCallKeeps ==
  ASSUME LockInv, NEW s \in Sessions, EndCall(s), rows' \subseteq rows,
         \A q \in Sessions \ {s}, row \in Row : Holds(q, row) => target[q] \in rows'
  PROVE  LockInv'
<1>1. /\ op' = [op EXCEPT ![s] = "none"] /\ todo' = [todo EXCEPT ![s] = <<>>]
      /\ target' = [target EXCEPT ![s] = AnyVideo] /\ type' = [type EXCEPT ![s] = AnyType]
      /\ lock' = [v \in Videos |-> [row \in Row |->
                      IF lock[v][row] = s THEN Nobody ELSE lock[v][row]]]
      /\ issued' = issued
  BY DEF EndCall
<1>2. LockTypes'
  BY <1>1, RowFacts DEF LockInv, LockTypes, Operation
<1>3. ASSUME NEW q \in Sessions \ {s} PROVE SessionOK(q)'
  <2>1. /\ op'[q] = op[q] /\ target'[q] = target[q] /\ type'[q] = type[q] /\ todo'[q] = todo[q]
        /\ \A v \in Videos, row \in Row : lock'[v][row] = q <=> lock[v][row] = q
    BY <1>1, SessionAssumption DEF LockInv, LockTypes
  <2> QED  BY <1>1, <2>1, OthersKeep DEF LockInv
<1>4. SessionOK(s)'
  <2>1. op'[s] = "none" /\ todo'[s] = <<>> /\ \A v \in Videos, row \in Row : lock'[v][row] # s
    BY <1>1, SessionAssumption DEF LockInv, LockTypes
  <2>2. target'[s] \in Videos
    BY <1>2 DEF LockTypes
  <2> QED
    BY <2>1, <2>2 DEF SessionOK, FollowsPlan, LocksWhatIsBehind, KnowsItsRow, LocksOwnTarget,
       Holds, RowsOf, TwoTable
<1> QED  BY <1>2, <1>3, <1>4 DEF LockInv

LEMMA InsertLocks ==
  ASSUME LockInv, NEW v \in Videos, Insert(v)
  PROVE  LockInv'
<1>1. /\ v \notin issued /\ issued' = issued \cup {v} /\ rows' = rows \cup {v}
      /\ UNCHANGED <<op, target, type, todo, lock>>
  BY DEF Insert, InsertVideo
<1>2. LockTypes'
  BY <1>1 DEF LockInv, LockTypes
<1>3. ASSUME NEW q \in Sessions PROVE SessionOK(q)'
  <2>1. \A row \in Row : Holds(q, row) => target[q] \in rows'
    BY <1>1 DEF LockInv, SessionOK, LocksWhatIsBehind
  <2> QED  BY <1>1, <2>1, OthersKeep DEF LockInv
<1> QED  BY <1>2, <1>3 DEF LockInv

LEMMA BeginLocks ==
  ASSUME LockInv, NEW s \in Sessions, NEW v \in Videos, NEW t \in JobTypes,
         NEW o \in {"claim", "complete", "fail", "reset", "delete"}, Begin(s, o, v, t)
  PROVE  LockInv'
<1>1. PICK plan \in Plans(o, t) : todo' = [todo EXCEPT ![s] = plan]
  BY DEF Begin
<1>2. /\ op[s] = "none" /\ op' = [op EXCEPT ![s] = o]
      /\ target' = [target EXCEPT ![s] = v] /\ type' = [type EXCEPT ![s] = t]
      /\ UNCHANGED <<lock, issued, rows>>
      /\ o # "delete" => v \in issued
  BY DEF Begin, WorkerCalls, HandlerCalls, storeVars
<1>3. plan \in Seq(Row) /\ Range(plan) \subseteq Row
  <2>1. CASE o = "delete"
    BY <2>1, CascadePlan DEF Plans
  <2>2. CASE o # "delete"
    <3>1. plan = <<t>> \/ plan = <<t, "video">>
      BY <2>2 DEF Plans
    <3>2. <<t>> \in Seq(Row) /\ <<t, "video">> \in Seq(Row)
      BY RowFacts
    <3>3. Range(<<t>>) \subseteq Row /\ Range(<<t, "video">>) \subseteq Row
      BY RowFacts, ShortPlans
    <3> QED  BY <3>1, <3>2, <3>3
  <2> QED  BY <2>1, <2>2
<1>4. LockTypes'
  BY <1>1, <1>2, <1>3 DEF LockInv, LockTypes, Operation, TwoTable
<1>5. ASSUME NEW q \in Sessions \ {s} PROVE SessionOK(q)'
  <2>1. op'[q] = op[q] /\ target'[q] = target[q] /\ type'[q] = type[q] /\ todo'[q] = todo[q]
    BY <1>1, <1>2 DEF LockInv, LockTypes
  <2>2. \A row \in Row : Holds(q, row) => target[q] \in rows'
    BY <1>2 DEF LockInv, SessionOK, LocksWhatIsBehind
  <2> QED  BY <1>2, <2>1, <2>2, OthersKeep DEF LockInv
<1>6. SessionOK(s)'
  <2>1. op'[s] = o /\ target'[s] = v /\ type'[s] = t /\ todo'[s] = plan
    BY <1>1, <1>2 DEF LockInv, LockTypes
  <2>2. \A w \in Videos, row \in Row : lock'[w][row] # s
    <3>1. SessionOK(s) /\ RowsOf(s) = {}
      BY <1>2 DEF LockInv, RowsOf, TwoTable
    <3>2. \A w \in Videos, row \in Row : lock[w][row] # s
      BY <3>1 DEF SessionOK, LocksWhatIsBehind, LocksOwnTarget, Holds
    <3> QED  BY <1>2, <3>2
  <2>3. FollowsPlan(s)' /\ RowsOf(s)' \subseteq Ahead(s)'
    <3>1. CASE o = "delete"
      BY <2>1, <3>1, CascadePlan DEF Plans, FollowsPlan, Ahead, RowsOf, TwoTable
    <3>2. CASE o = "claim"
      BY <2>1, <3>2, ShortPlans DEF Plans, FollowsPlan, Ahead, RowsOf, TwoTable
    <3>3. CASE o \in TwoTable
      BY <2>1, <3>3, ShortPlans DEF Plans, FollowsPlan, Ahead, RowsOf, TwoTable
    <3> QED  BY <3>1, <3>2, <3>3 DEF TwoTable
  <2>4. LocksWhatIsBehind(s)' /\ LocksOwnTarget(s)'
    BY <2>1, <2>2, <2>3 DEF LocksWhatIsBehind, LocksOwnTarget, Holds
  <2>5. KnowsItsRow(s)'
    BY <1>2, <2>1 DEF KnowsItsRow, TwoTable
  <2> QED  BY <2>3, <2>4, <2>5 DEF SessionOK
<1> QED  BY <1>4, <1>5, <1>6 DEF LockInv

\* A call goes past the first row of its plan.
LEMMA PastOneRow ==
  ASSUME LockInv, NEW s \in Sessions, todo[s] # <<>>,
         op'[s] = op[s], type'[s] = type[s], todo'[s] = Tail(todo[s])
  PROVE  /\ FollowsPlan(s)' /\ RowsOf(s)' = RowsOf(s)
         /\ Tail(todo[s]) \in Seq(Row)
         /\ Head(todo[s]) \in RowsOf(s) /\ Head(todo[s]) \notin Ahead(s)'
         /\ Ahead(s) = {Head(todo[s])} \cup Ahead(s)'
<1>1. FollowsPlan(s) /\ todo[s] \in Seq(Row) /\ op[s] \in Operation
  BY DEF LockInv, SessionOK, LockTypes
<1>2. /\ Head(todo[s]) \in Row /\ Tail(todo[s]) \in Seq(Row)
      /\ Ahead(s) = {Head(todo[s])} \cup Range(Tail(todo[s]))
      /\ NoDuplicates(todo[s]) =>
            NoDuplicates(Tail(todo[s])) /\ Head(todo[s]) \notin Range(Tail(todo[s]))
  BY <1>1, HeadAndTail DEF Ahead
<1>3. type[s] \in JobTypes /\ "video" # type[s]
  BY RowFacts DEF LockInv, LockTypes
<1>4. RowsOf(s)' = RowsOf(s)
  BY DEF RowsOf
<1>5. CASE op[s] = "delete"
  BY <1>1, <1>2, <1>4, <1>5 DEF FollowsPlan, Ahead, RowsOf, TwoTable
<1>6. CASE op[s] = "claim"
  <2>1. todo[s] = <<type[s]>>
    BY <1>1, <1>6 DEF FollowsPlan
  <2>2. Head(todo[s]) = type[s] /\ todo'[s] = <<>> /\ Ahead(s)' = {} /\ Ahead(s) = {type[s]}
    BY <2>1, ShortPlans DEF Ahead
  <2>3. FollowsPlan(s)'
    BY <1>6, <2>2 DEF FollowsPlan, TwoTable
  <2> QED  BY <1>2, <1>4, <1>6, <2>2, <2>3 DEF RowsOf
<1>7. CASE op[s] \in TwoTable
  <2>1. \/ todo[s] = <<type[s], "video">>
        \/ todo[s] = <<"video">>
    BY <1>1, <1>7 DEF FollowsPlan
  <2>2. CASE todo[s] = <<type[s], "video">>
    <3>1. Head(todo[s]) = type[s] /\ todo'[s] = <<"video">> /\ Ahead(s)' = {"video"}
          /\ Ahead(s) = {type[s], "video"}
      BY <2>2, ShortPlans DEF Ahead
    <3>2. FollowsPlan(s)'
      BY <1>7, <3>1 DEF FollowsPlan, TwoTable
    <3> QED  BY <1>2, <1>3, <1>4, <1>7, <3>1, <3>2 DEF RowsOf
  <2>3. CASE todo[s] = <<"video">>
    <3>1. Head(todo[s]) = "video" /\ todo'[s] = <<>> /\ Ahead(s)' = {} /\ Ahead(s) = {"video"}
      BY <2>3, ShortPlans DEF Ahead
    <3>2. FollowsPlan(s)'
      BY <1>7, <3>1 DEF FollowsPlan, TwoTable
    <3> QED  BY <1>2, <1>4, <1>7, <3>1, <3>2 DEF RowsOf
  <2> QED  BY <2>1, <2>2, <2>3
<1> QED  BY <1>1, <1>5, <1>6, <1>7 DEF FollowsPlan, Operation

LEMMA LockRowLocks ==
  ASSUME LockInv, NEW s \in Sessions, LockRow(s)
  PROVE  LockInv'
<1> DEFINE v == target[s]
           row == Head(todo[s])
<1>1. /\ todo[s] # <<>> /\ lock[v][row] = Nobody /\ v \in rows /\ v \in Videos
      /\ lock' = [lock EXCEPT ![v][row] = s]
      /\ todo' = [todo EXCEPT ![s] = Tail(todo[s])]
      /\ UNCHANGED <<rows, op, target, type, issued>>
  BY DEF LockRow, storeVars, LockInv, LockTypes
<1>2. todo'[s] = Tail(todo[s])
  BY <1>1 DEF LockInv, LockTypes
<1>3. /\ FollowsPlan(s)' /\ RowsOf(s)' = RowsOf(s)
      /\ Tail(todo[s]) \in Seq(Row) /\ row \in Row
      /\ row \in RowsOf(s) /\ row \notin Ahead(s)'
      /\ Ahead(s) = {row} \cup Ahead(s)'
  BY <1>1, <1>2, PastOneRow DEF RowsOf
<1> HIDE DEF row, v
<1>4. LockTypes'
  BY <1>1, <1>3 DEF LockInv, LockTypes
<1>5. \A w \in Videos, x \in Row :
          lock'[w][x] = IF w = v /\ x = row THEN s ELSE lock[w][x]
  BY <1>1, <1>3 DEF LockInv, LockTypes
<1>6. ASSUME NEW q \in Sessions \ {s} PROVE SessionOK(q)'
  <2>1. /\ op'[q] = op[q] /\ target'[q] = target[q] /\ type'[q] = type[q] /\ todo'[q] = todo[q]
        /\ \A w \in Videos, x \in Row : lock'[w][x] = q <=> lock[w][x] = q
    BY <1>1, <1>5, SessionAssumption DEF LockInv, LockTypes
  <2>2. \A x \in Row : Holds(q, x) => target[q] \in rows'
    BY <1>1 DEF LockInv, SessionOK, LocksWhatIsBehind
  <2> QED  BY <1>1, <2>1, <2>2, OthersKeep DEF LockInv
<1>7. SessionOK(s)'
  <2>1. SessionOK(s) /\ target[s] = v
    BY DEF LockInv, v
  <2>2. LocksOwnTarget(s)' /\ KnowsItsRow(s)'
    BY <1>1, <1>5, <2>1 DEF SessionOK, LocksOwnTarget, KnowsItsRow
  <2>3. \A x \in Row : Holds(s, x)' <=> (x = row \/ Holds(s, x))
    BY <1>1, <1>5, <2>1 DEF Holds
  <2>4. LocksWhatIsBehind(s)'
    BY <1>1, <1>3, <2>1, <2>3 DEF SessionOK, LocksWhatIsBehind
  <2> QED  BY <1>3, <2>2, <2>4 DEF SessionOK
<1> QED  BY <1>4, <1>6, <1>7 DEF LockInv

LEMMA MissRowLocks ==
  ASSUME LockInv, NEW s \in Sessions, MissRow(s)
  PROVE  LockInv'
<1>1. rows' = rows /\ todo[s] # <<>> /\ target[s] \notin rows
  BY DEF MissRow, storeVars
<1>2. \A q \in Sessions, row \in Row : Holds(q, row) => target[q] \in rows'
  BY <1>1 DEF LockInv, SessionOK, LocksWhatIsBehind
<1>3. CASE op[s] \notin {"complete", "fail"}
  BY <1>1, <1>2, <1>3, EndCallKeeps DEF MissRow
<1>4. CASE op[s] \in {"complete", "fail"}
  <2>1. /\ todo' = [todo EXCEPT ![s] = Tail(todo[s])]
        /\ UNCHANGED <<op, target, type, lock, issued>>
    BY <1>4 DEF MissRow, LockInv, LockTypes
  <2>2. todo'[s] = Tail(todo[s])
    BY <2>1 DEF LockInv, LockTypes
  <2>3. /\ FollowsPlan(s)' /\ RowsOf(s)' = RowsOf(s)
        /\ Tail(todo[s]) \in Seq(Row)
        /\ Ahead(s) = {Head(todo[s])} \cup Ahead(s)'
    BY <1>1, <2>1, <2>2, PastOneRow
  <2>4. LockTypes'
    BY <1>1, <2>1, <2>3 DEF LockInv, LockTypes
  <2>5. ASSUME NEW q \in Sessions \ {s} PROVE SessionOK(q)'
    <3>1. todo'[q] = todo[q]
      BY <2>1 DEF LockInv, LockTypes
    <3> QED  BY <1>1, <1>2, <2>1, <3>1, OthersKeep DEF LockInv
  <2>6. SessionOK(s)'
    <3>1. SessionOK(s)
      BY DEF LockInv
    <3>2. LocksOwnTarget(s)' /\ KnowsItsRow(s)'
      BY <2>1, <3>1 DEF SessionOK, LocksOwnTarget, KnowsItsRow
    <3>3. LocksWhatIsBehind(s)'
      BY <1>1, <1>4, <2>1, <2>3, <3>1 DEF SessionOK, LocksWhatIsBehind, Holds
    <3> QED  BY <2>3, <3>2, <3>3 DEF SessionOK
  <2> QED  BY <2>4, <2>5, <2>6 DEF LockInv
<1> QED  BY <1>3, <1>4

\* At its commit a call holds every row it is about; CompleteJob and FailJob
\* may instead have found none.
LEMMA AtCommit ==
  ASSUME LockInv, NEW s \in Sessions, op[s] # "none", todo[s] = <<>>
  PROVE  /\ \A row \in RowsOf(s) :
               Holds(s, row) \/ (op[s] \in {"complete", "fail"} /\ target[s] \notin rows)
         /\ \A row \in Row : Holds(s, row) => target[s] \in rows
  BY ShortPlans DEF LockInv, SessionOK, LocksWhatIsBehind, Ahead, RowsOf

LEMMA CommitLocks ==
  ASSUME LockInv, NEW s \in Sessions, Commit(s)
  PROVE  LockInv'
<1>1. op[s] # "none" /\ todo[s] = <<>> /\ EndCall(s)
  BY DEF Commit
<1>2. rows' = rows \/ (op[s] = "delete" /\ rows' = rows \ {target[s]})
  BY DEF Commit, ClaimJob, DeleteVideo, storeVars
<1>3. \A q \in Sessions, row \in Row : Holds(q, row) => target[q] \in rows
  BY DEF LockInv, SessionOK, LocksWhatIsBehind
<1>4. ASSUME op[s] = "delete", NEW q \in Sessions \ {s}, NEW row \in Row, Holds(q, row)
      PROVE  target[q] # target[s]
  <2>1. Holds(s, row)
    BY <1>1, <1>4, AtCommit DEF RowsOf
  <2> QED  BY <1>4, <2>1 DEF Holds
<1> QED  BY <1>1, <1>2, <1>3, <1>4, EndCallKeeps

LEMMA AbandonLocks ==
  ASSUME LockInv, NEW s \in Sessions, Abandon(s)
  PROVE  LockInv'
<1>1. EndCall(s) /\ rows' = rows
  BY DEF Abandon, storeVars
<1>2. \A q \in Sessions, row \in Row : Holds(q, row) => target[q] \in rows'
  BY <1>1 DEF LockInv, SessionOK, LocksWhatIsBehind
<1> QED  BY <1>1, <1>2, EndCallKeeps

LEMMA LocksInitially == RowInit => LockInv
<1> SUFFICES ASSUME RowInit PROVE LockInv
  OBVIOUS
<1>1. LockTypes
  BY RowFacts DEF RowInit, StoreInit, LockTypes, Operation
<1>2. ASSUME NEW s \in Sessions PROVE SessionOK(s)
  <2>1. op[s] = "none" /\ todo[s] = <<>> /\ target[s] \in Videos
    BY RowFacts DEF RowInit
  <2>2. \A v \in Videos, row \in Row : lock[v][row] # s
    BY SessionAssumption DEF RowInit
  <2> QED
    BY <2>1, <2>2 DEF SessionOK, FollowsPlan, LocksWhatIsBehind, KnowsItsRow, LocksOwnTarget,
       Holds, RowsOf, TwoTable
<1> QED  BY <1>1, <1>2 DEF LockInv

LEMMA LockStepKeeps == LockInv /\ [RowNext]_rowVars => LockInv'
<1> SUFFICES ASSUME LockInv, [RowNext]_rowVars PROVE LockInv'
  OBVIOUS
<1>1. CASE UNCHANGED rowVars
  BY <1>1 DEF rowVars, storeVars, lockVars, LockInv, LockTypes, SessionOK, FollowsPlan,
     LocksWhatIsBehind, KnowsItsRow, LocksOwnTarget, Holds, RowsOf, Ahead
<1>2. ASSUME NEW s \in Sessions, Progress(s) \/ Abandon(s) PROVE LockInv'
  BY <1>2, LockRowLocks, MissRowLocks, CommitLocks, AbandonLocks DEF Progress
<1> QED
  BY <1>1, <1>2, InsertLocks, BeginLocks DEF RowNext

LEMMA LocksHold == RowSpec => []LockInv
  BY LocksInitially, LockStepKeeps, PTL DEF RowSpec

-----------------------------------------------------------------------------
\* Row locks are held by calls in progress only, on rows of the video the call
\* is about that it is past: none outlives its transaction.
THEOREM LocksAreOfCallsInProgress == RowSpec => []LockTypeOK
<1>1. ASSUME LockInv PROVE LockTypeOK
  <2>1. \A s \in Sessions : Range(todo[s]) \subseteq Row
    <3> SUFFICES ASSUME NEW s \in Sessions PROVE Range(todo[s]) \subseteq Row
      OBVIOUS
    <3>1. todo[s] \in Seq(Row)
      BY <1>1 DEF LockInv, LockTypes
    <3> QED  BY <3>1 DEF Range
  <2>2. ASSUME NEW s \in Sessions, NEW v \in Videos, NEW row \in Row, lock[v][row] = s
        PROVE  op[s] # "none" /\ v = target[s] /\ row \notin Range(todo[s])
    <3>1. v = target[s] /\ row \in RowsOf(s) \ Ahead(s)
      BY <1>1, <2>2 DEF LockInv, SessionOK, LocksOwnTarget, LocksWhatIsBehind, Holds
    <3> QED  BY <3>1 DEF RowsOf, Ahead, TwoTable
  <2> QED  BY <1>1, <2>1, <2>2 DEF LockInv, LockTypes, LockTypeOK, Operation, TwoTable
<1> QED  BY <1>1, LocksHold, PTL

-----------------------------------------------------------------------------
(***************************************************************************)
(* Deadlocks.                                                              *)
(***************************************************************************)

\* A call that waits and holds a row is a DELETE that has locked the videos row
\* and waits for a job row, or a two-table update between its two rows.
LEMMA WaitingHolder ==
  ASSUME LockInv, NEW s \in Sessions, todo[s] # <<>>, NEW row \in Row, Holds(s, row)
  PROVE  /\ Head(todo[s]) \in Row
         /\ \/ op[s] = "delete" /\ Holds(s, "video") /\ Head(todo[s]) # "video"
            \/ op[s] \in TwoTable /\ row # "video" /\ Head(todo[s]) = "video"
<1>1. FollowsPlan(s) /\ LocksWhatIsBehind(s) /\ todo[s] \in Seq(Row) /\ op[s] \in Operation
  BY DEF LockInv, SessionOK, LockTypes
<1>2. Head(todo[s]) \in Row /\ Head(todo[s]) \in Ahead(s)
  BY <1>1, HeadAndTail DEF Ahead
<1>3. row \in RowsOf(s) /\ row \notin Ahead(s)
  BY <1>1 DEF LocksWhatIsBehind
<1>4. CASE op[s] = "delete"
  <2>1. "video" \notin Ahead(s)
    BY <1>1, <1>3, <1>4 DEF FollowsPlan
  <2>2. Holds(s, "video")
    BY <1>1, <1>4, <2>1, RowFacts DEF LocksWhatIsBehind, RowsOf
  <2> QED  BY <1>2, <1>4, <2>1, <2>2
<1>5. CASE op[s] = "claim"
  BY <1>1, <1>3, <1>5, ShortPlans DEF FollowsPlan, RowsOf, Ahead, TwoTable
<1>6. CASE op[s] \in TwoTable
  <2>1. todo[s] = <<type[s], "video">> \/ todo[s] = <<"video">>
    BY <1>1, <1>6 DEF FollowsPlan
  <2>2. row = type[s] \/ row = "video"
    BY <1>3, <1>6 DEF RowsOf, TwoTable
  <2>3. todo[s] # <<type[s], "video">>
    <3>1. todo[s] = <<type[s], "video">> => Ahead(s) = {type[s], "video"}
      BY ShortPlans DEF Ahead
    <3> QED  BY <1>3, <2>2, <3>1
  <2>4. Head(todo[s]) = "video" /\ Ahead(s) = {"video"}
    BY <2>1, <2>3, ShortPlans DEF Ahead
  <2> QED  BY <1>2, <1>3, <1>6, <2>4
<1> QED  BY <1>1, <1>4, <1>5, <1>6 DEF FollowsPlan, Operation

\* Who holds the row a call waits for holds it on the same video.
LEMMA HolderOfWaited ==
  ASSUME LockInv, NEW s1 \in Sessions, NEW s2 \in Sessions, WaitsFor(s1, s2)
  PROVE  /\ target[s1] = target[s2] /\ Head(todo[s1]) \in Row
         /\ Holds(s2, Head(todo[s1]))
<1>1. Head(todo[s1]) \in Row /\ target[s1] \in Videos
  BY HeadAndTail DEF LockInv, LockTypes, WaitsFor
<1>2. target[s1] = target[s2]
  BY <1>1 DEF WaitsFor, LockInv, SessionOK, LocksOwnTarget
<1> QED  BY <1>1, <1>2 DEF WaitsFor, Holds

\* A DELETE in the cycle that holds the videos row waits for a call that waits
\* for it.
LEMMA DeleteMeetsUpdate ==
  ASSUME LockInv, NEW group \in SUBSET Sessions, Deadlocked(group), NEW d \in group,
         op[d] = "delete", NEW row \in Row, Holds(d, row)
  PROVE  \E s \in group : op[s] \in TwoTable /\ WaitsFor(d, s) /\ WaitsFor(s, d)
<1>1. PICK s \in group : WaitsFor(d, s)
  BY DEF Deadlocked
<1>2. PICK other \in group : WaitsFor(s, other)
  BY DEF Deadlocked
<1>3. d # s /\ todo[d] # <<>> /\ todo[s] # <<>>
  BY <1>1, <1>2 DEF WaitsFor
<1>4. Holds(d, "video") /\ Head(todo[d]) # "video"
  BY <1>3, WaitingHolder DEF TwoTable
<1>5. target[s] = target[d] /\ Head(todo[d]) \in Row /\ Holds(s, Head(todo[d]))
  BY <1>1, HolderOfWaited
<1>6. op[s] \in TwoTable /\ Head(todo[s]) = "video"
  <2>1. ~Holds(s, "video")
    BY <1>3, <1>4, <1>5 DEF Holds
  <2> QED  BY <1>3, <1>5, <2>1, WaitingHolder
<1>7. WaitsFor(s, d)
  BY <1>3, <1>4, <1>5, <1>6 DEF WaitsFor, Holds
<1> QED  BY <1>1, <1>6, <1>7

\* Calls of handlers and workers wait for each other in a cycle only where a
\* DELETE (videos row, then the cascade) meets CompleteJob, FailJob or
\* ResetJobForRetry (job row, then videos row) of the same video, whatever else
\* is in the cycle.
THEOREM DeadlocksAreWithDelete == RowSpec => []DeadlockIsWithDelete
<1>1. ASSUME LockInv PROVE DeadlockIsWithDelete
  <2> SUFFICES ASSUME NEW group \in SUBSET Sessions, Deadlocked(group)
               PROVE  \E d, s \in group :
                         op[d] = "delete" /\ op[s] \in TwoTable /\ WaitsFor(d, s) /\ WaitsFor(s, d)
    BY DEF DeadlockIsWithDelete, TwoTable
  <2> USE <1>1
  <2>1. PICK s1 \in group, s2 \in group : WaitsFor(s1, s2)
    BY DEF Deadlocked
  <2>2. PICK s3 \in group : WaitsFor(s2, s3)
    BY DEF Deadlocked
  <2>3. PICK row \in Row : Holds(s2, row)
    BY <2>1, HolderOfWaited
  <2>4. CASE op[s2] = "delete"
    BY <2>3, <2>4, DeleteMeetsUpdate
  <2>5. CASE op[s2] # "delete"
    <3>1. Head(todo[s2]) = "video" /\ Holds(s3, "video") /\ "video" \in Row
      BY <2>2, <2>3, <2>5, WaitingHolder, HolderOfWaited, RowFacts DEF WaitsFor
    <3>2. todo[s3] # <<>>
      BY DEF Deadlocked, WaitsFor
    <3>3. op[s3] = "delete"
      BY <3>1, <3>2, WaitingHolder
    <3> QED  BY <3>1, <3>3, DeleteMeetsUpdate
  <2> QED  BY <2>4, <2>5
<1> QED  BY <1>1, LocksHold, PTL

-----------------------------------------------------------------------------
(***************************************************************************)
(* The interleaved statements implement VideoStore.                        *)
(***************************************************************************)

\* At its commit, CompleteJob, FailJob or ResetJobForRetry has both of its rows
\* or, the last one excepted, neither: it writes as a single step would.
LEMMA CommitIsStoreCall ==
  ASSUME LockInv, StoreTypeOK, NEW s \in Sessions, Commit(s)
  PROVE  [StoreCall]_storeVars
<1> DEFINE v == target[s]
           t == type[s]
<1>1. op[s] # "none" /\ todo[s] = <<>> /\ v \in Videos /\ t \in JobTypes
  BY DEF Commit, LockInv, LockTypes
<1>2. CASE op[s] \in {"claim", "delete"}
  BY <1>1, <1>2 DEF Commit, StoreCall
<1>3. CASE op[s] \in TwoTable
  <2>1. /\ jobStatus' = IF Holds(s, t) THEN [jobStatus EXCEPT ![v][t] = Verdict[op[s]]]
                        ELSE jobStatus
        /\ column' = IF Holds(s, "video") THEN [column EXCEPT ![v][t] = Verdict[op[s]]]
                     ELSE column
        /\ attemptCount' = AttemptsAfter(s) /\ rows' = rows
    BY <1>3 DEF Commit, TwoTable
  <2>2. /\ t \in RowsOf(s) /\ "video" \in RowsOf(s)
        /\ t \in Row /\ "video" \in Row
    BY <1>1, <1>3, RowFacts DEF RowsOf
  <2>3. CASE v \in rows
    <3>1. Holds(s, t) /\ Holds(s, "video")
      BY <1>1, <2>2, <2>3, AtCommit
    <3>2. \/ op[s] = "complete" /\ Verdict[op[s]] = "completed"
          \/ op[s] = "fail" /\ Verdict[op[s]] = "failed"
          \/ op[s] = "reset" /\ Verdict[op[s]] = "pending"
      BY <1>3 DEF TwoTable, Verdict
    <3>3. CompleteJob(v, t) \/ FailJob(v, t) \/ ResetJobForRetry(v, t)
      BY <2>1, <2>3, <3>1, <3>2
      DEF AttemptsAfter, CompleteJob, FailJob, RecordStatus, ResetJobForRetry
    <3> HIDE DEF v, t
    <3> QED  BY <1>1, <3>3 DEF StoreCall
  <2>4. CASE v \notin rows
    <3>1. ~Holds(s, t) /\ ~Holds(s, "video") /\ op[s] # "reset"
      BY <1>1, <2>2, <2>4, AtCommit
    <3> QED  BY <2>1, <3>1 DEF AttemptsAfter, storeVars
  <2> QED  BY <2>3, <2>4
<1> QED  BY <1>1, <1>2, <1>3 DEF LockInv, LockTypes, Operation

LEMMA RowStepIsStoreCall ==
  LockInv /\ StoreTypeOK /\ [RowNext]_rowVars => [StoreCall]_storeVars
<1> SUFFICES ASSUME LockInv, StoreTypeOK, [RowNext]_rowVars PROVE [StoreCall]_storeVars
  OBVIOUS
<1>1. ASSUME NEW v \in Videos, Insert(v) PROVE StoreCall
  BY <1>1 DEF Insert, StoreCall
<1>2. ASSUME NEW s \in Sessions, Commit(s) PROVE [StoreCall]_storeVars
  BY <1>2, CommitIsStoreCall
<1>3. ASSUME NEW s \in Sessions, LockRow(s) \/ MissRow(s) \/ Abandon(s) PROVE UNCHANGED storeVars
  BY <1>3 DEF LockRow, MissRow, Abandon
<1>4. CASE UNCHANGED rowVars
  BY <1>4 DEF rowVars
<1> QED
  BY <1>1, <1>2, <1>3, <1>4 DEF RowNext, Progress, Begin

LEMMA StoreHolds == RowSpec => [](LockInv /\ StoreInv)
<1>1. RowInit => StoreInv
  BY StoreInitInv DEF RowInit
<1>2. LockInv /\ StoreInv /\ [RowNext]_rowVars => StoreInv'
  BY RowStepIsStoreCall, StoreCallInv DEF StoreInv
<1> QED  BY <1>1, <1>2, LocksInitially, LockStepKeeps, PTL DEF RowSpec

\* The tables keep their types under calls that wait, roll back and interleave.
THEOREM StoreTypesUnderLocks == RowSpec => []StoreTypeOK
<1>1. StoreInv => StoreTypeOK
  BY DEF StoreInv
<1> QED  BY <1>1, StoreHolds, PTL

\* Statement by statement, with waits, rollbacks and deletions in between, the
\* API's column never contradicts the job's status.
THEOREM ColumnsAgreeUnderLocks == RowSpec => []ColumnAgrees
<1>1. StoreInv => ColumnAgrees
  BY DEF StoreInv
<1> QED  BY <1>1, StoreHolds, PTL

-----------------------------------------------------------------------------
(***************************************************************************)
(* Claims in progress never exceed the bound on attempt_count.             *)
(***************************************************************************)

LEMMA ClaimingIsFinite ==
  \A v, t : IsFiniteSet(Claiming(v, t)) /\ Cardinality(Claiming(v, t)) \in Nat
<1> TAKE v, t
<1>1. Claiming(v, t) \subseteq Sessions
  BY DEF Claiming
<1> QED  BY <1>1, SessionAssumption, FS_Subset, FS_CardinalityType

\* One lemma for every step: the claims of a job that are in progress are those
\* there were, or fewer, unless the count or the table says otherwise.
LEMMA ClaimsShrink ==
  ASSUME NEW v, NEW t, Claiming(v, t)' \subseteq Claiming(v, t)
  PROVE  Cardinality(Claiming(v, t)') <= Cardinality(Claiming(v, t))
  BY ClaimingIsFinite, FS_Subset

LEMMA BeginInBudget ==
  ASSUME LockInv, StoreTypeOK, ClaimsInBudget, NEW s \in Sessions, NEW v \in Videos,
         NEW t \in JobTypes, NEW o \in {"claim", "complete", "fail", "reset", "delete"},
         Begin(s, o, v, t)
  PROVE  ClaimsInBudget'
<1> SUFFICES ASSUME NEW w \in Videos, NEW u \in JobTypes
             PROVE  attemptCount'[w][u] + Cardinality(Claiming(w, u)') <= MaxClaims
  BY DEF ClaimsInBudget
<1>1. /\ op[s] = "none" /\ op' = [op EXCEPT ![s] = o]
      /\ target' = [target EXCEPT ![s] = v] /\ type' = [type EXCEPT ![s] = t]
      /\ attemptCount' = attemptCount
  BY DEF Begin, storeVars
<1>2. \A q \in Sessions : q # s => op'[q] = op[q] /\ target'[q] = target[q] /\ type'[q] = type[q]
  BY <1>1 DEF LockInv, LockTypes
<1>3. op'[s] = o /\ target'[s] = v /\ type'[s] = t
  BY <1>1 DEF LockInv, LockTypes
<1>4. /\ attemptCount[w][u] \in Nat /\ attemptCount'[w][u] = attemptCount[w][u]
      /\ Cardinality(Claiming(w, u)) \in Nat /\ Cardinality(Claiming(w, u)') \in Nat
      /\ attemptCount[w][u] + Cardinality(Claiming(w, u)) <= MaxClaims
      /\ MaxClaims \in Nat
  <2>1. IsFiniteSet(Claiming(w, u)')
    BY SessionAssumption, FS_Subset DEF Claiming
  <2> QED
    BY <1>1, <2>1, ClaimingIsFinite, FS_CardinalityType, SessionAssumption
    DEF StoreTypeOK, ClaimsInBudget
<1>5. CASE o = "claim" /\ w = v /\ u = t
  <2>1. attemptCount[v][t] + Cardinality(Claiming(v, t)) < MaxClaims
    BY <1>5 DEF Begin, WorkerCalls, HandlerCalls
  <2>2. Claiming(v, t)' \subseteq Claiming(v, t) \cup {s}
    BY <1>2 DEF Claiming
  <2>3. /\ IsFiniteSet(Claiming(v, t) \cup {s})
        /\ Cardinality(Claiming(v, t) \cup {s}) =
              IF s \in Claiming(v, t) THEN Cardinality(Claiming(v, t))
              ELSE Cardinality(Claiming(v, t)) + 1
    BY ClaimingIsFinite, FS_AddElement, Zenon
  <2>4. Cardinality(Claiming(v, t)') <= Cardinality(Claiming(v, t) \cup {s})
    BY <2>2, <2>3, FS_Subset
  <2> HIDE DEF Claiming
  <2> QED  BY <1>4, <1>5, <2>1, <2>3, <2>4
<1>6. CASE ~(o = "claim" /\ w = v /\ u = t)
  <2>1. Claiming(w, u)' \subseteq Claiming(w, u)
    BY <1>2, <1>3, <1>6 DEF Claiming
  <2>2. Cardinality(Claiming(w, u)') <= Cardinality(Claiming(w, u))
    BY <2>1, ClaimsShrink
  <2> HIDE DEF Claiming
  <2> QED  BY <1>4, <2>2
<1> QED  BY <1>5, <1>6

\* A call that ends leaves the count alone, lowers it, or is a claim that adds
\* the one it was counted for.
LEMMA EndCallInBudget ==
  ASSUME LockInv, StoreTypeOK, ClaimsInBudget, NEW s \in Sessions, EndCall(s), op[s] # "none",
         \A w \in Videos, u \in JobTypes :
            /\ attemptCount'[w][u] \in Nat
            /\ \/ attemptCount'[w][u] <= attemptCount[w][u]
               \/ s \in Claiming(w, u) /\ attemptCount'[w][u] = attemptCount[w][u] + 1
  PROVE  ClaimsInBudget'
<1> SUFFICES ASSUME NEW w \in Videos, NEW u \in JobTypes
             PROVE  attemptCount'[w][u] + Cardinality(Claiming(w, u)') <= MaxClaims
  BY DEF ClaimsInBudget
<1>1. Claiming(w, u)' \subseteq Claiming(w, u) \ {s}
  BY DEF Claiming, EndCall, LockInv, LockTypes
<1>2. /\ IsFiniteSet(Claiming(w, u) \ {s})
      /\ Cardinality(Claiming(w, u) \ {s}) =
            IF s \in Claiming(w, u) THEN Cardinality(Claiming(w, u)) - 1
            ELSE Cardinality(Claiming(w, u))
  BY ClaimingIsFinite, FS_RemoveElement, Zenon
<1>3. /\ Cardinality(Claiming(w, u)') <= Cardinality(Claiming(w, u) \ {s})
      /\ Cardinality(Claiming(w, u)') \in Nat
  BY <1>1, <1>2, FS_Subset, FS_CardinalityType
<1>4. /\ attemptCount[w][u] \in Nat /\ Cardinality(Claiming(w, u)) \in Nat
      /\ attemptCount[w][u] + Cardinality(Claiming(w, u)) <= MaxClaims
      /\ MaxClaims \in Nat
  BY ClaimingIsFinite, SessionAssumption DEF StoreTypeOK, ClaimsInBudget
<1>5. /\ attemptCount'[w][u] \in Nat
      /\ \/ attemptCount'[w][u] <= attemptCount[w][u]
         \/ s \in Claiming(w, u) /\ attemptCount'[w][u] = attemptCount[w][u] + 1
  OBVIOUS
<1> HIDE DEF Claiming
<1> QED  BY <1>2, <1>3, <1>4, <1>5

LEMMA CommitInBudget ==
  ASSUME LockInv, StoreTypeOK, ClaimsInBudget, NEW s \in Sessions, Commit(s)
  PROVE  ClaimsInBudget'
<1> DEFINE v == target[s]
           t == type[s]
<1>1. op[s] # "none" /\ EndCall(s) /\ v \in Videos /\ t \in JobTypes
  BY DEF Commit, LockInv, LockTypes
<1>2. \/ attemptCount' = attemptCount
      \/ attemptCount' = [attemptCount EXCEPT ![v] = NoAttempts]
      \/ attemptCount' = [attemptCount EXCEPT ![v][t] = 0]
      \/ op[s] = "claim" /\ attemptCount' = [attemptCount EXCEPT ![v][t] = attemptCount[v][t] + 1]
  BY DEF Commit, ClaimJob, DeleteVideo, AttemptsAfter, storeVars
<1>3. s \in Claiming(v, t) <=> op[s] = "claim"
  BY DEF Claiming
<1> HIDE DEF v, t
<1>4. \A w \in Videos, u \in JobTypes :
         /\ attemptCount'[w][u] \in Nat
         /\ \/ attemptCount'[w][u] <= attemptCount[w][u]
            \/ s \in Claiming(w, u) /\ attemptCount'[w][u] = attemptCount[w][u] + 1
  BY <1>1, <1>2, <1>3 DEF StoreTypeOK, NoAttempts
<1> QED  BY <1>1, <1>4, EndCallInBudget

LEMMA QuietInBudget ==
  ASSUME StoreTypeOK, ClaimsInBudget, UNCHANGED <<op, target, type>>,
         \A w \in Videos, u \in JobTypes :
            attemptCount'[w][u] \in Nat /\ attemptCount'[w][u] <= attemptCount[w][u]
  PROVE  ClaimsInBudget'
<1> SUFFICES ASSUME NEW w \in Videos, NEW u \in JobTypes
             PROVE  attemptCount'[w][u] + Cardinality(Claiming(w, u)') <= MaxClaims
  BY DEF ClaimsInBudget
<1>1. Claiming(w, u)' = Claiming(w, u)
  BY DEF Claiming
<1> HIDE DEF Claiming
<1> QED
  BY <1>1, ClaimingIsFinite, SessionAssumption DEF StoreTypeOK, ClaimsInBudget

LEMMA BudgetStepKeeps ==
  LockInv /\ StoreTypeOK /\ ClaimsInBudget /\ [RowNext]_rowVars => ClaimsInBudget'
<1> SUFFICES ASSUME LockInv, StoreTypeOK, ClaimsInBudget, [RowNext]_rowVars PROVE ClaimsInBudget'
  OBVIOUS
<1>1. \A w \in Videos, u \in JobTypes :
         attemptCount[w][u] \in Nat /\ attemptCount[w][u] <= attemptCount[w][u]
  BY DEF StoreTypeOK
<1>2. ASSUME NEW v \in Videos, Insert(v) PROVE ClaimsInBudget'
  <2>1. UNCHANGED <<op, target, type>> /\ attemptCount' = [attemptCount EXCEPT ![v] = NoAttempts]
    BY <1>2 DEF Insert, InsertVideo
  <2>2. \A w \in Videos, u \in JobTypes :
           attemptCount'[w][u] \in Nat /\ attemptCount'[w][u] <= attemptCount[w][u]
    BY <2>1 DEF StoreTypeOK, NoAttempts
  <2> QED  BY <2>1, <2>2, QuietInBudget
<1>3. ASSUME NEW s \in Sessions, LockRow(s) PROVE ClaimsInBudget'
  BY <1>1, <1>3, QuietInBudget DEF LockRow, storeVars
<1>4. ASSUME NEW s \in Sessions, EndCall(s), op[s] # "none", UNCHANGED storeVars
      PROVE  ClaimsInBudget'
  BY <1>1, <1>4, EndCallInBudget DEF storeVars
<1>5. ASSUME NEW s \in Sessions, MissRow(s) PROVE ClaimsInBudget'
  <2>1. op[s] # "none" /\ UNCHANGED storeVars
    BY <1>5 DEF MissRow, LockInv, SessionOK, FollowsPlan
  <2>2. CASE EndCall(s)
    BY <1>4, <2>1, <2>2
  <2>3. CASE ~EndCall(s)
    BY <1>1, <1>5, <2>1, <2>3, QuietInBudget DEF MissRow, storeVars
  <2> QED  BY <2>2, <2>3
<1>6. ASSUME NEW s \in Sessions, Abandon(s) PROVE ClaimsInBudget'
  BY <1>4, <1>6 DEF Abandon
<1>7. CASE UNCHANGED rowVars
  BY <1>1, <1>7, QuietInBudget DEF rowVars, lockVars, storeVars
<1> QED
  BY <1>2, <1>3, <1>5, <1>6, <1>7, BeginInBudget, CommitInBudget DEF RowNext, Progress

LEMMA RowInvariant == RowSpec => []RowInv
<1>1. RowInit => ClaimsInBudget
  <2> SUFFICES ASSUME RowInit, NEW v \in Videos, NEW t \in JobTypes
               PROVE  attemptCount[v][t] + Cardinality(Claiming(v, t)) <= MaxClaims
    BY DEF ClaimsInBudget
  <2>1. Claiming(v, t) = {} /\ attemptCount[v][t] = 0
    BY DEF RowInit, StoreInit, Claiming, NoAttempts
  <2> QED  BY <2>1, FS_EmptySet, SessionAssumption
<1>2. LockInv /\ StoreInv /\ ClaimsInBudget /\ [RowNext]_rowVars => ClaimsInBudget'
  BY BudgetStepKeeps DEF StoreInv
<1>3. LockInv /\ StoreInv /\ ClaimsInBudget => RowInv
  BY DEF RowInv
<1> QED  BY <1>1, <1>2, <1>3, StoreHolds, PTL DEF RowSpec

\* The calls of postgres.go, statement by statement and with every way they can
\* end, implement the one-step operations of VideoStore: no caller can tell that
\* another call was half done.
THEOREM RowsImplementStore == RowSpec => StoreSpec
<1>1. RowInit => StoreInit
  BY DEF RowInit
<1>2. RowInv /\ RowInv' /\ [RowNext]_rowVars => [StoreNext]_storeVars
  <2> SUFFICES ASSUME RowInv, RowInv', [RowNext]_rowVars PROVE [StoreNext]_storeVars
    OBVIOUS
  <2>1. [StoreCall]_storeVars
    BY RowStepIsStoreCall DEF RowInv, StoreInv
  <2>2. ASSUME NEW v \in Videos, NEW t \in JobTypes PROVE attemptCount'[v][t] <= MaxClaims
    <3>1. /\ attemptCount'[v][t] \in Nat
          /\ attemptCount'[v][t] + Cardinality(Claiming(v, t)') <= MaxClaims
      BY DEF RowInv, StoreInv, StoreTypeOK, ClaimsInBudget
    <3>2. Cardinality(Claiming(v, t)') \in Nat
      <4>1. IsFiniteSet(Claiming(v, t)')
        BY SessionAssumption, FS_Subset DEF Claiming
      <4> QED  BY <4>1, FS_CardinalityType
    <3> HIDE DEF Claiming
    <3> QED  BY <3>1, <3>2, SessionAssumption
  <2> QED  BY <2>1, <2>2 DEF StoreNext
<1> QED  BY <1>1, <1>2, RowInvariant, PTL DEF RowSpec, StoreSpec

=============================================================================
