------------------------------ MODULE RowLocks ------------------------------
(***************************************************************************)
(* The operations of internal/db/postgres.go statement by statement, with  *)
(* the row locks Postgres takes for them. VideoStore's variables are the   *)
(* committed tables; a call locks the rows its statements name, one by one *)
(* and waiting where another call holds one, and takes effect when it      *)
(* commits. CompleteJob, FailJob and ResetJobForRetry lock a job row and   *)
(* then the videos row; DELETE locks the videos row and then, cascading,   *)
(* the job rows: the two orders can deadlock.                              *)
(*                                                                         *)
(* Postgres itself is external: read-committed statements, exclusive row   *)
(* locks held to the end of the transaction, a deadlock detector that      *)
(* aborts one of the calls that wait for each other.                       *)
(***************************************************************************)
EXTENDS VideoStore, Sequences, FiniteSets, Functions

CONSTANTS
    Sessions,   \* connections to Postgres with a call in progress or none
    Serves,     \* who is behind each: the worker of a job type, or "api"
    Nobody      \* "no session"

ASSUME SessionAssumption ==
    /\ Videos # {} /\ JobTypes # {}
    /\ MaxClaims \in Nat
    /\ IsFiniteSet(Sessions)  \* the pools have limits
    /\ Nobody \notin Sessions
    /\ Serves \in [Sessions -> JobTypes \cup {"api"}]

VARIABLES
    op,       \* the operation of a session; "none": no call in progress
    target,   \* its video
    type,     \* its job type
    todo,     \* the rows it has still to lock, in order; then it commits
    lock,     \* lock[v][row]: the session holding a row of v
    issued    \* ids InsertVideo was called for (an upload is assembled once)

lockVars == <<op, target, type, todo, lock, issued>>
rowVars == <<storeVars, lockVars>>

\* The rows of one video.
Row == {"video"} \cup JobTypes

Holds(s, row) == lock[target[s]][row] = s

\* A lock is held only by a call in progress on that very row.
LockTypeOK ==
    /\ op \in [Sessions -> {"none", "claim", "complete", "fail", "reset", "delete"}]
    /\ target \in [Sessions -> Videos]
    /\ type \in [Sessions -> JobTypes]
    /\ \A s \in Sessions : Range(todo[s]) \subseteq Row
    /\ lock \in [Videos -> [Row -> Sessions \cup {Nobody}]]
    /\ issued \subseteq Videos
    /\ \A s \in Sessions, v \in Videos, row \in Row :
          lock[v][row] = s =>
              op[s] # "none" /\ v = target[s] /\ row \notin Range(todo[s])

AnyVideo == CHOOSE v \in Videos : TRUE
AnyType == CHOOSE t \in JobTypes : TRUE

RowInit ==
    /\ StoreInit
    /\ op = [s \in Sessions |-> "none"]
    /\ target = [s \in Sessions |-> AnyVideo]
    /\ type = [s \in Sessions |-> AnyType]
    /\ todo = [s \in Sessions |-> <<>>]
    /\ lock = [v \in Videos |-> [row \in Row |-> Nobody]]
    /\ issued = {}

-----------------------------------------------------------------------------
\* The order in which the referential trigger visits the job rows is the
\* planner's business.
CascadeOrders ==
    {f \in [1 .. Cardinality(JobTypes) -> JobTypes] : Range(f) = JobTypes}

\* Mutant: CompleteJob updates the videos row first.
PlansVideoFirst(o, t) ==
    CASE o = "claim" -> {<<t>>}
      [] o = "complete" -> {<<"video", t>>}
      [] o \in {"fail", "reset"} -> {<<t, "video">>}
      [] o = "delete" -> {<<"video">> \o c : c \in CascadeOrders}

\* Mutant: CompleteJob lacks its second UPDATE.
PlansJobOnly(o, t) ==
    CASE o \in {"claim", "complete"} -> {<<t>>}
      [] o \in {"fail", "reset"} -> {<<t, "video">>}
      [] o = "delete" -> {<<"video">> \o c : c \in CascadeOrders}

\* The rows an operation locks, in the order of its statements.
Plans(o, t) ==
    CASE o = "claim" -> {<<t>>}
      [] o \in {"complete", "fail", "reset"} -> {<<t, "video">>}
      [] o = "delete" -> {<<"video">> \o c : c \in CascadeOrders}

\* Mutant: a failure is recorded as a status outside the CHECK constraint.
VerdictAsError == [complete |-> "completed", fail |-> "error", reset |-> "pending"]

Verdict == [complete |-> "completed", fail |-> "failed", reset |-> "pending"]

\* The transaction of s ends, by commit, rollback or disconnection; its locks
\* go with it.
EndCall(s) ==
    /\ op' = [op EXCEPT ![s] = "none"]
    /\ todo' = [todo EXCEPT ![s] = <<>>]
    /\ lock' = [v \in Videos |-> [row \in Row |->
                   IF lock[v][row] = s THEN Nobody ELSE lock[v][row]]]
    /\ target' = [target EXCEPT ![s] = AnyVideo]
    /\ type' = [type EXCEPT ![s] = AnyType]
    /\ UNCHANGED issued

\* InsertVideo: nobody sees the new rows, or can wait for them, before the
\* transaction commits.
Insert(v) ==
    /\ v \notin issued
    /\ InsertVideo(v)
    /\ issued' = issued \cup {v}
    /\ UNCHANGED <<op, target, type, todo, lock>>

\* Claims of job t of v that have not finished.
Claiming(v, t) ==
    {s \in Sessions : op[s] = "claim" /\ target[s] = v /\ type[s] = t}

\* A worker calls ClaimJob, CompleteJob or FailJob for its job type, and for an
\* id it has from an event, so after the row was inserted.
WorkerCalls(s, o, v, t) ==
    /\ Serves[s] = t
    /\ v \in issued
    /\ \/ o \in {"complete", "fail"}
       \/ /\ o = "claim"
          /\ attemptCount[v][t] + Cardinality(Claiming(v, t)) < MaxClaims

\* A handler calls ResetJobForRetry (after GetVideo found the row) or
\* DeleteVideo (which names no job).
HandlerCalls(s, o, v, t) ==
    /\ Serves[s] = "api"
    /\ \/ o = "reset" /\ v \in issued
       \/ o = "delete" /\ t = AnyType

Begin(s, o, v, t) ==
    /\ op[s] = "none"
    /\ WorkerCalls(s, o, v, t) \/ HandlerCalls(s, o, v, t)
    /\ op' = [op EXCEPT ![s] = o]
    /\ target' = [target EXCEPT ![s] = v]
    /\ type' = [type EXCEPT ![s] = t]
    /\ \E plan \in Plans(o, t) : todo' = [todo EXCEPT ![s] = plan]
    /\ UNCHANGED <<storeVars, lock, issued>>

\* The next row is there: lock it. A row that another call holds is waited for.
LockRow(s) ==
    LET row == Head(todo[s])
    IN  /\ todo[s] # <<>>
        /\ lock[target[s]][row] = Nobody
        /\ target[s] \in rows
        /\ lock' = [lock EXCEPT ![target[s]][row] = s]
        /\ todo' = [todo EXCEPT ![s] = Tail(@)]
        /\ UNCHANGED <<storeVars, op, target, type, issued>>

\* There is no such row (any more). CompleteJob and FailJob do not look at the
\* number of rows affected; the others report it and return.
MissRow(s) ==
    /\ todo[s] # <<>>
    /\ lock[target[s]][Head(todo[s])] = Nobody
    /\ target[s] \notin rows
    /\ IF op[s] \in {"complete", "fail"}
       THEN todo' = [todo EXCEPT ![s] = Tail(@)] /\ UNCHANGED <<op, target, type, lock, issued>>
       ELSE EndCall(s)
    /\ UNCHANGED storeVars

\* Mutant: a reset leaves the attempt count alone.
AttemptsAfterKept(s) == attemptCount

\* What CompleteJob, FailJob and ResetJobForRetry leave in attempt_count.
AttemptsAfter(s) ==
    IF op[s] = "reset"
    THEN [attemptCount EXCEPT ![target[s]][type[s]] = 0] ELSE attemptCount

\* The rows that were found and locked are written.
Commit(s) ==
    LET v == target[s]
        t == type[s]
    IN  /\ op[s] # "none"
        /\ todo[s] = <<>>
        /\ \/ op[s] = "claim" /\ ClaimJob(v, t)
           \/ op[s] = "claim" /\ ~Claimable(v, t) /\ UNCHANGED storeVars
           \/ op[s] = "delete" /\ DeleteVideo(v)
           \/ /\ op[s] \in {"complete", "fail", "reset"}
              /\ jobStatus' = IF Holds(s, t)
                              THEN [jobStatus EXCEPT ![v][t] = Verdict[op[s]]] ELSE jobStatus
              /\ column' = IF Holds(s, "video")
                           THEN [column EXCEPT ![v][t] = Verdict[op[s]]] ELSE column
              /\ attemptCount' = AttemptsAfter(s)
              /\ UNCHANGED rows
        /\ EndCall(s)

\* Mutant: the deferred Rollback is missing: the connection goes back to the
\* pool with its transaction open.
AbandonOpen(s) ==
    /\ op[s] # "none"
    /\ op' = [op EXCEPT ![s] = "none"]
    /\ todo' = [todo EXCEPT ![s] = <<>>]
    /\ UNCHANGED <<storeVars, target, type, lock, issued>>

\* A statement fails or the context is done: the deferred Rollback.
Abandon(s) ==
    /\ op[s] # "none"
    /\ EndCall(s)
    /\ UNCHANGED storeVars

-----------------------------------------------------------------------------
\* s1 waits for a row that s2 holds.
WaitsFor(s1, s2) ==
    /\ todo[s1] # <<>>
    /\ lock[target[s1]][Head(todo[s1])] = s2
    /\ s1 # s2

\* Every one of them waits for one of them.
Deadlocked(group) ==
    /\ group # {}
    /\ \A s \in group : \E other \in group : WaitsFor(s, other)

\* Nobody but the cycle itself.
Cycle(group) ==
    Deadlocked(group) /\ \A part \in SUBSET group : Deadlocked(part) => part = group

\* Postgres finds the cycle and aborts a call in it.
BreakDeadlock(s) ==
    /\ \E group \in SUBSET Sessions : s \in group /\ Cycle(group)
    /\ Abandon(s)

Progress(s) == LockRow(s) \/ MissRow(s) \/ Commit(s)

RowNext ==
    \/ \E v \in Videos : Insert(v)
    \/ \E s \in Sessions :
          \/ \E o \in {"claim", "complete", "fail", "reset", "delete"},
                v \in Videos, t \in JobTypes : Begin(s, o, v, t)
          \/ Progress(s) \/ Abandon(s)

RowSpec == RowInit /\ [][RowNext]_rowVars

\* A call that can go on does, and gets a row it waits for in its turn (lock
\* queues are first come, first served); the detector runs.
RowFairSpec ==
    /\ RowSpec
    /\ \A s \in Sessions : SF_rowVars(Progress(s))
    /\ WF_rowVars(\E s \in Sessions : BreakDeadlock(s))

-----------------------------------------------------------------------------
(***************************************************************************)
(* Properties. PROPERTY StoreSpec besides these: the interleaved           *)
(* statements, with every rollback, implement the one-step operations of   *)
(* VideoStore.                                                             *)
(***************************************************************************)

\* Whenever calls wait for each other in a cycle, a DELETE and a two-table
\* update of the same video are in it and wait for each other: the locks of
\* handlers and workers deadlock in no other way, and never without a DELETE.
DeadlockIsWithDelete ==
    \A group \in SUBSET Sessions :
        Deadlocked(group) =>
            \E s1, s2 \in group :
                /\ op[s1] = "delete"
                /\ op[s2] \in {"complete", "fail", "reset"}
                /\ WaitsFor(s1, s2) /\ WaitsFor(s2, s1)

\* Every call of the store returns, if only with an error: no lock outlives
\* the call that took it and no wait is for ever.
EveryCallReturns ==
    \A s \in Sessions : op[s] # "none" ~> op[s] = "none"

=============================================================================
