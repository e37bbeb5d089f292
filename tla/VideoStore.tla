----------------------------- MODULE VideoStore -----------------------------
(***************************************************************************)
(* The Postgres tables videos and encoding_jobs and the operations that    *)
(* internal/db/postgres.go performs on them. Every operation is one        *)
(* transaction (or one autocommitted statement); the operations that touch *)
(* both tables update the encoding_jobs row first and so hold its row lock *)
(* until they commit, which is why each is a single step here.             *)
(*                                                                         *)
(* rows is the set of ids with a videos row. The encoding_jobs rows of a   *)
(* video appear with it (InsertVideo) and go with it (ON DELETE CASCADE),  *)
(* so one set stands for both tables. An id without a row keeps the column *)
(* defaults.                                                               *)
(***************************************************************************)
EXTENDS VodTypes

CONSTANT MaxClaims  \* bound on attempt_count when the store runs by itself

VARIABLES
    rows,          \* ids present in videos
    column,        \* videos.{encoding,thumbnail,caption}_status
    jobStatus,     \* encoding_jobs.status
    attemptCount   \* encoding_jobs.attempt_count

storeVars == <<rows, column, jobStatus, attemptCount>>

StoreTypeOK ==
    /\ rows \subseteq Videos
    /\ column \in [Videos -> [JobTypes -> Status]]
    /\ jobStatus \in [Videos -> [JobTypes -> Status]]
    /\ attemptCount \in [Videos -> [JobTypes -> Nat]]

AllPending == [t \in JobTypes |-> "pending"]
NoAttempts == [t \in JobTypes |-> 0]

StoreInit ==
    /\ rows = {}
    /\ column = [v \in Videos |-> AllPending]
    /\ jobStatus = [v \in Videos |-> AllPending]
    /\ attemptCount = [v \in Videos |-> NoAttempts]

-----------------------------------------------------------------------------
(***************************************************************************)
(* The operations. v \notin rows in InsertVideo is the primary key; the    *)
(* operations that name a missing row change nothing and report no error,  *)
(* except ResetJobForRetry and DeleteVideo, which return ErrNotFound (the  *)
(* caller's branch).                                                       *)
(***************************************************************************)

InsertVideo(v) ==
    /\ v \notin rows
    /\ rows' = rows \cup {v}
    /\ column' = [column EXCEPT ![v] = AllPending]
    /\ jobStatus' = [jobStatus EXCEPT ![v] = AllPending]
    /\ attemptCount' = [attemptCount EXCEPT ![v] = NoAttempts]

DeleteVideo(v) ==
    /\ v \in rows
    /\ rows' = rows \ {v}
    /\ column' = [column EXCEPT ![v] = AllPending]
    /\ jobStatus' = [jobStatus EXCEPT ![v] = AllPending]
    /\ attemptCount' = [attemptCount EXCEPT ![v] = NoAttempts]

\* Mutant: the WHERE clause without its status condition.
ClaimableAlways(v, t) == v \in rows

\* The WHERE clause of ClaimJob: any row that is not completed, whoever
\* claimed it last.
Claimable(v, t) == v \in rows /\ jobStatus[v][t] # "completed"

\* Mutant: attempt_count is not incremented.
ClaimJobUncounted(v, t) ==
    /\ Claimable(v, t)
    /\ jobStatus' = [jobStatus EXCEPT ![v][t] = "processing"]
    /\ UNCHANGED <<rows, column, attemptCount>>

ClaimJob(v, t) ==
    /\ Claimable(v, t)
    /\ jobStatus' = [jobStatus EXCEPT ![v][t] = "processing"]
    /\ attemptCount' = [attemptCount EXCEPT ![v][t] = @ + 1]
    /\ UNCHANGED <<rows, column>>

\* The job row and the videos column in one transaction, guarded by nothing
\* but the existence of the rows.
RecordStatus(v, t, s) ==
    \/ /\ v \in rows
       /\ jobStatus' = [jobStatus EXCEPT ![v][t] = s]
       /\ column' = [column EXCEPT ![v][t] = s]
       /\ UNCHANGED <<rows, attemptCount>>
    \/ /\ v \notin rows
       /\ UNCHANGED storeVars

CompleteJob(v, t) == RecordStatus(v, t, "completed")

FailJob(v, t) == RecordStatus(v, t, "failed")

ResetJobForRetry(v, t) ==
    /\ v \in rows
    /\ jobStatus' = [jobStatus EXCEPT ![v][t] = "pending"]
    /\ column' = [column EXCEPT ![v][t] = "pending"]
    /\ attemptCount' = [attemptCount EXCEPT ![v][t] = 0]
    /\ UNCHANGED rows

-----------------------------------------------------------------------------
(***************************************************************************)
(* The store by itself: any caller, any order of calls.                    *)
(***************************************************************************)
StoreCall ==
    \E v \in Videos :
        \/ InsertVideo(v)
        \/ DeleteVideo(v)
        \/ \E t \in JobTypes :
              \/ ClaimJob(v, t)
              \/ CompleteJob(v, t)
              \/ FailJob(v, t)
              \/ ResetJobForRetry(v, t)

StoreNext ==
    /\ StoreCall
    /\ \A v \in Videos, t \in JobTypes : attemptCount'[v][t] <= MaxClaims

StoreSpec == StoreInit /\ [][StoreNext]_storeVars

-----------------------------------------------------------------------------
(***************************************************************************)
(* Properties                                                              *)
(***************************************************************************)

\* What the API serves from videos never contradicts encoding_jobs, whatever
\* order workers and handlers call the store in: outside "processing" the
\* column equals the job's status, and a job in progress shows as pending or
\* failed, never as completed. So a video reads as playable exactly when its
\* hls job is completed.
ColumnAgrees ==
    \A v \in rows, t \in JobTypes :
        IF jobStatus[v][t] = "processing"
        THEN column[v][t] \in {"pending", "failed"}
        ELSE column[v][t] = jobStatus[v][t]

=============================================================================
