-------------------------- MODULE VideoStoreProofs --------------------------
(***************************************************************************)
(* What holds of the store in every order of calls, for any set of videos. *)
(***************************************************************************)
EXTENDS VideoStore, TLAPS

StoreInv == StoreTypeOK /\ ColumnAgrees

LEMMA StoreInitInv == StoreInit => StoreInv
  BY DEF StoreInit, StoreInv, StoreTypeOK, ColumnAgrees, AllPending, NoAttempts, Status

(* One lemma per operation, so that a module that composes the store can    *)
(* cite them.                                                               *)

LEMMA InsertVideoInv ==
  ASSUME StoreInv, NEW v \in Videos, InsertVideo(v)  PROVE StoreInv'
  BY DEF StoreInv, StoreTypeOK, ColumnAgrees, InsertVideo, AllPending, NoAttempts, Status

LEMMA DeleteVideoInv ==
  ASSUME StoreInv, NEW v \in Videos, DeleteVideo(v)  PROVE StoreInv'
  BY DEF StoreInv, StoreTypeOK, ColumnAgrees, DeleteVideo, AllPending, NoAttempts, Status

LEMMA ClaimJobInv ==
  ASSUME StoreInv, NEW v \in Videos, NEW t \in JobTypes, ClaimJob(v, t)
  PROVE  StoreInv'
  BY DEF StoreInv, StoreTypeOK, ColumnAgrees, ClaimJob, Claimable, Status

LEMMA RecordStatusInv ==
  ASSUME StoreInv, NEW v \in Videos, NEW t \in JobTypes,
         NEW s \in {"completed", "failed"}, RecordStatus(v, t, s)
  PROVE  StoreInv'
<1>1. CASE v \in rows
  <2>1. /\ jobStatus' = [jobStatus EXCEPT ![v][t] = s]
        /\ column' = [column EXCEPT ![v][t] = s]
        /\ UNCHANGED <<rows, attemptCount>>
    BY <1>1 DEF RecordStatus
  <2>2. StoreTypeOK'
    BY <2>1 DEF StoreInv, StoreTypeOK, Status
  <2>3. ColumnAgrees'
    BY <2>1 DEF StoreInv, StoreTypeOK, ColumnAgrees
  <2> QED  BY <2>2, <2>3 DEF StoreInv
<1>2. CASE v \notin rows
  BY <1>2 DEF StoreInv, StoreTypeOK, ColumnAgrees, RecordStatus, storeVars
<1> QED  BY <1>1, <1>2

LEMMA ResetJobInv ==
  ASSUME StoreInv, NEW v \in Videos, NEW t \in JobTypes, ResetJobForRetry(v, t)
  PROVE  StoreInv'
  BY DEF StoreInv, StoreTypeOK, ColumnAgrees, ResetJobForRetry, Status

LEMMA StoreCallInv == StoreInv /\ [StoreCall]_storeVars => StoreInv'
<1> SUFFICES ASSUME StoreInv, [StoreCall]_storeVars  PROVE StoreInv'
  OBVIOUS
<1>1. CASE UNCHANGED storeVars
  BY <1>1 DEF StoreInv, StoreTypeOK, ColumnAgrees, storeVars
<1>2. ASSUME NEW v \in Videos, InsertVideo(v) \/ DeleteVideo(v)  PROVE StoreInv'
  BY <1>2, InsertVideoInv, DeleteVideoInv
<1>3. ASSUME NEW v \in Videos, NEW t \in JobTypes,
             \/ ClaimJob(v, t) \/ CompleteJob(v, t)
             \/ FailJob(v, t) \/ ResetJobForRetry(v, t)
      PROVE  StoreInv'
  BY <1>3, ClaimJobInv, RecordStatusInv, ResetJobInv DEF CompleteJob, FailJob
<1> QED  BY <1>1, <1>2, <1>3 DEF StoreCall

LEMMA StoreStepInv == StoreInv /\ [StoreNext]_storeVars => StoreInv'
  BY StoreCallInv DEF StoreNext

THEOREM StoreTypeCorrect == StoreSpec => []StoreTypeOK
<1>1. StoreInv => StoreTypeOK
  BY DEF StoreInv
<1> QED  BY <1>1, StoreInitInv, StoreStepInv, PTL DEF StoreSpec

\* Whatever the order of calls, the API's status column never contradicts the
\* job's status (postgres.go updates both in one transaction).
THEOREM ColumnsAgree == StoreSpec => []ColumnAgrees
<1>1. StoreInv => ColumnAgrees
  BY DEF StoreInv
<1> QED  BY <1>1, StoreInitInv, StoreStepInv, PTL DEF StoreSpec

=============================================================================
