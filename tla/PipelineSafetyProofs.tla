------------------------ MODULE PipelineSafetyProofs ------------------------
(***************************************************************************)
(* No job is silently lost, no completion is undone, and what is completed *)
(* is whole: theorems about JobPipeline for any sets and bounds.           *)
(***************************************************************************)
EXTENDS JobPipelineProofs

-----------------------------------------------------------------------------
(* What is lost, and how. Crashes and errors lose no job when no worker can *)
(* lose its connection, however many consume a queue, and when each queue   *)
(* has one worker, whatever that worker loses. Only a publish that reports  *)
(* success for a message no queue received loses one; where there is none,  *)
(* no job is lost.                                                          *)

SafeTopology == OneWorkerPerType \/ ~LosesConnections

\* Somebody will still act on the job, or its announcement was not queued.
OnTheWay(v, t) ==
    jobStatus[v][t] = "completed" \/ Carried(v, t) \/ <<v, t>> \in unannounced

NoneForgotten == \A v \in rows, t \in JobTypes : OnTheWay(v, t) \/ <<v, t>> \in parked

LossInv == Inv /\ DeliveryHeld /\ NoneForgotten

LEMMA InitLossInv == Init => LossInv
<1> SUFFICES ASSUME Init PROVE LossInv
  OBVIOUS
<1>1. DeliveryHeld
  BY DEF Init, BrokerInit, DeliveryHeld, Busy
<1>2. NoneForgotten
  BY DEF Init, StoreInit, NoneForgotten
<1> QED  BY <1>1, <1>2, InitInv DEF LossInv

LEMMA Settled ==
  ASSUME TypeOK, NEW w \in Workers, Ack(w) \/ Requeue(w) \/ DeadLetter(w)
  PROVE  /\ unacked' = [unacked EXCEPT ![w] = NoVideo]
         /\ \A t \in JobTypes, v \in Videos : ready[t][v] > 0 => ready'[t][v] > 0
         /\ Requeue(w) /\ unacked[w] # NoVideo => ready'[WorkerType[w]][unacked[w]] > 0
<1> USE WorkerTypeAssumption
<1>0. /\ unacked \in [Workers -> Videos \cup {NoVideo}]
      /\ ready \in [JobTypes -> [Videos -> Nat]]
      /\ WorkerType[w] \in JobTypes
  BY DEF TypeOK, BrokerTypeOK
<1>1. CASE unacked[w] = NoVideo
  <2>1. /\ unacked' = [unacked EXCEPT ![w] = NoVideo]
        /\ ready' = ready
    BY <1>0, <1>1 DEF Ack, Requeue, DeadLetter, brokerVars
  <2> QED  BY <1>1, <2>1
<1>2. CASE unacked[w] # NoVideo
  <2>1. unacked[w] \in Videos
    BY <1>0, <1>2
  <2>2. unacked' = [unacked EXCEPT ![w] = NoVideo]
    BY <1>2 DEF Ack, Requeue, DeadLetter
  <2>3. ready' = ready \/ ready' = [ready EXCEPT ![WorkerType[w]][unacked[w]] = @ + 1]
    BY <1>2 DEF Ack, Requeue, DeadLetter
  <2>4. Requeue(w) => ready' = [ready EXCEPT ![WorkerType[w]][unacked[w]] = @ + 1]
    BY <1>2 DEF Requeue
  <2>5. \A t \in JobTypes, v \in Videos : ready[t][v] > 0 => ready'[t][v] > 0
    BY <1>0, <2>1, <2>3
  <2>6. Requeue(w) => ready'[WorkerType[w]][unacked[w]] > 0
    BY <1>0, <2>1, <2>4
  <2> QED  BY <2>2, <2>5, <2>6
<1> QED  BY <1>1, <1>2

LEMMA DeliveryHeldWorker ==
  ASSUME TypeOK, DeliveryHeld, SafeTopology, NEW w \in Workers, WorkerNext(w)
  PROVE  DeliveryHeld'
<1> USE WorkerTypeAssumption, NoVideoAssumption DEF DeliveryHeld, Busy
<1>0. /\ pc \in [Workers -> WorkerPc]
      /\ event \in [Workers -> Videos \cup {NoVideo}]
      /\ Busy(w) => event[w] \in Videos
      /\ unacked \in [Workers -> Videos \cup {NoVideo}]
      /\ ready \in [JobTypes -> [Videos -> Nat]]
  BY DEF TypeOK, WorkerTypeOK, BrokerTypeOK
<1>1. ASSUME NEW v \in Videos, Receive(w, v)  PROVE DeliveryHeld'
  <2>1. /\ ready' = [ready EXCEPT ![WorkerType[w]][v] = @ - 1]
        /\ unacked' = [unacked EXCEPT ![w] = v]
        /\ pc' = [pc EXCEPT ![w] = "claim"]
        /\ event' = [event EXCEPT ![w] = v]
        /\ pc[w] = "idle"
    BY <1>1 DEF Receive, Deliver, Goto
  <2>2. pc'[w] = "claim" /\ unacked'[w] = event'[w]
    BY <1>0, <2>1
  <2>3. ASSUME NEW x \in Workers, x # w, Busy(x), LosesConnections
        PROVE  ready'[WorkerType[x]] = ready[WorkerType[x]]
    BY <1>0, <2>1, <2>3 DEF SafeTopology, OneWorkerPerType
  <2>4. ASSUME NEW x \in Workers, x # w
        PROVE  pc'[x] = pc[x] /\ unacked'[x] = unacked[x] /\ event'[x] = event[x]
    BY <1>0, <2>1, <2>4
  <2> QED  BY <2>2, <2>3, <2>4
<1>2. ASSUME Busy(w), UNCHANGED <<brokerVars, event>>,
             NEW p \in WorkerPc \ {"idle", "exited"}, Goto(w, p)
      PROVE  DeliveryHeld'
  BY <1>0, <1>2 DEF brokerVars, Goto
<1>3. ASSUME \/ Ack(w) \/ Requeue(w) \/ DeadLetter(w),
             NEW p \in {"idle", "exited"}, Return(w, p)
      PROVE  DeliveryHeld'
  <2>1. /\ pc' = [pc EXCEPT ![w] = p]
        /\ event' = [event EXCEPT ![w] = NoVideo]
    BY <1>3 DEF Return, Goto
  <2>2. unacked' = [unacked EXCEPT ![w] = NoVideo]
    BY <1>3, Settled
  <2>3. \A t \in JobTypes, v \in Videos : ready[t][v] > 0 => ready'[t][v] > 0
    BY <1>3, Settled
  <2>4. unacked'[w] = NoVideo /\ ~Busy(w)'
    BY <1>0, <2>1, <2>2
  <2>5. ASSUME NEW x \in Workers, x # w
        PROVE  /\ pc'[x] = pc[x] /\ event'[x] = event[x] /\ unacked'[x] = unacked[x]
               /\ Busy(x) => event[x] \in Videos
    BY <1>0, <2>1, <2>2, <2>5 DEF TypeOK, WorkerTypeOK
  <2> QED  BY <2>3, <2>4, <2>5
<1>4. CASE ConnectionLost(w)
  <2>1. /\ UNCHANGED <<pc, event>>
        /\ LosesConnections
        /\ Requeue(w)
    BY <1>4 DEF ConnectionLost
  <2>2. unacked' = [unacked EXCEPT ![w] = NoVideo]
    BY <2>1, Settled
  <2>3. \A t \in JobTypes, v \in Videos : ready[t][v] > 0 => ready'[t][v] > 0
    BY <2>1, Settled
  <2>4. Busy(w) => ready'[WorkerType[w]][event[w]] > 0
    <3>1. CASE unacked[w] # NoVideo
      BY <2>1, <3>1, Settled
    <3>2. CASE unacked[w] = NoVideo
      BY <1>0, <2>3, <3>2
    <3> QED  BY <3>1, <3>2
  <2>5. ASSUME NEW x \in Workers, x # w
        PROVE  unacked'[x] = unacked[x] /\ (Busy(x) => event[x] \in Videos)
    BY <1>0, <2>2, <2>5 DEF TypeOK, WorkerTypeOK
  <2> QED  BY <1>0, <2>1, <2>2, <2>3, <2>4, <2>5
<1>5. CASE ExitLoop(w) \/ Restart(w)
  BY <1>0, <1>5 DEF ExitLoop, Restart, Goto, brokerVars
<1>6. CASE Terminate(w)
  BY <1>6 DEF Terminate, brokerVars
<1>7. CASE Crash(w)
  BY <1>3, <1>7 DEF Crash
<1>8. CASE AckDelivery(w) \/ RequeueDelivery(w) \/ RejectDelivery(w)
  BY <1>3, <1>8 DEF AckDelivery, RequeueDelivery, RejectDelivery
<1>9. CASE \/ ClaimWins(w) \/ ClaimSkips(w) \/ ClaimErrs(w) \/ Download(w)
           \/ UploadFile(w) \/ ProcessFails(w) \/ RecordFailure(w)
           \/ RecordCompletion(w) \/ CompletionErrs(w)
  <2>1. Busy(w) /\ UNCHANGED <<brokerVars, event>>
    BY <1>9 DEF ClaimWins, ClaimSkips, ClaimErrs, Download, UploadFile, ProcessFails,
       RecordFailure, RecordCompletion, CompletionErrs
  <2>2. \E p \in WorkerPc \ {"idle", "exited"} : Goto(w, p)
    <3>1. CASE UploadFile(w) /\ UNCHANGED pc
      <4>1. pc[w] = "upload" /\ pc' = [pc EXCEPT ![w] = "upload"]
        BY <3>1 DEF UploadFile, TypeOK, WorkerTypeOK
      <4> QED  BY <4>1 DEF Goto, WorkerPc
    <3>2. CASE UploadFile(w) /\ ~UNCHANGED pc
      BY <3>2 DEF UploadFile, ProcessReturns, WorkerPc
    <3>3. CASE ~UploadFile(w)
      BY <1>9, <3>3 DEF ClaimWins, ClaimSkips, ClaimErrs, Download, ProcessFails,
         ProcessReturns, RecordFailure, RecordCompletion, CompletionErrs, WorkerPc
    <3> QED  BY <3>1, <3>2, <3>3
  <2> QED  BY <1>2, <2>1, <2>2
<1> QED  BY <1>1, <1>4, <1>5, <1>6, <1>7, <1>8, <1>9 DEF WorkerNext, HandleStep

LEMMA DeliveryHeldApi ==
  ASSUME TypeOK, DeliveryHeld, NEW r \in Requests, ApiNext(r)
  PROVE  DeliveryHeld'
<1>1. UNCHANGED <<pc, event, unacked>>
  BY DEF ApiNext, ServeStep, AssembleUpload, DeleteRow, RetryJob, InsertRow, InsertErrs,
     PublishEvent, Publish, PublishErrs, PublishSwallowed, ResetJob, ResetErrs, Sweep,
     ApiCrash, workerVars, brokerVars
<1>2. \A t \in JobTypes, v \in Videos : ready[t][v] > 0 => ready'[t][v] > 0
  <2>1. CASE PublishEvent(r)
    <3>1. ready' = [t \in JobTypes |-> [ready[t] EXCEPT ![apiVideo[r]] = @ + 1]]
      BY <2>1 DEF PublishEvent, Publish
    <3> QED  BY <3>1 DEF TypeOK, BrokerTypeOK
  <2>2. PublishEvent(r) \/ ready' = ready
    BY DEF ApiNext, ServeStep, AssembleUpload, DeleteRow, RetryJob, InsertRow,
       InsertErrs, PublishErrs, PublishSwallowed, ResetJob, ResetErrs, Sweep, ApiCrash,
       brokerVars
  <2> QED  BY <2>1, <2>2
<1>3. \A w \in Workers : Busy(w) => event[w] \in Videos /\ WorkerType[w] \in JobTypes
  BY WorkerTypeAssumption DEF TypeOK, WorkerTypeOK, Busy
<1> QED  BY <1>1, <1>2, <1>3 DEF DeliveryHeld, Busy

\* What a worker's step does to the job it is not about: nothing.
LEMMA OtherJobsKeep ==
  ASSUME TypeOK, NEW w \in Workers, NEW v \in Videos, NEW t \in JobTypes,
         \/ UNCHANGED storeVars \/ ClaimJob(event[w], WorkerType[w])
         \/ FailJob(event[w], WorkerType[w]) \/ CompleteJob(event[w], WorkerType[w]),
         event[w] # v \/ WorkerType[w] # t
  PROVE  jobStatus'[v][t] = jobStatus[v][t]
  BY DEF TypeOK, StoreTypeOK, ClaimJob, FailJob, CompleteJob, RecordStatus, storeVars

Rejects(w, v, t) == RejectDelivery(w) /\ unacked[w] = v /\ WorkerType[w] = t

\* Unless it rejects it, a worker loses no job that anybody was to act on.
LEMMA WorkerCarriesOn ==
  ASSUME TypeOK, DeliveryHeld, NEW w \in Workers, WorkerNext(w),
         NEW v \in rows, NEW t \in JobTypes, OnTheWay(v, t), ~Rejects(w, v, t)
  PROVE  OnTheWay(v, t)'
<1> USE WorkerTypeAssumption, NoVideoAssumption
<1>1. /\ rows' = rows
      /\ UNCHANGED <<apiPc, apiVideo, apiType, unannounced>>
  BY DEF WorkerNext, HandleStep, Receive, ClaimWins, ClaimSkips, ClaimErrs, ClaimJob,
     Download, UploadFile, ProcessFails, RecordFailure, FailJob, RecordCompletion,
     CompletionErrs, CompleteJob, RecordStatus, AckDelivery, RequeueDelivery,
     RejectDelivery, ExitLoop, Restart, Terminate, Crash, ConnectionLost, storeVars,
     apiVars, historyVars
<1>2. ASSUME NEW x \in Workers, x # w
      PROVE  pc'[x] = pc[x] /\ unacked'[x] = unacked[x]
  BY <1>2 DEF TypeOK, WorkerTypeOK, BrokerTypeOK, WorkerNext, HandleStep, Receive,
     Deliver, ClaimWins, ClaimSkips, ClaimErrs, Download, UploadFile, ProcessFails,
     ProcessReturns, RecordFailure, RecordCompletion, CompletionErrs, AckDelivery,
     RequeueDelivery, RejectDelivery, ExitLoop, Restart, Terminate, Crash,
     ConnectionLost, Ack, Requeue, DeadLetter, Goto, Return, brokerVars
<1>3. v \in Videos
  BY DEF TypeOK, StoreTypeOK
<1> DEFINE Holds(x) == WorkerType[x] = t /\ unacked[x] = v /\ pc[x] # "ack"
<1>4. ASSUME \/ <<v, t>> \in unannounced
             \/ \E r \in Requests : Announcing(r) /\ <<v, t>> \in JobsOf(r)
             \/ \E x \in Workers : x # w /\ Holds(x)
      PROVE  OnTheWay(v, t)'
  BY <1>1, <1>2, <1>4 DEF OnTheWay, Carried, Announcing, JobsOf
\* So what is left to see to is the job's status, the queue and w itself.
<1> SUFFICES ASSUME jobStatus[v][t] = "completed" \/ ready[t][v] > 0 \/ Holds(w)
             PROVE  OnTheWay(v, t)'
  BY <1>4 DEF OnTheWay, Carried
<1>5. ready'[t][v] > 0 => OnTheWay(v, t)'
  BY DEF OnTheWay, Carried
<1>6. Holds(w)' => OnTheWay(v, t)'
  BY DEF OnTheWay, Carried
<1>7. jobStatus'[v][t] = "completed" => OnTheWay(v, t)'
  BY DEF OnTheWay
<1>8. ASSUME NEW u \in Videos, Receive(w, u)  PROVE OnTheWay(v, t)'
  <2>1. /\ ready' = [ready EXCEPT ![WorkerType[w]][u] = @ - 1]
        /\ unacked' = [unacked EXCEPT ![w] = u]
        /\ pc' = [pc EXCEPT ![w] = "claim"]
        /\ unacked[w] = NoVideo
        /\ jobStatus' = jobStatus
    BY <1>8 DEF Receive, Deliver, Goto, storeVars
  <2>2. CASE u = v /\ WorkerType[w] = t
    BY <1>6, <2>1, <2>2 DEF TypeOK, WorkerTypeOK, BrokerTypeOK
  <2>3. CASE u # v \/ WorkerType[w] # t
    <3>1. ready'[t][v] = ready[t][v]
      BY <1>3, <2>1, <2>3 DEF TypeOK, BrokerTypeOK
    <3> QED  BY <1>3, <1>5, <1>7, <2>1, <3>1
  <2> QED  BY <2>2, <2>3
<1>9. CASE \/ ClaimWins(w) \/ ClaimSkips(w) \/ ClaimErrs(w) \/ Download(w)
           \/ UploadFile(w) \/ ProcessFails(w) \/ RecordFailure(w)
           \/ RecordCompletion(w) \/ CompletionErrs(w)
  <2>1. /\ UNCHANGED <<ready, unacked>>
        /\ Busy(w)
        /\ pc'[w] = "ack" => ClaimSkips(w) \/ RecordCompletion(w)
    BY <1>9 DEF TypeOK, WorkerTypeOK, ClaimWins, ClaimSkips, ClaimErrs, Download,
       UploadFile, ProcessFails, ProcessReturns, RecordFailure, RecordCompletion,
       CompletionErrs, Goto, Busy, brokerVars
  <2>2. \/ UNCHANGED storeVars \/ ClaimJob(event[w], WorkerType[w])
        \/ FailJob(event[w], WorkerType[w]) \/ CompleteJob(event[w], WorkerType[w])
    BY <1>9 DEF ClaimWins, ClaimSkips, ClaimErrs, Download, UploadFile, ProcessFails,
       RecordFailure, RecordCompletion, CompletionErrs
  <2>3. CASE event[w] # v \/ WorkerType[w] # t
    <3>1. jobStatus'[v][t] = jobStatus[v][t]
      BY <1>3, <2>2, <2>3, OtherJobsKeep
    <3>2. ~Holds(w)
      BY <1>3, <2>1, <2>3 DEF DeliveryHeld
    <3> QED  BY <1>5, <1>7, <2>1, <3>1, <3>2
  <2>4. CASE event[w] = v /\ WorkerType[w] = t
    <3>1. unacked[w] = v \/ ready'[t][v] > 0
      BY <2>1, <2>4 DEF DeliveryHeld
    <3>2. CASE pc'[w] # "ack"
      BY <1>5, <1>6, <2>1, <2>4, <3>1, <3>2
    <3>3. CASE pc'[w] = "ack"
      <4>1. CASE ClaimSkips(w)
        BY <1>7, <2>4, <4>1 DEF ClaimSkips, Claimable, storeVars
      <4>2. CASE RecordCompletion(w)
        BY <1>3, <1>7, <2>4, <4>2 DEF RecordCompletion, CompleteJob, RecordStatus,
           TypeOK, StoreTypeOK
      <4> QED  BY <2>1, <3>3, <4>1, <4>2
    <3> QED  BY <3>2, <3>3
  <2> QED  BY <2>3, <2>4
<1>10. CASE AckDelivery(w) \/ RequeueDelivery(w) \/ RejectDelivery(w) \/ Crash(w)
            \/ ConnectionLost(w)
  <2>1. /\ jobStatus' = jobStatus
        /\ Ack(w) \/ Requeue(w) \/ DeadLetter(w)
    BY <1>10 DEF AckDelivery, RequeueDelivery, RejectDelivery, Crash, ConnectionLost,
       storeVars
  <2>2. ready[t][v] > 0 => ready'[t][v] > 0
    BY <1>3, <2>1, Settled
  <2>3. Requeue(w) /\ Holds(w) => ready'[t][v] > 0
    BY <1>3, Settled
  <2>4. CASE Holds(w)
    <3>1. CASE RejectDelivery(w)
      BY <1>3, <2>4, <3>1 DEF Rejects
    <3>2. CASE ~RejectDelivery(w)
      <4>1. Requeue(w)
        BY <1>10, <2>4, <3>2 DEF AckDelivery, RequeueDelivery, Crash, ConnectionLost
      <4> QED  BY <1>5, <2>3, <2>4, <4>1
    <3> QED  BY <3>1, <3>2
  <2> QED  BY <1>5, <1>7, <2>1, <2>2, <2>4
<1>11. CASE ExitLoop(w) \/ Restart(w) \/ Terminate(w)
  <2>1. /\ UNCHANGED <<jobStatus, ready, unacked>>
        /\ pc'[w] # "ack" \/ pc'[w] = pc[w]
    BY <1>11 DEF TypeOK, WorkerTypeOK, ExitLoop, Restart, Terminate, Goto, storeVars,
       brokerVars
  <2> QED  BY <1>5, <1>6, <1>7, <2>1
<1> QED  BY <1>8, <1>9, <1>10, <1>11 DEF WorkerNext, HandleStep

\* An announcement of job t of v is queued, about to be made, or was lost.
Followed(v, t) ==
    \/ ready[t][v] > 0
    \/ <<v, t>> \in unannounced
    \/ \E r \in Requests : Announcing(r) /\ <<v, t>> \in JobsOf(r)

\* A handler takes no announcement back.
LEMMA ApiFollows ==
  ASSUME TypeOK, NEW r \in Requests, ApiNext(r), NEW v \in Videos, NEW t \in JobTypes,
         Followed(v, t)
  PROVE  Followed(v, t)'
<1> USE DEF TypeOK, ApiTypeOK, BrokerTypeOK
<1>1. ASSUME NEW x \in Requests, x # r, Announcing(x), <<v, t>> \in JobsOf(x)
      PROVE  Followed(v, t)'
  <2>1. apiPc'[x] = apiPc[x] /\ apiVideo'[x] = apiVideo[x] /\ apiType'[x] = apiType[x]
    BY <1>1 DEF ApiNext, ServeStep, AssembleUpload, DeleteRow, RetryJob, InsertRow,
       InsertErrs, PublishEvent, PublishErrs, PublishSwallowed, ResetJob, ResetErrs,
       Sweep, ApiCrash, Serve, Respond, apiVars
  <2> QED  BY <1>1, <2>1 DEF Followed, Announcing, JobsOf
<1>2. CASE PublishEvent(r)
  <2>1. /\ ready' = [s \in JobTypes |-> [ready[s] EXCEPT ![apiVideo[r]] = @ + 1]]
        /\ unannounced' = unannounced \ ({apiVideo[r]} \X JobTypes)
        /\ apiVideo[r] \in Videos
    BY <1>2 DEF PublishEvent, Publish, Announcing
  <2>2. CASE v = apiVideo[r]
    <3>1. ready'[t][v] > 0
      BY <2>1, <2>2
    <3> QED  BY <3>1 DEF Followed
  <2>3. CASE v # apiVideo[r]
    <3>1. /\ ready'[t][v] = ready[t][v]
          /\ <<v, t>> \in unannounced => <<v, t>> \in unannounced'
      BY <2>1, <2>3
    <3>2. <<v, t>> \notin JobsOf(r)
      BY <2>3 DEF JobsOf
    <3> QED  BY <1>1, <3>1, <3>2 DEF Followed
  <2> QED  BY <2>2, <2>3
<1>3. CASE ~PublishEvent(r)
  <2>1. ready' = ready /\ unannounced \subseteq unannounced'
    BY <1>3 DEF ApiNext, ServeStep, AssembleUpload, DeleteRow, RetryJob, InsertRow,
       InsertErrs, PublishErrs, PublishSwallowed, ResetJob, ResetErrs, Sweep, ApiCrash,
       NotAnnounced, brokerVars, historyVars
  <2>2. Announcing(r) => JobsOf(r) \subseteq unannounced'
    BY <1>3 DEF ApiNext, ServeStep, AssembleUpload, DeleteRow, RetryJob, InsertRow,
       InsertErrs, PublishErrs, PublishSwallowed, ResetJob, ResetErrs, Sweep, ApiCrash,
       NotAnnounced, Announcing
  <2> QED  BY <1>1, <2>1, <2>2 DEF Followed
<1> QED  BY <1>2, <1>3

\* A handler that changes a job announces it, or its announcement is missing.
LEMMA ApiKeepsJob ==
  ASSUME TypeOK, NEW r \in Requests, ApiNext(r), NEW v \in rows', NEW t \in JobTypes
  PROVE  \/ Followed(v, t)'
         \/ /\ v \in rows
            /\ jobStatus'[v][t] = jobStatus[v][t]
            /\ attemptCount'[v][t] = attemptCount[v][t]
            /\ <<v, t>> \in parked <=> <<v, t>> \in parked'
<1> DEFINE Kept == /\ v \in rows
                   /\ jobStatus'[v][t] = jobStatus[v][t]
                   /\ attemptCount'[v][t] = attemptCount[v][t]
                   /\ <<v, t>> \in parked <=> <<v, t>> \in parked'
<1> USE DEF TypeOK, StoreTypeOK, ApiTypeOK
<1>1. CASE UNCHANGED <<storeVars, parked>>
  BY <1>1 DEF storeVars
<1>2. ASSUME UNCHANGED parked, InsertVideo(apiVideo[r]), v # apiVideo[r]  PROVE Kept
  BY <1>2 DEF InsertVideo
<1>3. ASSUME parked' = parked \ {<<apiVideo[r], apiType[r]>>},
             ResetJobForRetry(apiVideo[r], apiType[r]),
             v # apiVideo[r] \/ t # apiType[r]
      PROVE  Kept
  BY <1>3 DEF ResetJobForRetry
<1>4. ASSUME <<v, t>> \in unannounced'  PROVE Followed(v, t)'
  BY <1>4 DEF Followed
<1>5. ASSUME Announcing(r)', <<v, t>> \in JobsOf(r)'  PROVE Followed(v, t)'
  BY <1>5 DEF Followed
<1>6. CASE InsertRow(r)
  <2>1. Announcing(r)' /\ JobsOf(r)' = {apiVideo[r]} \X JobTypes
    BY <1>6 DEF InsertRow, Serve, Announcing, JobsOf
  <2> QED  BY <1>2, <1>5, <1>6, <2>1 DEF InsertRow, historyVars
<1>7. CASE InsertErrs(r)
  <2>1. JobsOf(r) = {apiVideo[r]} \X JobTypes
    BY <1>7 DEF InsertErrs, JobsOf
  <2> QED  BY <1>1, <1>2, <1>4, <1>7, <2>1 DEF InsertErrs, NotAnnounced
<1>8. CASE ResetJob(r)
  <2>1. Announcing(r)' /\ JobsOf(r)' = {<<apiVideo[r], apiType[r]>>}
    BY <1>8 DEF ResetJob, Serve, Announcing, JobsOf
  <2> QED  BY <1>3, <1>5, <1>8, <2>1 DEF ResetJob
<1>9. CASE ResetErrs(r)
  <2>1. JobsOf(r) = {<<apiVideo[r], apiType[r]>>}
    BY <1>9 DEF ResetErrs, JobsOf
  <2> QED  BY <1>1, <1>3, <1>4, <1>9, <2>1 DEF ResetErrs, NotAnnounced
<1>10. ASSUME NEW u \in Videos, DeleteRow(r, u)  PROVE Kept
  BY <1>10 DEF DeleteRow, DeleteVideo
<1>11. CASE \/ PublishEvent(r) \/ PublishErrs(r) \/ PublishSwallowed(r)
            \/ Sweep(r) \/ ApiCrash(r)
            \/ \E u \in Videos : \/ AssembleUpload(r, u)
                                 \/ \E s \in JobTypes : RetryJob(r, u, s)
  BY <1>1, <1>11 DEF PublishEvent, PublishErrs, PublishSwallowed, Sweep, ApiCrash,
     AssembleUpload, RetryJob, historyVars
<1> QED  BY <1>6, <1>7, <1>8, <1>9, <1>10, <1>11 DEF ApiNext, ServeStep

\* Nor does a handler; what it inserts or resets is on the way again.
LEMMA ApiCarriesOn ==
  ASSUME TypeOK, NEW r \in Requests, ApiNext(r), NEW v \in rows', NEW t \in JobTypes,
         v \in rows => OnTheWay(v, t) \/ <<v, t>> \in parked \ parked'
  PROVE  OnTheWay(v, t)'
<1>1. UNCHANGED <<pc, unacked>>
  BY DEF ApiNext, ServeStep, AssembleUpload, DeleteRow, RetryJob, InsertRow, InsertErrs,
     PublishEvent, Publish, PublishErrs, PublishSwallowed, ResetJob, ResetErrs, Sweep,
     ApiCrash, workerVars, brokerVars
<1>2. Followed(v, t)' => OnTheWay(v, t)'
  BY DEF Followed, OnTheWay, Carried
<1>3. ASSUME v \in rows, jobStatus'[v][t] = jobStatus[v][t],
             <<v, t>> \in parked <=> <<v, t>> \in parked'
      PROVE  OnTheWay(v, t)'
  <2>1. OnTheWay(v, t) /\ v \in Videos
    BY <1>3 DEF TypeOK, StoreTypeOK
  <2>2. CASE Followed(v, t)
    BY <1>2, <2>1, <2>2, ApiFollows
  <2>3. CASE ~Followed(v, t)
    BY <1>1, <1>3, <2>1, <2>3 DEF Followed, OnTheWay, Carried
  <2> QED  BY <2>2, <2>3
<1> QED  BY <1>2, <1>3, ApiKeepsJob

LEMMA NoLossWorker ==
  ASSUME TypeOK, DeliveryHeld, NoneForgotten, NEW w \in Workers, WorkerNext(w)
  PROVE  NoneForgotten'
<1>1. rows' = rows /\ parked \subseteq parked'
  BY DEF WorkerNext, HandleStep, Receive, ClaimWins, ClaimSkips, ClaimErrs, ClaimJob,
     Download, UploadFile, ProcessFails, RecordFailure, FailJob, RecordCompletion,
     CompletionErrs, CompleteJob, RecordStatus, AckDelivery, RequeueDelivery,
     RejectDelivery, ExitLoop, Restart, Terminate, Crash, ConnectionLost, storeVars,
     historyVars
<1> SUFFICES ASSUME NEW v \in rows, NEW t \in JobTypes
             PROVE  OnTheWay(v, t)' \/ <<v, t>> \in parked'
  BY <1>1 DEF NoneForgotten
<1>2. CASE <<v, t>> \in parked
  BY <1>1, <1>2
<1>3. CASE Rejects(w, v, t)
  <2>1. v # NoVideo
    BY NoVideoAssumption DEF TypeOK, StoreTypeOK
  <2> QED  BY <1>3, <2>1 DEF Rejects, RejectDelivery
<1>4. CASE OnTheWay(v, t) /\ ~Rejects(w, v, t)
  BY <1>4, WorkerCarriesOn
<1> QED  BY <1>2, <1>3, <1>4 DEF NoneForgotten

LEMMA NoLossApi ==
  ASSUME TypeOK, NoneForgotten, NEW r \in Requests, ApiNext(r)
  PROVE  NoneForgotten'
<1> SUFFICES ASSUME NEW v \in rows', NEW t \in JobTypes, <<v, t>> \notin parked'
             PROVE  OnTheWay(v, t)'
  BY DEF NoneForgotten
<1>1. v \in rows => OnTheWay(v, t) \/ <<v, t>> \in parked \ parked'
  BY DEF NoneForgotten
<1> QED  BY <1>1, ApiCarriesOn

LEMMA StepLossInv ==
  ASSUME SafeTopology, LossInv, [Next]_vars  PROVE LossInv'
<1>1. Inv'
  BY StepInv DEF LossInv
<1>2. ASSUME NEW w \in Workers, WorkerNext(w)  PROVE DeliveryHeld' /\ NoneForgotten'
  BY <1>2, DeliveryHeldWorker, NoLossWorker DEF LossInv, Inv
<1>3. ASSUME NEW r \in Requests, ApiNext(r)  PROVE DeliveryHeld' /\ NoneForgotten'
  BY <1>3, DeliveryHeldApi, NoLossApi DEF LossInv, Inv
<1>4. CASE UNCHANGED vars
  <2>1. UNCHANGED <<rows, jobStatus, ready, unacked, pc, event, apiPc, apiVideo,
                    apiType, unannounced, parked>>
    BY <1>4 DEF vars, storeVars, brokerVars, workerVars, apiVars, historyVars
  <2>2. DeliveryHeld'
    BY <2>1 DEF LossInv, DeliveryHeld, Busy
  <2>3. NoneForgotten'
    BY <2>1 DEF LossInv, NoneForgotten, OnTheWay, Carried, Announcing, JobsOf
  <2> QED  BY <1>1, <2>2, <2>3 DEF LossInv
<1> QED  BY <1>1, <1>2, <1>3, <1>4 DEF Next, LossInv

\* The promise of worker.Run: whatever crashes, is cancelled or returns an
\* error, the only jobs of recorded videos that are lost without a trace are
\* those whose own announcement was swallowed, by a publish that returned nil.
THEOREM OnlyPublishesLoseJobs == ASSUME SafeTopology PROVE Spec => []OnlyPublishesLose
<1>1. LossInv => OnlyPublishesLose
  BY DEF LossInv, NoneForgotten, OnlyPublishesLose, Accounted, GivenUp, OnTheWay
<1>2. LossInv /\ [Next]_vars => LossInv'
  BY StepLossInv
<1> QED  BY <1>1, <1>2, InitLossInv, PTL DEF Spec

NoneSwallowed == swallowed = {}

\* Where every publish that reports success is queued, none is swallowed.
LEMMA StepSwallowed ==
  ASSUME ~LosesPublishes, NoneSwallowed, [Next]_vars  PROVE NoneSwallowed'
<1>1. ASSUME NEW w \in Workers, WorkerNext(w)  PROVE swallowed' = swallowed
  BY <1>1 DEF WorkerNext, HandleStep, Receive, ClaimWins, ClaimSkips, ClaimErrs,
     Download, UploadFile, ProcessFails, RecordFailure, RecordCompletion,
     CompletionErrs, AckDelivery, RequeueDelivery, RejectDelivery, ExitLoop, Restart,
     Terminate, Crash, ConnectionLost, historyVars
<1>2. ASSUME NEW r \in Requests, ApiNext(r)  PROVE swallowed' \subseteq swallowed
  BY <1>2 DEF ApiNext, ServeStep, AssembleUpload, DeleteRow, RetryJob, InsertRow,
     InsertErrs, PublishEvent, PublishErrs, PublishSwallowed, ResetJob, ResetErrs,
     Sweep, ApiCrash, NotAnnounced, historyVars
<1>3. CASE UNCHANGED vars
  BY <1>3 DEF vars, historyVars, NoneSwallowed
<1> QED  BY <1>1, <1>2, <1>3 DEF Next, NoneSwallowed

\* So there no job at all is lost silently: at every instant each job of a
\* recorded video is completed, carried by somebody, dead-lettered, or its
\* announcement failed with an error.
THEOREM NoLoss == ASSUME SafeTopology, ~LosesPublishes PROVE Spec => []NoSilentLoss
<1>1. LossInv /\ NoneSwallowed => NoSilentLoss
  BY DEF LossInv, NoneForgotten, NoneSwallowed, NoSilentLoss, Accounted, GivenUp, OnTheWay
<1>2. LossInv /\ [Next]_vars => LossInv'
  BY StepLossInv
<1>3. NoneSwallowed /\ [Next]_vars => NoneSwallowed'
  BY StepSwallowed
<1>4. Init => NoneSwallowed
  BY DEF Init, NoneSwallowed
<1> QED  BY <1>1, <1>2, <1>3, <1>4, InitLossInv, PTL DEF Spec

\* A busy worker's message is never out of the broker's books.
THEOREM Held == ASSUME SafeTopology PROVE Spec => []DeliveryHeld
<1>1. LossInv => DeliveryHeld
  BY DEF LossInv
<1>2. LossInv /\ [Next]_vars => LossInv'
  BY StepLossInv
<1> QED  BY <1>1, <1>2, InitLossInv, PTL DEF Spec

-----------------------------------------------------------------------------
(* What a worker records. With one worker per queue nobody completes a job  *)
(* while another works on it, connection or no connection.                  *)

LEMMA InitNoWork == Init => NoWorkOnCompleted
  BY DEF Init, NoWorkOnCompleted

Working(w) == pc[w] \in {"download", "upload", "fail", "complete"}

LEMMA NoWorkWorker ==
  ASSUME TypeOK, OneWorkerPerType, NoWorkOnCompleted, NEW w \in Workers, WorkerNext(w)
  PROVE  NoWorkOnCompleted'
<1> USE WorkerTypeAssumption DEF Working
<1>1. ASSUME NEW x \in Workers, x # w
      PROVE  pc'[x] = pc[x] /\ event'[x] = event[x]
  BY <1>1 DEF TypeOK, WorkerTypeOK, WorkerNext, HandleStep, Receive, ClaimWins,
     ClaimSkips, ClaimErrs, Download, UploadFile, ProcessFails, ProcessReturns,
     RecordFailure, RecordCompletion, CompletionErrs, AckDelivery, RequeueDelivery,
     RejectDelivery, ExitLoop, Restart, Terminate, Crash, ConnectionLost, Goto, Return
<1>2. \/ UNCHANGED storeVars \/ ClaimJob(event[w], WorkerType[w])
      \/ FailJob(event[w], WorkerType[w]) \/ CompleteJob(event[w], WorkerType[w])
  BY DEF WorkerNext, HandleStep, Receive, ClaimWins, ClaimSkips, ClaimErrs, Download,
     UploadFile, ProcessFails, RecordFailure, RecordCompletion, CompletionErrs,
     AckDelivery, RequeueDelivery, RejectDelivery, ExitLoop, Restart, Terminate,
     Crash, ConnectionLost
<1>3. ASSUME NEW x \in Workers, x # w, Working(x)'
      PROVE  jobStatus'[event'[x]][WorkerType[x]] # "completed"
  <2>1. Working(x) /\ event'[x] = event[x] /\ event[x] \in Videos
    BY <1>1, <1>3 DEF TypeOK, WorkerTypeOK
  <2>2. WorkerType[x] # WorkerType[w] /\ WorkerType[x] \in JobTypes
    BY <1>3 DEF OneWorkerPerType
  <2>3. jobStatus'[event[x]][WorkerType[x]] = jobStatus[event[x]][WorkerType[x]]
    BY <1>2, <2>1, <2>2, OtherJobsKeep
  <2> QED  BY <2>1, <2>3 DEF NoWorkOnCompleted
<1>4. ASSUME Working(w)'  PROVE jobStatus'[event'[w]][WorkerType[w]] # "completed"
  <2>1. CASE ClaimWins(w)
    BY <2>1 DEF ClaimWins, ClaimJob, Claimable, TypeOK, StoreTypeOK
  <2>2. CASE \/ Download(w) \/ UploadFile(w) \/ ProcessFails(w) \/ Terminate(w)
             \/ ConnectionLost(w)
    <3>1. /\ Working(w)
          /\ UNCHANGED <<jobStatus, event>>
      BY <1>4, <2>2 DEF Download, UploadFile, ProcessFails, Terminate, ConnectionLost,
         storeVars
    <3> QED  BY <3>1 DEF NoWorkOnCompleted
  <2>3. CASE \/ \E v \in Videos : Receive(w, v)
             \/ ClaimSkips(w) \/ ClaimErrs(w) \/ RecordFailure(w) \/ RecordCompletion(w)
             \/ CompletionErrs(w) \/ AckDelivery(w) \/ RequeueDelivery(w)
             \/ RejectDelivery(w) \/ ExitLoop(w) \/ Restart(w) \/ Crash(w)
    BY <1>4, <2>3 DEF TypeOK, WorkerTypeOK, Receive, ClaimSkips, ClaimErrs,
       RecordFailure, RecordCompletion, CompletionErrs, AckDelivery, RequeueDelivery,
       RejectDelivery, ExitLoop, Restart, Crash, Goto, Return
  <2> QED  BY <2>1, <2>2, <2>3 DEF WorkerNext, HandleStep
<1> QED  BY <1>3, <1>4 DEF NoWorkOnCompleted

\* A handler leaves a job's status alone, or makes it pending.
LEMMA ApiStatus ==
  ASSUME TypeOK, NEW r \in Requests, ApiNext(r), NEW v \in Videos, NEW t \in JobTypes
  PROVE  jobStatus'[v][t] \in {jobStatus[v][t], "pending"}
<1> USE DEF TypeOK, StoreTypeOK
<1>1. ASSUME NEW u \in Videos, jobStatus' = [jobStatus EXCEPT ![u] = AllPending]
      PROVE  jobStatus'[v][t] \in {jobStatus[v][t], "pending"}
  BY <1>1 DEF AllPending
<1>2. ASSUME NEW u \in Videos, NEW s \in JobTypes,
             jobStatus' = [jobStatus EXCEPT ![u][s] = "pending"]
      PROVE  jobStatus'[v][t] \in {jobStatus[v][t], "pending"}
  BY <1>2
<1>3. CASE jobStatus' = jobStatus
  BY <1>3
<1>4. ASSUME NEW u \in Videos, DeleteRow(r, u)
      PROVE  jobStatus'[v][t] \in {jobStatus[v][t], "pending"}
  BY <1>1, <1>4 DEF DeleteRow, DeleteVideo
<1>5. CASE InsertRow(r) \/ InsertErrs(r)
  <2>1. apiVideo[r] \in Videos
    BY <1>5 DEF ApiTypeOK, InsertRow, InsertErrs
  <2>2. \/ jobStatus' = jobStatus
        \/ jobStatus' = [jobStatus EXCEPT ![apiVideo[r]] = AllPending]
    BY <1>5 DEF InsertRow, InsertErrs, InsertVideo, storeVars
  <2> QED  BY <1>1, <1>3, <2>1, <2>2
<1>6. CASE ResetJob(r) \/ ResetErrs(r)
  <2>1. apiVideo[r] \in Videos /\ apiType[r] \in JobTypes
    BY <1>6 DEF ApiTypeOK, ResetJob, ResetErrs
  <2>2. \/ jobStatus' = jobStatus
        \/ jobStatus' = [jobStatus EXCEPT ![apiVideo[r]][apiType[r]] = "pending"]
    BY <1>6 DEF ResetJob, ResetErrs, ResetJobForRetry, storeVars
  <2> QED  BY <1>2, <1>3, <2>1, <2>2
<1>7. CASE \/ PublishEvent(r) \/ PublishErrs(r) \/ PublishSwallowed(r) \/ Sweep(r) \/ ApiCrash(r)
           \/ \E u \in Videos : \/ AssembleUpload(r, u)
                                \/ \E s \in JobTypes : RetryJob(r, u, s)
  BY <1>3, <1>7 DEF PublishEvent, PublishErrs, PublishSwallowed, Sweep, ApiCrash,
     AssembleUpload, RetryJob, storeVars
<1> QED  BY <1>4, <1>5, <1>6, <1>7 DEF ApiNext, ServeStep

LEMMA NoWorkApi ==
  ASSUME TypeOK, NoWorkOnCompleted, NEW r \in Requests, ApiNext(r)
  PROVE  NoWorkOnCompleted'
<1>1. UNCHANGED <<pc, event>>
  BY DEF ApiNext, ServeStep, AssembleUpload, DeleteRow, RetryJob, InsertRow, InsertErrs,
     PublishEvent, PublishErrs, PublishSwallowed, ResetJob, ResetErrs, Sweep, ApiCrash,
     workerVars
<1> SUFFICES ASSUME NEW w \in Workers, Working(w)'
             PROVE  jobStatus'[event'[w]][WorkerType[w]] # "completed"
  BY DEF NoWorkOnCompleted, Working
<1>2. Working(w) /\ event'[w] = event[w]
  BY <1>1 DEF Working
<1>3. event[w] \in Videos /\ WorkerType[w] \in JobTypes
  BY <1>2, WorkerTypeAssumption DEF TypeOK, WorkerTypeOK, Working
<1>4. jobStatus[event[w]][WorkerType[w]] # "completed"
  BY <1>2 DEF NoWorkOnCompleted, Working
<1> QED  BY <1>2, <1>3, <1>4, ApiStatus

LEMMA StepNoWork ==
  ASSUME OneWorkerPerType, Inv, NoWorkOnCompleted, [Next]_vars
  PROVE  NoWorkOnCompleted'
<1>1. CASE UNCHANGED vars
  BY <1>1 DEF NoWorkOnCompleted, vars, storeVars, workerVars
<1> QED  BY <1>1, NoWorkWorker, NoWorkApi DEF Inv, Next

\* With one worker per queue, no attempt runs on a job that is completed.
THEOREM NoWorkDone == ASSUME OneWorkerPerType PROVE Spec => []NoWorkOnCompleted
<1>1. Inv /\ NoWorkOnCompleted /\ [Next]_vars => NoWorkOnCompleted'
  BY StepNoWork
<1> QED  BY <1>1, InitInv, StepInv, InitNoWork, PTL DEF Spec

NoUndo ==
    \A v \in rows, t \in JobTypes :
        jobStatus[v][t] = "completed" /\ v \in rows' =>
            jobStatus'[v][t] \in {"completed", "pending"}

LEMMA StepNoUndo ==
  ASSUME Inv, NoWorkOnCompleted, [Next]_vars  PROVE NoUndo
<1> USE WorkerTypeAssumption
<1> SUFFICES ASSUME NEW v \in rows, NEW t \in JobTypes,
                    jobStatus[v][t] = "completed", v \in rows'
             PROVE  jobStatus'[v][t] \in {"completed", "pending"}
  BY DEF NoUndo
<1>0. v \in Videos
  BY DEF Inv, TypeOK, StoreTypeOK
<1>1. ASSUME NEW w \in Workers, WorkerNext(w)
      PROVE  jobStatus'[v][t] = "completed"
  <2>1. CASE RecordFailure(w)
    <3>1. jobStatus[event[w]][WorkerType[w]] # "completed"
      BY <2>1 DEF RecordFailure, NoWorkOnCompleted
    <3>2. UNCHANGED storeVars \/ FailJob(event[w], WorkerType[w])
      BY <2>1 DEF RecordFailure
    <3> QED  BY <1>0, <3>1, <3>2, OtherJobsKeep DEF Inv, storeVars
  <2>2. CASE ~RecordFailure(w)
    <3>1. \/ UNCHANGED storeVars \/ ClaimJob(event[w], WorkerType[w])
          \/ CompleteJob(event[w], WorkerType[w])
      BY <1>1, <2>2 DEF WorkerNext, HandleStep, Receive, ClaimWins, ClaimSkips, ClaimErrs,
         Download, UploadFile, ProcessFails, RecordCompletion, CompletionErrs,
         AckDelivery, RequeueDelivery, RejectDelivery, ExitLoop, Restart, Terminate,
         Crash, ConnectionLost
    <3>2. CASE UNCHANGED storeVars
      BY <3>2 DEF storeVars
    <3>3. CASE ClaimJob(event[w], WorkerType[w])
      <4>1. event[w] # v \/ WorkerType[w] # t
        BY <3>3 DEF ClaimJob, Claimable
      <4> QED  BY <1>0, <3>3, <4>1, OtherJobsKeep DEF Inv
    <3>4. CASE CompleteJob(event[w], WorkerType[w])
      <4>1. CASE event[w] # v \/ WorkerType[w] # t
        BY <1>0, <3>4, <4>1, OtherJobsKeep DEF Inv
      <4>2. CASE event[w] = v /\ WorkerType[w] = t
        BY <1>0, <3>4, <4>2 DEF CompleteJob, RecordStatus, Inv, TypeOK, StoreTypeOK
      <4> QED  BY <4>1, <4>2
    <3> QED  BY <3>1, <3>2, <3>3, <3>4
  <2> QED  BY <2>1, <2>2
<1>2. ASSUME NEW r \in Requests, ApiNext(r)
      PROVE  jobStatus'[v][t] \in {"completed", "pending"}
  BY <1>0, <1>2, ApiStatus DEF Inv
<1>3. CASE UNCHANGED vars
  BY <1>3 DEF vars, storeVars
<1> QED  BY <1>1, <1>2, <1>3 DEF Next

\* With one worker per queue a completion is final until an operator retries
\* the job: no late failure, no redelivery takes it back.
THEOREM CompletionIsFinal == ASSUME OneWorkerPerType PROVE Spec => CompletedStays
<1>1. Inv /\ NoWorkOnCompleted /\ [Next]_vars => NoWorkOnCompleted'
  BY StepNoWork
<1>2. Inv /\ NoWorkOnCompleted /\ [Next]_vars => [NoUndo]_vars
  BY StepNoUndo
<1>3. CompletedStays <=> [][NoUndo]_vars
  BY PTL DEF CompletedStays, NoUndo
<1> QED  BY <1>1, <1>2, <1>3, InitInv, StepInv, InitNoWork, PTL DEF Spec

-----------------------------------------------------------------------------
(* What is completed is whole. No assumption on the topology: files are     *)
(* only ever added to the output of a video that has not been deleted, and  *)
(* an id, once deleted, never returns.                                      *)

FreshIds ==
    /\ rows \cap deleted = {}
    /\ rows \cup deleted \subseteq born
    /\ \A r \in Requests :
          /\ apiPc[r] = "insert" => apiVideo[r] \in born \ (rows \cup deleted)
          /\ apiPc[r] = "sweep" => apiVideo[r] \in deleted
    /\ \A r1, r2 \in Requests :
          apiPc[r1] = "insert" /\ apiPc[r2] = "insert" /\ apiVideo[r1] = apiVideo[r2]
              => r1 = r2

\* What a worker believes it has uploaded is there.
ProgressIsReal ==
    \A w \in Workers :
        event[w] \notin deleted =>
            /\ pc[w] = "upload" => 1 .. uploaded[w] \subseteq artifacts[event[w]][WorkerType[w]]
            /\ pc[w] = "complete" => Whole(event[w], WorkerType[w])

WholeInv == FreshIds /\ ProgressIsReal /\ CompletedIsWhole /\ EntryPointIsLast

LEMMA InitWhole == Init => WholeInv
<1> SUFFICES ASSUME Init PROVE WholeInv
  OBVIOUS
<1>1. rows = {} /\ deleted = {} /\ born = {}
  BY DEF Init, StoreInit
<1>2. FreshIds
  BY <1>1 DEF Init, FreshIds
<1>3. ProgressIsReal
  BY DEF Init, ProgressIsReal
<1>4. CompletedIsWhole /\ EntryPointIsLast
  BY <1>1, PipelineAssumption DEF Init, CompletedIsWhole, EntryPointIsLast
<1> QED  BY <1>2, <1>3, <1>4 DEF WholeInv

LEMMA FreshWorker ==
  ASSUME FreshIds, NEW w \in Workers, WorkerNext(w)  PROVE FreshIds'
<1>1. UNCHANGED <<rows, born, deleted, apiPc, apiVideo>>
  BY DEF WorkerNext, HandleStep, Receive, ClaimWins, ClaimSkips, ClaimErrs, ClaimJob,
     Download, UploadFile, ProcessFails, RecordFailure, FailJob, RecordCompletion,
     CompletionErrs, CompleteJob, RecordStatus, AckDelivery, RequeueDelivery,
     RejectDelivery, ExitLoop, Restart, Terminate, Crash, ConnectionLost, storeVars,
     apiVars, historyVars
<1> QED  BY <1>1 DEF FreshIds

LEMMA FreshApi ==
  ASSUME TypeOK, FreshIds, NEW r \in Requests, ApiNext(r)  PROVE FreshIds'
<1> USE DEF TypeOK, ApiTypeOK, FreshIds
<1>1. ASSUME NEW v \in Videos, AssembleUpload(r, v)  PROVE FreshIds'
  BY <1>1 DEF AssembleUpload, Serve, storeVars
<1>2. ASSUME NEW v \in Videos, DeleteRow(r, v)  PROVE FreshIds'
  BY <1>2 DEF DeleteRow, DeleteVideo, Serve, apiVars
<1>3. CASE InsertRow(r)
  BY <1>3 DEF InsertRow, InsertVideo, Serve, historyVars
<1>4. CASE InsertErrs(r)
  BY <1>4 DEF InsertErrs, InsertVideo, Respond, storeVars
<1>5. CASE \/ PublishEvent(r) \/ PublishErrs(r) \/ PublishSwallowed(r) \/ ResetJob(r) \/ ResetErrs(r)
           \/ ApiCrash(r) \/ \E v \in Videos, t \in JobTypes : RetryJob(r, v, t)
  <2>1. /\ UNCHANGED <<rows, born, deleted>>
        /\ apiPc'[r] \notin {"insert", "sweep"}
        /\ \A x \in Requests : x # r => apiPc'[x] = apiPc[x] /\ apiVideo'[x] = apiVideo[x]
    BY <1>5 DEF PublishEvent, PublishErrs, PublishSwallowed, ResetJob, ResetErrs,
       ApiCrash, RetryJob, ResetJobForRetry, Serve, Respond, storeVars, historyVars
  <2> QED  BY <2>1
<1>6. CASE Sweep(r)
  <2>1. /\ UNCHANGED <<rows, born, deleted>>
        /\ apiPc'[r] # "insert"
        /\ apiPc'[r] = "sweep" => apiPc[r] = "sweep" /\ apiVideo'[r] = apiVideo[r]
        /\ \A x \in Requests : x # r => apiPc'[x] = apiPc[x] /\ apiVideo'[x] = apiVideo[x]
    BY <1>6 DEF Sweep, Respond, storeVars, historyVars
  <2> QED  BY <2>1
<1> QED  BY <1>1, <1>2, <1>3, <1>4, <1>5, <1>6 DEF ApiNext, ServeStep

LEMMA WholeWorker ==
  ASSUME TypeOK, WholeInv, NEW w \in Workers, WorkerNext(w)
  PROVE  ProgressIsReal' /\ CompletedIsWhole' /\ EntryPointIsLast'
<1> USE WorkerTypeAssumption, PipelineAssumption DEF WholeInv
<1>1. CASE UploadFile(w)
  <2> DEFINE v == event[w]
             t == WorkerType[w]
             n == uploaded[w] + 1
  <2>1. /\ pc[w] = "upload" /\ v \in Videos /\ t \in JobTypes /\ n \in 1 .. NumFiles
        /\ UNCHANGED <<rows, jobStatus, deleted, event>>
        /\ artifacts' = [artifacts EXCEPT ![v][t] = @ \cup {n}]
    BY <1>1 DEF UploadFile, TypeOK, WorkerTypeOK, storeVars, historyVars
  <2>2. /\ artifacts'[v][t] = artifacts[v][t] \cup {n}
        /\ artifacts'[v][t] \subseteq Files
        /\ \A u \in Videos, s \in JobTypes :
              <<u, s>> # <<v, t>> => artifacts'[u][s] = artifacts[u][s]
    BY <2>1 DEF TypeOK, ObjectTypeOK, Files
  <2>3. v \notin deleted => 1 .. n \subseteq artifacts'[v][t]
    <3>1. uploaded[w] \in Nat
      BY DEF TypeOK, WorkerTypeOK
    <3>2. 1 .. n = (1 .. uploaded[w]) \cup {n}
      BY <3>1
    <3>3. v \notin deleted => 1 .. uploaded[w] \subseteq artifacts[v][t]
      BY <2>1 DEF ProgressIsReal
    <3> HIDE DEF n
    <3> QED  BY <2>2, <3>2, <3>3
  <2>4. v \notin deleted /\ n = NumFiles => artifacts'[v][t] = Files
    BY <2>2, <2>3 DEF Files
  <2>5. \A u \in Videos, s \in JobTypes :
           artifacts[u][s] = Files => artifacts'[u][s] = Files
    BY <2>2
  <2>6. ProgressIsReal'
    <3>1. ASSUME NEW x \in Workers, x # w, pc[x] \in {"upload", "complete"},
                 event[x] \notin deleted
          PROVE  /\ pc[x] = "upload" =>
                      1 .. uploaded[x] \subseteq artifacts'[event[x]][WorkerType[x]]
                 /\ pc[x] = "complete" => artifacts'[event[x]][WorkerType[x]] = Files
      <4>1. event[x] \in Videos /\ WorkerType[x] \in JobTypes
        BY <3>1 DEF TypeOK, WorkerTypeOK
      <4>2. artifacts[event[x]][WorkerType[x]] \subseteq artifacts'[event[x]][WorkerType[x]]
        BY <2>2, <4>1
      <4> QED  BY <2>5, <3>1, <4>1, <4>2 DEF ProgressIsReal, Whole
    <3>2. \A x \in Workers : x # w => pc'[x] = pc[x] /\ uploaded'[x] = uploaded[x]
      BY <1>1 DEF UploadFile, ProcessReturns, Goto, TypeOK, WorkerTypeOK
    <3>3. /\ pc'[w] \in {"upload", "complete", "fail"}
          /\ pc'[w] = "complete" => n = NumFiles
          /\ pc'[w] = "upload" => uploaded'[w] = n
      BY <1>1, <2>1 DEF UploadFile, ProcessReturns, Goto, TypeOK, WorkerTypeOK
    <3> QED  BY <2>1, <2>3, <2>4, <3>1, <3>2, <3>3 DEF ProgressIsReal, Whole
  <2>7. CompletedIsWhole'
    BY <2>1, <2>5 DEF CompletedIsWhole, Whole, TypeOK, StoreTypeOK
  <2>8. EntryPointIsLast'
    <3>1. ASSUME NEW u \in Videos \ deleted, NEW s \in JobTypes,
                 NumFiles \in artifacts'[u][s]
          PROVE  artifacts'[u][s] = Files
      <4>1. u \in Videos /\ u \notin deleted
        OBVIOUS
      <4>2. CASE u = v /\ s = t /\ n = NumFiles
        BY <2>4, <4>1, <4>2
      <4>3. CASE ~(u = v /\ s = t /\ n = NumFiles)
        <5>1. NumFiles \in artifacts[u][s]
          BY <2>2, <3>1, <4>1, <4>3
        <5> QED  BY <2>5, <4>1, <5>1 DEF EntryPointIsLast, Whole
      <4> QED  BY <4>2, <4>3
    <3> QED  BY <2>1, <3>1 DEF EntryPointIsLast, Whole
  <2> QED  BY <2>6, <2>7, <2>8
<1>2. CASE ~UploadFile(w)
  <2>1. UNCHANGED <<artifacts, rows, deleted>>
    BY <1>2 DEF WorkerNext, HandleStep, Receive, ClaimWins, ClaimSkips, ClaimErrs,
       ClaimJob, Download, ProcessFails, RecordFailure, FailJob, RecordCompletion,
       CompletionErrs, CompleteJob, RecordStatus, AckDelivery, RequeueDelivery,
       RejectDelivery, ExitLoop, Restart, Terminate, Crash, ConnectionLost, storeVars,
       objectVars, historyVars
  <2>2. EntryPointIsLast'
    BY <2>1 DEF EntryPointIsLast, Whole
  <2>3. ProgressIsReal'
    <3>1. ASSUME NEW x \in Workers, x # w
          PROVE  pc'[x] = pc[x] /\ event'[x] = event[x] /\ uploaded'[x] = uploaded[x]
      BY <1>2, <3>1 DEF TypeOK, WorkerTypeOK, WorkerNext, HandleStep, Receive,
         ClaimWins, ClaimSkips, ClaimErrs, Download, ProcessFails, ProcessReturns,
         RecordFailure, RecordCompletion, CompletionErrs, AckDelivery, RequeueDelivery,
         RejectDelivery, ExitLoop, Restart, Terminate, Crash, ConnectionLost, Goto,
         Return
    <3>2. CASE Download(w)
      <4>1. pc'[w] = "upload" /\ uploaded'[w] = 0
        BY <3>2 DEF Download, Goto, TypeOK, WorkerTypeOK
      <4>2. 1 .. uploaded'[w] = {}
        BY <4>1
      <4> QED  BY <2>1, <3>1, <4>1, <4>2 DEF ProgressIsReal, Whole
    <3>3. CASE UNCHANGED <<pc, event, uploaded>>
      BY <2>1, <3>3 DEF ProgressIsReal, Whole
    <3>4. CASE pc'[w] \notin {"upload", "complete"}
      BY <2>1, <3>1, <3>4 DEF ProgressIsReal, Whole
    <3>5. \/ Download(w) \/ UNCHANGED <<pc, event, uploaded>>
          \/ pc'[w] \notin {"upload", "complete"}
      BY <1>2 DEF TypeOK, WorkerTypeOK, WorkerNext, HandleStep, Receive, ClaimWins,
         ClaimSkips, ClaimErrs, ProcessFails, ProcessReturns, RecordFailure,
         RecordCompletion, CompletionErrs, AckDelivery, RequeueDelivery,
         RejectDelivery, ExitLoop, Restart, Terminate, Crash, ConnectionLost, Goto,
         Return
    <3> QED  BY <3>2, <3>3, <3>4, <3>5
  <2>4. CompletedIsWhole'
    <3>1. CASE RecordCompletion(w) \/ CompletionErrs(w)
      <4>1. /\ pc[w] = "complete" /\ event[w] \in Videos /\ WorkerType[w] \in JobTypes
            /\ CompleteJob(event[w], WorkerType[w]) \/ UNCHANGED storeVars
        BY <3>1 DEF RecordCompletion, CompletionErrs, TypeOK, WorkerTypeOK
      <4>2. ASSUME NEW u \in rows, NEW s \in JobTypes, jobStatus'[u][s] = "completed"
            PROVE  Whole(u, s)
        <5>1. u \in Videos /\ u \notin deleted
          BY DEF FreshIds, TypeOK, StoreTypeOK
        <5>2. CASE u = event[w] /\ s = WorkerType[w]
          BY <4>1, <5>1, <5>2 DEF ProgressIsReal
        <5>3. CASE u # event[w] \/ s # WorkerType[w]
          BY <4>1, <4>2, <5>1, <5>3, OtherJobsKeep DEF CompletedIsWhole
        <5> QED  BY <5>2, <5>3
      <4> QED  BY <2>1, <4>2 DEF CompletedIsWhole, Whole
    <3>2. CASE ~(RecordCompletion(w) \/ CompletionErrs(w))
      <4>1. ASSUME NEW u \in Videos, NEW s \in JobTypes, jobStatus'[u][s] = "completed"
            PROVE  jobStatus[u][s] = "completed"
        <5>1. \/ UNCHANGED storeVars \/ ClaimJob(event[w], WorkerType[w])
              \/ FailJob(event[w], WorkerType[w])
          BY <1>2, <3>2 DEF WorkerNext, HandleStep, Receive, ClaimWins, ClaimSkips,
             ClaimErrs, Download, ProcessFails, RecordFailure, AckDelivery,
             RequeueDelivery, RejectDelivery, ExitLoop, Restart, Terminate, Crash,
             ConnectionLost
        <5>2. CASE UNCHANGED storeVars
          BY <4>1, <5>2 DEF storeVars
        <5>3. CASE event[w] # u \/ WorkerType[w] # s
          BY <4>1, <5>1, <5>3, OtherJobsKeep
        <5>4. CASE /\ event[w] = u /\ WorkerType[w] = s
                   /\ ClaimJob(u, s) \/ FailJob(u, s)
          BY <4>1, <5>2, <5>4
             DEF TypeOK, StoreTypeOK, ClaimJob, FailJob, RecordStatus
        <5> QED  BY <5>1, <5>2, <5>3, <5>4
      <4> QED  BY <2>1, <4>1 DEF CompletedIsWhole, Whole, TypeOK, StoreTypeOK
    <3> QED  BY <3>1, <3>2
  <2> QED  BY <2>2, <2>3, <2>4
<1> QED  BY <1>1, <1>2

LEMMA WholeApi ==
  ASSUME TypeOK, WholeInv, FreshIds', NEW r \in Requests, ApiNext(r)
  PROVE  ProgressIsReal' /\ CompletedIsWhole' /\ EntryPointIsLast'
<1> USE DEF WholeInv
<1>1. UNCHANGED <<pc, event, uploaded>> /\ deleted \subseteq deleted'
  BY DEF ApiNext, ServeStep, AssembleUpload, DeleteRow, RetryJob, InsertRow, InsertErrs,
     PublishEvent, PublishErrs, PublishSwallowed, ResetJob, ResetErrs, Sweep, ApiCrash,
     workerVars, historyVars
<1>2. ASSUME NEW v \in Videos, v \notin deleted, NEW t \in JobTypes
      PROVE  artifacts'[v][t] = artifacts[v][t]
  <2>1. CASE Sweep(r)
    <3>1. apiVideo[r] # v
      BY <1>2, <2>1 DEF Sweep, FreshIds
    <3> QED  BY <1>2, <2>1, <3>1 DEF Sweep, TypeOK, ObjectTypeOK
  <2>2. CASE artifacts' = artifacts
    BY <2>2
  <2>3. Sweep(r) \/ artifacts' = artifacts
    BY DEF ApiNext, ServeStep, AssembleUpload, DeleteRow, RetryJob, InsertRow, InsertErrs,
       PublishEvent, PublishErrs, PublishSwallowed, ResetJob, ResetErrs, ApiCrash,
       objectVars
  <2> QED  BY <2>1, <2>2, <2>3
<1>3. ProgressIsReal'
  <2>1. ASSUME NEW w \in Workers, event'[w] \notin deleted', pc'[w] \in {"upload", "complete"}
        PROVE  /\ event[w] \notin deleted
               /\ artifacts'[event[w]][WorkerType[w]] = artifacts[event[w]][WorkerType[w]]
    BY <1>1, <1>2, <2>1, WorkerTypeAssumption DEF TypeOK, WorkerTypeOK
  <2> QED  BY <1>1, <2>1 DEF ProgressIsReal, Whole
\* A video inserted by this step has no output yet that anyone reported
\* completed; one that is in rows' was not deleted.
<1>4. \A v \in rows' : v \in Videos /\ v \notin deleted
  <2>1. \A v \in rows' : v \notin deleted'
    BY DEF FreshIds
  <2>2. rows' \subseteq Videos
    BY ApiUsesStore DEF TypeOK, StoreTypeOK, StoreCall, InsertVideo, DeleteVideo, ClaimJob,
       CompleteJob, FailJob, RecordStatus, ResetJobForRetry, storeVars
  <2> QED  BY <1>1, <2>1, <2>2
<1>5. ASSUME NEW v \in rows', NEW t \in JobTypes, jobStatus'[v][t] = "completed"
      PROVE  v \in rows /\ jobStatus[v][t] = "completed"
  <2>1. v \in Videos
    BY <1>4
  <2>2. jobStatus[v][t] = "completed"
    BY <1>5, <2>1, ApiStatus
  <2>3. rows' \subseteq rows \/ InsertVideo(apiVideo[r])
    BY DEF ApiNext, ServeStep, AssembleUpload, DeleteRow, DeleteVideo, RetryJob,
       InsertRow, InsertErrs, PublishEvent, PublishErrs, PublishSwallowed, ResetJob,
       ResetErrs, ResetJobForRetry, Sweep, ApiCrash, storeVars
  <2>4. ASSUME InsertVideo(apiVideo[r])  PROVE v \in rows
    BY <1>5, <2>1, <2>4 DEF InsertVideo, AllPending, TypeOK, StoreTypeOK
  <2> QED  BY <2>2, <2>3, <2>4
<1>6. CompletedIsWhole'
  BY <1>2, <1>4, <1>5 DEF CompletedIsWhole, Whole
<1>7. EntryPointIsLast'
  BY <1>1, <1>2 DEF EntryPointIsLast, Whole
<1> QED  BY <1>3, <1>6, <1>7

LEMMA StepWhole == Inv /\ WholeInv /\ [Next]_vars => WholeInv'
<1> SUFFICES ASSUME Inv, WholeInv, [Next]_vars  PROVE WholeInv'
  OBVIOUS
<1>1. ASSUME NEW w \in Workers, WorkerNext(w)  PROVE WholeInv'
  BY <1>1, FreshWorker, WholeWorker DEF Inv, WholeInv
<1>2. ASSUME NEW r \in Requests, ApiNext(r)  PROVE WholeInv'
  BY <1>2, FreshApi, WholeApi DEF Inv, WholeInv
<1>3. CASE UNCHANGED vars
  BY <1>3 DEF WholeInv, FreshIds, ProgressIsReal, CompletedIsWhole, EntryPointIsLast,
     Whole, vars, storeVars, workerVars, objectVars, apiVars, historyVars
<1> QED  BY <1>1, <1>2, <1>3 DEF Next

\* A completed job has every one of its files in storage, in any topology and
\* under every fault of the model.
THEOREM CompletedJobsAreWhole == Spec => []CompletedIsWhole
<1>1. WholeInv => CompletedIsWhole
  BY DEF WholeInv
<1> QED  BY <1>1, InitInv, StepInv, InitWhole, StepWhole, PTL DEF Spec

\* A client that can load the entry point can load what it refers to.
THEOREM EntryPointsAreLast == Spec => []EntryPointIsLast
<1>1. WholeInv => EntryPointIsLast
  BY DEF WholeInv
<1> QED  BY <1>1, InitInv, StepInv, InitWhole, StepWhole, PTL DEF Spec

-----------------------------------------------------------------------------
(* What a DELETE leaves of the raw object. Outputs may come back with the   *)
(* attempt that is under way (DeletedIsGone fails); the raw object never    *)
(* does, and it stays only where a call failed.                             *)

SweepsFromTheStart == \A r \in Requests : apiPc[r] # "sweep" => swept[r] = 0

RawSweepDue(v) ==
    \E r \in Requests : apiPc[r] = "sweep" /\ apiVideo[r] = v /\ swept[r] = 0

\* Deleted videos whose raw object is in storage and that nobody will sweep.
LeftRaw == {v \in deleted \cap raw : ~RawSweepDue(v)}

LeftRawIsPaidFor == IsFiniteSet(LeftRaw) /\ Cardinality(LeftRaw) <= faults

LeftInv == SweepsFromTheStart /\ LeftRawIsPaidFor

\* A set that does not grow, or by one element for one fault, stays paid for.
LEMMA StaysPaidFor ==
  ASSUME NEW S, NEW T, NEW m \in Nat, NEW n \in Nat,
         IsFiniteSet(S), Cardinality(S) <= m,
         \/ T \subseteq S /\ m <= n
         \/ n = m + 1 /\ \E x : T \subseteq S \cup {x}
  PROVE  IsFiniteSet(T) /\ Cardinality(T) <= n
<1>1. Cardinality(S) \in Nat
  BY FS_CardinalityType
<1>2. CASE T \subseteq S /\ m <= n
  <2>1. IsFiniteSet(T) /\ Cardinality(T) <= Cardinality(S)
    BY <1>2, FS_Subset
  <2> QED  BY <1>1, <1>2, <2>1, FS_CardinalityType
<1>3. ASSUME n = m + 1, NEW x, T \subseteq S \cup {x}
      PROVE  IsFiniteSet(T) /\ Cardinality(T) <= n
  <2>1. /\ IsFiniteSet(S \cup {x})
        /\ Cardinality(S \cup {x}) = IF x \in S THEN Cardinality(S) ELSE Cardinality(S) + 1
    BY FS_AddElement, Zenon
  <2>2. IsFiniteSet(T) /\ Cardinality(T) <= Cardinality(S \cup {x})
    BY <1>3, <2>1, FS_Subset
  <2>3. Cardinality(T) \in Nat
    BY <2>2, FS_CardinalityType
  <2> QED  BY <1>1, <1>3, <2>1, <2>2, <2>3
<1> QED  BY <1>2, <1>3

LEMMA LeftWorker ==
  ASSUME NEW w \in Workers, WorkerNext(w)
  PROVE  /\ UNCHANGED <<raw, deleted, apiPc, apiVideo, swept>>
         /\ faults' = faults \/ faults' = faults + 1
  BY DEF WorkerNext, HandleStep, Receive, ClaimWins, ClaimSkips, ClaimErrs, CallFails,
     Download, UploadFile, ProcessFails, RecordFailure, RecordCompletion,
     CompletionErrs, AckDelivery, RequeueDelivery, RejectDelivery, ExitLoop, Restart,
     Terminate, Crash, ConnectionLost, Fault, objectVars, apiVars, historyVars

\* Only the handler of a DELETE leaves anything, for a fault of its own.
LEMMA LeftApi ==
  ASSUME TypeOK, FreshIds, SweepsFromTheStart, NEW r \in Requests, ApiNext(r)
  PROVE  /\ SweepsFromTheStart'
         /\ \/ LeftRaw' \subseteq LeftRaw /\ faults' \in {faults, faults + 1}
            \/ faults' = faults + 1 /\ \E v \in Videos : LeftRaw' \subseteq LeftRaw \cup {v}
<1> USE DEF SweepsFromTheStart
<1>0. /\ apiPc \in [Requests -> ApiPc]
      /\ apiVideo \in [Requests -> Videos \cup {NoVideo}]
      /\ swept \in [Requests -> 0 .. 3]
      /\ apiPc[r] # "idle" => apiVideo[r] \in Videos
  BY DEF TypeOK, ApiTypeOK
<1>1. ASSUME \A q \in Requests : q # r =>
                 apiPc'[q] = apiPc[q] /\ apiVideo'[q] = apiVideo[q] /\ swept'[q] = swept[q]
      PROVE  \A v : RawSweepDue(v) /\ v # apiVideo[r] => RawSweepDue(v)'
  BY <1>1 DEF RawSweepDue
<1>2. ASSUME \A q \in Requests : q # r =>
                 apiPc'[q] = apiPc[q] /\ apiVideo'[q] = apiVideo[q] /\ swept'[q] = swept[q],
             apiPc[r] # "sweep" \/ swept[r] # 0
      PROVE  \A v : RawSweepDue(v) => RawSweepDue(v)'
  BY <1>2 DEF RawSweepDue
<1>3. ASSUME NEW v \in Videos, AssembleUpload(r, v)
      PROVE  SweepsFromTheStart' /\ LeftRaw' \subseteq LeftRaw /\ faults' = faults
  <2>1. /\ apiPc[r] = "idle" /\ apiPc' = [apiPc EXCEPT ![r] = "insert"]
        /\ apiVideo' = [apiVideo EXCEPT ![r] = v]
        /\ UNCHANGED <<swept, deleted, faults>>
        /\ raw' = raw \cup {v} /\ v \notin deleted
    BY <1>3 DEF AssembleUpload, Serve, FreshIds
  <2>2. SweepsFromTheStart' /\ \A x : RawSweepDue(x) => RawSweepDue(x)'
    BY <1>0, <1>2, <2>1
  <2> QED  BY <2>1, <2>2 DEF LeftRaw
<1>4. ASSUME NEW v \in Videos, DeleteRow(r, v)
      PROVE  /\ SweepsFromTheStart'
             /\ \/ LeftRaw' \subseteq LeftRaw /\ faults' = faults
                \/ LeftRaw' \subseteq LeftRaw \cup {v} /\ faults' = faults + 1
  <2>1. apiPc[r] = "idle" /\ deleted' = deleted \cup {v} /\ UNCHANGED raw
    BY <1>4 DEF DeleteRow, objectVars
  <2>2. CASE Fault /\ UNCHANGED apiVars
    <3>1. SweepsFromTheStart' /\ \A x : RawSweepDue(x)' = RawSweepDue(x)
      BY <2>2 DEF apiVars, RawSweepDue
    <3> QED  BY <2>1, <2>2, <3>1 DEF LeftRaw, Fault
  <2>3. CASE Serve(r, "sweep", v) /\ UNCHANGED <<apiType, swept, faults>>
    <3>1. /\ apiPc' = [apiPc EXCEPT ![r] = "sweep"]
          /\ apiVideo' = [apiVideo EXCEPT ![r] = v]
          /\ UNCHANGED <<swept, faults>>
      BY <2>3 DEF Serve
    <3>2. SweepsFromTheStart' /\ \A x : RawSweepDue(x) => RawSweepDue(x)'
      BY <1>0, <1>2, <2>1, <3>1
    <3>3. RawSweepDue(v)'
      <4>1. apiPc'[r] = "sweep" /\ apiVideo'[r] = v /\ swept'[r] = 0
        BY <1>0, <2>1, <3>1
      <4> QED  BY <4>1 DEF RawSweepDue
    <3> QED  BY <2>1, <3>1, <3>2, <3>3 DEF LeftRaw
  <2> QED  BY <1>4, <2>2, <2>3 DEF DeleteRow
<1>5. CASE \/ InsertRow(r) \/ InsertErrs(r) \/ PublishEvent(r) \/ PublishErrs(r) \/ PublishSwallowed(r)
           \/ ResetJob(r) \/ ResetErrs(r)
           \/ \E v \in Videos, t \in JobTypes : RetryJob(r, v, t)
  <2>1. /\ apiPc[r] # "sweep" /\ apiPc'[r] # "sweep"
        /\ UNCHANGED <<raw, deleted>>
        /\ swept'[r] = swept[r] \/ swept'[r] = 0
        /\ \A q \in Requests : q # r =>
              apiPc'[q] = apiPc[q] /\ apiVideo'[q] = apiVideo[q] /\ swept'[q] = swept[q]
        /\ faults' \in {faults, faults + 1}
    BY <1>0, <1>5
    DEF InsertRow, InsertErrs, PublishEvent, PublishErrs, PublishSwallowed, ResetJob,
    ResetErrs, RetryJob, Announcing, Serve, Respond, Fault, objectVars, historyVars
  <2>2. SweepsFromTheStart' /\ \A x : RawSweepDue(x) => RawSweepDue(x)'
    BY <1>2, <2>1
  <2> QED  BY <2>1, <2>2 DEF LeftRaw
<1>6. CASE Sweep(r)
  <2>1. /\ apiPc[r] = "sweep" /\ UNCHANGED deleted
        /\ \/ faults' = faults
              /\ raw' = IF Prefixes[swept[r] + 1] = "raw" THEN raw \ {apiVideo[r]} ELSE raw
           \/ faults' = faults + 1 /\ raw' = raw
    BY <1>6 DEF Sweep, historyVars, Fault
  <2>2. /\ \A q \in Requests : q # r =>
              apiPc'[q] = apiPc[q] /\ apiVideo'[q] = apiVideo[q] /\ swept'[q] = swept[q]
        /\ apiPc'[r] # "sweep" => swept'[r] = 0
    BY <1>0, <1>6 DEF Sweep, Respond
  <2>3. SweepsFromTheStart'
    BY <2>2
  <2>4. CASE swept[r] = 0
    <3>1. Prefixes[swept[r] + 1] = "raw"
      BY <2>4 DEF Prefixes
    <3> QED  BY <1>0, <1>1, <2>1, <2>2, <2>3, <3>1 DEF LeftRaw
  <2>5. CASE swept[r] # 0
    <3>1. \A x : RawSweepDue(x) => RawSweepDue(x)'
      BY <1>2, <2>2, <2>5
    <3> QED  BY <2>1, <2>3, <3>1 DEF LeftRaw
  <2> QED  BY <2>4, <2>5
<1>7. CASE ApiCrash(r)
  <2>1. /\ apiPc[r] # "idle" /\ faults' = faults + 1
        /\ UNCHANGED <<raw, deleted>>
        /\ swept'[r] = 0 /\ apiPc'[r] = "idle"
        /\ \A q \in Requests : q # r =>
              apiPc'[q] = apiPc[q] /\ apiVideo'[q] = apiVideo[q] /\ swept'[q] = swept[q]
    BY <1>0, <1>7 DEF ApiCrash, Respond, Fault, objectVars
  <2> QED  BY <1>0, <1>1, <2>1 DEF LeftRaw
<1> QED  BY <1>3, <1>4, <1>5, <1>6, <1>7 DEF ApiNext, ServeStep

LEMMA StepLeft ==
  ASSUME Inv, Inv', WholeInv, LeftInv, [Next]_vars  PROVE LeftInv'
<1>1. /\ TypeOK /\ FreshIds /\ SweepsFromTheStart
      /\ faults \in Nat /\ faults' \in Nat
      /\ IsFiniteSet(LeftRaw) /\ Cardinality(LeftRaw) <= faults
  BY DEF Inv, TypeOK, WholeInv, LeftInv, LeftRawIsPaidFor
<1>2. ASSUME \/ LeftRaw' \subseteq LeftRaw /\ faults' \in {faults, faults + 1}
             \/ faults' = faults + 1 /\ \E v \in Videos : LeftRaw' \subseteq LeftRaw \cup {v}
      PROVE  LeftRawIsPaidFor'
  <2>1. \/ LeftRaw' \subseteq LeftRaw /\ faults <= faults'
        \/ faults' = faults + 1 /\ \E x : LeftRaw' \subseteq LeftRaw \cup {x}
    BY <1>1, <1>2
  <2>2. IsFiniteSet(LeftRaw') /\ Cardinality(LeftRaw') <= faults'
    BY <1>1, <2>1, StaysPaidFor
  <2> QED  BY <2>2 DEF LeftRawIsPaidFor
<1>3. ASSUME UNCHANGED <<raw, deleted, apiPc, apiVideo, swept>>
      PROVE  SweepsFromTheStart' /\ LeftRaw' = LeftRaw
  BY <1>1, <1>3 DEF SweepsFromTheStart, LeftRaw, RawSweepDue
<1>4. ASSUME NEW w \in Workers, WorkerNext(w)  PROVE LeftInv'
  BY <1>2, <1>3, <1>4, LeftWorker DEF LeftInv
<1>5. ASSUME NEW r \in Requests, ApiNext(r)  PROVE LeftInv'
  BY <1>1, <1>2, <1>5, LeftApi DEF LeftInv
<1>6. CASE UNCHANGED vars
  BY <1>2, <1>3, <1>6 DEF LeftInv, vars, objectVars, historyVars, apiVars
<1> QED  BY <1>4, <1>5, <1>6 DEF Next

\* Every deleted video whose raw object is still in storage, and that no handler
\* is about to sweep, is paid for by a fault of its own: whatever uploads,
\* retries and attempts run at the time, a DELETE whose calls succeed removes
\* the raw object for good. This much of DeletedIsGone the code keeps.
THEOREM LeftRawObjectsArePaidFor == Spec => []LeftRawIsPaidFor
<1>1. Init => LeftInv
  <2> SUFFICES ASSUME Init PROVE LeftInv
    OBVIOUS
  <2>1. LeftRaw = {} /\ faults = 0 /\ SweepsFromTheStart
    BY DEF Init, LeftRaw, SweepsFromTheStart
  <2> QED  BY <2>1, FS_EmptySet DEF LeftInv, LeftRawIsPaidFor
<1>2. Inv /\ Inv' /\ WholeInv /\ LeftInv /\ [Next]_vars => LeftInv'
  BY StepLeft
<1>3. LeftInv => LeftRawIsPaidFor
  BY DEF LeftInv
<1> QED
  BY <1>1, <1>2, <1>3, InitInv, StepInv, InitWhole, StepWhole, PTL DEF Spec

-----------------------------------------------------------------------------
(* The contract. Only videos that were recorded once have events, so what a *)
(* worker produces belongs to a video the API knew; the rest is what the    *)
(* sections above established.                                              *)

Recorded == rows \cup deleted

EventsAreOfRecorded ==
    /\ \A t \in JobTypes, v \in Videos : ready[t][v] > 0 => v \in Recorded
    /\ \A w \in Workers :
          /\ unacked[w] # NoVideo => unacked[w] \in Recorded
          /\ Busy(w) => event[w] \in Recorded
    /\ \A r \in Requests :
          apiPc[r] \in {"announce", "reset", "republish"} => apiVideo[r] \in Recorded

LEMMA InitEvents == Init => EventsAreOfRecorded
  BY DEF Init, BrokerInit, EventsAreOfRecorded, Busy

LEMMA RecordedWorker ==
  ASSUME NEW w \in Workers, WorkerNext(w)
  PROVE  UNCHANGED <<rows, deleted, apiPc, apiVideo>>
  BY DEF WorkerNext, HandleStep, Receive, ClaimWins, ClaimSkips, ClaimErrs, ClaimJob,
     Download, UploadFile, ProcessFails, RecordFailure, FailJob, RecordCompletion,
     CompletionErrs, CompleteJob, RecordStatus, AckDelivery, RequeueDelivery,
     RejectDelivery, ExitLoop, Restart, Terminate, Crash, ConnectionLost, storeVars,
     apiVars, historyVars

LEMMA EventsWorker ==
  ASSUME TypeOK, EventsAreOfRecorded, NEW w \in Workers, WorkerNext(w)
  PROVE  EventsAreOfRecorded'
<1> USE WorkerTypeAssumption, NoVideoAssumption DEF EventsAreOfRecorded
<1>0. /\ pc \in [Workers -> WorkerPc]
      /\ event \in [Workers -> Videos \cup {NoVideo}]
      /\ unacked \in [Workers -> Videos \cup {NoVideo}]
      /\ ready \in [JobTypes -> [Videos -> Nat]]
  BY DEF TypeOK, WorkerTypeOK, BrokerTypeOK
<1>1. UNCHANGED <<rows, deleted, apiPc, apiVideo>> /\ Recorded' = Recorded
  BY RecordedWorker DEF Recorded
<1>2. ASSUME NEW v \in Videos, Receive(w, v)  PROVE EventsAreOfRecorded'
  <2>1. /\ ready[WorkerType[w]][v] > 0
        /\ ready' = [ready EXCEPT ![WorkerType[w]][v] = @ - 1]
        /\ unacked' = [unacked EXCEPT ![w] = v]
        /\ pc' = [pc EXCEPT ![w] = "claim"]
        /\ event' = [event EXCEPT ![w] = v]
    BY <1>2 DEF Receive, Deliver, Goto
  <2>2. v \in Recorded
    BY <2>1
  <2>3. \A s \in JobTypes, u \in Videos : ready'[s][u] > 0 => ready[s][u] > 0
    BY <1>0, <2>1
  <2> QED  BY <1>0, <1>1, <2>1, <2>2, <2>3 DEF Busy
<1>3. ASSUME Ack(w) \/ Requeue(w) \/ DeadLetter(w),
             \A x \in Workers : Busy(x)' => Busy(x) /\ event'[x] = event[x]
      PROVE  EventsAreOfRecorded'
  <2>1. unacked' = [unacked EXCEPT ![w] = NoVideo]
    BY <1>3, Settled
  <2>2. ASSUME NEW s \in JobTypes, NEW u \in Videos, ready'[s][u] > 0
        PROVE  u \in Recorded
    <3>1. ready[s][u] > 0 \/ unacked[w] = u
      BY <1>0, <1>3, <2>2 DEF Ack, Requeue, DeadLetter, brokerVars
    <3> QED  BY <3>1
  <2> QED  BY <1>0, <1>1, <1>3, <2>1, <2>2
<1>4. ASSUME UNCHANGED <<ready, unacked>>,
             \A x \in Workers : Busy(x)' => Busy(x) /\ event'[x] = event[x]
      PROVE  EventsAreOfRecorded'
  BY <1>1, <1>4
<1>5. CASE \/ ClaimWins(w) \/ ClaimSkips(w) \/ ClaimErrs(w) \/ Download(w)
           \/ UploadFile(w) \/ ProcessFails(w) \/ RecordFailure(w)
           \/ RecordCompletion(w) \/ CompletionErrs(w)
  <2>1. /\ UNCHANGED <<ready, unacked, event>>
        /\ Busy(w)
        /\ \A x \in Workers : x # w => pc'[x] = pc[x]
    BY <1>0, <1>5 DEF ClaimWins, ClaimSkips, ClaimErrs, Download, UploadFile,
       ProcessFails, ProcessReturns, RecordFailure, RecordCompletion, CompletionErrs,
       Goto, Busy, brokerVars
  <2> QED  BY <1>4, <2>1 DEF Busy
<1>6. CASE AckDelivery(w) \/ RequeueDelivery(w) \/ RejectDelivery(w) \/ Crash(w)
  <2>1. /\ Ack(w) \/ Requeue(w) \/ DeadLetter(w)
        /\ \E p \in {"idle", "exited"} : Return(w, p)
    BY <1>6 DEF AckDelivery, RequeueDelivery, RejectDelivery, Crash
  <2> QED  BY <1>0, <1>3, <2>1 DEF Return, Goto, Busy
<1>7. CASE ConnectionLost(w)
  BY <1>3, <1>7 DEF ConnectionLost, Busy
<1>8. CASE ExitLoop(w) \/ Restart(w) \/ Terminate(w)
  <2>1. /\ UNCHANGED <<ready, unacked, event>>
        /\ \A x \in Workers : Busy(x)' => Busy(x)
    BY <1>0, <1>8 DEF ExitLoop, Restart, Terminate, Goto, Busy, brokerVars
  <2> QED  BY <1>4, <2>1
<1> QED  BY <1>2, <1>5, <1>6, <1>7, <1>8 DEF WorkerNext, HandleStep

LEMMA EventsApi ==
  ASSUME TypeOK, EventsAreOfRecorded, NEW r \in Requests, ApiNext(r)
  PROVE  EventsAreOfRecorded'
<1> USE DEF EventsAreOfRecorded, Recorded
<1>1. UNCHANGED <<pc, event, unacked>>
  BY DEF ApiNext, ServeStep, AssembleUpload, DeleteRow, RetryJob, InsertRow, InsertErrs,
     PublishEvent, Publish, PublishErrs, PublishSwallowed, ResetJob, ResetErrs, Sweep,
     ApiCrash, workerVars, brokerVars
<1>2. Recorded \subseteq Recorded'
  BY DEF ApiNext, ServeStep, AssembleUpload, DeleteRow, DeleteVideo, RetryJob, InsertRow,
     InsertErrs, InsertVideo, PublishEvent, PublishErrs, PublishSwallowed, ResetJob,
     ResetErrs, ResetJobForRetry, Sweep, ApiCrash, storeVars, historyVars
<1>3. ASSUME NEW x \in Requests, x # r
      PROVE  apiPc'[x] = apiPc[x] /\ apiVideo'[x] = apiVideo[x]
  BY <1>3 DEF TypeOK, ApiTypeOK, ApiNext, ServeStep, AssembleUpload, DeleteRow, RetryJob,
     InsertRow, InsertErrs, PublishEvent, PublishErrs, PublishSwallowed, ResetJob,
     ResetErrs, Sweep, ApiCrash, Serve, Respond, apiVars
<1>4. ASSUME apiPc'[r] \in {"announce", "reset", "republish"}
      PROVE  apiVideo'[r] \in Recorded'
  <2> USE DEF TypeOK, ApiTypeOK
  <2>1. CASE InsertRow(r)
    BY <2>1 DEF InsertRow, InsertVideo, Serve
  <2>2. ASSUME NEW v \in Videos, NEW t \in JobTypes, RetryJob(r, v, t)
        PROVE  apiVideo'[r] \in Recorded'
    BY <1>2, <2>2 DEF RetryJob, Serve
  <2>3. CASE ResetJob(r)
    BY <1>2, <2>3 DEF ResetJob, ResetJobForRetry, Serve
  <2>4. ASSUME NEW v \in Videos, AssembleUpload(r, v) \/ DeleteRow(r, v)
        PROVE  apiVideo'[r] \in Recorded'
    BY <1>4, <2>4 DEF AssembleUpload, DeleteRow, Serve, apiVars
  <2>5. CASE \/ InsertErrs(r) \/ PublishEvent(r) \/ PublishErrs(r) \/ PublishSwallowed(r) \/ ResetErrs(r)
             \/ Sweep(r) \/ ApiCrash(r)
    BY <1>4, <2>5 DEF InsertErrs, PublishEvent, PublishErrs, PublishSwallowed,
       ResetErrs, Sweep, ApiCrash, Respond
  <2> QED  BY <2>1, <2>2, <2>3, <2>4, <2>5 DEF ApiNext, ServeStep
<1>5. ASSUME NEW t \in JobTypes, NEW v \in Videos, ready'[t][v] > 0
      PROVE  v \in Recorded'
  <2>1. CASE PublishEvent(r)
    BY <1>2, <1>5, <2>1 DEF PublishEvent, Publish, Announcing, TypeOK, ApiTypeOK,
       BrokerTypeOK
  <2>2. CASE ready' = ready
    BY <1>2, <1>5, <2>2
  <2>3. PublishEvent(r) \/ ready' = ready
    BY DEF ApiNext, ServeStep, AssembleUpload, DeleteRow, RetryJob, InsertRow, InsertErrs,
       PublishErrs, PublishSwallowed, ResetJob, ResetErrs, Sweep, ApiCrash, brokerVars
  <2> QED  BY <2>1, <2>2, <2>3
<1> HIDE DEF Recorded
<1> QED  BY <1>1, <1>2, <1>3, <1>4, <1>5 DEF Busy

LEMMA StepEvents == Inv /\ EventsAreOfRecorded /\ [Next]_vars => EventsAreOfRecorded'
<1>1. ASSUME UNCHANGED vars, EventsAreOfRecorded  PROVE EventsAreOfRecorded'
  BY <1>1 DEF EventsAreOfRecorded, Recorded, Busy, vars, storeVars, brokerVars,
     workerVars, apiVars, historyVars
<1> QED  BY <1>1, EventsWorker, EventsApi DEF Inv, Next

ShownNow == [v \in Videos |-> [t \in JobTypes |-> ShownStatus(v, t)]]
WholeNow == {j \in Videos \X JobTypes : Whole(j[1], j[2])}

ContractInv ==
    /\ Inv
    /\ OneWorkerPerType => NoWorkOnCompleted
    /\ WholeInv
    /\ EventsAreOfRecorded

\* What a reader of the API can be shown of a job of a recorded video.
LEMMA ShownColumn ==
  ASSUME ContractInv, NEW v \in rows, NEW t \in JobTypes
  PROVE  /\ v \in Videos /\ v \notin deleted
         /\ ShownNow[v][t] = column[v][t]
         /\ column[v][t] \in {"pending", "failed", "completed"}
         /\ column[v][t] = "completed" <=> jobStatus[v][t] = "completed"
<1>1. v \in Videos /\ v \notin deleted
  BY DEF ContractInv, Inv, TypeOK, StoreTypeOK, WholeInv, FreshIds
<1>2. jobStatus[v][t] \in Status /\ column[v][t] \in Status
  BY <1>1 DEF ContractInv, Inv, TypeOK, StoreTypeOK
<1>3. column[v][t] \in {"pending", "failed", "completed"}
      /\ (column[v][t] = "completed" <=> jobStatus[v][t] = "completed")
  BY <1>2 DEF ContractInv, Inv, StoreInv, ColumnAgrees, Status
<1> QED  BY <1>1, <1>3 DEF ShownNow, ShownStatus

\* A call of the store shows in the API as the entry it changed.
LEMMA ShownUpdate ==
  ASSUME ContractInv, UNCHANGED <<rows, deleted>>, NEW v \in rows, NEW t \in JobTypes,
         NEW s \in Status,
         column' = [column EXCEPT ![v][t] = s]
  PROVE  ShownNow' = [ShownNow EXCEPT ![v][t] = s]
<1>1. v \in Videos /\ v \notin deleted
  BY ShownColumn
<1>2. column \in [Videos -> [JobTypes -> Status]]
  BY DEF ContractInv, Inv, TypeOK, StoreTypeOK
<1>3. ASSUME NEW u \in Videos, NEW q \in JobTypes
      PROVE  ShownStatus(u, q)' = IF u = v /\ q = t THEN s ELSE ShownStatus(u, q)
  <2>1. column'[u][q] = IF u = v /\ q = t THEN s ELSE column[u][q]
    BY <1>1, <1>2
  <2> QED  BY <1>1, <2>1 DEF ShownStatus
<1> QED  BY <1>1, <1>3 DEF ShownNow

LEMMA ShownKept ==
  UNCHANGED <<rows, column, deleted>> => ShownNow' = ShownNow
BY DEF ShownNow, ShownStatus

LEMMA WholeKept ==
  UNCHANGED artifacts => WholeNow' = WholeNow
BY DEF WholeNow, Whole

ContractStep == [Contract!ContractNext]_(Contract!contractVars)

LEMMA Stutters ==
  ASSUME ShownNow' = ShownNow, WholeNow' = WholeNow  PROVE ContractStep
BY DEF ContractStep, Contract!contractVars, ShownNow, WholeNow

LEMMA ContractUpload ==
  ASSUME ContractInv, NEW w \in Workers, UploadFile(w)  PROVE ContractStep
<1> USE WorkerTypeAssumption
<1> DEFINE v == event[w]
           t == WorkerType[w]
<1>1. /\ v \in Videos /\ t \in JobTypes /\ Busy(w)
      /\ UNCHANGED <<rows, column, deleted>>
      /\ artifacts' = [artifacts EXCEPT ![v][t] = @ \cup {uploaded[w] + 1}]
  BY DEF UploadFile, ContractInv, Inv, TypeOK, WorkerTypeOK, storeVars, historyVars, Busy
<1>2. ShownNow' = ShownNow
  BY <1>1, ShownKept
<1>3. ShownNow[v][t] # "absent"
  <2>1. v \in rows \/ v \in deleted
    BY <1>1 DEF ContractInv, EventsAreOfRecorded, Recorded
  <2>2. CASE v \in rows
    BY <1>1, <2>2, ShownColumn
  <2>3. CASE v \in deleted
    BY <1>1, <2>3 DEF ShownNow, ShownStatus
  <2> QED  BY <2>1, <2>2, <2>3
<1>4. WholeNow' = WholeNow \/ WholeNow' = WholeNow \cup {<<v, t>>}
  <2>1. artifacts \in [Videos -> [JobTypes -> SUBSET Files]] /\ uploaded[w] + 1 \in Files
    BY PipelineAssumption DEF ContractInv, Inv, TypeOK, ObjectTypeOK, WorkerTypeOK, Files,
       UploadFile
  <2>2. ASSUME NEW j \in Videos \X JobTypes, j # <<v, t>>
        PROVE  j \in WholeNow' <=> j \in WholeNow
    <3>1. j[1] # v \/ j[2] # t
      BY <2>2
    <3> QED  BY <1>1, <2>1, <3>1 DEF WholeNow, Whole
  <2>3. <<v, t>> \in WholeNow => <<v, t>> \in WholeNow'
    BY <1>1, <2>1 DEF WholeNow, Whole
  <2>4. WholeNow \subseteq Videos \X JobTypes /\ WholeNow' \subseteq Videos \X JobTypes
    BY DEF WholeNow
  <2> QED  BY <2>2, <2>3, <2>4
<1>5. CASE WholeNow' = WholeNow
  BY <1>2, <1>5, Stutters
<1>6. CASE WholeNow' = WholeNow \cup {<<v, t>>}
  <2>1. Contract!Produce(v, t)
    BY <1>2, <1>3, <1>6 DEF Contract!Produce, ShownNow, WholeNow
  <2> QED  BY <1>1, <2>1 DEF ContractStep, Contract!ContractNext, Contract!JobStep
<1> QED  BY <1>4, <1>5, <1>6

\* A verdict of a worker: the row is gone and nothing happens, or the column
\* shows it. With one worker per queue the job was not completed before.
LEMMA ContractVerdict ==
  ASSUME ContractInv, NEW w \in Workers, pc[w] \in {"fail", "complete"},
         UNCHANGED <<artifacts, deleted>>,
         \/ pc[w] = "complete" /\ CompleteJob(event[w], WorkerType[w])
         \/ pc[w] = "fail" /\ FailJob(event[w], WorkerType[w])
  PROVE  ContractStep
<1> USE WorkerTypeAssumption
<1> DEFINE v == event[w]
           t == WorkerType[w]
<1>1. t \in JobTypes /\ WholeNow' = WholeNow
  BY WholeKept
<1>2. CASE UNCHANGED storeVars
  BY <1>1, <1>2, ShownKept, Stutters DEF storeVars
<1>3. CASE v \in rows /\ ~UNCHANGED storeVars
  <2>1. /\ v \in Videos /\ v \notin deleted
        /\ ShownNow[v][t] = column[v][t]
        /\ column[v][t] \in {"pending", "failed", "completed"}
        /\ OneWorkerPerType => column[v][t] # "completed"
    BY <1>1, <1>3, ShownColumn DEF ContractInv, NoWorkOnCompleted
  <2>2. rows' = rows
    BY <1>3 DEF CompleteJob, FailJob, RecordStatus
  <2>3. CASE pc[w] = "complete"
    <3>1. column' = [column EXCEPT ![v][t] = "completed"]
      BY <1>3, <2>3 DEF CompleteJob, RecordStatus
    <3>2. ShownNow' = [ShownNow EXCEPT ![v][t] = "completed"]
      BY <1>1, <1>3, <2>2, <3>1, ShownUpdate DEF Status
    <3>3. <<v, t>> \in WholeNow
      BY <1>1, <2>1, <2>3 DEF ContractInv, WholeInv, ProgressIsReal, WholeNow
    <3>4. CASE column[v][t] = "completed"
      <4>1. column' = column
        BY <1>1, <2>1, <3>1, <3>4 DEF ContractInv, Inv, TypeOK, StoreTypeOK
      <4> QED  BY <1>1, <2>2, <4>1, ShownKept, Stutters
    <3>5. CASE column[v][t] # "completed"
      <4>1. Contract!Complete(v, t)
        BY <1>1, <2>1, <3>2, <3>3, <3>5
        DEF Contract!Complete, Contract!Shows, ShownNow, WholeNow
      <4> QED  BY <1>1, <2>1, <4>1 DEF ContractStep, Contract!ContractNext, Contract!JobStep
    <3> QED  BY <3>4, <3>5
  <2>4. CASE pc[w] = "fail"
    <3>1. column' = [column EXCEPT ![v][t] = "failed"]
      BY <1>3, <2>4 DEF FailJob, RecordStatus
    <3>2. ShownNow' = [ShownNow EXCEPT ![v][t] = "failed"]
      BY <1>1, <1>3, <2>2, <3>1, ShownUpdate DEF Status
    <3>3. CASE column[v][t] = "failed"
      <4>1. column' = column
        BY <1>1, <2>1, <3>1, <3>3 DEF ContractInv, Inv, TypeOK, StoreTypeOK
      <4> QED  BY <1>1, <2>2, <4>1, ShownKept, Stutters
    <3>4. CASE column[v][t] # "failed"
      <4>1. Contract!Fail(v, t)
        BY <1>1, <2>1, <3>2, <3>4 DEF Contract!Fail, Contract!Shows, ShownNow, WholeNow
      <4> QED  BY <1>1, <2>1, <4>1 DEF ContractStep, Contract!ContractNext, Contract!JobStep
    <3> QED  BY <2>1, <3>3, <3>4
  <2> QED  BY <2>3, <2>4
<1> QED  BY <1>2, <1>3 DEF CompleteJob, FailJob, RecordStatus

LEMMA ContractWorker ==
  ASSUME ContractInv, NEW w \in Workers, WorkerNext(w)  PROVE ContractStep
<1>1. CASE UploadFile(w)
  BY <1>1, ContractUpload
<1>2. CASE ~UploadFile(w)
  <2>1. UNCHANGED <<artifacts, rows, deleted>>
    BY <1>2 DEF WorkerNext, HandleStep, Receive, ClaimWins, ClaimSkips, ClaimErrs,
       ClaimJob, Download, ProcessFails, RecordFailure, FailJob, RecordCompletion,
       CompletionErrs, CompleteJob, RecordStatus, AckDelivery, RequeueDelivery,
       RejectDelivery, ExitLoop, Restart, Terminate, Crash, ConnectionLost, storeVars,
       objectVars, historyVars
  <2>2. \/ UNCHANGED column
        \/ pc[w] = "complete" /\ CompleteJob(event[w], WorkerType[w])
        \/ pc[w] = "fail" /\ FailJob(event[w], WorkerType[w])
    BY <1>2 DEF WorkerNext, HandleStep, Receive, ClaimWins, ClaimSkips, ClaimErrs,
       ClaimJob, Download, ProcessFails, RecordFailure, RecordCompletion,
       CompletionErrs, AckDelivery, RequeueDelivery, RejectDelivery, ExitLoop, Restart,
       Terminate, Crash, ConnectionLost, storeVars
  <2>3. CASE UNCHANGED column
    BY <2>1, <2>3, ShownKept, WholeKept, Stutters
  <2> QED  BY <2>1, <2>2, <2>3, ContractVerdict
<1> QED  BY <1>1, <1>2

LEMMA ContractInsert ==
  ASSUME ContractInv, NEW v \in Videos, v \notin deleted,
         InsertVideo(v), UNCHANGED <<artifacts, deleted>>
  PROVE  ContractStep
<1>1. /\ v \notin rows
      /\ rows' = rows \cup {v}
      /\ column' = [column EXCEPT ![v] = AllPending]
      /\ column \in [Videos -> [JobTypes -> Status]]
  BY DEF InsertVideo, ContractInv, Inv, TypeOK, StoreTypeOK
<1>2. WholeNow' = WholeNow
  BY WholeKept
<1>3. \A t \in JobTypes : ShownNow[v][t] = "absent"
  BY <1>1 DEF ShownNow, ShownStatus
<1>4. ShownNow' = [ShownNow EXCEPT ![v] = [t \in JobTypes |-> "pending"]]
  <2>1. ASSUME NEW u \in Videos, NEW t \in JobTypes
        PROVE  ShownStatus(u, t)' = IF u = v THEN "pending" ELSE ShownStatus(u, t)
    BY <1>1 DEF ShownStatus, AllPending
  <2> QED  BY <2>1 DEF ShownNow
<1>5. Contract!Record(v)
  BY <1>2, <1>3, <1>4 DEF Contract!Record, Contract!ShowsAll, ShownNow, WholeNow
<1> QED  BY <1>5 DEF ContractStep, Contract!ContractNext

LEMMA ContractDelete ==
  ASSUME ContractInv, NEW r \in Requests, NEW v \in Videos, DeleteRow(r, v)
  PROVE  ContractStep
<1>1. /\ v \in rows
      /\ rows' = rows \ {v}
      /\ column' = [column EXCEPT ![v] = AllPending]
      /\ column \in [Videos -> [JobTypes -> Status]]
      /\ deleted' = deleted \cup {v}
      /\ UNCHANGED artifacts
  BY DEF DeleteRow, DeleteVideo, ContractInv, Inv, TypeOK, StoreTypeOK, objectVars
<1>2. WholeNow' = WholeNow
  BY <1>1, WholeKept
<1>3. \A t \in JobTypes : ShownNow[v][t] \notin {"absent", "removed"}
  BY <1>1, ShownColumn
<1>4. ShownNow' = [ShownNow EXCEPT ![v] = [t \in JobTypes |-> "removed"]]
  <2>1. ASSUME NEW u \in Videos, NEW t \in JobTypes
        PROVE  ShownStatus(u, t)' = IF u = v THEN "removed" ELSE ShownStatus(u, t)
    BY <1>1 DEF ShownStatus
  <2> QED  BY <2>1 DEF ShownNow
<1>5. Contract!Remove(v)
  BY <1>2, <1>3, <1>4 DEF Contract!Remove, Contract!ShowsAll, ShownNow, WholeNow
<1> QED  BY <1>5 DEF ContractStep, Contract!ContractNext

LEMMA ContractReset ==
  ASSUME ContractInv, NEW v \in Videos, NEW t \in JobTypes,
         ResetJobForRetry(v, t), UNCHANGED <<artifacts, deleted>>
  PROVE  ContractStep
<1>1. /\ v \in rows
      /\ rows' = rows
      /\ column' = [column EXCEPT ![v][t] = "pending"]
      /\ column \in [Videos -> [JobTypes -> Status]]
  BY DEF ResetJobForRetry, ContractInv, Inv, TypeOK, StoreTypeOK
<1>2. WholeNow' = WholeNow
  BY WholeKept
<1>3. ShownNow[v][t] = column[v][t] /\ column[v][t] \in {"pending", "failed", "completed"}
  BY <1>1, ShownColumn
<1>4. CASE column[v][t] = "pending"
  <2>1. column' = column
    BY <1>1, <1>4
  <2> QED  BY <1>1, <1>2, <2>1, ShownKept, Stutters
<1>5. CASE column[v][t] # "pending"
  <2>1. ShownNow' = [ShownNow EXCEPT ![v][t] = "pending"]
    BY <1>1, ShownUpdate DEF Status
  <2>2. Contract!Retry(v, t)
    BY <1>2, <1>3, <1>5, <2>1 DEF Contract!Retry, Contract!Shows, ShownNow, WholeNow
  <2> QED  BY <2>2 DEF ContractStep, Contract!ContractNext, Contract!JobStep
<1> QED  BY <1>4, <1>5

LEMMA ContractSweep ==
  ASSUME ContractInv, NEW r \in Requests, Sweep(r)  PROVE ContractStep
<1> DEFINE v == apiVideo[r]
           t == Prefixes[swept[r] + 1]
<1>1. /\ v \in Videos /\ v \in deleted
      /\ UNCHANGED <<rows, column, deleted>>
  BY DEF Sweep, ContractInv, Inv, TypeOK, ApiTypeOK, WholeInv, FreshIds, storeVars,
     historyVars
<1>2. ShownNow' = ShownNow
  BY <1>1, ShownKept
<1>3. PICK left \in SUBSET Files :
        artifacts' = [artifacts EXCEPT ![v] = [s \in JobTypes |->
                          IF s = t THEN @[s] \cap left ELSE @[s]]]
  BY DEF Sweep
<1>4. artifacts \in [Videos -> [JobTypes -> SUBSET Files]]
  BY DEF ContractInv, Inv, TypeOK, ObjectTypeOK
<1> HIDE DEF t, v
<1>5. ASSUME NEW u \in Videos, NEW s \in JobTypes, u # v \/ s # t
      PROVE  artifacts'[u][s] = artifacts[u][s]
  BY <1>1, <1>3, <1>4, <1>5
<1>6. ASSUME t \in JobTypes  PROVE artifacts'[v][t] \subseteq artifacts[v][t]
  BY <1>1, <1>3, <1>4, <1>6
<1>7. ASSUME NEW j \in Videos \X JobTypes, j # <<v, t>>
      PROVE  j \in WholeNow' <=> j \in WholeNow
  <2>1. j[1] # v \/ j[2] # t
    BY <1>7
  <2> QED  BY <1>5, <2>1 DEF WholeNow, Whole
<1>8. ASSUME <<v, t>> \in WholeNow'  PROVE <<v, t>> \in WholeNow
  <2>1. t \in JobTypes /\ artifacts'[v][t] = Files
    BY <1>8 DEF WholeNow, Whole
  <2>2. artifacts[v][t] = Files
    BY <1>1, <1>4, <1>6, <2>1
  <2> QED  BY <1>1, <2>1, <2>2 DEF WholeNow, Whole
<1>9. WholeNow \subseteq Videos \X JobTypes /\ WholeNow' \subseteq Videos \X JobTypes
  BY DEF WholeNow
<1>10. CASE WholeNow' = WholeNow
  BY <1>2, <1>10, Stutters
<1>11. CASE WholeNow' # WholeNow
  <2>1. WholeNow' = WholeNow \ {<<v, t>>} /\ t \in JobTypes
    BY <1>7, <1>8, <1>9, <1>11
  <2>2. ShownNow[v][t] = "removed"
    BY <1>1, <2>1 DEF ShownNow, ShownStatus
  <2>3. Contract!Sweep(v, t)
    BY <1>2, <2>1, <2>2 DEF Contract!Sweep, ShownNow, WholeNow
  <2> QED  BY <1>1, <2>1, <2>3 DEF ContractStep, Contract!ContractNext, Contract!JobStep
<1> QED  BY <1>10, <1>11

LEMMA ContractApi ==
  ASSUME ContractInv, NEW r \in Requests, ApiNext(r)  PROVE ContractStep
<1>1. CASE UNCHANGED <<storeVars, artifacts, deleted>>
  BY <1>1, ShownKept, WholeKept, Stutters DEF storeVars
<1>2. CASE InsertRow(r) \/ InsertErrs(r)
  <2>1. /\ apiVideo[r] \in Videos /\ apiVideo[r] \notin deleted
        /\ UNCHANGED <<artifacts, deleted>>
        /\ UNCHANGED storeVars \/ InsertVideo(apiVideo[r])
    BY <1>2 DEF InsertRow, InsertErrs, ContractInv, Inv, TypeOK, ApiTypeOK, WholeInv,
       FreshIds, objectVars, historyVars, storeVars
  <2> QED  BY <1>1, <2>1, ContractInsert
<1>3. CASE ResetJob(r) \/ ResetErrs(r)
  <2>1. /\ apiVideo[r] \in Videos /\ apiType[r] \in JobTypes
        /\ UNCHANGED <<artifacts, deleted>>
        /\ UNCHANGED storeVars \/ ResetJobForRetry(apiVideo[r], apiType[r])
    BY <1>3 DEF ResetJob, ResetErrs, ContractInv, Inv, TypeOK, ApiTypeOK, objectVars,
       storeVars
  <2> QED  BY <1>1, <2>1, ContractReset
<1>4. \/ UNCHANGED <<storeVars, artifacts, deleted>>
      \/ InsertRow(r) \/ InsertErrs(r) \/ ResetJob(r) \/ ResetErrs(r) \/ Sweep(r)
      \/ \E v \in Videos : DeleteRow(r, v)
  BY DEF ApiNext, ServeStep, AssembleUpload, RetryJob, PublishEvent, PublishErrs,
     PublishSwallowed, ApiCrash, objectVars, historyVars
<1> QED  BY <1>1, <1>2, <1>3, <1>4, ContractSweep, ContractDelete

LEMMA StepIsContractStep == ContractInv /\ [Next]_vars => ContractStep
<1>1. ASSUME UNCHANGED vars  PROVE ContractStep
  BY <1>1, ShownKept, WholeKept, Stutters DEF vars, storeVars, objectVars, historyVars
<1> QED  BY <1>1, ContractWorker, ContractApi DEF Next

LEMMA InitContract == Init => Contract!ContractInit
<1> SUFFICES ASSUME Init PROVE Contract!ContractInit
  OBVIOUS
<1>1. ShownNow = [v \in Videos |-> [t \in JobTypes |-> "absent"]]
  BY DEF Init, StoreInit, ShownNow, ShownStatus
<1>2. WholeNow = {}
  <2>1. \A v \in Videos, t \in JobTypes : 1 \in Files /\ artifacts[v][t] = {}
    BY PipelineAssumption DEF Init, Files
  <2>2. \A j \in Videos \X JobTypes : ~Whole(j[1], j[2])
    BY <2>1 DEF Whole
  <2> QED  BY <2>2 DEF WholeNow
<1> QED  BY <1>1, <1>2 DEF Contract!ContractInit, ShownNow, WholeNow

\* Behind the API the pipeline implements JobContract, for any videos, workers,
\* job types and bounds: each of its steps is one step a client may see, or none.
\* Completions are final in it exactly where each queue has one worker.
THEOREM PipelineKeepsContract == Spec => KeepsContract
<1> DEFINE NoWork == OneWorkerPerType => NoWorkOnCompleted
<1>0. Init => NoWork
  BY InitNoWork
<1>1. Inv /\ NoWork /\ [Next]_vars => NoWork'
  <2>1. OneWorkerPerType' <=> OneWorkerPerType
    BY DEF OneWorkerPerType
  <2> QED  BY <2>1, StepNoWork
<1>2. ContractInv <=> Inv /\ NoWork /\ WholeInv /\ EventsAreOfRecorded
  BY DEF ContractInv
<1>3. ContractInv /\ [Next]_vars => [Contract!ContractNext]_(Contract!contractVars)
  BY StepIsContractStep DEF ContractStep
<1> HIDE DEF NoWork
<1> QED
  BY <1>0, <1>1, <1>2, <1>3, InitInv, StepInv, InitWhole, StepWhole, InitEvents,
     StepEvents, InitContract, PTL
  DEF Spec, KeepsContract, Contract!ContractSpec

-----------------------------------------------------------------------------
(* No job is dead-lettered early. The runner decides by the attempt number  *)
(* its claim returned, which an operator's reset makes stale; but then the  *)
(* reset's own event is there, and revives the job.                         *)

RejectsAtMax == \A w \in Workers : pc[w] = "reject" => attempt[w] >= MaxAttempts

Attempting(w) == pc[w] \in {"download", "upload", "fail", "complete", "reject"}

StaleIsFollowed ==
    \A w \in Workers :
        Attempting(w) /\ event[w] \in rows =>
            \/ attempt[w] <= attemptCount[event[w]][WorkerType[w]]
            \/ Followed(event[w], WorkerType[w])

\* A dead-lettered job of a recorded video has been claimed MaxAttempts times
\* since its last reset, or somebody is about to act on it again, or would be
\* had the announcement of that reset not been lost.
ParkedHadItsAttempts ==
    \A v \in rows, t \in JobTypes :
        <<v, t>> \in parked => attemptCount[v][t] >= MaxAttempts \/ OnTheWay(v, t)

AttemptsInv == RejectsAtMax /\ StaleIsFollowed /\ ParkedHadItsAttempts

LEMMA InitAttempts == Init => AttemptsInv
  BY DEF Init, StoreInit, AttemptsInv, RejectsAtMax, StaleIsFollowed, Attempting,
     ParkedHadItsAttempts

\* An announcement leaves a queue only into the hands of one of its workers.
LEMMA WorkerFollows ==
  ASSUME TypeOK, NEW w \in Workers, WorkerNext(w), NEW v \in Videos, NEW t \in JobTypes,
         Followed(v, t), ~(WorkerType[w] = t /\ Receive(w, v))
  PROVE  Followed(v, t)'
<1>1. UNCHANGED <<apiPc, apiVideo, apiType, unannounced>>
  BY DEF WorkerNext, HandleStep, Receive, ClaimWins, ClaimSkips, ClaimErrs, Download,
     UploadFile, ProcessFails, RecordFailure, RecordCompletion, CompletionErrs,
     AckDelivery, RequeueDelivery, RejectDelivery, ExitLoop, Restart, Terminate, Crash,
     ConnectionLost, apiVars, historyVars
<1>2. ready[t][v] > 0 => ready'[t][v] > 0
  <2>1. ASSUME NEW u \in Videos, Receive(w, u)
        PROVE  ready'[t][v] = ready[t][v]
    <3>1. WorkerType[w] # t \/ u # v
      BY <2>1
    <3>2. ready' = [ready EXCEPT ![WorkerType[w]][u] = @ - 1]
      BY <2>1 DEF Receive, Deliver
    <3> QED  BY <3>1, <3>2, WorkerTypeAssumption DEF TypeOK, BrokerTypeOK
  <2>2. CASE Ack(w) \/ Requeue(w) \/ DeadLetter(w)
    BY <2>2, Settled
  <2>3. \/ \E u \in Videos : Receive(w, u)
        \/ Ack(w) \/ Requeue(w) \/ DeadLetter(w)
        \/ ready' = ready
    BY DEF WorkerNext, HandleStep, ClaimWins, ClaimSkips, ClaimErrs, Download,
       UploadFile, ProcessFails, RecordFailure, RecordCompletion, CompletionErrs,
       AckDelivery, RequeueDelivery, RejectDelivery, ExitLoop, Restart, Terminate, Crash,
       ConnectionLost, brokerVars
  <2> QED  BY <2>1, <2>2, <2>3
<1> QED  BY <1>1, <1>2 DEF Followed, Announcing, JobsOf

\* No worker takes attempts off a job's count.
LEMMA WorkerCounts ==
  ASSUME TypeOK, NEW w \in Workers, WorkerNext(w), NEW v \in Videos, NEW t \in JobTypes
  PROVE  attemptCount'[v][t] >= attemptCount[v][t]
<1>1. CASE ClaimJob(event[w], WorkerType[w])
  BY <1>1 DEF ClaimJob, TypeOK, StoreTypeOK
<1>2. CASE attemptCount' = attemptCount
  BY <1>2 DEF TypeOK, StoreTypeOK
<1> QED  BY <1>1, <1>2 DEF WorkerNext, HandleStep, Receive, ClaimWins, ClaimSkips,
            ClaimErrs, Download, UploadFile, ProcessFails, RecordFailure, FailJob,
            RecordCompletion, CompletionErrs, CompleteJob, RecordStatus, AckDelivery,
            RequeueDelivery, RejectDelivery, ExitLoop, Restart, Terminate, Crash,
            ConnectionLost, storeVars

LEMMA RejectsWorker ==
  ASSUME TypeOK, RejectsAtMax, NEW w \in Workers, WorkerNext(w)  PROVE RejectsAtMax'
<1> USE PipelineAssumption DEF RejectsAtMax, TypeOK, WorkerTypeOK
<1>1. CASE RecordFailure(w)
  BY <1>1 DEF RecordFailure, Goto
<1>2. CASE ~RecordFailure(w)
  <2>1. \A x \in Workers : pc'[x] = "reject" => pc[x] = "reject" /\ attempt'[x] = attempt[x]
    BY <1>2 DEF WorkerNext, HandleStep, Receive, ClaimWins, ClaimSkips, ClaimErrs,
       Download, UploadFile, ProcessFails, ProcessReturns, RecordCompletion,
       CompletionErrs, AckDelivery, RequeueDelivery, RejectDelivery, ExitLoop, Restart,
       Terminate, Crash, ConnectionLost, Goto, Return
  <2> QED  BY <2>1
<1> QED  BY <1>1, <1>2

LEMMA StaleWorker ==
  ASSUME TypeOK, TypeOK', StaleIsFollowed, OneWorkerPerType,
         NEW w \in Workers, WorkerNext(w)
  PROVE  StaleIsFollowed'
<1> USE WorkerTypeAssumption
<1>1. rows' = rows
  BY RecordedWorker
<1>2. ASSUME NEW x \in Workers, x # w
      PROVE  pc'[x] = pc[x] /\ event'[x] = event[x] /\ attempt'[x] = attempt[x]
  BY <1>2 DEF TypeOK, WorkerTypeOK, WorkerNext, HandleStep, Receive, ClaimWins,
     ClaimSkips, ClaimErrs, Download, UploadFile, ProcessFails, ProcessReturns,
     RecordFailure, RecordCompletion, CompletionErrs, AckDelivery, RequeueDelivery,
     RejectDelivery, ExitLoop, Restart, Terminate, Crash, ConnectionLost, Goto, Return
<1>3. ASSUME Attempting(w)'
      PROVE  \/ ClaimWins(w)
             \/ /\ Attempting(w)
                /\ event'[w] = event[w]
                /\ attempt'[w] = attempt[w]
  BY <1>3 DEF Attempting, TypeOK, WorkerTypeOK, WorkerNext, HandleStep, Receive,
     ClaimSkips, ClaimErrs, Download, UploadFile, ProcessFails, ProcessReturns,
     RecordFailure, RecordCompletion, CompletionErrs, AckDelivery, RequeueDelivery,
     RejectDelivery, ExitLoop, Restart, Terminate, Crash, ConnectionLost, Goto, Return
<1> SUFFICES ASSUME NEW x \in Workers, Attempting(x)', event'[x] \in rows
             PROVE  \/ attempt'[x] <= attemptCount'[event'[x]][WorkerType[x]]
                    \/ Followed(event[x], WorkerType[x])' /\ event'[x] = event[x]
  BY <1>1 DEF StaleIsFollowed, Attempting, Followed, Announcing, JobsOf
<1>4. CASE x = w /\ ClaimWins(w)
  BY <1>4 DEF ClaimWins, ClaimJob, TypeOK, StoreTypeOK, WorkerTypeOK
<1>5. CASE ~(x = w /\ ClaimWins(w))
  <2>1. /\ Attempting(x)
        /\ event'[x] = event[x] /\ event[x] \in Videos
        /\ attempt'[x] = attempt[x]
    BY <1>2, <1>3, <1>5 DEF Attempting, TypeOK, StoreTypeOK
  <2>2. ~(WorkerType[w] = WorkerType[x] /\ Receive(w, event[x]))
    BY <2>1 DEF OneWorkerPerType, Attempting, Receive
  <2>3. CASE Followed(event[x], WorkerType[x])
    BY <2>1, <2>2, <2>3, WorkerFollows
  <2>4. CASE attempt[x] <= attemptCount[event[x]][WorkerType[x]]
    <3>1. attemptCount'[event[x]][WorkerType[x]] >= attemptCount[event[x]][WorkerType[x]]
      BY <2>1, WorkerCounts
    <3>2. /\ attempt[x] \in Nat
          /\ attemptCount[event[x]][WorkerType[x]] \in Nat
          /\ attemptCount'[event[x]][WorkerType[x]] \in Nat
      BY <2>1 DEF TypeOK, StoreTypeOK, WorkerTypeOK
    <3> QED  BY <2>1, <2>4, <3>1, <3>2
  <2> QED  BY <1>1, <2>1, <2>3, <2>4 DEF StaleIsFollowed
<1> QED  BY <1>4, <1>5

LEMMA StaleApi ==
  ASSUME TypeOK, StaleIsFollowed, FreshIds, EventsAreOfRecorded,
         NEW r \in Requests, ApiNext(r)
  PROVE  StaleIsFollowed'
<1> USE WorkerTypeAssumption
<1>1. UNCHANGED <<pc, event, attempt>>
  BY DEF ApiNext, ServeStep, AssembleUpload, DeleteRow, RetryJob, InsertRow, InsertErrs,
     PublishEvent, PublishErrs, PublishSwallowed, ResetJob, ResetErrs, Sweep, ApiCrash,
     workerVars
<1> SUFFICES ASSUME NEW x \in Workers, Attempting(x), NEW v \in rows', v = event[x],
                    NEW t \in JobTypes, t = WorkerType[x]
             PROVE  attempt[x] <= attemptCount'[v][t] \/ Followed(v, t)'
  BY <1>1 DEF StaleIsFollowed, Attempting, Followed, Announcing, JobsOf
<1>2. v \in Videos
  BY DEF Attempting, TypeOK, WorkerTypeOK
<1>3. CASE Followed(v, t)
  BY <1>2, <1>3, ApiFollows
<1>4. CASE attempt[x] <= attemptCount[v][t]
  BY <1>4, ApiKeepsJob
<1>5. CASE v \notin rows
  BY <1>5, ApiKeepsJob
<1> QED  BY <1>3, <1>4, <1>5 DEF StaleIsFollowed

LEMMA ParkedWorker ==
  ASSUME TypeOK, TypeOK', DeliveryHeld, AttemptsInv, NEW w \in Workers, WorkerNext(w)
  PROVE  ParkedHadItsAttempts'
<1> USE WorkerTypeAssumption, NoVideoAssumption, PipelineAssumption
<1>1. rows' = rows
  BY RecordedWorker
<1> SUFFICES ASSUME NEW v \in rows, NEW t \in JobTypes, <<v, t>> \in parked'
             PROVE  attemptCount'[v][t] >= MaxAttempts \/ OnTheWay(v, t)'
  BY <1>1 DEF ParkedHadItsAttempts
<1>2. v \in Videos /\ attemptCount[v][t] \in Nat /\ attemptCount'[v][t] \in Nat
  BY DEF TypeOK, StoreTypeOK
<1>3. attemptCount'[v][t] >= attemptCount[v][t]
  BY <1>2, WorkerCounts
<1>4. CASE Rejects(w, v, t)
  <2>1. /\ pc[w] = "reject" /\ unacked[w] = v /\ WorkerType[w] = t
        /\ attempt[w] \in Nat
    BY <1>4 DEF Rejects, RejectDelivery, TypeOK, WorkerTypeOK
  <2>2. event[w] = v
    BY <1>2, <2>1 DEF DeliveryHeld
  <2>3. attempt[w] >= MaxAttempts
    BY <2>1 DEF AttemptsInv, RejectsAtMax
  <2>4. attempt[w] <= attemptCount[v][t] \/ Followed(v, t)
    BY <2>1, <2>2 DEF AttemptsInv, StaleIsFollowed, Attempting
  <2>5. CASE attempt[w] <= attemptCount[v][t]
    BY <1>2, <1>3, <2>1, <2>3, <2>5
  <2>6. CASE Followed(v, t)
    <3>1. ~Receive(w, v)
      BY <2>1 DEF Receive
    <3>2. Followed(v, t)'
      BY <1>2, <2>6, <3>1, WorkerFollows
    <3> QED  BY <3>2 DEF Followed, OnTheWay, Carried
  <2> QED  BY <2>4, <2>5, <2>6
<1>5. CASE ~Rejects(w, v, t)
  <2>1. <<v, t>> \in parked
    BY <1>5 DEF Rejects, WorkerNext, HandleStep, Receive, ClaimWins, ClaimSkips,
       ClaimErrs, Download, UploadFile, ProcessFails, RecordFailure, RecordCompletion,
       CompletionErrs, AckDelivery, RequeueDelivery, RejectDelivery, ExitLoop, Restart,
       Terminate, Crash, ConnectionLost, historyVars
  <2>2. CASE OnTheWay(v, t)
    BY <1>5, <2>2, WorkerCarriesOn
  <2>3. CASE attemptCount[v][t] >= MaxAttempts
    BY <1>2, <1>3, <2>3
  <2> QED  BY <2>1, <2>2, <2>3 DEF AttemptsInv, ParkedHadItsAttempts
<1> QED  BY <1>4, <1>5

LEMMA ParkedApi ==
  ASSUME TypeOK, ParkedHadItsAttempts, NEW r \in Requests, ApiNext(r)
  PROVE  ParkedHadItsAttempts'
<1> SUFFICES ASSUME NEW v \in rows', NEW t \in JobTypes, <<v, t>> \in parked'
             PROVE  attemptCount'[v][t] >= MaxAttempts \/ OnTheWay(v, t)'
  BY DEF ParkedHadItsAttempts
<1>1. Followed(v, t)' => OnTheWay(v, t)'
  BY DEF Followed, OnTheWay, Carried
<1>2. ASSUME v \in rows, <<v, t>> \in parked, attemptCount'[v][t] = attemptCount[v][t]
      PROVE  attemptCount'[v][t] >= MaxAttempts \/ OnTheWay(v, t)'
  <2>1. attemptCount[v][t] >= MaxAttempts \/ OnTheWay(v, t)
    BY <1>2 DEF ParkedHadItsAttempts
  <2> QED  BY <1>2, <2>1, ApiCarriesOn
<1> QED  BY <1>1, <1>2, ApiKeepsJob

LEMMA StepAttempts ==
  ASSUME OneWorkerPerType, LossInv, LossInv', WholeInv, EventsAreOfRecorded, AttemptsInv,
         [Next]_vars
  PROVE  AttemptsInv'
<1>1. ASSUME NEW w \in Workers, WorkerNext(w)  PROVE AttemptsInv'
  BY <1>1, RejectsWorker, StaleWorker, ParkedWorker DEF AttemptsInv, LossInv, Inv
<1>2. ASSUME NEW r \in Requests, ApiNext(r)  PROVE AttemptsInv'
  <2>1. UNCHANGED <<pc, attempt>>
    BY <1>2 DEF ApiNext, ServeStep, AssembleUpload, DeleteRow, RetryJob, InsertRow,
       InsertErrs, PublishEvent, PublishErrs, PublishSwallowed, ResetJob, ResetErrs,
       Sweep, ApiCrash, workerVars
  <2>2. RejectsAtMax'
    BY <2>1 DEF AttemptsInv, RejectsAtMax
  <2> QED  BY <1>2, <2>2, StaleApi, ParkedApi DEF AttemptsInv, LossInv, Inv, WholeInv
<1>3. CASE UNCHANGED vars
  <2>1. /\ UNCHANGED <<rows, jobStatus, attemptCount, ready, unacked, pc, event, attempt>>
        /\ UNCHANGED <<apiPc, apiVideo, apiType, unannounced, parked>>
    BY <1>3 DEF vars, storeVars, brokerVars, workerVars, apiVars, historyVars
  <2>2. RejectsAtMax'
    BY <2>1 DEF AttemptsInv, RejectsAtMax
  <2>3. StaleIsFollowed'
    BY <2>1 DEF AttemptsInv, StaleIsFollowed, Attempting, Followed, Announcing, JobsOf
  <2>4. ParkedHadItsAttempts'
    BY <2>1 DEF AttemptsInv, ParkedHadItsAttempts, OnTheWay, Carried, Announcing, JobsOf
  <2> QED  BY <2>2, <2>3, <2>4 DEF AttemptsInv
<1> QED  BY <1>1, <1>2, <1>3 DEF Next

\* runner.go, "MaxAttempts bounds retries before a job is dead-lettered", from
\* below: with one worker per queue no job is dead-lettered before it has had
\* its MaxAttempts claims, faults and operators notwithstanding, unless the
\* event of a later reset is there to revive it, or was lost.
THEOREM NoJobIsParkedEarly ==
  ASSUME OneWorkerPerType PROVE Spec => []ParkedHadItsAttempts
<1>1. SafeTopology
  BY DEF SafeTopology
<1>2. LossInv /\ WholeInv /\ [Next]_vars => WholeInv'
  BY StepWhole DEF LossInv
<1>3. LossInv /\ EventsAreOfRecorded /\ [Next]_vars => EventsAreOfRecorded'
  BY StepEvents DEF LossInv
<1>4. LossInv /\ [Next]_vars => LossInv'
  BY <1>1, StepLossInv
<1>5. LossInv /\ LossInv' /\ WholeInv /\ EventsAreOfRecorded /\ AttemptsInv /\ [Next]_vars
        => AttemptsInv'
  BY StepAttempts
<1>6. AttemptsInv => ParkedHadItsAttempts
  BY DEF AttemptsInv
<1> QED  BY <1>2, <1>3, <1>4, <1>5, <1>6, InitLossInv, InitWhole, InitEvents,
            InitAttempts, PTL DEF Spec

=============================================================================
