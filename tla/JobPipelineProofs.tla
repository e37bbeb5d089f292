------------------------- MODULE JobPipelineProofs -------------------------
(***************************************************************************)
(* Theorems about JobPipeline, for any sets of videos, job types, workers  *)
(* and requests and any bounds.                                            *)
(***************************************************************************)
EXTENDS JobPipeline, VideoStoreProofs, FiniteSetTheorems

-----------------------------------------------------------------------------
(* Every step of the pipeline is one operation of the store or leaves the   *)
(* store alone, so what holds of the store in every order of calls holds    *)
(* here.                                                                    *)

LEMMA WorkerUsesStore ==
  ASSUME TypeOK, NEW w \in Workers, WorkerNext(w)  PROVE [StoreCall]_storeVars
<1> USE WorkerTypeAssumption DEF TypeOK, WorkerTypeOK
<1> DEFINE t == WorkerType[w]
<1>0. t \in JobTypes
  OBVIOUS
<1>1. ASSUME NEW v \in Videos, Receive(w, v)  PROVE UNCHANGED storeVars
  BY <1>1 DEF Receive
<1>2. CASE HandleStep(w)
  <2>1. event[w] \in Videos
    BY <1>2 DEF HandleStep, ClaimWins, ClaimSkips, ClaimErrs, Download, UploadFile,
       ProcessFails, RecordFailure, RecordCompletion, CompletionErrs, AckDelivery,
       RequeueDelivery, RejectDelivery
  <2>2. \/ UNCHANGED storeVars
        \/ ClaimJob(event[w], t) \/ FailJob(event[w], t) \/ CompleteJob(event[w], t)
    BY <1>2 DEF HandleStep, ClaimWins, ClaimSkips, ClaimErrs, Download, UploadFile,
       ProcessFails, RecordFailure, RecordCompletion, CompletionErrs, AckDelivery,
       RequeueDelivery, RejectDelivery
  <2> QED  BY <1>0, <2>1, <2>2 DEF StoreCall
<1>3. CASE ExitLoop(w) \/ Restart(w) \/ Terminate(w) \/ Crash(w) \/ ConnectionLost(w)
  BY <1>3 DEF ExitLoop, Restart, Terminate, Crash, ConnectionLost
<1> QED  BY <1>1, <1>2, <1>3 DEF WorkerNext

LEMMA ApiUsesStore ==
  ASSUME TypeOK, NEW r \in Requests, ApiNext(r)  PROVE [StoreCall]_storeVars
<1>1. ASSUME NEW v \in Videos, AssembleUpload(r, v) \/ DeleteRow(r, v)
      PROVE  [StoreCall]_storeVars
  BY <1>1 DEF AssembleUpload, DeleteRow, StoreCall
<1>2. ASSUME NEW v \in Videos, NEW t \in JobTypes, RetryJob(r, v, t)
      PROVE  UNCHANGED storeVars
  BY <1>2 DEF RetryJob
<1>3. CASE ServeStep(r)
  <2>1. apiVideo[r] \in Videos
    BY <1>3 DEF TypeOK, ApiTypeOK, ServeStep, InsertRow, InsertErrs, PublishEvent,
       PublishErrs, PublishSwallowed, Announcing, ResetJob, ResetErrs, Sweep
  <2>2. CASE InsertRow(r) \/ InsertErrs(r)
    BY <2>1, <2>2 DEF InsertRow, InsertErrs, StoreCall
  <2>3. CASE PublishEvent(r) \/ PublishErrs(r) \/ PublishSwallowed(r) \/ Sweep(r)
    BY <2>3 DEF PublishEvent, PublishErrs, PublishSwallowed, Sweep
  <2>4. CASE ResetJob(r) \/ ResetErrs(r)
    <3>1. apiType[r] \in JobTypes
      BY <2>4 DEF TypeOK, ApiTypeOK, ResetJob, ResetErrs
    <3> QED  BY <2>1, <2>4, <3>1 DEF ResetJob, ResetErrs, StoreCall
  <2> QED  BY <1>3, <2>2, <2>3, <2>4 DEF ServeStep
<1>4. CASE ApiCrash(r)
  BY <1>4 DEF ApiCrash
<1> QED  BY <1>1, <1>2, <1>3, <1>4 DEF ApiNext

LEMMA PipelineUsesStore ==
  TypeOK /\ [Next]_vars => [StoreCall]_storeVars
<1>1. UNCHANGED vars => UNCHANGED storeVars
  BY DEF vars
<1> QED  BY <1>1, WorkerUsesStore, ApiUsesStore DEF Next

-----------------------------------------------------------------------------
(* Type correctness. The store's part comes from VideoStoreProofs.          *)

Inv == StoreInv /\ TypeOK

LEMMA InitInv == Init => Inv
<1> SUFFICES ASSUME Init PROVE Inv
  OBVIOUS
<1>1. StoreInv
  BY StoreInitInv DEF Init
<1>2. BrokerTypeOK
  BY DEF Init, BrokerInit, BrokerTypeOK
<1>3. WorkerTypeOK
  BY PipelineAssumption DEF Init, WorkerTypeOK, WorkerPc
<1>4. ObjectTypeOK /\ HistoryTypeOK
  BY DEF Init, ObjectTypeOK, HistoryTypeOK
<1>5. ApiTypeOK
  BY DEF Init, ApiTypeOK, ApiPc, AllJobTypes
<1> QED  BY <1>1, <1>2, <1>3, <1>4, <1>5 DEF Init, Inv, StoreInv, TypeOK

LEMMA BrokerTypeWorker ==
  ASSUME TypeOK, NEW w \in Workers, WorkerNext(w)  PROVE BrokerTypeOK'
<1> USE WorkerTypeAssumption, NoVideoAssumption DEF BrokerTypeOK
<1>0. BrokerTypeOK /\ WorkerType[w] \in JobTypes
  BY DEF TypeOK
<1>1. ASSUME NEW v \in Videos, Deliver(w, v)  PROVE BrokerTypeOK'
  BY <1>0, <1>1 DEF Deliver
<1>2. CASE Ack(w)
  BY <1>0, <1>2 DEF Ack
<1>5. CASE UNCHANGED brokerVars
  BY <1>0, <1>5 DEF brokerVars
<1>3. CASE Requeue(w)
  <2>1. CASE unacked[w] # NoVideo
    <3>1. unacked[w] \in Videos
      BY <1>0, <2>1
    <3>2. /\ ready' = [ready EXCEPT ![WorkerType[w]][unacked[w]] = @ + 1]
          /\ unacked' = [unacked EXCEPT ![w] = NoVideo]
          /\ dlq' = dlq
      BY <1>3, <2>1 DEF Requeue
    <3>3. ready' \in [JobTypes -> [Videos -> Nat]]
      BY <1>0, <3>1, <3>2
    <3> QED  BY <1>0, <3>2, <3>3
  <2> QED  BY <1>3, <1>5, <2>1 DEF Requeue
<1>4. CASE DeadLetter(w)
  <2>1. CASE unacked[w] # NoVideo
    <3>1. unacked[w] \in Videos
      BY <1>0, <2>1
    <3>2. /\ dlq' = [dlq EXCEPT ![WorkerType[w]][unacked[w]] = @ + 1]
          /\ unacked' = [unacked EXCEPT ![w] = NoVideo]
          /\ ready' = ready
      BY <1>4, <2>1 DEF DeadLetter
    <3>3. dlq' \in [JobTypes -> [Videos -> Nat]]
      BY <1>0, <3>1, <3>2
    <3> QED  BY <1>0, <3>2, <3>3
  <2> QED  BY <1>4, <1>5, <2>1 DEF DeadLetter
<1>6. \/ \E v \in Videos : Deliver(w, v)
      \/ Ack(w) \/ Requeue(w) \/ DeadLetter(w) \/ UNCHANGED brokerVars
  BY DEF WorkerNext, HandleStep, Receive, ClaimWins, ClaimSkips, ClaimErrs, Download,
     UploadFile, ProcessFails, RecordFailure, RecordCompletion, CompletionErrs,
     AckDelivery, RequeueDelivery, RejectDelivery, ExitLoop, Restart, Terminate,
     Crash, ConnectionLost
<1> QED  BY <1>1, <1>2, <1>3, <1>4, <1>5, <1>6

LEMMA BrokerTypeApi ==
  ASSUME TypeOK, NEW r \in Requests, ApiNext(r)  PROVE BrokerTypeOK'
<1>0. BrokerTypeOK
  BY DEF TypeOK
<1>1. CASE PublishEvent(r)
  <2>1. apiVideo[r] \in Videos
    BY <1>1 DEF TypeOK, ApiTypeOK, PublishEvent, Announcing
  <2> QED  BY <1>0, <1>1, <2>1 DEF PublishEvent, Publish, BrokerTypeOK
<1>2. CASE UNCHANGED brokerVars
  BY <1>0, <1>2 DEF brokerVars, BrokerTypeOK
<1>3. PublishEvent(r) \/ UNCHANGED brokerVars
  BY DEF ApiNext, ServeStep, AssembleUpload, DeleteRow, RetryJob, InsertRow,
     InsertErrs, PublishErrs, PublishSwallowed, ResetJob, ResetErrs, Sweep, ApiCrash
<1> QED  BY <1>1, <1>2, <1>3

LEMMA WorkerTypeWorker ==
  ASSUME TypeOK, NEW w \in Workers, WorkerNext(w)  PROVE WorkerTypeOK'
<1> USE PipelineAssumption, WorkerTypeAssumption DEF TypeOK, WorkerTypeOK, WorkerPc, Goto, Return,
     ProcessReturns
<1>1. ASSUME NEW v \in Videos, Receive(w, v)  PROVE WorkerTypeOK'
  BY <1>1 DEF Receive
<1>2. CASE ClaimWins(w)
  <2>1. attemptCount[event[w]][WorkerType[w]] + 1 \in Nat
    BY <1>2 DEF ClaimWins, StoreTypeOK
  <2> QED  BY <1>2, <2>1 DEF ClaimWins
<1>3. CASE ClaimSkips(w) \/ ClaimErrs(w) \/ ProcessFails(w) \/ RecordFailure(w)
           \/ RecordCompletion(w) \/ CompletionErrs(w)
  BY <1>3 DEF ClaimSkips, ClaimErrs, ProcessFails, RecordFailure, RecordCompletion,
     CompletionErrs
<1>4. CASE Download(w)
  BY <1>4 DEF Download
<1>5. CASE UploadFile(w)
  <2>1. /\ pc[w] = "upload"
        /\ UNCHANGED <<event, attempt, cancelled, connected>>
        /\ \/ /\ uploaded[w] + 1 < NumFiles
              /\ uploaded' = [uploaded EXCEPT ![w] = @ + 1]
              /\ UNCHANGED pc
           \/ /\ uploaded' = [uploaded EXCEPT ![w] = 0]
              /\ \E next \in {"complete", "fail"} : pc' = [pc EXCEPT ![w] = next]
    BY <1>5 DEF UploadFile
  <2>2. uploaded' \in [Workers -> 0 .. NumFiles - 1]
    BY <2>1
  <2>3. pc' \in [Workers -> WorkerPc]
    BY <2>1
  <2>4. \A x \in Workers : pc'[x] # "upload" => uploaded'[x] = 0
    BY <2>1
  <2> QED  BY <2>1, <2>2, <2>3, <2>4
<1>6. CASE AckDelivery(w) \/ RequeueDelivery(w) \/ RejectDelivery(w)
  BY <1>6 DEF AckDelivery, RequeueDelivery, RejectDelivery
<1>7. CASE ExitLoop(w) \/ Restart(w) \/ Terminate(w) \/ ConnectionLost(w)
  BY <1>7 DEF ExitLoop, Restart, Terminate, ConnectionLost
<1>8. CASE Crash(w)
  BY <1>8 DEF Crash
<1> QED  BY <1>1, <1>2, <1>3, <1>4, <1>5, <1>6, <1>7, <1>8 DEF WorkerNext, HandleStep

LEMMA WorkerTypeApi ==
  ASSUME TypeOK, NEW r \in Requests, ApiNext(r)  PROVE WorkerTypeOK'
<1>1. UNCHANGED workerVars
  BY DEF ApiNext, ServeStep, AssembleUpload, DeleteRow, RetryJob, InsertRow,
     InsertErrs, PublishEvent, PublishErrs, PublishSwallowed, ResetJob, ResetErrs,
     Sweep, ApiCrash
<1> QED  BY <1>1 DEF TypeOK, WorkerTypeOK, workerVars

LEMMA ObjectTypeWorker ==
  ASSUME TypeOK, NEW w \in Workers, WorkerNext(w)  PROVE ObjectTypeOK'
<1>1. CASE UploadFile(w)
  <2>1. /\ raw' = raw
        /\ artifacts' = [artifacts EXCEPT ![event[w]][WorkerType[w]] =
                             @ \cup {uploaded[w] + 1}]
        /\ pc[w] = "upload"
    BY <1>1 DEF UploadFile, objectVars
  <2>2. uploaded[w] + 1 \in Files /\ event[w] \in Videos /\ WorkerType[w] \in JobTypes
    BY <2>1, PipelineAssumption, WorkerTypeAssumption DEF TypeOK, WorkerTypeOK, Files
  <2> QED  BY <2>1, <2>2 DEF TypeOK, ObjectTypeOK
<1>2. CASE UNCHANGED objectVars
  BY <1>2 DEF TypeOK, ObjectTypeOK, objectVars
<1>3. UploadFile(w) \/ UNCHANGED objectVars
  BY DEF WorkerNext, HandleStep, Receive, ClaimWins, ClaimSkips, ClaimErrs, Download,
     ProcessFails, RecordFailure, RecordCompletion, CompletionErrs, AckDelivery,
     RequeueDelivery, RejectDelivery, ExitLoop, Restart, Terminate, Crash, ConnectionLost
<1> QED  BY <1>1, <1>2, <1>3

LEMMA ObjectTypeApi ==
  ASSUME TypeOK, NEW r \in Requests, ApiNext(r)  PROVE ObjectTypeOK'
<1>1. CASE Sweep(r)
  <2>1. apiVideo[r] \in Videos
    BY <1>1 DEF TypeOK, ApiTypeOK, Sweep
  <2>2. raw' \subseteq Videos
    BY <1>1 DEF TypeOK, ObjectTypeOK, Sweep
  <2>3. PICK left \in SUBSET Files :
          artifacts' = [artifacts EXCEPT ![apiVideo[r]] = [t \in JobTypes |->
              IF t = Prefixes[swept[r] + 1] THEN @[t] \cap left ELSE @[t]]]
    BY <1>1 DEF Sweep
  <2>4. artifacts' \in [Videos -> [JobTypes -> SUBSET Files]]
    BY <2>1, <2>3 DEF TypeOK, ObjectTypeOK
  <2> QED  BY <2>2, <2>4 DEF ObjectTypeOK
<1>2. CASE \E v \in Videos : AssembleUpload(r, v)
  BY <1>2 DEF TypeOK, ObjectTypeOK, AssembleUpload
<1>3. CASE UNCHANGED objectVars
  BY <1>3 DEF TypeOK, ObjectTypeOK, objectVars
<1>4. Sweep(r) \/ (\E v \in Videos : AssembleUpload(r, v)) \/ UNCHANGED objectVars
  BY DEF ApiNext, ServeStep, DeleteRow, RetryJob, InsertRow, InsertErrs, PublishEvent,
     PublishErrs, PublishSwallowed, ResetJob, ResetErrs, ApiCrash
<1> QED  BY <1>1, <1>2, <1>3, <1>4

LEMMA HistoryTypeWorker ==
  ASSUME TypeOK, NEW w \in Workers, WorkerNext(w)
  PROVE  HistoryTypeOK' /\ faults' \in Nat /\ calls' \in Nat
<1>1. UNCHANGED <<born, deleted, unannounced, swallowed, calls>> /\ faults' \in Nat
  BY DEF TypeOK, WorkerNext, HandleStep, Receive, ClaimWins, ClaimSkips, ClaimErrs,
     Download, UploadFile, ProcessFails, RecordFailure, RecordCompletion,
     CompletionErrs, AckDelivery, RequeueDelivery, RejectDelivery, ExitLoop, Restart,
     Terminate, Crash, ConnectionLost, CallFails, Fault, historyVars
<1>2. parked' = parked \/ RejectDelivery(w)
  BY DEF WorkerNext, HandleStep, Receive, ClaimWins, ClaimSkips, ClaimErrs,
     Download, UploadFile, ProcessFails, RecordFailure, RecordCompletion,
     CompletionErrs, AckDelivery, RequeueDelivery, ExitLoop, Restart,
     Terminate, Crash, ConnectionLost, historyVars
<1>3. parked' \subseteq Videos \X JobTypes
  BY <1>2, WorkerTypeAssumption DEF TypeOK, HistoryTypeOK, BrokerTypeOK, RejectDelivery
<1> QED  BY <1>1, <1>3 DEF TypeOK, HistoryTypeOK

LEMMA ApiTypeWorker ==
  ASSUME TypeOK, NEW w \in Workers, WorkerNext(w)  PROVE ApiTypeOK'
<1>1. UNCHANGED apiVars
  BY DEF WorkerNext, HandleStep, Receive, ClaimWins, ClaimSkips, ClaimErrs, Download,
     UploadFile, ProcessFails, RecordFailure, RecordCompletion, CompletionErrs,
     AckDelivery, RequeueDelivery, RejectDelivery, ExitLoop, Restart, Terminate,
     Crash, ConnectionLost
<1> QED  BY <1>1 DEF TypeOK, ApiTypeOK, apiVars

LEMMA ApiTypeApi ==
  ASSUME TypeOK, NEW r \in Requests, ApiNext(r)
  PROVE  ApiTypeOK' /\ HistoryTypeOK' /\ faults' \in Nat /\ calls' \in Nat
<1> USE JobTypesAssumption DEF TypeOK, ApiTypeOK, HistoryTypeOK, ApiPc, AllJobTypes,
        Serve, Respond, NewCall, Fault, apiVars, historyVars
<1>0. apiVideo[r] \in Videos => JobsOf(r) \subseteq Videos \X JobTypes
  BY DEF JobsOf
<1>1. ASSUME NEW v \in Videos, AssembleUpload(r, v) \/ DeleteRow(r, v)
      PROVE  ApiTypeOK' /\ HistoryTypeOK' /\ faults' \in Nat /\ calls' \in Nat
  BY <1>1 DEF AssembleUpload, DeleteRow
<1>2. ASSUME NEW v \in Videos, NEW t \in JobTypes, RetryJob(r, v, t)
      PROVE  ApiTypeOK' /\ HistoryTypeOK' /\ faults' \in Nat /\ calls' \in Nat
  BY <1>2 DEF RetryJob
<1>3. CASE InsertRow(r) \/ InsertErrs(r)
  BY <1>0, <1>3 DEF InsertRow, InsertErrs, NotAnnounced
<1>4. CASE PublishEvent(r) \/ PublishErrs(r) \/ PublishSwallowed(r)
  BY <1>0, <1>4 DEF PublishEvent, PublishErrs, PublishSwallowed, NotAnnounced, Announcing
<1>5. CASE ResetJob(r) \/ ResetErrs(r)
  BY <1>0, <1>5 DEF ResetJob, ResetErrs, NotAnnounced
<1>6. CASE Sweep(r)
  BY <1>6 DEF Sweep
<1>7. CASE ApiCrash(r)
  BY <1>0, <1>7 DEF ApiCrash, NotAnnounced, Announcing
<1> QED  BY <1>1, <1>2, <1>3, <1>4, <1>5, <1>6, <1>7 DEF ApiNext, ServeStep

LEMMA StepInv == Inv /\ [Next]_vars => Inv'
<1> SUFFICES ASSUME Inv, [Next]_vars  PROVE Inv'
  OBVIOUS
<1>1. StoreInv'
  BY PipelineUsesStore, StoreCallInv DEF Inv
<1>2. ASSUME NEW w \in Workers, WorkerNext(w)  PROVE TypeOK'
  BY <1>1, <1>2, BrokerTypeWorker, WorkerTypeWorker, ObjectTypeWorker, ApiTypeWorker,
     HistoryTypeWorker DEF Inv, StoreInv, TypeOK
<1>3. ASSUME NEW r \in Requests, ApiNext(r)  PROVE TypeOK'
  BY <1>1, <1>3, BrokerTypeApi, WorkerTypeApi, ObjectTypeApi, ApiTypeApi
     DEF Inv, StoreInv, TypeOK
<1>4. CASE UNCHANGED vars
  <2>1. /\ UNCHANGED <<storeVars, brokerVars, workerVars, objectVars>>
        /\ UNCHANGED <<apiVars, historyVars, faults, calls>>
    BY <1>4 DEF vars
  <2>2. StoreTypeOK' /\ BrokerTypeOK' /\ ObjectTypeOK'
    BY <2>1 DEF Inv, TypeOK, StoreTypeOK, BrokerTypeOK, ObjectTypeOK, storeVars,
       brokerVars, objectVars
  <2>3. WorkerTypeOK'
    BY <2>1 DEF Inv, TypeOK, WorkerTypeOK, workerVars
  <2>4. ApiTypeOK' /\ HistoryTypeOK' /\ faults' \in Nat /\ calls' \in Nat
    BY <2>1 DEF Inv, TypeOK, ApiTypeOK, HistoryTypeOK, apiVars, historyVars
  <2> QED  BY <1>1, <2>2, <2>3, <2>4 DEF Inv, TypeOK
<1> QED  BY <1>1, <1>2, <1>3, <1>4 DEF Inv, Next

\* Every reachable state of the pipeline is well formed, in any topology.
THEOREM TypeCorrect == Spec => []TypeOK
<1>1. Inv => TypeOK
  BY DEF Inv
<1> QED  BY <1>1, InitInv, StepInv, PTL DEF Spec

-----------------------------------------------------------------------------
(* The bound on attempts. Every copy of an event is the announcement of one *)
(* API call, or was duplicated by a fault; a copy whose worker may still    *)
(* claim the job is a chance of one more attempt, and once MaxAttempts is   *)
(* reached a claim uses its copy up, unless a fault gives it back. No       *)
(* assumption on the topology.                                              *)

\* A worker's delivery is that of the event it handles.
OwnDelivery ==
    \A w \in Workers :
        /\ unacked[w] \in {NoVideo, event[w]}
        /\ ~Busy(w) => event[w] = NoVideo

Handling(v, t) == {w \in Workers : WorkerType[w] = t /\ event[w] = v}

\* Only a fault makes w give its delivery back to the queue.
Decided(w) ==
    \/ pc[w] \in {"ack", "reject"}
    \/ /\ pc[w] \in {"download", "upload", "fail", "complete"}
       /\ attempt[w] >= MaxAttempts
       /\ ~cancelled[w]

Undecided(v, t) == {w \in Handling(v, t) : ~Decided(w)}

Announcers(v) ==
    {r \in Requests : /\ apiVideo[r] = v
                      /\ apiPc[r] \in {"insert", "announce", "reset", "republish"}}

CopiesArePaidFor ==
    \A v \in Videos, t \in JobTypes :
        ready[t][v] + Cardinality(Handling(v, t)) + Cardinality(Announcers(v))
            <= calls + faults

AttemptsArePaidFor ==
    \A v \in Videos, t \in JobTypes :
        attemptCount[v][t] >= MaxAttempts =>
            attemptCount[v][t] + ready[t][v] + Cardinality(Undecided(v, t))
                + Cardinality(Announcers(v)) < MaxAttempts + calls + faults

PaidFor == OwnDelivery /\ CopiesArePaidFor /\ AttemptsArePaidFor

In(x, S) == IF x \in S THEN 1 ELSE 0

\* Two sets that agree but for one element differ by it in size.
LEMMA CountStep ==
  ASSUME NEW T, IsFiniteSet(T), NEW S1 \in SUBSET T, NEW S2 \in SUBSET T,
         NEW x, S1 \ {x} = S2 \ {x}
  PROVE  /\ Cardinality(S1) \in Nat /\ Cardinality(S2) \in Nat
         /\ Cardinality(S2) + In(x, S1) = Cardinality(S1) + In(x, S2)
<1>1. ASSUME NEW S \in SUBSET T
      PROVE  /\ Cardinality(S) \in Nat
             /\ Cardinality(S \ {x}) \in Nat
             /\ Cardinality(S) = Cardinality(S \ {x}) + In(x, S)
  <2>1. IsFiniteSet(S) /\ IsFiniteSet(S \ {x})
    BY FS_Subset, S \ {x} \subseteq T
  <2>2. Cardinality(S) \in Nat /\ Cardinality(S \ {x}) \in Nat
    BY <2>1, FS_CardinalityType
  <2>3. CASE x \in S
    BY <2>1, <2>2, <2>3, FS_RemoveElement DEF In
  <2>4. CASE x \notin S
    <3>1. S \ {x} = S
      BY <2>4
    <3> QED  BY <2>2, <2>4, <3>1 DEF In
  <2> QED  BY <2>2, <2>3, <2>4
<1>2. /\ Cardinality(S1) \in Nat /\ Cardinality(S2) \in Nat /\ Cardinality(S1 \ {x}) \in Nat
      /\ Cardinality(S1) = Cardinality(S1 \ {x}) + In(x, S1)
      /\ Cardinality(S2) = Cardinality(S1 \ {x}) + In(x, S2)
  BY <1>1
<1>3. In(x, S1) \in Nat /\ In(x, S2) \in Nat
  BY DEF In
<1> QED  BY <1>2, <1>3

LEMMA InitPaidFor == Init => PaidFor
<1> SUFFICES ASSUME Init PROVE PaidFor
  OBVIOUS
<1>1. OwnDelivery
  BY DEF Init, BrokerInit, OwnDelivery
<1>2. ASSUME NEW v \in Videos, NEW t \in JobTypes
      PROVE  /\ Handling(v, t) = {} /\ Announcers(v) = {}
             /\ ready[t][v] = 0 /\ attemptCount[v][t] = 0
  BY NoVideoAssumption DEF Init, BrokerInit, StoreInit, NoAttempts, Handling, Announcers
<1>3. CopiesArePaidFor
  <2>1. calls + faults = 0
    BY DEF Init
  <2>2. ASSUME NEW v \in Videos, NEW t \in JobTypes
        PROVE  ready[t][v] + Cardinality(Handling(v, t)) + Cardinality(Announcers(v)) = 0
    <3>1. Cardinality({}) = 0
      BY FS_EmptySet
    <3>2. ready[t][v] = 0
      BY <1>2
    <3>3. Cardinality(Handling(v, t)) = 0
      BY <1>2, <3>1
    <3>4. Cardinality(Announcers(v)) = 0
      BY <1>2, <3>1
    <3> QED  BY <3>2, <3>3, <3>4
  <2> QED  BY <2>1, <2>2 DEF CopiesArePaidFor
<1>4. AttemptsArePaidFor
  BY <1>2, PipelineAssumption DEF AttemptsArePaidFor
<1> QED  BY <1>1, <1>3, <1>4 DEF PaidFor

LEMMA OwnDeliveryWorker ==
  ASSUME TypeOK, OwnDelivery, NEW w \in Workers, WorkerNext(w)  PROVE OwnDelivery'
<1> USE NoVideoAssumption DEF OwnDelivery, TypeOK, WorkerTypeOK, BrokerTypeOK, Busy
<1>0. ASSUME NEW x \in Workers, x # w
      PROVE  unacked'[x] = unacked[x] /\ event'[x] = event[x] /\ pc'[x] = pc[x]
  BY <1>0 DEF WorkerNext, HandleStep, Receive, Deliver, ClaimWins, ClaimSkips, ClaimErrs,
     Download, UploadFile, ProcessFails, ProcessReturns, RecordFailure, RecordCompletion,
     CompletionErrs, AckDelivery, RequeueDelivery, RejectDelivery, ExitLoop, Restart,
     Terminate, Crash, ConnectionLost, Ack, Requeue, DeadLetter, Goto, Return, brokerVars
<1>1. ASSUME NEW v \in Videos, Receive(w, v)
      PROVE  unacked'[w] = event'[w] /\ Busy(w)'
  BY <1>1 DEF Receive, Deliver, Goto
<1>2. CASE AckDelivery(w) \/ RequeueDelivery(w) \/ RejectDelivery(w) \/ Crash(w)
  <2>1. unacked'[w] = NoVideo /\ event'[w] = NoVideo
    BY <1>2 DEF AckDelivery, RequeueDelivery, RejectDelivery, Crash, Ack, Requeue,
       DeadLetter, Return, brokerVars
  <2> QED  BY <1>0, <2>1
<1>3. CASE ConnectionLost(w)
  <2>1. unacked'[w] = NoVideo /\ event' = event /\ pc' = pc
    BY <1>3 DEF ConnectionLost, Requeue, brokerVars
  <2> QED  BY <1>0, <2>1
<1>4. CASE \/ ClaimWins(w) \/ ClaimSkips(w) \/ ClaimErrs(w) \/ Download(w)
           \/ UploadFile(w) \/ ProcessFails(w) \/ RecordFailure(w) \/ RecordCompletion(w)
           \/ CompletionErrs(w) \/ ExitLoop(w) \/ Restart(w) \/ Terminate(w)
  <2>1. UNCHANGED <<unacked, event>> /\ (~Busy(w)' => ~Busy(w))
    BY <1>4 DEF ClaimWins, ClaimSkips, ClaimErrs, Download, UploadFile, ProcessFails,
       ProcessReturns, RecordFailure, RecordCompletion, CompletionErrs, ExitLoop, Restart,
       Terminate, Goto, brokerVars
  <2> QED  BY <1>0, <2>1
<1> QED  BY <1>0, <1>1, <1>2, <1>3, <1>4 DEF WorkerNext, HandleStep

\* What a step of w does to the copies of an event and to its chances: each of
\* them it adds is a fault. A claim needs a chance, and uses it up unless it is
\* the fault or below MaxAttempts.
WorkerAccount(w, v, t) ==
    LET h == In(w, Handling(v, t))
        u == In(w, Undecided(v, t))
    IN  /\ ready'[t][v] + h' + faults <= ready[t][v] + h + faults'
        /\ \/ /\ attemptCount'[v][t] = attemptCount[v][t]
              /\ ready'[t][v] + u' + faults <= ready[t][v] + u + faults'
           \/ /\ attemptCount'[v][t] = attemptCount[v][t] + 1
              /\ ready'[t][v] = ready[t][v]
              /\ u = 1
              /\ \/ faults' = faults + 1 /\ u' = 1
                 \/ /\ faults' = faults
                    /\ attemptCount'[v][t] >= MaxAttempts => u' = 0

LEMMA WorkerAccounts ==
  ASSUME TypeOK, OwnDelivery, NEW w \in Workers, WorkerNext(w),
         NEW v \in Videos, NEW t \in JobTypes
  PROVE  WorkerAccount(w, v, t)
<1> USE WorkerTypeAssumption, NoVideoAssumption, PipelineAssumption
<1> DEFINE About == WorkerType[w] = t /\ event[w] = v
           h == In(w, Handling(v, t))
           u == In(w, Undecided(v, t))
<1>0. /\ h = IF About THEN 1 ELSE 0
      /\ u = IF About /\ ~Decided(w) THEN 1 ELSE 0
      /\ h' = IF About' THEN 1 ELSE 0
      /\ u' = IF About' /\ ~Decided(w)' THEN 1 ELSE 0
  BY DEF In, Handling, Undecided
<1>t. /\ pc \in [Workers -> WorkerPc]
      /\ event \in [Workers -> Videos \cup {NoVideo}]
      /\ attempt \in [Workers -> Nat]
      /\ cancelled \in [Workers -> BOOLEAN]
      /\ unacked \in [Workers -> Videos \cup {NoVideo}]
      /\ ready \in [JobTypes -> [Videos -> Nat]]
      /\ attemptCount \in [Videos -> [JobTypes -> Nat]]
      /\ faults \in Nat
      /\ ready[t][v] \in Nat
      /\ attemptCount[v][t] \in Nat
      /\ WorkerType[w] \in JobTypes
  BY DEF TypeOK, WorkerTypeOK, BrokerTypeOK, StoreTypeOK
<1> HIDE DEF h, u
<1>1. ASSUME NEW x \in Videos, Receive(w, x)  PROVE WorkerAccount(w, v, t)
  <2>1. /\ pc[w] = "idle" /\ pc'[w] = "claim"
        /\ event'[w] = x
        /\ ready[WorkerType[w]][x] > 0
        /\ ready' = [ready EXCEPT ![WorkerType[w]][x] = @ - 1]
        /\ faults' = faults /\ attemptCount' = attemptCount
    BY <1>1, <1>t DEF Receive, Deliver, Goto, storeVars
  <2>2. ~About
    BY <2>1 DEF OwnDelivery, Busy
  <2>3. ~Decided(w)' /\ (About' <=> WorkerType[w] = t /\ x = v)
    BY <2>1 DEF Decided
  <2>4. ready'[t][v] = IF About' THEN ready[t][v] - 1 ELSE ready[t][v]
    BY <1>t, <2>1, <2>3
  <2> QED  BY <1>0, <1>t, <2>1, <2>2, <2>3, <2>4 DEF WorkerAccount, h, u
\* Steps that neither take nor settle a delivery.
<1>2. ASSUME UNCHANGED <<event, ready>>, faults' \in Nat, faults <= faults',
             attemptCount' = attemptCount,
             About /\ Decided(w) => Decided(w)' \/ faults' = faults + 1
      PROVE  WorkerAccount(w, v, t)
  BY <1>0, <1>t, <1>2 DEF WorkerAccount, h, u
<1>3. CASE \/ ClaimSkips(w) \/ Download(w) \/ UploadFile(w) \/ ProcessFails(w)
           \/ RecordCompletion(w)
  <2>1. /\ UNCHANGED <<event, ready, faults>>
        /\ UNCHANGED attemptCount
        /\ Decided(w) => Decided(w)'
    BY <1>3, <1>t DEF ClaimSkips, Download, UploadFile, ProcessFails, ProcessReturns,
       RecordCompletion, CompleteJob, RecordStatus, Goto, Decided, storeVars, brokerVars
  <2> QED  BY <1>2, <1>t, <2>1
<1>4. CASE RecordFailure(w) \/ CompletionErrs(w)
  <2>1. /\ UNCHANGED <<event, ready, attempt, cancelled>>
        /\ UNCHANGED attemptCount
        /\ faults' = faults \/ faults' = faults + 1
    BY <1>4 DEF RecordFailure, CompletionErrs, FailJob, CompleteJob, RecordStatus,
       CallFails, Fault, storeVars, brokerVars
  <2>2. Decided(w) => Decided(w)' \/ faults' = faults + 1
    BY <1>4, <1>t DEF RecordFailure, CompletionErrs, CallFails, Fault, Goto, Decided
  <2> QED  BY <1>2, <1>t, <2>1, <2>2
<1>5. CASE ExitLoop(w) \/ Restart(w) \/ Terminate(w)
  <2>1. /\ UNCHANGED <<event, ready>>
        /\ UNCHANGED attemptCount
        /\ faults' = faults \/ faults' = faults + 1
        /\ Decided(w) => faults' = faults + 1
    BY <1>5, <1>t DEF ExitLoop, Restart, Terminate, Fault, Decided, storeVars, brokerVars
  <2> QED  BY <1>2, <1>t, <2>1
<1>6. ASSUME Requeue(w)
      PROVE  ready'[t][v] \in {ready[t][v], ready[t][v] + In(w, Handling(v, t))}
  <2>1. \/ ready' = ready
        \/ /\ unacked[w] = event[w] /\ unacked[w] # NoVideo
           /\ ready' = [ready EXCEPT ![WorkerType[w]][event[w]] = @ + 1]
    BY <1>6 DEF Requeue, OwnDelivery, brokerVars
  <2>2. CASE ready' = ready
    BY <2>2
  <2>3. CASE ready' = [ready EXCEPT ![WorkerType[w]][event[w]] = @ + 1] /\ event[w] \in Videos
    <3>1. ready'[t][v] = IF About THEN ready[t][v] + 1 ELSE ready[t][v]
      BY <1>t, <2>3
    <3> QED  BY <1>0, <3>1 DEF h
  <2> QED  BY <1>t, <2>1, <2>2, <2>3
<1>7. CASE AckDelivery(w) \/ RejectDelivery(w)
  <2>1. /\ ready' = ready /\ faults' = faults
        /\ UNCHANGED attemptCount
        /\ event'[w] = NoVideo
    BY <1>7, <1>t DEF AckDelivery, RejectDelivery, Ack, DeadLetter, Return, storeVars,
       brokerVars
  <2> QED  BY <1>0, <1>t, <2>1 DEF WorkerAccount, h, u
<1>8. CASE RequeueDelivery(w) \/ Crash(w)
  <2>1. /\ Requeue(w)
        /\ UNCHANGED attemptCount
        /\ event'[w] = NoVideo
        /\ \/ faults' = faults /\ ~Decided(w)
           \/ faults' = faults + 1
    BY <1>8, <1>t DEF RequeueDelivery, Crash, Fault, Return, Decided, storeVars
  <2>2. ready'[t][v] \in {ready[t][v], ready[t][v] + h}
    BY <1>6, <2>1 DEF h
  <2> QED  BY <1>0, <1>t, <2>1, <2>2 DEF WorkerAccount, h, u
<1>9. CASE ConnectionLost(w)
  <2>1. /\ Requeue(w)
        /\ UNCHANGED attemptCount
        /\ UNCHANGED <<event, pc, attempt, cancelled>>
        /\ faults' = faults + 1
    BY <1>9 DEF ConnectionLost, Fault, storeVars
  <2>2. ready'[t][v] \in {ready[t][v], ready[t][v] + h}
    BY <1>6, <2>1 DEF h
  <2>3. Decided(w)' = Decided(w) /\ About' = About
    BY <2>1 DEF Decided
  <2> QED  BY <1>0, <1>t, <2>1, <2>2, <2>3 DEF WorkerAccount, h, u
<1>10. ASSUME ClaimJob(event[w], WorkerType[w]), pc[w] = "claim", event[w] \in Videos,
              UNCHANGED <<event, ready>>,
              \/ faults' = faults + 1 /\ pc'[w] = "requeue"
              \/ /\ faults' = faults
                 /\ pc'[w] = "download" /\ ~cancelled'[w]
                 /\ attempt'[w] = attemptCount[event[w]][WorkerType[w]] + 1
       PROVE  WorkerAccount(w, v, t)
  <2>1. attemptCount' = [attemptCount EXCEPT ![event[w]][WorkerType[w]] = @ + 1]
    BY <1>10 DEF ClaimJob
  <2>2. attemptCount'[v][t] = IF About THEN attemptCount[v][t] + 1 ELSE attemptCount[v][t]
    BY <1>t, <1>10, <2>1
  <2>3. ~Decided(w) /\ About' = About /\ ready' = ready
    BY <1>10 DEF Decided
  <2>4. CASE ~About
    BY <1>0, <1>t, <1>10, <2>2, <2>3, <2>4 DEF WorkerAccount, h, u
  <2>5. CASE About /\ faults' = faults + 1 /\ pc'[w] = "requeue"
    <3>1. ~Decided(w)'
      BY <2>5 DEF Decided
    <3> QED  BY <1>0, <1>t, <2>2, <2>3, <2>5, <3>1 DEF WorkerAccount, h, u
  <2>6. CASE /\ About /\ faults' = faults
             /\ pc'[w] = "download" /\ ~cancelled'[w]
             /\ attempt'[w] = attemptCount[event[w]][WorkerType[w]] + 1
    <3>1. attemptCount'[v][t] >= MaxAttempts => Decided(w)'
      BY <2>2, <2>6 DEF Decided
    <3> QED  BY <1>0, <1>t, <2>2, <2>3, <2>6, <3>1 DEF WorkerAccount, h, u
  <2> QED  BY <1>10, <2>4, <2>5, <2>6
<1>11. CASE ClaimWins(w)
  BY <1>t, <1>10, <1>11 DEF ClaimWins, Goto, TypeOK, WorkerTypeOK, brokerVars
<1>12. CASE ClaimErrs(w)
  <2>1. /\ pc[w] = "claim" /\ pc'[w] = "requeue" /\ event[w] \in Videos
        /\ UNCHANGED <<event, ready>>
    BY <1>t, <1>12 DEF ClaimErrs, Goto, TypeOK, WorkerTypeOK, brokerVars
  <2>2. CASE CallFails(w) /\ UNCHANGED storeVars
    <3>1. /\ faults' = faults \/ faults' = faults + 1
          /\ UNCHANGED attemptCount
          /\ ~Decided(w)
      BY <2>1, <2>2 DEF CallFails, Fault, storeVars, Decided
    <3> QED  BY <1>2, <1>t, <2>1, <3>1
  <2>3. CASE Fault /\ ClaimJob(event[w], WorkerType[w])
    BY <1>10, <2>1, <2>3 DEF Fault
  <2> QED  BY <1>12, <2>2, <2>3 DEF ClaimErrs
<1> QED
  BY <1>1, <1>3, <1>4, <1>5, <1>7, <1>8, <1>9, <1>11, <1>12 DEF WorkerNext, HandleStep

LEMMA OwnDeliveryApi ==
  ASSUME OwnDelivery, NEW r \in Requests, ApiNext(r)  PROVE OwnDelivery'
<1>1. UNCHANGED <<pc, event, unacked>>
  BY DEF ApiNext, ServeStep, AssembleUpload, DeleteRow, RetryJob, InsertRow, InsertErrs,
     PublishEvent, Publish, PublishErrs, PublishSwallowed, ResetJob, ResetErrs, Sweep,
     ApiCrash, workerVars, brokerVars
<1> QED  BY <1>1 DEF OwnDelivery, Busy

\* A handler publishes at most one event, and its call is counted when it
\* begins. It never adds to attempt_count.
LEMMA ApiAccounts ==
  ASSUME TypeOK, NEW r \in Requests, ApiNext(r), NEW v \in Videos, NEW t \in JobTypes
  PROVE  /\ ready'[t][v] + In(r, Announcers(v))' + calls + faults
               <= ready[t][v] + In(r, Announcers(v)) + calls' + faults'
         /\ attemptCount'[v][t] \in {attemptCount[v][t], 0}
         /\ calls <= calls' /\ faults <= faults'
<1> DEFINE n == In(r, Announcers(v))
<1>0. n = IF /\ apiVideo[r] = v
             /\ apiPc[r] \in {"insert", "announce", "reset", "republish"} THEN 1 ELSE 0
  BY DEF In, Announcers
<1>1. n' = IF /\ apiVideo'[r] = v
              /\ apiPc'[r] \in {"insert", "announce", "reset", "republish"} THEN 1 ELSE 0
  BY DEF In, Announcers
<1>t. /\ apiPc \in [Requests -> ApiPc]
      /\ apiVideo \in [Requests -> Videos \cup {NoVideo}]
      /\ ready \in [JobTypes -> [Videos -> Nat]]
      /\ ready[t][v] \in Nat
      /\ attemptCount \in [Videos -> [JobTypes -> Nat]]
      /\ faults \in Nat /\ calls \in Nat
  BY DEF TypeOK, ApiTypeOK, BrokerTypeOK, StoreTypeOK
<1> HIDE DEF n
<1>2. attemptCount'[v][t] \in {attemptCount[v][t], 0}
  <2>1. \/ UNCHANGED attemptCount
        \/ \E x \in Videos : attemptCount' = [attemptCount EXCEPT ![x] = NoAttempts]
        \/ \E x \in Videos, s \in JobTypes : attemptCount' = [attemptCount EXCEPT ![x][s] = 0]
    <3>1. ASSUME NEW x \in Videos, AssembleUpload(r, x) \/ DeleteRow(r, x)
          PROVE  \/ UNCHANGED attemptCount
                 \/ attemptCount' = [attemptCount EXCEPT ![x] = NoAttempts]
      BY <3>1 DEF AssembleUpload, DeleteRow, DeleteVideo, storeVars
    <3>2. ASSUME NEW x \in Videos, NEW s \in JobTypes, RetryJob(r, x, s)
          PROVE  UNCHANGED attemptCount
      BY <3>2 DEF RetryJob, storeVars
    <3>3. CASE InsertRow(r) \/ InsertErrs(r)
      <4>1. apiVideo[r] \in Videos
        BY <3>3 DEF TypeOK, ApiTypeOK, InsertRow, InsertErrs
      <4>2. \/ UNCHANGED attemptCount
            \/ attemptCount' = [attemptCount EXCEPT ![apiVideo[r]] = NoAttempts]
        BY <3>3 DEF InsertRow, InsertErrs, InsertVideo, storeVars
      <4> QED  BY <4>1, <4>2
    <3>4. CASE ResetJob(r) \/ ResetErrs(r)
      <4>1. apiVideo[r] \in Videos /\ apiType[r] \in JobTypes
        BY <3>4 DEF TypeOK, ApiTypeOK, ResetJob, ResetErrs
      <4>2. \/ UNCHANGED attemptCount
            \/ attemptCount' = [attemptCount EXCEPT ![apiVideo[r]][apiType[r]] = 0]
        BY <3>4 DEF ResetJob, ResetErrs, ResetJobForRetry, storeVars
      <4> QED  BY <4>1, <4>2
    <3>5. CASE PublishEvent(r) \/ PublishErrs(r) \/ PublishSwallowed(r) \/ Sweep(r) \/ ApiCrash(r)
      BY <3>5 DEF PublishEvent, PublishErrs, PublishSwallowed, Sweep, ApiCrash, storeVars
    <3> QED  BY <3>1, <3>2, <3>3, <3>4, <3>5 DEF ApiNext, ServeStep
  <2>2. ASSUME NEW x \in Videos, attemptCount' = [attemptCount EXCEPT ![x] = NoAttempts]
        PROVE  attemptCount'[v][t] \in {attemptCount[v][t], 0}
    BY <1>t, <2>2 DEF NoAttempts
  <2>3. ASSUME NEW x \in Videos, NEW s \in JobTypes,
               attemptCount' = [attemptCount EXCEPT ![x][s] = 0]
        PROVE  attemptCount'[v][t] \in {attemptCount[v][t], 0}
    BY <1>t, <2>3
  <2> QED  BY <2>1, <2>2, <2>3
<1>3. CASE PublishEvent(r)
  <2>1. /\ ready' = [s \in JobTypes |-> [ready[s] EXCEPT ![apiVideo[r]] = @ + 1]]
        /\ apiPc[r] \in {"announce", "republish"} /\ apiPc'[r] = "idle"
        /\ apiVideo[r] \in Videos
        /\ UNCHANGED <<calls, faults>>
    BY <1>3, <1>t DEF PublishEvent, Publish, Announcing, Respond, TypeOK, ApiTypeOK
  <2>2. ready'[t][v] = IF apiVideo[r] = v THEN ready[t][v] + 1 ELSE ready[t][v]
    BY <1>t, <2>1
  <2> QED  BY <1>0, <1>1, <1>2, <1>t, <2>1, <2>2 DEF n
<1>4. ASSUME ready' = ready, calls' \in Nat, faults' \in Nat,
             calls <= calls', faults <= faults', n' <= n \/ calls' = calls + 1
      PROVE  /\ ready'[t][v] + n' + calls + faults <= ready[t][v] + n + calls' + faults'
             /\ calls <= calls' /\ faults <= faults'
  <2>1. n \in {0, 1} /\ n' \in {0, 1}
    BY <1>0, <1>1
  <2> QED  BY <1>4, <1>t, <2>1
<1>5. ASSUME NEW x \in Videos, AssembleUpload(r, x) \/ DeleteRow(r, x)
      PROVE  ready' = ready /\ calls' = calls + 1 /\ faults' \in {faults, faults + 1}
  BY <1>5 DEF AssembleUpload, DeleteRow, NewCall, Fault, brokerVars
<1>6. ASSUME NEW x \in Videos, NEW s \in JobTypes, RetryJob(r, x, s)
      PROVE  ready' = ready /\ calls' = calls + 1 /\ faults' \in {faults, faults + 1}
  BY <1>6 DEF RetryJob, NewCall, brokerVars
<1>7. CASE \/ InsertRow(r) \/ InsertErrs(r) \/ PublishErrs(r) \/ PublishSwallowed(r)
           \/ ResetJob(r) \/ ResetErrs(r) \/ Sweep(r) \/ ApiCrash(r)
  <2>1. ready' = ready /\ calls' = calls /\ faults' \in {faults, faults + 1}
    BY <1>7 DEF InsertRow, InsertErrs, PublishErrs, PublishSwallowed, ResetJob,
       ResetErrs, Sweep, ApiCrash, Fault, brokerVars
  <2>2. n' <= n
    <3>1. CASE InsertRow(r)
      BY <1>0, <1>1, <1>t, <3>1 DEF InsertRow, Serve
    <3>2. CASE ResetJob(r)
      BY <1>0, <1>1, <1>t, <3>2 DEF ResetJob, Serve
    <3>3. CASE InsertErrs(r) \/ PublishErrs(r) \/ PublishSwallowed(r) \/ ResetErrs(r) \/ ApiCrash(r)
      BY <1>0, <1>1, <1>t, <3>3 DEF InsertErrs, PublishErrs, PublishSwallowed,
         ResetErrs, ApiCrash, Respond
    <3>4. CASE Sweep(r)
      <4>1. apiPc'[r] \in {"idle", "sweep"}
        BY <1>t, <3>4 DEF Sweep, Respond
      <4> QED  BY <1>0, <1>1, <4>1
    <3> QED  BY <1>7, <3>1, <3>2, <3>3, <3>4
  <2> QED  BY <1>2, <1>4, <1>t, <2>1, <2>2 DEF n
<1>8. ASSUME ready' = ready, calls' = calls + 1, faults' \in {faults, faults + 1}
      PROVE  /\ ready'[t][v] + n' + calls + faults <= ready[t][v] + n + calls' + faults'
             /\ calls <= calls' /\ faults <= faults'
  BY <1>4, <1>8, <1>t
<1> QED
  BY <1>2, <1>3, <1>5, <1>6, <1>7, <1>8 DEF ApiNext, ServeStep, n

LEMMA StepPaidFor == Inv /\ PaidFor /\ [Next]_vars => PaidFor'
<1> SUFFICES ASSUME Inv, PaidFor, [Next]_vars  PROVE PaidFor'
  OBVIOUS
<1> USE DEF PaidFor
<1>1. TypeOK /\ TypeOK'
  BY StepInv DEF Inv
<1>2. ASSUME UNCHANGED vars  PROVE PaidFor'
  BY <1>2 DEF OwnDelivery, CopiesArePaidFor, AttemptsArePaidFor, Handling, Undecided, Decided,
     Announcers, Busy, vars, storeVars, brokerVars, workerVars, apiVars
<1> DEFINE H(v, t) == Cardinality(Handling(v, t))
           U(v, t) == Cardinality(Undecided(v, t))
           N(v) == Cardinality(Announcers(v))
<1>3. ASSUME NEW v \in Videos, NEW t \in JobTypes
      PROVE  /\ H(v, t) \in Nat /\ U(v, t) \in Nat /\ N(v) \in Nat
             /\ U(v, t) <= H(v, t)
             /\ calls \in Nat /\ faults \in Nat /\ calls' \in Nat /\ faults' \in Nat
             /\ ready[t][v] \in Nat /\ attemptCount[v][t] \in Nat
             /\ ready'[t][v] \in Nat /\ attemptCount'[v][t] \in Nat
  <2>1. Handling(v, t) \in SUBSET Workers /\ Undecided(v, t) \in SUBSET Handling(v, t)
        /\ Announcers(v) \in SUBSET Requests
    BY DEF Handling, Undecided, Announcers
  <2>2. IsFiniteSet(Handling(v, t)) /\ IsFiniteSet(Undecided(v, t)) /\ IsFiniteSet(Announcers(v))
        /\ U(v, t) <= H(v, t)
    BY <2>1, FS_Subset, ProcessesAssumption
  <2>3. H(v, t) \in Nat /\ U(v, t) \in Nat /\ N(v) \in Nat
    BY <2>2, FS_CardinalityType
  <2>4. /\ calls \in Nat /\ faults \in Nat /\ calls' \in Nat /\ faults' \in Nat
        /\ ready[t][v] \in Nat /\ attemptCount[v][t] \in Nat
        /\ ready'[t][v] \in Nat /\ attemptCount'[v][t] \in Nat
    BY <1>1 DEF TypeOK, BrokerTypeOK, StoreTypeOK
  <2> QED  BY <2>2, <2>3, <2>4
<1>4. ASSUME NEW v \in Videos, NEW t \in JobTypes
      PROVE  /\ ready[t][v] + H(v, t) + N(v) <= calls + faults
             /\ attemptCount[v][t] >= MaxAttempts =>
                   attemptCount[v][t] + ready[t][v] + U(v, t) + N(v)
                       < MaxAttempts + calls + faults
  BY DEF CopiesArePaidFor, AttemptsArePaidFor
<1>5. ASSUME NEW w \in Workers, WorkerNext(w)  PROVE PaidFor'
  <2>1. OwnDelivery'
    BY <1>1, <1>5, OwnDeliveryWorker
  <2>2. UNCHANGED <<apiPc, apiVideo, calls>>
    BY <1>5 DEF WorkerNext, HandleStep, Receive, ClaimWins, ClaimSkips, ClaimErrs,
       Download, UploadFile, ProcessFails, RecordFailure, RecordCompletion,
       CompletionErrs, AckDelivery, RequeueDelivery, RejectDelivery, ExitLoop, Restart,
       Terminate, Crash, ConnectionLost, apiVars
  <2>3. ASSUME NEW x \in Workers, x # w
        PROVE  event'[x] = event[x] /\ Decided(x)' = Decided(x)
    BY <1>1, <1>5, <2>3 DEF TypeOK, WorkerTypeOK, WorkerNext, HandleStep, Receive, ClaimWins,
       ClaimSkips, ClaimErrs, Download, UploadFile, ProcessFails, ProcessReturns,
       RecordFailure, RecordCompletion, CompletionErrs, AckDelivery, RequeueDelivery,
       RejectDelivery, ExitLoop, Restart, Terminate, Crash, ConnectionLost, Goto, Return,
       Decided
  <2>4. ASSUME NEW v \in Videos, NEW t \in JobTypes
        PROVE  /\ H(v, t)' + In(w, Handling(v, t)) = H(v, t) + In(w, Handling(v, t))'
               /\ U(v, t)' + In(w, Undecided(v, t)) = U(v, t) + In(w, Undecided(v, t))'
               /\ H(v, t)' \in Nat /\ U(v, t)' \in Nat /\ N(v)' = N(v)
    <3>1. /\ Handling(v, t) \in SUBSET Workers /\ Handling(v, t)' \in SUBSET Workers
          /\ Undecided(v, t) \in SUBSET Workers /\ Undecided(v, t)' \in SUBSET Workers
      BY DEF Handling, Undecided
    <3>2. /\ Handling(v, t) \ {w} = Handling(v, t)' \ {w}
          /\ Undecided(v, t) \ {w} = Undecided(v, t)' \ {w}
      BY <2>3 DEF Handling, Undecided
    <3>3. /\ H(v, t)' \in Nat
          /\ H(v, t)' + In(w, Handling(v, t)) = H(v, t) + In(w, Handling(v, t)')
      BY <3>1, <3>2, CountStep, ProcessesAssumption
    <3>4. /\ U(v, t)' \in Nat
          /\ U(v, t)' + In(w, Undecided(v, t)) = U(v, t) + In(w, Undecided(v, t)')
      BY <3>1, <3>2, CountStep, ProcessesAssumption
    <3>5. N(v)' = N(v)
      BY <2>2 DEF Announcers
    <3> QED  BY <3>3, <3>4, <3>5 DEF In
  <2>5. ASSUME NEW v \in Videos, NEW t \in JobTypes
        PROVE  /\ ready'[t][v] + H(v, t)' + N(v)' <= calls' + faults'
               /\ attemptCount'[v][t] >= MaxAttempts =>
                     attemptCount'[v][t] + ready'[t][v] + U(v, t)' + N(v)'
                         < MaxAttempts + calls' + faults'
    <3> DEFINE h0 == In(w, Handling(v, t))
               h1 == In(w, Handling(v, t))'
               u0 == In(w, Undecided(v, t))
               u1 == In(w, Undecided(v, t))'
    <3>1. h0 \in Nat /\ h1 \in Nat /\ u0 \in Nat /\ u1 \in Nat
      BY DEF In
    <3>2. /\ ready'[t][v] + h1 + faults <= ready[t][v] + h0 + faults'
          /\ \/ /\ attemptCount'[v][t] = attemptCount[v][t]
                /\ ready'[t][v] + u1 + faults <= ready[t][v] + u0 + faults'
             \/ /\ attemptCount'[v][t] = attemptCount[v][t] + 1
                /\ ready'[t][v] = ready[t][v]
                /\ u0 = 1
                /\ \/ faults' = faults + 1 /\ u1 = 1
                   \/ /\ faults' = faults
                      /\ attemptCount'[v][t] >= MaxAttempts => u1 = 0
      BY <1>1, <1>5, WorkerAccounts DEF WorkerAccount
    <3>3. /\ H(v, t)' + h0 = H(v, t) + h1
          /\ U(v, t)' + u0 = U(v, t) + u1
          /\ H(v, t)' \in Nat /\ U(v, t)' \in Nat /\ N(v)' = N(v)
      BY <2>4
    <3> HIDE DEF h0, h1, u0, u1, H, U, N
    <3> QED  BY <1>3, <1>4, <2>2, <3>1, <3>2, <3>3, PipelineAssumption
  <2> QED  BY <2>1, <2>5 DEF CopiesArePaidFor, AttemptsArePaidFor
<1>6. ASSUME NEW r \in Requests, ApiNext(r)  PROVE PaidFor'
  <2>1. OwnDelivery'
    BY <1>6, OwnDeliveryApi
  <2>2. UNCHANGED <<pc, event, attempt, cancelled>>
    BY <1>6 DEF ApiNext, ServeStep, AssembleUpload, DeleteRow, RetryJob, InsertRow,
       InsertErrs, PublishEvent, PublishErrs, PublishSwallowed, ResetJob, ResetErrs,
       Sweep, ApiCrash, workerVars
  <2>3. ASSUME NEW x \in Requests, x # r
        PROVE  apiPc'[x] = apiPc[x] /\ apiVideo'[x] = apiVideo[x]
    BY <1>1, <1>6, <2>3 DEF TypeOK, ApiTypeOK, ApiNext, ServeStep, AssembleUpload, DeleteRow,
       RetryJob, InsertRow, InsertErrs, PublishEvent, PublishErrs, PublishSwallowed,
       ResetJob, ResetErrs, Sweep, ApiCrash, Serve, Respond, apiVars
  <2>4. ASSUME NEW v \in Videos, NEW t \in JobTypes
        PROVE  /\ N(v)' + In(r, Announcers(v)) = N(v) + In(r, Announcers(v))'
               /\ N(v)' \in Nat /\ H(v, t)' = H(v, t) /\ U(v, t)' = U(v, t)
    <3>1. Announcers(v) \in SUBSET Requests /\ Announcers(v)' \in SUBSET Requests
      BY DEF Announcers
    <3>2. Announcers(v) \ {r} = Announcers(v)' \ {r}
      BY <2>3 DEF Announcers
    <3>3. /\ N(v)' \in Nat
          /\ N(v)' + In(r, Announcers(v)) = N(v) + In(r, Announcers(v)')
      BY <3>1, <3>2, CountStep, ProcessesAssumption
    <3>4. H(v, t)' = H(v, t) /\ U(v, t)' = U(v, t)
      BY <2>2 DEF Handling, Undecided, Decided
    <3> QED  BY <3>3, <3>4 DEF In
  <2>5. ASSUME NEW v \in Videos, NEW t \in JobTypes
        PROVE  /\ ready'[t][v] + H(v, t)' + N(v)' <= calls' + faults'
               /\ attemptCount'[v][t] >= MaxAttempts =>
                     attemptCount'[v][t] + ready'[t][v] + U(v, t)' + N(v)'
                         < MaxAttempts + calls' + faults'
    <3> DEFINE n0 == In(r, Announcers(v))
               n1 == In(r, Announcers(v))'
    <3>1. n0 \in Nat /\ n1 \in Nat
      BY DEF In
    <3>2. /\ ready'[t][v] + n1 + calls + faults <= ready[t][v] + n0 + calls' + faults'
          /\ attemptCount'[v][t] \in {attemptCount[v][t], 0}
      BY <1>1, <1>6, ApiAccounts
    <3>3. /\ N(v)' + n0 = N(v) + n1
          /\ N(v)' \in Nat /\ H(v, t)' = H(v, t) /\ U(v, t)' = U(v, t)
      BY <2>4
    <3> HIDE DEF n0, n1, H, U, N
    <3> QED  BY <1>3, <1>4, <3>1, <3>2, <3>3, PipelineAssumption
  <2> QED  BY <2>1, <2>5 DEF CopiesArePaidFor, AttemptsArePaidFor
<1> QED  BY <1>2, <1>5, <1>6 DEF Next

\* MaxAttempts bounds the attempts of a job up to what was paid for: one more
\* for each fault and for each API call after the first.
THEOREM AttemptsAreBounded == Spec => []OvershootIsPaidFor
<1>1. Inv /\ PaidFor => OvershootIsPaidFor
  <2> SUFFICES ASSUME Inv, PaidFor, NEW v \in rows, NEW t \in JobTypes
               PROVE  attemptCount[v][t] <= MaxAttempts + faults + (calls - 1)
    BY DEF OvershootIsPaidFor
  <2>1. /\ v \in Videos /\ attemptCount[v][t] \in Nat /\ ready[t][v] \in Nat
        /\ calls \in Nat /\ faults \in Nat
    BY DEF Inv, TypeOK, StoreTypeOK, BrokerTypeOK
  <2>2. IsFiniteSet(Undecided(v, t)) /\ IsFiniteSet(Announcers(v))
    <3>1. Undecided(v, t) \in SUBSET Workers /\ Announcers(v) \in SUBSET Requests
      BY DEF Undecided, Handling, Announcers
    <3> QED  BY <3>1, FS_Subset, ProcessesAssumption
  <2>3. Cardinality(Undecided(v, t)) \in Nat /\ Cardinality(Announcers(v)) \in Nat
    BY <2>2, FS_CardinalityType
  <2>4. attemptCount[v][t] >= MaxAttempts =>
            attemptCount[v][t] + ready[t][v] + Cardinality(Undecided(v, t))
                + Cardinality(Announcers(v)) < MaxAttempts + calls + faults
    BY <2>1 DEF PaidFor, AttemptsArePaidFor
  <2> QED  BY <2>1, <2>3, <2>4, PipelineAssumption
<1> QED  BY <1>1, InitInv, StepInv, InitPaidFor, StepPaidFor, PTL DEF Spec

=============================================================================
