---------------------------- MODULE JobPipeline ----------------------------
(***************************************************************************)
(* The processing pipeline end to end: the upload-service handlers that    *)
(* record a video, announce it, retry a job and delete a video; the broker;*)
(* the worker processes that run handleDelivery; Postgres; and the objects *)
(* in storage. Handlers run concurrently with each other and with workers, *)
(* one step per call to another component.                                 *)
(*                                                                         *)
(* Faults are drawn from one budget (MaxFaults): a database call that      *)
(* fails before or after it took effect, a publish that returns an error,  *)
(* a publish that reports success for a message no queue receives (the     *)
(* channel is not in confirm mode), a storage delete that leaves objects   *)
(* behind, a process crash, SIGTERM, a lost broker connection.             *)
(***************************************************************************)
EXTENDS VideoStore, Broker, FiniteSets

CONSTANTS
    Requests,        \* concurrent handler invocations of upload-service
    MaxAttempts,     \* runner.go: MaxAttempts (3 in the code)
    NumFiles,        \* files a job uploads; the last one is the entry point
    MaxFaults,       \* bound on the faults of a behaviour
    MaxCalls,        \* bound on the API calls of a behaviour
    LosesConnections, \* whether a worker may lose its broker connection
    LosesPublishes   \* whether a publish that reports success may be lost

ASSUME PipelineAssumption ==
    /\ MaxAttempts \in Nat \ {0}
    /\ NumFiles \in Nat \ {0}
    /\ MaxFaults \in Nat
    /\ MaxCalls \in Nat
    /\ LosesConnections \in BOOLEAN
    /\ LosesPublishes \in BOOLEAN

ASSUME ProcessesAssumption == IsFiniteSet(Workers) /\ IsFiniteSet(Requests)

VARIABLES
    (* worker processes *)
    pc,          \* where handleDelivery is; "exited": the process is gone
    event,       \* the event it is handling
    attempt,     \* the attempt number its claim returned
    uploaded,    \* files it has PUT so far in this run of process
    cancelled,   \* SIGTERM received: the context given to every call is done
    connected,   \* its broker connection is up
    (* object storage *)
    raw,         \* videos whose raw object exists
    artifacts,   \* artifacts[v][t]: the files present of job t's output
    (* upload-service handlers *)
    apiPc,       \* next call of the handler; "idle": no request in progress
    apiVideo,    \* its video
    apiType,     \* its job type (retry)
    swept,       \* prefixes it has swept (delete)
    (* history and bounds *)
    born,        \* ids whose multipart upload has been assembled
    deleted,     \* ids whose row a DELETE has removed
    unannounced, \* jobs whose latest announcement was not queued
    swallowed,   \* those of them whose publish reported success
    parked,      \* jobs dead-lettered since their last reset
    faults,      \* faults so far
    calls        \* API calls so far

workerVars == <<pc, event, attempt, uploaded, cancelled, connected>>
objectVars == <<raw, artifacts>>
apiVars == <<apiPc, apiVideo, apiType, swept>>
historyVars == <<born, deleted, unannounced, swallowed, parked>>
vars == <<storeVars, brokerVars, workerVars, objectVars, apiVars,
          historyVars, faults, calls>>

Files == 1 .. NumFiles

WorkerPc == {"idle", "claim", "download", "upload", "fail", "complete",
             "ack", "requeue", "reject", "exited"}

ApiPc == {"idle", "insert", "announce", "reset", "republish", "sweep"}

\* storagePrefixesForVideo, in its order: the raw object, then the output of
\* each job type.
Prefixes == <<"raw", "hls", "thumbnail", "caption">>

WorkerTypeOK ==
    /\ pc \in [Workers -> WorkerPc]
    /\ event \in [Workers -> Videos \cup {NoVideo}]
    /\ \A w \in Workers : pc[w] \notin {"idle", "exited"} => event[w] \in Videos
    /\ attempt \in [Workers -> Nat]
    /\ uploaded \in [Workers -> 0 .. NumFiles - 1]
    /\ \A w \in Workers : pc[w] # "upload" => uploaded[w] = 0
    /\ cancelled \in [Workers -> BOOLEAN]
    /\ connected \in [Workers -> BOOLEAN]

ObjectTypeOK ==
    /\ raw \subseteq Videos
    /\ artifacts \in [Videos -> [JobTypes -> SUBSET Files]]

ApiTypeOK ==
    /\ apiPc \in [Requests -> ApiPc]
    /\ apiVideo \in [Requests -> Videos \cup {NoVideo}]
    /\ \A r \in Requests : apiPc[r] # "idle" => apiVideo[r] \in Videos
    /\ apiType \in [Requests -> AllJobTypes]
    /\ \A r \in Requests :
          apiPc[r] \in {"reset", "republish"} => apiType[r] \in JobTypes
    /\ swept \in [Requests -> 0 .. 3]

HistoryTypeOK ==
    /\ born \subseteq Videos
    /\ deleted \subseteq Videos
    /\ unannounced \subseteq Videos \X JobTypes
    /\ swallowed \subseteq unannounced
    /\ parked \subseteq Videos \X JobTypes

TypeOK ==
    /\ StoreTypeOK
    /\ BrokerTypeOK
    /\ WorkerTypeOK
    /\ ObjectTypeOK
    /\ ApiTypeOK
    /\ HistoryTypeOK
    /\ faults \in Nat
    /\ calls \in Nat

Init ==
    /\ StoreInit
    /\ BrokerInit
    /\ pc = [w \in Workers |-> "idle"]
    /\ event = [w \in Workers |-> NoVideo]
    /\ attempt = [w \in Workers |-> 0]
    /\ uploaded = [w \in Workers |-> 0]
    /\ cancelled = [w \in Workers |-> FALSE]
    /\ connected = [w \in Workers |-> TRUE]
    /\ raw = {}
    /\ artifacts = [v \in Videos |-> [t \in JobTypes |-> {}]]
    /\ apiPc = [r \in Requests |-> "idle"]
    /\ apiVideo = [r \in Requests |-> NoVideo]
    /\ apiType = [r \in Requests |-> "hls"]
    /\ swept = [r \in Requests |-> 0]
    /\ born = {}
    /\ deleted = {}
    /\ unannounced = {}
    /\ swallowed = {}
    /\ parked = {}
    /\ faults = 0
    /\ calls = 0

-----------------------------------------------------------------------------
(***************************************************************************)
(* The workers: Run and handleDelivery.                                    *)
(***************************************************************************)

Goto(w, next) == pc' = [pc EXCEPT ![w] = next]

Fault == faults < MaxFaults /\ faults' = faults + 1

\* A call of worker w to Postgres returns an error without effect: its context
\* is done, or the call failed.
CallFails(w) == (cancelled[w] /\ UNCHANGED faults) \/ Fault

\* Mutant: local progress survives into the next run of process.
ProcessResumes(w, next) == Goto(w, next) /\ UNCHANGED uploaded

\* process returns; the next run of it starts from nothing.
ProcessReturns(w, next) ==
    /\ Goto(w, next)
    /\ uploaded' = [uploaded EXCEPT ![w] = 0]

\* handleDelivery returns.
Return(w, next) ==
    /\ Goto(w, next)
    /\ event' = [event EXCEPT ![w] = NoVideo]
    /\ attempt' = [attempt EXCEPT ![w] = 0]
    /\ uploaded' = [uploaded EXCEPT ![w] = 0]

\* The select in Run picks a delivery; it may do so with the context already
\* done, for select chooses among ready cases at random.
Receive(w, v) ==
    /\ pc[w] = "idle"
    /\ connected[w]
    /\ Deliver(w, v)
    /\ Goto(w, "claim")
    /\ event' = [event EXCEPT ![w] = v]
    /\ UNCHANGED <<storeVars, attempt, uploaded, cancelled, connected,
                   objectVars, apiVars, historyVars, faults, calls>>

\* ClaimJob claims the job, finds nothing to claim, or fails: without effect,
\* or after its UPDATE committed (the reply is lost).
ClaimWins(w) ==
    /\ pc[w] = "claim"
    /\ ~cancelled[w]
    /\ ClaimJob(event[w], WorkerType[w])
    /\ attempt' = [attempt EXCEPT ![w] = attemptCount[event[w]][WorkerType[w]] + 1]
    /\ Goto(w, "download")
    /\ UNCHANGED <<brokerVars, event, uploaded, cancelled, connected,
                   objectVars, apiVars, historyVars, faults, calls>>

ClaimSkips(w) ==
    /\ pc[w] = "claim"
    /\ ~cancelled[w]
    /\ ~Claimable(event[w], WorkerType[w])
    /\ Goto(w, "ack")
    /\ UNCHANGED <<storeVars, brokerVars, event, attempt, uploaded, cancelled,
                   connected, objectVars, apiVars, historyVars, faults, calls>>

ClaimErrs(w) ==
    /\ pc[w] = "claim"
    /\ \/ CallFails(w) /\ UNCHANGED storeVars
       \/ Fault /\ ClaimJob(event[w], WorkerType[w])
    /\ Goto(w, "requeue")
    /\ UNCHANGED <<brokerVars, event, attempt, uploaded, cancelled, connected,
                   objectVars, apiVars, historyVars, calls>>

\* process: download the raw object, produce the files (local work), PUT them
\* one by one in the order of filepath.Walk. A PUT whose reply is lost ends the
\* attempt like any other error, but the object is there.
Download(w) ==
    /\ pc[w] = "download"
    /\ ~cancelled[w]
    /\ event[w] \in raw
    /\ Goto(w, "upload")
    /\ UNCHANGED <<storeVars, brokerVars, event, attempt, uploaded, cancelled,
                   connected, objectVars, apiVars, historyVars, faults, calls>>

\* Mutant: the entry point is uploaded first.
UploadEntryFirst(w) ==
    /\ pc[w] = "upload"
    /\ ~cancelled[w]
    /\ artifacts' = [artifacts EXCEPT ![event[w]][WorkerType[w]] =
                         @ \cup {NumFiles - uploaded[w]}]
    /\ IF uploaded[w] + 1 = NumFiles
       THEN ProcessReturns(w, "complete")
       ELSE uploaded' = [uploaded EXCEPT ![w] = @ + 1] /\ UNCHANGED pc
    /\ UNCHANGED <<storeVars, brokerVars, event, attempt, cancelled, connected,
                   raw, apiVars, historyVars, faults, calls>>

UploadFile(w) ==
    /\ pc[w] = "upload"
    /\ ~cancelled[w]
    /\ artifacts' = [artifacts EXCEPT ![event[w]][WorkerType[w]] =
                         @ \cup {uploaded[w] + 1}]
    /\ \/ /\ uploaded[w] + 1 < NumFiles
          /\ uploaded' = [uploaded EXCEPT ![w] = @ + 1]
          /\ UNCHANGED pc
       \/ uploaded[w] + 1 = NumFiles /\ ProcessReturns(w, "complete")
       \/ ProcessReturns(w, "fail")
    /\ UNCHANGED <<storeVars, brokerVars, event, attempt, cancelled, connected,
                   raw, apiVars, historyVars, faults, calls>>

\* Mutant: process swallows its error.
ProcessHidesFailure(w) ==
    /\ pc[w] \in {"download", "upload"}
    /\ ProcessReturns(w, "complete")
    /\ UNCHANGED <<storeVars, brokerVars, event, attempt, cancelled, connected,
                   objectVars, apiVars, historyVars, faults, calls>>

\* process returns an error: a missing object, a storage call that failed, an
\* ffmpeg or whisper run that failed, a context that is done. Local work may
\* fail at any time, so this is no fault of the budget.
ProcessFails(w) ==
    /\ pc[w] \in {"download", "upload"}
    /\ ProcessReturns(w, "fail")
    /\ UNCHANGED <<storeVars, brokerVars, event, attempt, cancelled, connected,
                   objectVars, apiVars, historyVars, faults, calls>>

\* Mutant: one attempt too many before the dead-letter queue.
RecordFailureLate(w) ==
    /\ pc[w] = "fail"
    /\ \/ ~cancelled[w] /\ FailJob(event[w], WorkerType[w]) /\ UNCHANGED faults
       \/ CallFails(w) /\ UNCHANGED storeVars
    /\ Goto(w, IF attempt[w] <= MaxAttempts THEN "requeue" ELSE "reject")
    /\ UNCHANGED <<brokerVars, event, attempt, uploaded, cancelled, connected,
                   objectVars, apiVars, historyVars, calls>>

\* FailJob's error is only logged; the attempt number the claim returned
\* decides between another attempt and the dead-letter queue either way.
RecordFailure(w) ==
    /\ pc[w] = "fail"
    /\ \/ ~cancelled[w] /\ FailJob(event[w], WorkerType[w]) /\ UNCHANGED faults
       \/ CallFails(w) /\ UNCHANGED storeVars
    /\ Goto(w, IF attempt[w] < MaxAttempts THEN "requeue" ELSE "reject")
    /\ UNCHANGED <<brokerVars, event, attempt, uploaded, cancelled, connected,
                   objectVars, apiVars, historyVars, calls>>

RecordCompletion(w) ==
    /\ pc[w] = "complete"
    /\ ~cancelled[w]
    /\ CompleteJob(event[w], WorkerType[w])
    /\ Goto(w, "ack")
    /\ UNCHANGED <<brokerVars, event, attempt, uploaded, cancelled, connected,
                   objectVars, apiVars, historyVars, faults, calls>>

\* Mutant: the error of CompleteJob is only logged, like that of FailJob.
CompletionErrsAcks(w) ==
    /\ pc[w] = "complete"
    /\ \/ CallFails(w) /\ UNCHANGED storeVars
       \/ Fault /\ CompleteJob(event[w], WorkerType[w])
    /\ Goto(w, "ack")
    /\ UNCHANGED <<brokerVars, event, attempt, uploaded, cancelled, connected,
                   objectVars, apiVars, historyVars, calls>>

\* Mutant: an error of CompleteJob counts as a failed attempt.
CompletionErrsFails(w) ==
    /\ pc[w] = "complete"
    /\ \/ CallFails(w) /\ UNCHANGED storeVars
       \/ Fault /\ CompleteJob(event[w], WorkerType[w])
    /\ Goto(w, "fail")
    /\ UNCHANGED <<brokerVars, event, attempt, uploaded, cancelled, connected,
                   objectVars, apiVars, historyVars, calls>>

\* CompleteJob fails, or commits and the reply is lost: requeued either way,
\* whatever the attempt number.
CompletionErrs(w) ==
    /\ pc[w] = "complete"
    /\ \/ CallFails(w) /\ UNCHANGED storeVars
       \/ Fault /\ CompleteJob(event[w], WorkerType[w])
    /\ Goto(w, "requeue")
    /\ UNCHANGED <<brokerVars, event, attempt, uploaded, cancelled, connected,
                   objectVars, apiVars, historyVars, calls>>

AckDelivery(w) ==
    /\ pc[w] = "ack"
    /\ Ack(w)
    /\ Return(w, "idle")
    /\ UNCHANGED <<storeVars, cancelled, connected, objectVars, apiVars,
                   historyVars, faults, calls>>

RequeueDelivery(w) ==
    /\ pc[w] = "requeue"
    /\ Requeue(w)
    /\ Return(w, "idle")
    /\ UNCHANGED <<storeVars, cancelled, connected, objectVars, apiVars,
                   historyVars, faults, calls>>

RejectDelivery(w) ==
    /\ pc[w] = "reject"
    /\ DeadLetter(w)
    /\ parked' = IF unacked[w] = NoVideo
                 THEN parked ELSE parked \cup {<<unacked[w], WorkerType[w]>>}
    /\ Return(w, "idle")
    /\ UNCHANGED <<storeVars, cancelled, connected, objectVars, apiVars,
                   born, deleted, unannounced, swallowed, faults, calls>>

-----------------------------------------------------------------------------
(***************************************************************************)
(* The worker processes: stopped, killed, cut off, started again.          *)
(***************************************************************************)

\* Run returns nil when the context is done or the delivery channel is
\* closed; main then exits, and its connection with it.
ExitLoop(w) ==
    /\ pc[w] = "idle"
    /\ cancelled[w] \/ ~connected[w]
    /\ Goto(w, "exited")
    /\ cancelled' = [cancelled EXCEPT ![w] = FALSE]
    /\ connected' = [connected EXCEPT ![w] = FALSE]
    /\ UNCHANGED <<storeVars, brokerVars, event, attempt, uploaded,
                   objectVars, apiVars, historyVars, faults, calls>>

\* Whoever operates the system starts the worker again.
Restart(w) ==
    /\ pc[w] = "exited"
    /\ Goto(w, "idle")
    /\ connected' = [connected EXCEPT ![w] = TRUE]
    /\ UNCHANGED <<storeVars, brokerVars, event, attempt, uploaded, cancelled,
                   objectVars, apiVars, historyVars, faults, calls>>

\* SIGTERM: signal.NotifyContext cancels the context every call uses.
Terminate(w) ==
    /\ pc[w] # "exited"
    /\ ~cancelled[w]
    /\ Fault
    /\ cancelled' = [cancelled EXCEPT ![w] = TRUE]
    /\ UNCHANGED <<storeVars, brokerVars, pc, event, attempt, uploaded,
                   connected, objectVars, apiVars, historyVars, calls>>

\* SIGKILL or a machine failure: the broker requeues what was unacknowledged.
Crash(w) ==
    /\ pc[w] # "exited"
    /\ Fault
    /\ Requeue(w)
    /\ Return(w, "exited")
    /\ cancelled' = [cancelled EXCEPT ![w] = FALSE]
    /\ connected' = [connected EXCEPT ![w] = FALSE]
    /\ UNCHANGED <<storeVars, objectVars, apiVars, historyVars, calls>>

\* The broker connection drops. handleDelivery does not notice: it goes on
\* with a delivery the broker has already requeued.
ConnectionLost(w) ==
    /\ LosesConnections
    /\ pc[w] # "exited"
    /\ connected[w]
    /\ Fault
    /\ Requeue(w)
    /\ connected' = [connected EXCEPT ![w] = FALSE]
    /\ UNCHANGED <<storeVars, pc, event, attempt, uploaded, cancelled,
                   objectVars, apiVars, historyVars, calls>>

-----------------------------------------------------------------------------
(***************************************************************************)
(* The handlers of upload-service: handleComplete, handleRetryJob and      *)
(* handleDeleteVideo.                                                      *)
(***************************************************************************)

NewCall == calls < MaxCalls /\ calls' = calls + 1

\* The handler of request r goes on with call next, for video v.
Serve(r, next, v) ==
    /\ apiPc' = [apiPc EXCEPT ![r] = next]
    /\ apiVideo' = [apiVideo EXCEPT ![r] = v]

\* The handler of request r returns (with an error or not).
Respond(r) ==
    /\ apiPc' = [apiPc EXCEPT ![r] = "idle"]
    /\ apiVideo' = [apiVideo EXCEPT ![r] = NoVideo]
    /\ apiType' = [apiType EXCEPT ![r] = "hls"]
    /\ swept' = [swept EXCEPT ![r] = 0]

\* handleComplete up to CompleteMultipartUpload. Storage assembles an upload
\* once: a second call for it is refused, and that handler returns an error
\* before it touches anything modelled here.
AssembleUpload(r, v) ==
    /\ apiPc[r] = "idle"
    /\ NewCall
    /\ v \notin born
    /\ born' = born \cup {v}
    /\ raw' = raw \cup {v}
    /\ Serve(r, "insert", v)
    /\ UNCHANGED <<storeVars, brokerVars, workerVars, artifacts, apiType, swept,
                   deleted, unannounced, swallowed, parked, faults>>

InsertRow(r) ==
    /\ apiPc[r] = "insert"
    /\ InsertVideo(apiVideo[r])
    /\ Serve(r, "announce", apiVideo[r])
    /\ UNCHANGED <<brokerVars, workerVars, objectVars, apiType, swept,
                   historyVars, faults, calls>>

\* The jobs request r is to announce: every job of a new video, the one job of
\* a retry.
JobsOf(r) ==
    {apiVideo[r]} \X
        (IF apiPc[r] \in {"reset", "republish"} THEN {apiType[r]} ELSE JobTypes)

\* Request r ends without its announcement, in a way that shows: the handler
\* logs the error or answers 500, or the client gets no answer.
NotAnnounced(r) ==
    /\ unannounced' = unannounced \cup JobsOf(r)
    /\ swallowed' = swallowed \ JobsOf(r)

\* InsertVideo fails (before or after its commit); the handler gives up
\* without publishing.
InsertErrs(r) ==
    /\ apiPc[r] = "insert"
    /\ Fault
    /\ \/ InsertVideo(apiVideo[r]) /\ NotAnnounced(r)
       \/ UNCHANGED <<storeVars, unannounced, swallowed>>
    /\ Respond(r)
    /\ UNCHANGED <<brokerVars, workerVars, objectVars, born, deleted, parked,
                   calls>>

\* Publish, in handleComplete and in handleRetryJob.
Announcing(r) == apiPc[r] \in {"announce", "republish"}

\* One message reaches every queue, and so announces every job of the video.
PublishEvent(r) ==
    /\ Announcing(r)
    /\ Publish(apiVideo[r])
    /\ unannounced' = unannounced \ ({apiVideo[r]} \X JobTypes)
    /\ swallowed' = swallowed \ ({apiVideo[r]} \X JobTypes)
    /\ Respond(r)
    /\ UNCHANGED <<storeVars, workerVars, objectVars, born, deleted, parked,
                   faults, calls>>

\* Publish returns an error: handleComplete logs it and answers 200 all the
\* same, handleRetryJob answers 500.
PublishErrs(r) ==
    /\ Announcing(r)
    /\ Fault
    /\ NotAnnounced(r)
    /\ Respond(r)
    /\ UNCHANGED <<storeVars, brokerVars, workerVars, objectVars, born, deleted,
                   parked, calls>>

\* Publish returns nil for a message no queue receives: the connection broke
\* after the write, and the broker confirms nothing. The handler answers 200 or
\* 202, and nothing is logged.
PublishSwallowed(r) ==
    /\ LosesPublishes
    /\ Announcing(r)
    /\ Fault
    /\ unannounced' = unannounced \cup JobsOf(r)
    /\ swallowed' = swallowed \cup JobsOf(r)
    /\ Respond(r)
    /\ UNCHANGED <<storeVars, brokerVars, workerVars, objectVars, born, deleted,
                   parked, calls>>

\* handleRetryJob: GetVideo, then ResetJobForRetry, then Publish.
RetryJob(r, v, t) ==
    /\ apiPc[r] = "idle"
    /\ NewCall
    /\ v \in rows
    /\ Serve(r, "reset", v)
    /\ apiType' = [apiType EXCEPT ![r] = t]
    /\ UNCHANGED <<storeVars, brokerVars, workerVars, objectVars, swept,
                   historyVars, faults>>

ResetJob(r) ==
    /\ apiPc[r] = "reset"
    /\ ResetJobForRetry(apiVideo[r], apiType[r])
    /\ parked' = parked \ {<<apiVideo[r], apiType[r]>>}
    /\ Serve(r, "republish", apiVideo[r])
    /\ UNCHANGED <<brokerVars, workerVars, objectVars, apiType, swept, born,
                   deleted, unannounced, swallowed, faults, calls>>

ResetErrs(r) ==
    /\ apiPc[r] = "reset"
    /\ \/ /\ apiVideo[r] \notin rows
          /\ UNCHANGED <<storeVars, parked, unannounced, swallowed, faults>>
       \/ Fault /\ UNCHANGED <<storeVars, parked, unannounced, swallowed>>
       \/ /\ Fault
          /\ ResetJobForRetry(apiVideo[r], apiType[r])
          /\ parked' = parked \ {<<apiVideo[r], apiType[r]>>}
          /\ NotAnnounced(r)
    /\ Respond(r)
    /\ UNCHANGED <<brokerVars, workerVars, objectVars, born, deleted, calls>>

\* Mutant: the storage is swept although the row could not be deleted.
DeleteRowUnchecked(r, v) ==
    /\ apiPc[r] = "idle"
    /\ NewCall
    /\ v \in rows
    /\ Serve(r, "sweep", v)
    /\ \/ DeleteVideo(v) /\ deleted' = deleted \cup {v} /\ UNCHANGED faults
       \/ Fault /\ UNCHANGED <<storeVars, deleted>>
    /\ UNCHANGED <<brokerVars, workerVars, objectVars, apiType, swept, born,
                   unannounced, swallowed, parked>>

\* handleDeleteVideo: the row first, then the four prefixes. If the DELETE
\* commits but its reply is lost, nothing is swept.
DeleteRow(r, v) ==
    /\ apiPc[r] = "idle"
    /\ NewCall
    /\ DeleteVideo(v)
    /\ deleted' = deleted \cup {v}
    /\ \/ Serve(r, "sweep", v) /\ UNCHANGED <<apiType, swept, faults>>
       \/ Fault /\ UNCHANGED apiVars
    /\ UNCHANGED <<brokerVars, workerVars, objectVars, born, unannounced, swallowed,
                   parked>>

\* One DeleteObjectsByPrefix: every object of the prefix goes, or the call
\* fails having removed any of them; its error is logged and the sweep goes on.
Sweep(r) ==
    LET v == apiVideo[r]
        prefix == Prefixes[swept[r] + 1]
    IN  /\ apiPc[r] = "sweep"
        /\ \/ UNCHANGED faults /\ raw' = IF prefix = "raw" THEN raw \ {v} ELSE raw
           \/ Fault /\ UNCHANGED raw
        /\ \E left \in SUBSET Files :
              /\ left # {} => faults' # faults
              /\ artifacts' = [artifacts EXCEPT ![v] = [t \in JobTypes |->
                     IF t = prefix THEN @[t] \cap left ELSE @[t]]]
        /\ \/ swept[r] < 3 /\ swept' = [swept EXCEPT ![r] = @ + 1]
              /\ UNCHANGED <<apiPc, apiVideo, apiType>>
           \/ swept[r] = 3 /\ Respond(r)
        /\ UNCHANGED <<storeVars, brokerVars, workerVars, historyVars, calls>>

\* upload-service dies in the middle of a handler.
ApiCrash(r) ==
    /\ apiPc[r] # "idle"
    /\ Fault
    /\ IF Announcing(r) THEN NotAnnounced(r) ELSE UNCHANGED <<unannounced, swallowed>>
    /\ Respond(r)
    /\ UNCHANGED <<storeVars, brokerVars, workerVars, objectVars, born, deleted,
                   parked, calls>>

-----------------------------------------------------------------------------
\* A step of handleDelivery after the delivery was received.
HandleStep(w) ==
    \/ ClaimWins(w) \/ ClaimSkips(w) \/ ClaimErrs(w)
    \/ Download(w) \/ UploadFile(w) \/ ProcessFails(w)
    \/ RecordFailure(w) \/ RecordCompletion(w) \/ CompletionErrs(w)
    \/ AckDelivery(w) \/ RequeueDelivery(w) \/ RejectDelivery(w)

WorkerNext(w) ==
    \/ \E v \in Videos : Receive(w, v)
    \/ HandleStep(w)
    \/ ExitLoop(w) \/ Restart(w)
    \/ Terminate(w) \/ Crash(w) \/ ConnectionLost(w)

\* A step of a handler after its first.
ServeStep(r) ==
    \/ InsertRow(r) \/ InsertErrs(r)
    \/ PublishEvent(r) \/ PublishErrs(r) \/ PublishSwallowed(r)
    \/ ResetJob(r) \/ ResetErrs(r) \/ Sweep(r)

ApiNext(r) ==
    \/ \E v \in Videos : AssembleUpload(r, v) \/ DeleteRow(r, v)
    \/ \E v \in Videos, t \in JobTypes : RetryJob(r, v, t)
    \/ ServeStep(r)
    \/ ApiCrash(r)

Next ==
    \/ \E w \in Workers : WorkerNext(w)
    \/ \E r \in Requests : ApiNext(r)

Spec == Init /\ [][Next]_vars

\* Handlers and deliveries run to their end (the Go scheduler; every external
\* call returns). Every waiting message is delivered sooner or later (the
\* broker serves a queue in order), a stopping worker sooner or later picks
\* the Done case of its select, and somebody restarts a worker that exited.
Fairness ==
    /\ \A w \in Workers :
          /\ WF_vars(HandleStep(w))
          /\ \A v \in Videos : SF_vars(Receive(w, v))
          /\ SF_vars(ExitLoop(w))
          /\ WF_vars(Restart(w))
    /\ \A r \in Requests : WF_vars(ServeStep(r))

FairSpec == Spec /\ Fairness

-----------------------------------------------------------------------------
(***************************************************************************)
(* Properties                                                              *)
(***************************************************************************)

\* One worker process per queue, as docker-compose.yml deploys them.
OneWorkerPerType ==
    \A w1, w2 \in Workers : WorkerType[w1] = WorkerType[w2] => w1 = w2

Busy(w) == pc[w] \notin {"idle", "exited"}

\* A worker in the middle of a delivery holds it unacknowledged, or has lost
\* its connection and the broker has the message queued again; a worker that
\* is not in one holds nothing. Together with prefetch 1 this is what makes a
\* crash at any point safe.
DeliveryHeld ==
    \A w \in Workers :
        \/ Busy(w) /\ unacked[w] = event[w]
        \/ unacked[w] = NoVideo /\ ~Busy(w)
        \/ /\ unacked[w] = NoVideo
           /\ Busy(w)
           /\ LosesConnections
           /\ ready[WorkerType[w]][event[w]] > 0

\* Somebody will still act on job t of v: a message waits, a worker holds one
\* it has not decided to acknowledge, or a handler is about to announce it.
Carried(v, t) ==
    \/ ready[t][v] > 0
    \/ \E w \in Workers : WorkerType[w] = t /\ unacked[w] = v /\ pc[w] # "ack"
    \/ \E r \in Requests : Announcing(r) /\ <<v, t>> \in JobsOf(r)

\* An operator can see that nobody will: this very job was dead-lettered, or its
\* latest announcement failed with a log line, an error response or no response.
GivenUp(v, t) == <<v, t>> \in parked \/ <<v, t>> \in unannounced \ swallowed

Accounted(v, t) == jobStatus[v][t] = "completed" \/ Carried(v, t) \/ GivenUp(v, t)

\* "Never a silently lost job": at every instant, whatever crashed and
\* whichever call failed, each job of a recorded video is completed, or still
\* carried by the queue, a worker or a handler, or visibly given up. It holds
\* with one worker per queue where a publish that reports success is queued.
NoSilentLoss == \A v \in rows, t \in JobTypes : Accounted(v, t)

\* Where such a publish may be lost, that is the one way to lose a job without
\* a trace: the jobs lost are those that publish announced, since their latest
\* announcement. A swallowed retry loses its own job and no other of the video,
\* and the next message that does arrive brings back all of them.
OnlyPublishesLose ==
    \A v \in rows, t \in JobTypes : Accounted(v, t) \/ <<v, t>> \in swallowed

\* A worker between its claim and its verdict never works on a job that is
\* already completed, so nothing it records undoes or repeats a completion.
NoWorkOnCompleted ==
    \A w \in Workers :
        pc[w] \in {"download", "upload", "fail", "complete"} =>
            jobStatus[event[w]][WorkerType[w]] # "completed"

\* A completed job changes status only by a manual retry (to pending): no late
\* failure, no second claim takes a completion back.
CompletedStays ==
    [][\A v \in rows, t \in JobTypes :
          jobStatus[v][t] = "completed" /\ v \in rows' =>
              jobStatus'[v][t] \in {"completed", "pending"}]_vars

\* The output of job t of v that the client can play or show is complete.
Whole(v, t) == artifacts[v][t] = Files

\* A job the API reports as completed has all of its files in storage, however
\* many attempts, zombies and sweeps of other videos were involved.
CompletedIsWhole ==
    \A v \in rows, t \in JobTypes : jobStatus[v][t] = "completed" => Whole(v, t)

\* The HLS entry point is the last file of the walk, so a client that can load
\* it can load everything it refers to, also while an attempt is under way or
\* after one failed half-way (unless the video is being deleted).
EntryPointIsLast ==
    \A v \in Videos \ deleted, t \in JobTypes :
        NumFiles \in artifacts[v][t] => Whole(v, t)

\* "MaxAttempts bounds retries before a job is dead-lettered" (runner.go) only
\* as far as attempts end in an error of process. Each attempt beyond the bound
\* is paid for: by a fault (a kill, a failed completion) or by an API call after
\* the upload, whose event revives the job.
OvershootIsPaidFor ==
    \A v \in rows, t \in JobTypes :
        attemptCount[v][t] <= MaxAttempts + faults + (calls - 1)

\* Once faults and API calls stop, every job of a recorded video ends up
\* completed or visibly given up, or was lost by a publish that reported
\* success: no message circulates for ever and no worker waits for ever.
JobsSettle ==
    \A v \in Videos, t \in JobTypes :
        []<>(v \in rows => \/ jobStatus[v][t] = "completed"
                           \/ GivenUp(v, t)
                           \/ <<v, t>> \in swallowed)

\* What the API shows of a job, and the outputs that can be loaded in full.
ShownStatus(v, t) ==
    IF v \in deleted THEN "removed"
    ELSE IF v \in rows THEN column[v][t] ELSE "absent"

Contract ==
    INSTANCE JobContract
    WITH shown <- [v \in Videos |-> [t \in JobTypes |-> ShownStatus(v, t)]],
         whole <- {j \in Videos \X JobTypes : Whole(j[1], j[2])},
         CompletionsAreFinal <- OneWorkerPerType

\* Behind the API the pipeline keeps its contract, through crashes, redelivered
\* and duplicated events, retries and deletes in the middle of an attempt: a
\* job reads as completed only with its output whole, stays so until a retry
\* if each queue has one worker, and a removed video never comes back.
KeepsContract == Contract!ContractSpec

-----------------------------------------------------------------------------
(***************************************************************************)
(* What comments and documents say, and the code does not do.              *)
(***************************************************************************)

\* runner.go: a failure is committed before the delivery is settled. So a job
\* that was dead-lettered and that nobody carries any more reads as failed.
ParkedIsRecorded ==
    \A v \in rows, t \in JobTypes :
        <<v, t>> \in parked /\ ~Carried(v, t) /\ <<v, t>> \notin unannounced =>
            jobStatus[v][t] \in {"failed", "completed"}

\* README: DELETE removes the row and every object of the video. Once no
\* request is being served, nothing of a deleted video is left.
DeletedIsGone ==
    (\A r \in Requests : apiPc[r] = "idle") =>
        \A v \in deleted : v \notin raw /\ \A t \in JobTypes : artifacts[v][t] = {}

=============================================================================
