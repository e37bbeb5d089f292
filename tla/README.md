# Verification of the VOD pipeline

TLA+ models of the video-on-demand platform in this repository, TLC
configurations that check them on small instances, and TLAPS proofs that hold
for every instance. The source is the reference: every definition that models
code is listed in `PROJECT.json` under `map` with the lines it translates.

How to run (in this directory):

    tlasany JobPipeline.tla                              # parse
    tlc -workers 2 -config MCDeployed.cfg MCJobPipeline  # check an instance
    tlapm PipelineSafetyProofs.tla                       # check the proofs

## 1. The system

A client asks **upload-service** for an upload, PUTs the parts of a file
straight to **object storage** with presigned URLs, and asks upload-service to
complete it. Completing assembles the object, inserts the video and its three
jobs into **Postgres** and publishes one event to a fanout exchange of
**RabbitMQ**. Three **workers** (ffmpeg/HLS, thumbnails, captions) each receive a
copy from a queue of their own, claim the job in Postgres, download the raw
object, produce files, upload them, record the outcome and settle the delivery.
**Redis** keeps upload sessions and a rate-limit counter. The **web client**
uploads, resumes, and polls the three status columns.

| Component | State it keeps | Operations | Talks to | Hard behaviour | What makes it correct |
|---|---|---|---|---|---|
| `internal/models` | – | status and job-type vocabulary | – | – | one vocabulary for both tables and the API |
| video store, `internal/db`, `migrations` | `videos`, `encoding_jobs` | InsertVideo, ClaimJob, CompleteJob, FailJob, ResetJobForRetry, DeleteVideo, reads | called by handlers and workers | callers of every kind in any order, two tables that must agree, no claimant recorded in a way anybody checks | the columns never contradict the jobs |
| broker, `internal/queue` | three queues, a DLQ, outstanding deliveries | Publish, Consume, Ack, Nack | handlers publish, workers consume | redelivery, duplicates, lost connections, unconfirmed publishes | a busy worker holds its delivery or it is queued again |
| worker runner, `internal/worker` | the delivery and attempt in hand | Run, handleDelivery, DownloadToTempFile, UploadDir | broker, store, storage | crash at any point, SIGTERM, calls that fail before or after they took effect | only an unconfirmed publish loses a job silently; a completion is final and whole; every other job settles |
| jobs, `cmd/*-worker` | temporary files | process: produce and upload | storage, ffmpeg, whisper | parallel encodes, commands that fail or hang, SIGTERM half-way | only finished files are uploaded, the entry point last; no encoder outlives the attempt, and no file but the output of a failed caption command |
| video handlers, `cmd/upload-service` | the request in progress | complete, retry, delete, reads | store, broker, storage | several calls per request, each of which can fail; deletes and retries racing workers | no half-done request loses a job |
| upload handlers, sessions | session with TTL, presigned parts | create, presign, status, complete | Redis, storage, store, broker | racing completes, parts PUT during a complete, expiry | the object is what was uploaded; announced once |
| rate limiter, `internal/ratelimit` | counter and expiry per client | Allow | Redis | two or three commands per request, nothing atomic across them; open when Redis fails | at most the limit per window, but for requests Redis did not answer; the window ends, unless its EXPIRE is lost |
| object storage, `internal/storage` | objects, multipart uploads | multipart, get, put, delete by prefix | – | paging, partial deletes | see the users of it |
| web client, `web/index.html` | localStorage, poll timer | upload, resume, poll | API, storage | stale polls, resume after expiry, lost answers | a video is one file; who keeps trying gets done; a completion is noticed |
| auth/CORS/metrics middleware, config, logging, deployment | – | – | – | – | not modelled: no protocol state |

`PROJECT.json` lists each of these with its status under `components`, and under
`hazards` the places where the code is hard to test, with the property that would
catch each one.

## 2. The modules

    VodTypes ── VideoStore ──┬── RowLocks ── MCRowLocks
        │            ├───────┼── VideoStoreProofs
        ├────── Broker ──────┴── JobPipeline ── MCJobPipeline
        │       JobContract ──────────┤  (INSTANCE: what the pipeline implements)
        │            └────── StatusPoller ── MCStatusPoller
        └── JobProcess  (implements AttemptContract)
    UploadService ──┬── UploadPage
    PartPlan ───────┘
    RateLimiter

The proofs about a component are in a module of their own:

| Proof module | About |
|---|---|
| VideoStoreProofs | VideoStore |
| RowLocksProofs (extends VideoStoreProofs) | RowLocks, and that it implements VideoStore |
| JobPipelineProofs (extends VideoStoreProofs), PipelineSafetyProofs (extends JobPipelineProofs) | JobPipeline, and that it implements JobContract |
| JobProcessProofs | JobProcess, and that it implements AttemptContract |
| StatusPollerProofs | JobContract and StatusPoller |
| UploadProofs | UploadService, UploadPage, PartPlan |
| RateLimiterProofs | RateLimiter |

Two contracts join the modules. **JobContract** is what the pipeline promises to whoever
polls the API and loads files: JobPipeline implements it, and StatusPoller is checked
against it alone. **AttemptContract** is what a process function promises to handleDelivery:
JobProcess implements it, and the actions Download, UploadFile and ProcessFails of JobPipeline
assume no more. **VideoStore** plays the same part between JobPipeline, which takes its
operations as single steps, and RowLocks, which implements them with row locks.

**VodTypes** – ids, job types, statuses (`internal/models/models.go`).

**VideoStore** – the two tables. `rows` is the set of ids present; `column` is
`videos.*_status`; `jobStatus` and `attemptCount` are columns of
`encoding_jobs`. One action per writing operation of `postgres.go`, each one
transaction. That an operation may be taken as one step is what RowLocks
shows. `RecordStatus` is what CompleteJob and FailJob share: it looks at
neither the status nor the claimant, and does nothing, without an error, when the row is
gone. `worker_id`, timestamps and `last_error` are written and never read.

**RowLocks** – the same operations statement by statement. A session (`op`, `target`,
`type`) locks the rows its statements name in their order (`todo`, `lock`), waits where another
one holds a row, and writes VideoStore's variables when it commits; any call may be
abandoned at any point, which rolls it back. Postgres is external: exclusive row locks held to the end of the
transaction, read-committed statements, a detector that aborts one call of a cycle. The rows of the
cascade are locked in any order. `PROPERTY StoreSpec` is the refinement, with the identity as its mapping.

**Broker** – ready messages per queue and video as counts (a bag: with requeues and
several consumers there is no order to rely on), the outstanding delivery of each
worker (prefetch 1), and the dead-letter queue. Durable queues and persistent messages:
a broker restart is, to this model, a lost connection of its workers.

**JobPipeline** – both of the above, composed with the worker processes
(`pc`, `event`, `attempt`, `uploaded`, `cancelled`, `connected`), the objects (`raw`,
`artifacts`) and concurrent handler invocations (`apiPc`, ...). One action per call
to another component and per outcome of it:

| `pc[w]` | code in `runner.go` | actions |
|---|---|---|
| `idle` | the select of Run | Receive, ExitLoop |
| `claim` | ClaimJob | ClaimWins, ClaimSkips, ClaimErrs |
| `download`, `upload` | process | Download, UploadFile, ProcessFails |
| `fail` | FailJob | RecordFailure |
| `complete` | CompleteJob | RecordCompletion, CompletionErrs |
| `ack`, `requeue`, `reject` | Ack, Nack(true), Nack(false) | AckDelivery, RequeueDelivery, RejectDelivery |
| `exited` | the process is gone | Restart |

A database call fails without effect or takes effect and loses its reply; both are
separate outcomes. A cancelled context (SIGTERM) makes every later call fail without
effect. `Terminate`, `Crash` and `ConnectionLost` may strike at every `pc`. After
`ConnectionLost` the handler goes on, because nothing in it notices. Of the handlers,
`AssembleUpload`/`InsertRow`/`PublishEvent` are handleComplete,
`RetryJob`/`ResetJob`/`PublishEvent` handleRetryJob, `DeleteRow`/`Sweep` (once per prefix)
handleDeleteVideo. `Sweep` removes the objects present at one instant; since the listing
and the deletion are two calls, this is the most a sweep can do, and every object that
appears later survives it, in the model as in the code.

**JobContract** – `shown`, the status each job of a video shows (`pending`, `failed`, `completed`, or the
video is absent or removed), and `whole`, the outputs that are in storage in full. Its rules: all
jobs of a video appear at once, a job completes only over a whole output, a removed video stays removed, only removed
videos lose files, and where `CompletionsAreFinal` only a retry takes a completion back (otherwise a late failure may, too).
JobPipeline maps `shown` to the columns, the rows and `deleted`, `whole` to the file sets, and `CompletionsAreFinal` to
`OneWorkerPerType` (`ShownStatus`, `Contract`); the property is `KeepsContract`. StatusPoller is checked with
`CompletionsAreFinal = FALSE`, which allows every behaviour the other value does.

`born`, `deleted`, `unannounced`, `swallowed` and `parked` are history: ids assembled, rows deleted,
jobs whose latest announcement did not reach the queue, those of them whose publish reported success, jobs dead-lettered since
their last reset. No guard but that of AssembleUpload (a fresh id) reads them. A lost announcement is one of two things. `PublishErrs`: Publish returns
an error, which handleComplete logs and handleRetryJob answers with 500. `PublishSwallowed`: Publish returns nil although no queue receives the message, since
nothing is confirmed; the handler answers 200 or 202 and nothing is logged. Only the first counts as visible (`GivenUp`). The second is possible where
`LosesPublishes` says so. Both concern the jobs the request announces (`JobsOf`): a retry, its own job only.

**AttemptContract**, **JobProcess** – the three process functions (`kind` tells which), call by call:
`pc` is the next call, `disk` and `deferred` the temporary paths that exist and those whose removal is deferred, `encoder` the
goroutines of GenerateHLS, `made` how far each file of the output is, `sent` what has been PUT. A call may
fail or hang; a cancelled context interrupts it. The files are numbered in the order of filepath.Walk, in which the
rendition directories come before `master.m3u8`; a rendition's playlist and segments count as one file.

**UploadService** – handleCreateUpload, handlePresignPart and handleComplete call by
call, the session in Redis, the multipart upload in storage, and a client that PUTs any
content to any presigned part at any time. ListParts is read page by page, with the client's PUTs in between.
`listed[r]` is the part list (with ETags) a handler has so far, and holds until CompleteMultipartUpload. Storage is external: it is assumed to
refuse a second assembly, and a part whose ETag is not the stored one, as S3 and MinIO do.

**PartPlan** – the number of parts, with int64 and int32 arithmetic that wraps around at widths that are
parameters, and the slices the page cuts.

**UploadPage** – doUpload of the page as a client of UploadService: every request is an action of
UploadService conjoined with what the page does when it sends it or hears the answer. `pending` is localStorage,
`call` the handler whose answer is awaited. The page may give up on a request at any time (closed, reloaded, a fetch
that rejects); the handler then goes on alone (`HandlerWorks`), beside those of the page's next attempt. One tab.

**StatusPoller** – pollVideoStatus against JobContract. `timer[p]` and `flight[p]` belong to the p-th call, `pollHandle` is
the variable all calls share. A tick is cut at its await: fetch, answer, and the rest in one go. An
answer is what the API showed when it was served, and may arrive after a later one: `flight[p][f]` counts the fetches
under way that have not reached the server (`asked`) or whose answer is `f`, since nothing else tells them apart.

**RateLimiter** – one client's key in Redis and its concurrent requests. The clock ticks
in whole units; a key disappears when its TTL reaches zero. Any of the three commands may fail, INCR and EXPIRE with or without having been done; Allow then
returns an error and the middleware serves the request, over the limit too (`IncrErrs`, `ExpireErrs`, `TtlErrs`), unless the service stops. An INCR that was done
and is sent again by the Redis client counts twice. `served` and `recent` are history of what the middleware lets through; `recent[i]` counts
since the clock last ticked `i` times, so that `recent[Window - 1]` is the latest stretch of a window's length. `failedOpen` and `recentOpen` count those
among them that were let through because INCR or TTL failed. A failed EXPIRE needs no such allowance: its request is the first of the window and within the limit.
`expireLost` says that the key in place will never be given an expiry.

**MCJobPipeline** – the topologies: `Deployed` (one worker per queue, as
`docker-compose.yml` has it), `ScaledOut` (two on one queue), `Single`.

**MCRowLocks**, **MCStatusPoller** – who is behind each session; which call follows which video.

Definitions that a comment calls a *mutant* are plausible bugs of the definition
they precede. No specification uses them; replacing the definition by its mutant makes
the property that `PROJECT.json` names fail.

## 3. The runs

| Run | Instance | Bounds | Shows |
|---|---|---|---|
| `store` | RowLocks: a worker, two handlers | 1 video, 2 job types, 2 claims | the calls implement VideoStore (`StoreSpec`); `DeadlockIsWithDelete`; `EveryCallReturns`; `ColumnAgrees` |
| `deployed` | Deployed | 1 video, 2 types, 2 handlers, 2 faults, 2 calls, 2 attempts, 1 file, connections and publishes that report success may be lost | `DeliveryHeld`, `OnlyPublishesLose`, `NoWorkOnCompleted`, `CompletedStays`, `OvershootIsPaidFor` |
| `liveness` | Single | 2 videos, 2 handlers, 2 faults, 2 calls, 2 attempts, 2 files, connections and publishes that report success may be lost | `JobsSettle`; `TypeOK`, `CompletedIsWhole`, `EntryPointIsLast`; the pipeline implements JobContract (`KeepsContract`) |
| `upload` | 1 upload, 2 parts, 2 contents | 3 handlers, a part per page, 2 faults | assembled complete, with the bytes acknowledged, announced at most once, and once unless a call fails |
| `resume` | 2 files of 2 parts, 3 upload ids | 2 handlers, 1 fault, any session may expire; for `LoopCoversTheFile` all sizes with that count, up to an 8-bit int64, 4-bit int32 | `RecordedIsOneFile`, `OneVideoPerFile`, `UploadFinishes`, `LoopCoversTheFile` |
| `client` | 2 videos, a call for each | 2 and 1 fetches in flight, 1 fault | `LoadsOnlyWhole`, `NoticesCompletion`, `PollingEnds` |
| `process` | 3 renditions, 3 thumbnails (the code's numbers) | attempts without bound | `SentIsFinal`, `NoStrayEncoder`, `OnlyFailuresLeaveFiles`, `CancelEndsAttempt`; implements AttemptContract |
| `limiter` | limit 2, window 3 | 3 concurrent requests, 8 in all, 2 faults | `AtMostLimitPerWindow`, `BurstBounded` (both but for requests let through on a failed INCR or TTL), `ResetsUnlessExpireLost` |

Why the bounds are enough. Two attempts are the least for which "another attempt" and
"dead-letter" differ; two files the least for which an output can be incomplete (`deployed`, whose properties are not about files, has one); two calls
are the upload itself and the retry or the delete that races its workers. Two faults give a fault in the recovery from a fault
(a crash after a failed CompleteJob, SIGTERM while a redelivery is handled). Jobs of different videos share only a queue
and a worker: `deployed` uses one video with two job types, and `liveness`, where sharing matters, two videos. In `store` every pair of operations that share a row meets,
a second handler included; rows of different videos never wait for each other. Uploads
share nothing, so one is enough; three handlers are one more than a race needs. Eight
requests are four windows' worth of the limit. The fault budget is one number for all kinds
of fault, so every combination of kinds occurs. `MaxClaims` bounds `attemptCount` when the store runs alone.
In `resume` three ids are one more than two files need, so that an upload can be abandoned and begun afresh, and one fault
is any call, answer or page lost at any point (expiries come on top). The reduced widths keep the order of the real ones: the count gives way long
before the sum does, and counts wrap around several times (43 parts against 7). Two parts is the count of sizes 4 to 6, and of 52 to 54 and 100 to 102 after wrapping. In `client` two calls are the least that can disturb each other;
the older one has two ticks in flight, so that answers overtake each other.
What the proofs cover (section 5) needs no bounds.

`CHECK_DEADLOCK FALSE` where used: an instance whose calls and faults are used up, or
whose upload is finished, has nothing left to do.

### Where the code does otherwise than it says

Four runs are expected to end in a violation; each checks one statement of a comment or of
the README (quoted under `findings`), and its counterexample shows what the code does.

| Run | Statement | What happens |
|---|---|---|
| `parked` | failure is committed before the delivery is settled | SIGTERM in the last attempt: FailJob fails, the message is dead-lettered, the job reads as processing |
| `delete_race` | DELETE removes every object | a worker that is uploading goes on |
| `zombie` | never a silently lost job | a worker without its connection overwrites a completion after the message is gone |
| `limiter_stuck` | the counter resets automatically | a request abandoned between INCR and EXPIRE |

Other disagreements show in the models without a run of their own.

- A publish that returns nil for a message no queue received loses its jobs without a trace: `queue/rabbitmq.go:103` asks for no confirmation, handleComplete answers
  200 and handleRetryJob 202, nothing is logged, and the jobs stay pending until somebody retries them. `NoSilentLoss` is therefore false in `deployed` and `liveness`, which
  check that this is the only way to lose a job (`OnlyPublishesLose`) and the only exception to settling (`JobsSettle`).
- The middleware serves requests over the limit whenever TTL fails (`ratelimit.go:48-51`, `handlers.go:107-112`): a client over its limit is let through by an error of the
  very command that would only have told it how long to wait. `handlers.go:97-98` accepts this; the properties count such requests.
- A failed caption command leaves its output in the temporary directory: the `.wav` of ExtractAudio, whose removal is deferred only after it succeeded, and the
  `.vtt` of whisper.cpp. `OnlyFailuresLeaveFiles` confines what is left to these two.
- `runner.go:15-17` says that MaxAttempts bounds the retries. The bound is looked at only after a failed process; kills and
  failed completions escape it, and so does a retry of another job of the video, whose event lets a dead-lettered job be
  claimed again (`handlers.go:513-517` says it would be skipped as completed). `OvershootIsPaidFor` states what does hold: every attempt beyond
  the bound is paid for by a fault or by an API call.
- pollVideoStatus of a second video while a tick of the first is in flight: the late tick finds the first video completed or
  failed and clears `pollHandle`, which names the second call's timer by then, so the second video is never followed to its end. This is the
  exemption `Silenced` of `NoticesCompletion`; without it the run fails. Two first ticks in flight at once set two
  timers, of which the page can name only one: the other runs for ever. `PollingEnds` is stated for a page that follows one video.
- A page opened on a completed video loads the player twice: the first tick clears a timer that is not set yet, the await
  returns, the timer is set, and the next tick loads the player again (`index.html:204-212`). `PollingEnds` says that it stops there.
- A size beyond `Plannable` gets a wrong count without an error, and some of those counts are small and positive: the page then completes an upload that holds the beginning of the file only (`LoopCoversTheFile`).
  With the code's widths that is above 2^31 - 1 parts of `defaultPartSize`, far beyond what storage accepts, so storage limits bite first.
- With two workers on one queue and two copies of an event
(a retry while an attempt runs), no fault is needed for a late failure to take a completion back: `CompletedStays` fails on `ScaledOut`.
- A claim changes the job row and not the column, so a column never reads 'processing' (`ColumnAgrees` says what it may
  read instead).
- When the service stops between CompleteMultipartUpload and InsertVideo (`HandlerStops` after `Assemble`), the
upload has neither multipart state nor a row, and a second complete fails at ListParts: a session is then not "recreatable" (`session.go:8-11`).

## 4. Fairness

`JobPipeline!FairSpec`. Weak fairness of `HandleStep(w)` and `ServeStep(r)`: the Go scheduler runs
every goroutine and every external call returns, if only with an error. Strong fairness of
`Receive(w, v)` for each message: RabbitMQ serves a queue in order, and a requeued message
goes back towards its old position, so each of a finite number of messages is delivered again
and again as long as the worker keeps coming back for one. Strong fairness of `ExitLoop`: select chooses at random among ready
cases, so a stopping worker that keeps receiving deliveries still picks Done some time. Weak fairness of
`Restart`: no restart policy is configured, so this is an assumption on whoever operates the system; without it
`JobsSettle` is false, since a worker whose channel closed simply exits. Faults and client calls have no fairness, and
both are finite. `ProcessFails` is part of `HandleStep` and is not excluded: jobs settle even if every attempt fails.

`RowFairSpec`: strong fairness of each session's next step, since Postgres serves the waiters of a lock in turn, so a call
is not passed over for ever; the deadlock detector runs. A caller may always abandon its call, and need not.

`ProcessFairSpec`: the code's own steps between two calls are taken, and what a cancelled context interrupts ends
(exec.CommandContext kills the command). Nothing is assumed of a command or a storage call that nobody interrupts: it may
hang for ever, since none has a timeout but the Whisper API. That is less than JobPipeline assumes with `HandleStep`: `JobsSettle` is about commands that end.

`PollerFairSpec`: timers fire, the API answers each fetch, the page handles what has arrived. Nothing is assumed of the pipeline.

`PageUploadFairSpec`: requests are served, the page runs on, and somebody who wants a file uploaded clicks again (strong fairness of `Click`:
an assumption on the user). Faults and expiries need not happen.

`UploadFairSpec`: handlers make progress; nothing is assumed of the client or of the session's expiry.
`LimiterFairSpec`: time passes, and a request inside Allow sends its next command.

## 5. What is proved

For every value of the constants that satisfies the assumptions of the modules. These are what the code
or its deployment gives: `JobTypesAssumption`, `NoVideoAssumption`, `WorkerTypeAssumption` and `PollerAssumption` say what the
constants are; `PipelineAssumption`, `LimiterAssumption`, `UploadAssumption`, `ProcessAssumption` that counts and limits are positive or natural numbers, and
that there is an upload; `PipelineAssumption` also that `LosesConnections` and `LosesPublishes` are flags, `FinalityAssumption` that another one is; `PageAssumption` that the service's part count is the one PartPlan computes from the size of a file; `ProcessesAssumption` and
`SessionAssumption` that processes, requests and database sessions are finitely many (and, for
RowLocks, that there is a video and a job type); `PlanAssumption` that an int32 full of parts, and one more, fits an int64.

| Theorem | States | Assumes of the topology |
|---|---|---|
| `StoreTypeCorrect`, `ColumnsAgree` | StoreSpec => []StoreTypeOK, []ColumnAgrees | – |
| `LocksAreOfCallsInProgress`, `DeadlocksAreWithDelete`, `ColumnsAgreeUnderLocks`, `StoreTypesUnderLocks` | RowSpec => []LockTypeOK, []DeadlockIsWithDelete, []ColumnAgrees, []StoreTypeOK | – |
| `RowsImplementStore` | RowSpec => StoreSpec | – |
| `TypeCorrect`, `AttemptsAreBounded` | Spec => []TypeOK, []OvershootIsPaidFor | – |
| `Held`, `OnlyPublishesLoseJobs` | Spec => []DeliveryHeld, []OnlyPublishesLose | one worker per queue, or no lost connections (`SafeTopology`) |
| `NoLoss` | Spec => []NoSilentLoss | `SafeTopology`, and a publish that reports success is queued (`~LosesPublishes`) |
| `NoWorkDone`, `CompletionIsFinal` | Spec => []NoWorkOnCompleted, CompletedStays | one worker per queue |
| `CompletedJobsAreWhole`, `EntryPointsAreLast` | Spec => []CompletedIsWhole, []EntryPointIsLast | – |
| `NoJobIsParkedEarly` | Spec => []ParkedHadItsAttempts | one worker per queue |
| `LeftRawObjectsArePaidFor` | Spec => []LeftRawIsPaidFor | – |
| `PipelineKeepsContract` | Spec => KeepsContract (JobPipeline implements JobContract) | – (it decides `CompletionsAreFinal`) |
| `ProcessTypeCorrect`, `OnlyFinalFilesAreSent`, `NoEncoderOutlivesItsAttempt`, `LeftFilesAreOfFailures` | ProcessSpec => []ProcessTypeOK, []SentIsFinal, []NoStrayEncoder, []OnlyFailuresLeaveFiles | – |
| `ProcessImplementsAttempt` | ProcessSpec => KeepsAttemptContract (JobProcess implements AttemptContract) | – |
| `ContractShowsWhole` | ContractSpec => []ShownIsWhole | – |
| `PageTypeCorrect`, `PlayersLoadWholeOutputs`, `CallsStayFollowed` | PollerSpec => []PageTypeOK, []LoadsOnlyWhole, []StillFollowed | – |
| `UploadTypeCorrect`, `AssembledUploadsAreComplete`, `ObjectsAreWhatWasUploaded`, `UploadsAreAnnouncedOnce`, `CompletersAreAlone`, `StrandedUploadsArePaidFor` | UploadSpec => []UploadTypeOK, []AssembledIsComplete, []ObjectIsWhatWasUploaded, []AnnouncedOnce, []OneCompleter, []StrandedArePaidFor | – |
| `RecordedVideosAreOneFile`, `VideosArePaidFor` | PageUploadSpec => []RecordedIsOneFile, []OneVideoPerFile | – |
| `LoopsCoverFiles` | PageUploadSpec => []LoopCoversTheFile | – |
| `SlicesMakeUpTheFile` | PlansAreRight (a fact about the constants: no specification is involved) | – |
| `LimiterTypeCorrect`, `LimitHolds`, `BurstsAreBounded`, `ResetIsNeverForgotten` | LimiterSpec => []LimiterTypeOK, []AtMostLimitPerWindow, []BurstBounded, []ResetIsComing | – |

The topology assumptions are needed: run `zombie`, in which every publish that reports success is queued, is the counterexample to `NoSilentLoss`
without them, and its trace takes a completion back as well, which JobContract allows only with `CompletionsAreFinal` false.
`ParkedHadItsAttempts` fails on that instance too, with one fault and two calls: the cut-off worker's attempt number outlives a
reset, and after the second worker has completed the job, the late failure dead-letters it at its first claim.

The chain of contracts is closed by proofs: RowLocks implements VideoStore, whose operations JobPipeline takes as steps;
JobProcess implements AttemptContract, which is what JobPipeline takes an attempt to be; JobPipeline implements JobContract,
of which StatusPoller is a client.

*The store.* `StoreInv == StoreTypeOK /\ ColumnAgrees` is inductive, operation by operation.
`PipelineUsesStore` shows that every step of the pipeline is a store call or leaves the store
alone, so the pipeline inherits it; `Inv == StoreInv /\ TypeOK` is the base of everything else.

*Row locks.* `LockTypeOK` says too little of a call half-way. `RowInv` adds where in its plan each call is (`FollowsPlan`), that the rows behind
it are locked unless the video is gone (`LocksWhatIsBehind`), that a two-table update only knows ids that were once inserted
(`KnowsItsRow`), and that the claims in progress are within what Begin allows (`ClaimsInBudget`). Then the commit of a call finds the row
as its first statement saw it, and is the one-step operation; every other step is a stutter. A call that waits while it holds a row is a DELETE past its first row or
a two-table update between its two, and among two-table updates nobody holds what another waits for and waits itself: hence `DeadlockIsWithDelete`.

*No loss.* `OnlyPublishesLose` alone is not inductive. It needs `DeliveryHeld` (what a worker settles is the delivery it holds, so an acknowledgement removes the message of
the job just completed) and that a worker about to acknowledge has a completed job, or one without a row. That last fact
breaks when another worker can overwrite the status, which is where `SafeTopology` comes in. Where no publish is swallowed, `swallowed` stays empty (`NoneSwallowed`), and what is left is `NoSilentLoss`.

*The bound on attempts.* A counting argument. Every copy of an event, in a queue or in a worker's hands, and every API call that will still publish one,
is paid for by a call or by a fault that duplicated it (`CopiesArePaidFor`). A copy whose worker has not yet decided to settle it for good is a chance of
one more attempt (`Undecided`); once `MaxAttempts` is reached a claim turns a chance into an attempt, and only a fault turns it back
(`AttemptsArePaidFor`). The two are inductive together, on any topology.

*No early dead-letter.* `MaxAttempts` bounds the attempts from below as well: a job that nobody will act on has had them all. The runner decides by the number its claim returned, which a reset
makes stale. `StaleIsFollowed` says that a worker whose number is above the count has the event of the reset behind it: in a handler's hands, in the queue
(from which, with one worker per queue, only that worker could take it), or lost. Nobody drops a job that was on its way but by rejecting it (`WorkerCarriesOn`, `ApiCarriesOn`, which
also carry `OnlyPublishesLoseJobs`).

*What a DELETE leaves.* `DeletedIsGone` is false of the outputs (run `delete_race`), for workers write them. The raw object has one writer, the complete that
precedes the row, and ids do not return (`FreshIds`): so every raw object left over has a fault of its own, in the sweep or before it (`LeftInv`).

*Completions are final.* With one worker per queue, a worker that is past its claim is the only one that can complete its job, so
`NoWorkOnCompleted` is inductive with `Inv`; every FailJob is then one on a job that is not completed.

*Completed is whole.* Files are only added to a video that has not been deleted, and an id never returns
after its deletion. The invariant adds `FreshIds` (rows, deleted ids and ids in the middle of a complete are disjoint,
and only deleted ids are swept) and `ProgressIsReal` (what a worker counts as uploaded is in storage).

*JobContract.* Under the mapping `ShownStatus` every step is one of the contract's or a stutter, whatever the topology; that no failure follows a completion is asked only where completions are
final, and there `NoWorkOnCompleted` gives it. `CompletedIsWhole` and `FreshIds` give the other guards; `EventsAreOfRecorded` (a copy of an event belongs to a video that was recorded) is the one thing more, so that
no file is ever produced for a video the API has not known.

*Attempts.* `ProcessInv`: each kind of job takes its own steps, encoders run only while GenerateHLS waits for them, files are sent in the order
of the walk after all are complete (`SentInOrder`), and until process returns whatever exists on disk is to be removed (`RemovalsAreDeferred`).

*The player.* What reads as completed is whole (`ContractShowsWhole`), and stays so until a DELETE; hence an answer under way that says "completed" is true of the
files, however late it arrives (`AnswersAreTrue`).

*The page's timers.* A call that has its timer is asked again and again; one that has not is waiting for its first tick (`FirstTickIsUnderWay`), which sets it. So a call without a
verdict falls silent in two ways only: its first fetch was rejected, or another call of the page cleared its timer (`Silenced`). That is `StillFollowed`.

*Uploads.* URLs are signed only for the numbers of parts (`OnlyRealParts`), so a listing of that many parts is all of them (`ListIsComplete`); a handler past storage
has assembled the upload itself, and is the only one (`CompleterOwns`). It leaves the upload assembled and unannounced only when a call of its own
fails or it is stopped, so each stranded upload has a fault of its own (`StrandedArePaidFor`).

*The page.* `SessionBeginsOnce` (nothing is signed or completed before the session, which is stored once) lets the page trust that its upload holds no
other file's parts (`OneFilePerUpload`). For `OneVideoPerFile`, `Spent` collects the uploads of a file that are, or may become, videos the page does not hear of;
there are at most as many as faults, and one more when the file is finished (`SpentIsPaidFor`).

*The part count.* A count makes up the file when it is the size divided by `PartSize`, rounded up (`PlanIsCeiling`). For a plannable size nothing overflows. For a larger one the
right count is beyond `MaxInt32`, so no int32 is right, whatever the sum wrapped to. The page's loop stays within the count it was given (`LoopInRange`), so it reaches
the end of the file for the sizes of the first kind and stops short for the others.

*The limiter.* What was served within the limit (`served - failedOpen`) is at most `count`, and `ExpireIsOwn`: a request between INCR and EXPIRE created the key, is alone there, and the key has no expiry yet.
For the burst, what was served within the limit since the expiry was set belongs to the present life of the key (`SinceExpireIsThisLife`), which lasts a whole window from there; so any stretch of that length
sees at most this life and the one before it (`TwoLivesAtMost`). The request that created the key stays there to set its expiry until it has, or that very EXPIRE is lost (`ResetIsComing`).

Only model-checked: the liveness properties (`JobsSettle`, `EveryCallReturns`, `AssembledIsAnnounced`, `UploadFinishes`, `NoticesCompletion`, `PollingEnds`,
`CancelEndsAttempt`, `ResetsUnlessExpireLost`), since fairness is beyond the prover. Four of them have their safety half proved, which says that
whoever must still act is there: `OnlyPublishesLoseJobs` for `JobsSettle`, `StrandedUploadsArePaidFor` for `AssembledIsAnnounced`, `CallsStayFollowed` for `NoticesCompletion`,
`ResetIsNeverForgotten` for `ResetsUnlessExpireLost`. Every other property of a passing run is the statement of a theorem.
Seven invariants are theorems and no passing run's property: `NoSilentLoss` where no publish is swallowed, `ShownIsWhole`, `ParkedHadItsAttempts`, `LeftRawIsPaidFor`, and three of those halves, `StrandedArePaidFor`,
`StillFollowed` and `ResetIsComing`.
The four runs that end in a violation are counterexamples and need no proof.

## 6. Not modelled, and the plan

Left out on purpose: authentication, CORS, metrics, configuration, logging, deployment files (no protocol state);
the insides of ffmpeg, ffprobe and whisper, and the text of playlists and captions; malformed messages (this program's Publish cannot produce one);
presigned URL expiry (it only removes behaviours); ListVideos, which only reads; AbortMultipartUpload, which nothing calls, so that the parts of an abandoned upload stay in storage.

In the modelled parts: a sweep of one prefix is one step although DeleteObjectsByPrefix pages (section 2 says why that is the most it can do);
of the page, a second tab, the check made when a file is picked (both can only forget an upload in localStorage), thumbnails, captions and the quality selector;
a slow PUT that arrives after the page gave up (it carries the same bytes as the one that replaced it).
A thumbnail whose frame lies beyond the end of the video may be missing although ffmpeg exits with 0; JobProcess takes an exit code of 0 as "the output is written".
The errors of os.Remove, which the code discards, are taken not to happen.

Open, in the order of what they would say about the system:

1. How many parts of an abandoned upload stay in storage, with the paging of DeleteObjectsByPrefix: both need a model of the storage client.
2. A second tab of the page, and its check when a file is picked.
