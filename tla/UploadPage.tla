----------------------------- MODULE UploadPage -----------------------------
(***************************************************************************)
(* doUpload of web/index.html against UploadService: it creates an upload  *)
(* or resumes the one it remembers in localStorage, PUTs the parts that    *)
(* storage does not have, and completes. The page is one more client of    *)
(* the service: every request it makes is an action of UploadService.      *)
(*                                                                         *)
(* The page may be closed, or give up on a request, at any time; the       *)
(* handler then goes on without it. The files have PartCount parts each.   *)
(***************************************************************************)
EXTENDS UploadService, PartPlan

CONSTANTS
    Nothing,   \* no upload remembered, no request under way
    FileSize   \* bytes of each file

Files == Contents  \* a part is told apart by the file it is a slice of

ASSUME PageAssumption ==
    /\ Files # {}
    /\ FileSize \in 1 .. MaxInt64
    /\ PartCount = PartCountOf(FileSize)
    /\ Nothing \notin Requests \cup (Files \X Uploads)

VARIABLES
    page,      \* where doUpload is
    file,      \* the file that was picked
    pending,   \* localStorage: <<file, upload>>, or Nothing
    current,   \* uploadId
    received,  \* receivedParts
    next,      \* n of the loop
    call,      \* the handler whose answer the page awaits, or Nothing
    finished   \* files whose upload the page has seen completed

pageVars == <<page, file, pending, current, received, next, call, finished>>
pageUploadVars == <<uploadVars, pageVars>>

SomeUpload == CHOOSE u \in Uploads : TRUE

PageInit ==
    /\ page = "ready"
    /\ file = CHOOSE f \in Files : TRUE
    /\ pending = Nothing
    /\ current = SomeUpload
    /\ received = {}
    /\ next = 1
    /\ call = Nothing
    /\ finished = {}

-----------------------------------------------------------------------------
\* doUpload returns or throws; nothing but localStorage outlives it.
Stops(remembered) ==
    /\ page' = "ready"
    /\ file' = CHOOSE f \in Files : TRUE
    /\ pending' = remembered
    /\ current' = SomeUpload
    /\ received' = {}
    /\ next' = 1
    /\ call' = Nothing

\* The loop over the parts of upload u, with those that need not be sent.
StartsLoop(u, have) ==
    /\ page' = "part"
    /\ current' = u
    /\ received' = have
    /\ next' = 1
    /\ call' = Nothing

\* Mutant: the fingerprint is not compared.
RememberedForAny(f) == pending # Nothing

\* loadPendingUpload.
Remembered(f) == pending # Nothing /\ pending[1] = f

\* The Upload button, with file f picked.
Click(f) ==
    /\ page = "ready"
    /\ f \notin finished
    /\ file' = f
    /\ IF Remembered(f)
       THEN page' = "status" /\ current' = pending[2]
       ELSE page' = "create" /\ UNCHANGED current
    /\ UNCHANGED <<uploadVars, pending, received, next, call, finished>>

HasStatus(u) == session[u] = "live" /\ multipart[u] = "open"

\* handleStatus: the session is there and storage lists the parts.
StatusOk ==
    /\ page = "status"
    /\ HasStatus(current)
    /\ StartsLoop(current, PartsOf(parts[current]))
    /\ UNCHANGED <<uploadVars, file, pending, finished>>

\* Mutant: only a session that has expired makes the page start afresh.
StatusNotFound ==
    /\ page = "status"
    /\ ~HasStatus(current)
    /\ IF session[current] # "live"
       THEN page' = "create" /\ pending' = Nothing /\ UNCHANGED <<file, current, received, next, call>>
       ELSE Stops(pending)
    /\ UNCHANGED <<uploadVars, finished>>

\* Any status but 200 is taken for an expired session: the upload is forgotten.
\* That is also how the page leaves an upload that was assembled but could not
\* be recorded, whose session is live.
StatusNotOk ==
    /\ page = "status"
    /\ \/ ~HasStatus(current) /\ UNCHANGED uploadVars
       \/ Fault /\ UNCHANGED <<session, storageVars, presigned, outcomeVars, pc, upload, listed>>
    /\ page' = "create"
    /\ pending' = Nothing
    /\ UNCHANGED <<file, current, received, next, call, finished>>

Fresh == {u \in Uploads : multipart[u] = "none"}

\* POST /uploads reaches a handler.
AskCreate(r) ==
    /\ page = "create"
    /\ call = Nothing
    /\ Fresh # {}
    /\ CreateMultipart(r, CHOOSE u \in Fresh : TRUE)
    /\ call' = r
    /\ UNCHANGED <<page, file, pending, current, received, next, finished>>

\* The answer: the upload is remembered.
Created(r) ==
    /\ call = r
    /\ CreateSession(r)
    /\ pending' = <<file, upload[r]>>
    /\ StartsLoop(upload[r], {})
    /\ UNCHANGED <<file, finished>>

Sends(n) == page = "part" /\ next = n /\ n <= PartCount /\ n \notin received

\* "Already uploaded in a previous attempt: this is the resume".
SkipPart ==
    /\ page = "part"
    /\ next <= PartCount
    /\ next \in received
    /\ next' = next + 1
    /\ UNCHANGED <<uploadVars, page, file, pending, current, received, call, finished>>

AskPresign ==
    /\ Sends(next)
    /\ next \notin presigned[current]
    /\ PresignPart(current, next)
    /\ UNCHANGED pageVars

\* The PUT of the slice, and its 200.
SendPart ==
    /\ Sends(next)
    /\ PutPart(current, next, file)
    /\ next' = next + 1
    /\ UNCHANGED <<page, file, pending, current, received, call, finished>>

\* The session has gone, or storage takes no more parts of this upload.
PartRefused ==
    /\ Sends(next)
    /\ session[current] # "live" \/ multipart[current] # "open"
    /\ Stops(pending)
    /\ UNCHANGED <<uploadVars, finished>>

\* POST /uploads/{id}/complete reaches a handler.
AskComplete(r) ==
    /\ page = "part"
    /\ next > PartCount
    /\ LoadSession(r, current)
    /\ page' = "complete"
    /\ call' = r
    /\ UNCHANGED <<file, pending, current, received, next, finished>>

CompleteNotFound ==
    /\ page = "part"
    /\ next > PartCount
    /\ session[current] # "live"
    /\ Stops(pending)
    /\ UNCHANGED <<uploadVars, finished>>

\* Mutant: a session that has expired meanwhile makes the answer an error.
CompletedIfLive(r) ==
    /\ call = r
    /\ EndSession(r)
    /\ IF session[upload[r]] = "live"
       THEN Stops(Nothing) /\ finished' = finished \cup {file}
       ELSE Stops(pending) /\ UNCHANGED finished

\* The video is there; the upload is forgotten.
Completed(r) ==
    /\ call = r
    /\ EndSession(r)
    /\ Stops(Nothing)
    /\ finished' = finished \cup {file}

\* The handler answers with an error, or its answer is lost.
Refused(r) ==
    /\ call = r
    /\ ListRefused(r) \/ AssembleRefused(r) \/ HandlerStops(r)
    /\ Stops(pending)
    /\ UNCHANGED finished

\* A handler takes a step that answers nobody: one in between, or one of a
\* request the page has given up.
HandlerWorks(r) ==
    /\ \/ ListPage(r) \/ ListParts(r) \/ Assemble(r) \/ InsertRow(r) \/ PublishEvent(r)
       \/ call # r /\ (ServeStep(r) \/ HandlerStops(r))
    /\ UNCHANGED pageVars

\* The page is closed or loaded again, or a fetch rejects.
GiveUp ==
    /\ page # "ready"
    /\ Fault
    /\ Stops(pending)
    /\ UNCHANGED <<session, storageVars, presigned, outcomeVars, pc, upload, listed, finished>>

PageStep ==
    \/ StatusOk \/ StatusNotOk
    \/ SkipPart \/ AskPresign \/ SendPart \/ PartRefused \/ CompleteNotFound
    \/ \E r \in Requests :
          AskCreate(r) \/ Created(r) \/ AskComplete(r) \/ Completed(r) \/ Refused(r)

PageUploadNext ==
    \/ PageStep \/ GiveUp
    \/ \E f \in Files : Click(f)
    \/ \E r \in Requests : HandlerWorks(r)
    \/ \E u \in Uploads : ExpireSession(u) /\ UNCHANGED pageVars

PageUploadInit == UploadInit /\ PageInit

PageUploadSpec == PageUploadInit /\ [][PageUploadNext]_pageUploadVars

\* Requests are served, the page runs on, and somebody who wants a file
\* uploaded comes back to it. Faults and expiries need not happen.
PageUploadFairSpec ==
    /\ PageUploadSpec
    /\ WF_pageUploadVars(PageStep)
    /\ \A r \in Requests : WF_pageUploadVars(HandlerWorks(r))
    /\ \A f \in Files : SF_pageUploadVars(Click(f))

-----------------------------------------------------------------------------
(***************************************************************************)
(* Properties                                                              *)
(***************************************************************************)

\* Every recorded video was assembled from the slices of one file, whatever
\* was interrupted, resumed and started afresh in between.
RecordedIsOneFile ==
    \A u \in recorded : \E f \in Files : \A n \in 1 .. PartCount : object[u][n] = f

\* The bytes of a file of that size which the loop has behind it.
SlicedOff(size) == IF next = 1 THEN 0 ELSE End(next - 1, size)

\* Had the file any size that got this part count: at every part the loop goes
\* on where it was, with a slice that is not empty, and when it has done them
\* all it has reached the end of the file exactly if the count did not
\* overflow. A count that wrapped around to PartCount, or was corrected to it,
\* always completes an upload that holds the beginning of the file only.
LoopCoversTheFile ==
    page = "part" =>
        \A size \in 1 .. MaxInt64 :
            PartCountOf(size) = PartCount =>
                IF next <= PartCount
                THEN SlicedOff(size) = Start(next) /\ Start(next) < End(next, size)
                ELSE SlicedOff(size) = size <=> Plannable(size)

VideosOf(f) == {u \in recorded : object[u][1] = f}

\* A file becomes a second video only after a fault: an expired session alone
\* never makes the page upload again what was recorded.
OneVideoPerFile == \A f \in Files : Cardinality(VideosOf(f)) <= 1 + faults

\* Whoever keeps trying gets a file uploaded, whatever state an earlier attempt
\* has left the upload in, as long as there are ids for new uploads.
UploadFinishes ==
    \A f \in Files :
        <>(f \in finished \/ Fresh = {})

=============================================================================
