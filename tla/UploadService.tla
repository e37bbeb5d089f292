---------------------------- MODULE UploadService ----------------------------
(***************************************************************************)
(* The resumable upload: handleCreateUpload, handlePresignPart and         *)
(* handleComplete of upload-service, the session in Redis with its TTL,    *)
(* the multipart upload in object storage, and the client that PUTs parts  *)
(* straight to storage with presigned URLs, again and again if it likes.   *)
(*                                                                         *)
(* Handlers run concurrently, one step per call to Redis, storage,         *)
(* Postgres or the queue; in particular several may complete one upload.   *)
(* What happens to the video afterwards is JobPipeline's.                  *)
(***************************************************************************)
EXTENDS Naturals, FiniteSets

CONSTANTS
    Uploads,     \* upload ids (uuid.NewString, so each is created once)
    PartCount,   \* parts of every upload
    PageSize,    \* parts on a page of ListParts
    Contents,    \* what a client may PUT as a part; the ETag tells them apart
    Missing,     \* "no such part"
    Requests,    \* concurrent handler invocations
    MaxFaults    \* bound on failed calls and service crashes

ASSUME UploadAssumption ==
    /\ Uploads # {}
    /\ PartCount \in Nat \ {0}
    /\ PageSize \in Nat \ {0}
    /\ Missing \notin Contents
    /\ MaxFaults \in Nat

VARIABLES
    session,    \* Redis: "none", "live", "ended" (deleted or expired)
    multipart,  \* storage: "none", "open", "assembled"
    parts,      \* storage: content of each part received
    presigned,  \* part numbers for which a URL was handed out
    object,     \* storage: the parts the raw object was assembled from
    recorded,   \* Postgres: uploads with a videos row
    published,  \* published[u]: video.uploaded events published for u
    pc,         \* next call of a handler
    upload,     \* its upload
    listed,     \* what its ListParts has returned so far
    faults

uploadVars == <<session, multipart, parts, presigned, object, recorded,
                published, pc, upload, listed, faults>>

\* handlePresignPart is asked for any number; one too many is enough.
AskedParts == 1 .. PartCount + 1

PartsOf(p) == {n \in AskedParts : p[n] # Missing}

NoParts == [n \in AskedParts |-> Missing]

HandlerPc == {"idle", "session", "list", "assemble", "insert", "publish", "end"}

UploadTypeOK ==
    /\ session \in [Uploads -> {"none", "live", "ended"}]
    /\ multipart \in [Uploads -> {"none", "open", "assembled"}]
    /\ parts \in [Uploads -> [AskedParts -> Contents \cup {Missing}]]
    /\ presigned \in [Uploads -> SUBSET AskedParts]
    /\ object \in [Uploads -> [AskedParts -> Contents \cup {Missing}]]
    /\ recorded \subseteq Uploads
    /\ published \in [Uploads -> Nat]
    /\ pc \in [Requests -> HandlerPc]
    /\ upload \in [Requests -> Uploads]
    /\ listed \in [Requests -> [AskedParts -> Contents \cup {Missing}]]
    /\ faults \in 0 .. MaxFaults

UploadInit ==
    /\ session = [u \in Uploads |-> "none"]
    /\ multipart = [u \in Uploads |-> "none"]
    /\ parts = [u \in Uploads |-> NoParts]
    /\ presigned = [u \in Uploads |-> {}]
    /\ object = [u \in Uploads |-> NoParts]
    /\ recorded = {}
    /\ published = [u \in Uploads |-> 0]
    /\ pc = [r \in Requests |-> "idle"]
    /\ upload = [r \in Requests |-> CHOOSE u \in Uploads : TRUE]
    /\ listed = [r \in Requests |-> NoParts]
    /\ faults = 0

-----------------------------------------------------------------------------
Goto(r, next) == pc' = [pc EXCEPT ![r] = next]

Fault == faults < MaxFaults /\ faults' = faults + 1

\* The handler returns, with a success or an error.
Respond(r) ==
    /\ Goto(r, "idle")
    /\ listed' = [listed EXCEPT ![r] = NoParts]
    /\ upload' = [upload EXCEPT ![r] = CHOOSE u \in Uploads : TRUE]

storageVars == <<multipart, parts, object>>
outcomeVars == <<recorded, published>>

\* handleCreateUpload: the multipart upload first, then the session.
CreateMultipart(r, u) ==
    /\ pc[r] = "idle"
    /\ multipart[u] = "none"
    /\ multipart' = [multipart EXCEPT ![u] = "open"]
    /\ upload' = [upload EXCEPT ![r] = u]
    /\ Goto(r, "session")
    /\ UNCHANGED <<session, parts, presigned, object, outcomeVars, listed, faults>>

CreateSession(r) ==
    /\ pc[r] = "session"
    /\ session' = [session EXCEPT ![upload[r]] = "live"]
    /\ Respond(r)
    /\ UNCHANGED <<storageVars, presigned, outcomeVars, faults>>

\* Mutant: any part number is signed.
PresignAnyPart(u, n) ==
    /\ session[u] = "live"
    /\ presigned' = [presigned EXCEPT ![u] = @ \cup {n}]
    /\ UNCHANGED <<session, storageVars, outcomeVars, pc, upload, listed, faults>>

\* Mutant: the signed part numbers are counted from zero.
PresignFromZero(u, n) ==
    /\ session[u] = "live"
    /\ n <= PartCount
    /\ presigned' = [presigned EXCEPT ![u] = @ \cup {n - 1}]
    /\ UNCHANGED <<session, storageVars, outcomeVars, pc, upload, listed, faults>>

\* handlePresignPart: the session, the bound on the part number, the URL
\* (signed locally).
PresignPart(u, n) ==
    /\ session[u] = "live"
    /\ n <= PartCount
    /\ presigned' = [presigned EXCEPT ![u] = @ \cup {n}]
    /\ UNCHANGED <<session, storageVars, outcomeVars, pc, upload, listed, faults>>

\* The client PUTs a part, straight to storage. A second PUT of a part
\* replaces the first. (A URL's expiry only removes behaviours.)
PutPart(u, n, c) ==
    /\ n \in presigned[u]
    /\ multipart[u] = "open"
    /\ parts' = [parts EXCEPT ![u][n] = c]
    /\ UNCHANGED <<session, multipart, presigned, object, outcomeVars, pc, upload,
                   listed, faults>>

\* Redis drops the session when its TTL has passed, whatever is under way.
ExpireSession(u) ==
    /\ session[u] = "live"
    /\ session' = [session EXCEPT ![u] = "ended"]
    /\ UNCHANGED <<storageVars, presigned, outcomeVars, pc, upload, listed, faults>>

-----------------------------------------------------------------------------
(* handleComplete, call by call. *)

LoadSession(r, u) ==
    /\ pc[r] = "idle"
    /\ session[u] = "live"
    /\ upload' = [upload EXCEPT ![r] = u]
    /\ Goto(r, "list")
    /\ UNCHANGED <<session, storageVars, presigned, outcomeVars, listed, faults>>

\* The parts on the next page of a listing: the first ones with numbers beyond
\* those listed so far.
Unlisted(r) ==
    {n \in PartsOf(parts[upload[r]]) : \A m \in PartsOf(listed[r]) : n > m}

Page(r) ==
    {n \in Unlisted(r) : Cardinality({m \in Unlisted(r) : m <= n}) <= PageSize}

Listing(r) ==
    [n \in AskedParts |-> IF n \in Page(r) THEN parts[upload[r]][n] ELSE listed[r][n]]

\* ListParts: storage answers page by page, the client PUTs meanwhile.
ListPage(r) ==
    /\ pc[r] = "list"
    /\ multipart[upload[r]] = "open"
    /\ Page(r) # Unlisted(r)
    /\ listed' = [listed EXCEPT ![r] = Listing(r)]
    /\ UNCHANGED <<session, storageVars, presigned, outcomeVars, pc, upload, faults>>

\* The last page, and all parts are there: go on with this list. The code
\* compares counts.
ListParts(r) ==
    /\ pc[r] = "list"
    /\ multipart[upload[r]] = "open"
    /\ Page(r) = Unlisted(r)
    /\ Cardinality(PartsOf(Listing(r))) = PartCount
    /\ listed' = [listed EXCEPT ![r] = Listing(r)]
    /\ Goto(r, "assemble")
    /\ UNCHANGED <<session, storageVars, presigned, outcomeVars, upload, faults>>

\* Parts are missing (409), or storage no longer knows the upload (500).
ListRefused(r) ==
    /\ pc[r] = "list"
    /\ \/ multipart[upload[r]] # "open"
       \/ Page(r) = Unlisted(r) /\ Cardinality(PartsOf(Listing(r))) # PartCount
    /\ Respond(r)
    /\ UNCHANGED <<session, storageVars, presigned, outcomeVars, faults>>

\* Mutant: the ETags are not passed on.
AssembleUnchecked(r) ==
    LET u == upload[r]
    IN  /\ pc[r] = "assemble"
        /\ multipart[u] = "open"
        /\ multipart' = [multipart EXCEPT ![u] = "assembled"]
        /\ object' = [object EXCEPT ![u] = listed[r]]
        /\ Goto(r, "insert")
        /\ UNCHANGED <<session, parts, presigned, outcomeVars, upload, listed, faults>>

\* CompleteMultipartUpload with the ETags that were listed. Storage refuses an
\* upload it has assembled already, and a part whose ETag has changed.
Assemble(r) ==
    LET u == upload[r]
    IN  /\ pc[r] = "assemble"
        /\ multipart[u] = "open"
        /\ \A n \in PartsOf(listed[r]) : parts[u][n] = listed[r][n]
        /\ multipart' = [multipart EXCEPT ![u] = "assembled"]
        /\ object' = [object EXCEPT ![u] = listed[r]]
        /\ Goto(r, "insert")
        /\ UNCHANGED <<session, parts, presigned, outcomeVars, upload, listed, faults>>

\* Mutant: a refusal is taken for "already done" and the handler goes on.
AssembleRefusedGoesOn(r) ==
    /\ pc[r] = "assemble"
    /\ multipart[upload[r]] # "open"
    /\ Goto(r, "insert")
    /\ UNCHANGED <<session, storageVars, presigned, outcomeVars, upload, listed, faults>>

AssembleRefused(r) ==
    LET u == upload[r]
    IN  /\ pc[r] = "assemble"
        /\ \/ multipart[u] # "open"
           \/ \E n \in PartsOf(listed[r]) : parts[u][n] # listed[r][n]
        /\ Respond(r)
        /\ UNCHANGED <<session, storageVars, presigned, outcomeVars, faults>>

\* Mutant: the handler looks the session up again before it records the video.
InsertRowIfLive(r) ==
    LET u == upload[r]
    IN  /\ pc[r] = "insert"
        /\ IF session[u] = "live"
           THEN /\ recorded' = recorded \cup {u}
                /\ Goto(r, "publish")
                /\ UNCHANGED <<upload, listed>>
           ELSE Respond(r) /\ UNCHANGED recorded
        /\ UNCHANGED <<session, storageVars, presigned, published, faults>>

\* InsertVideo. The primary key would refuse a second row; storage has already
\* refused a second handler.
InsertRow(r) ==
    /\ pc[r] = "insert"
    /\ upload[r] \notin recorded
    /\ recorded' = recorded \cup {upload[r]}
    /\ Goto(r, "publish")
    /\ UNCHANGED <<session, storageVars, presigned, published, upload, listed, faults>>

\* Mutant: a publish whose confirmation is missing is tried again.
PublishAgain(r) ==
    /\ pc[r] = "publish"
    /\ published' = [published EXCEPT ![upload[r]] = @ + 1]
    /\ \/ Goto(r, "end") /\ UNCHANGED faults
       \/ Fault /\ UNCHANGED pc
    /\ UNCHANGED <<session, storageVars, presigned, recorded, upload, listed>>

\* Publish; an error is logged and the handler goes on.
PublishEvent(r) ==
    /\ pc[r] = "publish"
    /\ \/ published' = [published EXCEPT ![upload[r]] = @ + 1] /\ UNCHANGED faults
       \/ Fault /\ UNCHANGED published
    /\ Goto(r, "end")
    /\ UNCHANGED <<session, storageVars, presigned, recorded, upload, listed>>

\* Sessions.Delete, whose error is ignored, and the answer.
EndSession(r) ==
    /\ pc[r] = "end"
    /\ \/ session' = [session EXCEPT ![upload[r]] = "ended"] /\ UNCHANGED faults
       \/ Fault /\ UNCHANGED session
    /\ Respond(r)
    /\ UNCHANGED <<storageVars, presigned, outcomeVars>>

\* The call a handler is making fails (Redis, storage, Postgres, the client
\* gone), or the service stops: nothing is undone. A call may have taken effect
\* all the same: that is this step after the call's own.
HandlerStops(r) ==
    /\ pc[r] # "idle"
    /\ Fault
    /\ Respond(r)
    /\ UNCHANGED <<session, storageVars, presigned, outcomeVars>>

-----------------------------------------------------------------------------
ServeStep(r) ==
    \/ CreateSession(r)
    \/ ListPage(r) \/ ListParts(r) \/ ListRefused(r)
    \/ Assemble(r) \/ AssembleRefused(r)
    \/ InsertRow(r) \/ PublishEvent(r) \/ EndSession(r)

UploadNext ==
    \/ \E r \in Requests, u \in Uploads : CreateMultipart(r, u) \/ LoadSession(r, u)
    \/ \E r \in Requests : ServeStep(r) \/ HandlerStops(r)
    \/ \E u \in Uploads, n \in AskedParts :
          PresignPart(u, n) \/ \E c \in Contents : PutPart(u, n, c)
    \/ \E u \in Uploads : ExpireSession(u)

UploadSpec == UploadInit /\ [][UploadNext]_uploadVars

\* A handler's calls return. Nothing is assumed of the client.
UploadFairSpec == UploadSpec /\ \A r \in Requests : WF_uploadVars(ServeStep(r))

-----------------------------------------------------------------------------
(***************************************************************************)
(* Properties                                                              *)
(***************************************************************************)

\* Whatever races and repeats, an object that storage assembled holds exactly
\* parts 1 .. PartCount: comparing the number of parts is enough because no
\* URL is ever signed for a number beyond the bound.
AssembledIsComplete ==
    \A u \in Uploads :
        multipart[u] = "assembled" => PartsOf(object[u]) = 1 .. PartCount

\* A part that storage acknowledged before assembly is the part in the object:
\* the ETags catch a PUT that raced with ListParts.
ObjectIsWhatWasUploaded ==
    \A u \in Uploads :
        multipart[u] = "assembled" =>
            \A n \in 1 .. PartCount : object[u][n] = parts[u][n]

\* Concurrent and repeated completes announce an upload at most once, and
\* never one whose row or bytes are missing.
AnnouncedOnce ==
    \A u \in Uploads :
        /\ published[u] <= 1
        /\ published[u] = 1 => u \in recorded
        /\ u \in recorded => multipart[u] = "assembled"

\* At most one handler ever gets past storage with an upload: the losers of a
\* race stop before they touch the tables or the queue.
OneCompleter ==
    \A r1, r2 \in Requests :
        /\ r1 # r2
        /\ pc[r1] \in {"insert", "publish", "end"}
        /\ pc[r2] \in {"insert", "publish", "end"}
        => upload[r1] # upload[r2]

\* Unless a call fails, an upload that was assembled is recorded and announced,
\* even if its session expires meanwhile and other completes race for it.
AssembledIsAnnounced ==
    \A u \in Uploads :
        multipart[u] = "assembled" ~> published[u] = 1 \/ faults > 0

=============================================================================
