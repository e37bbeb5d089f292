---------------------------- MODULE UploadProofs ----------------------------
(***************************************************************************)
(* Proofs about the upload: UploadService by itself, whoever calls it;     *)
(* then UploadPage, what the resume promises; and PartPlan. For any number *)
(* of files, parts, upload ids, requests and faults, and for any widths of *)
(* the integers.                                                           *)
(***************************************************************************)
EXTENDS UploadPage, FiniteSetTheorems, TLAPS

PastStorage == {"insert", "publish", "end"}
Completing == {"list", "assemble"} \cup PastStorage

\* URLs are signed for the numbers of parts only, storage has no part that was
\* not signed, and so no listing shows one.
OnlyRealParts ==
    /\ \A u \in Uploads :
          presigned[u] \subseteq 1 .. PartCount /\ PartsOf(parts[u]) \subseteq presigned[u]
    /\ \A r \in Requests : PartsOf(listed[r]) \subseteq 1 .. PartCount

\* A handler goes on to storage with a list of all parts.
ListIsComplete ==
    \A r \in Requests : pc[r] = "assemble" => PartsOf(listed[r]) = 1 .. PartCount

\* A handler past storage has assembled its upload; it is the one that records
\* and announces it.
CompleterOwns ==
    \A r \in Requests :
        /\ pc[r] \in PastStorage => multipart[upload[r]] = "assembled"
        /\ pc[r] = "insert" => upload[r] \notin recorded
        /\ pc[r] = "publish" => upload[r] \in recorded /\ published[upload[r]] = 0

\* AnnouncedOnce, with "not recorded, not announced" spelled out.
Outcome ==
    \A u \in Uploads :
        /\ published[u] \in {0, 1}
        /\ u \notin recorded => published[u] = 0
        /\ u \in recorded => multipart[u] = "assembled"

UploadInv ==
    /\ UploadTypeOK
    /\ OnlyRealParts
    /\ ListIsComplete
    /\ AssembledIsComplete
    /\ ObjectIsWhatWasUploaded
    /\ CompleterOwns
    /\ Outcome
    /\ OneCompleter

-----------------------------------------------------------------------------
LEMMA NoPartsIsEmpty == PartsOf(NoParts) = {} /\ NoParts \in [AskedParts -> Contents \cup {Missing}]
  BY DEF PartsOf, NoParts

LEMMA AnyUpload == (CHOOSE u \in Uploads : TRUE) \in Uploads
  BY UploadAssumption

LEMMA FaultKeepsBudget ==
  ASSUME UploadTypeOK, Fault  PROVE faults' \in 0 .. MaxFaults
  BY UploadAssumption DEF Fault, UploadTypeOK

LEMMA UploadInitially == UploadInit => UploadInv
<1> SUFFICES ASSUME UploadInit PROVE UploadInv
  OBVIOUS
<1>1. UploadTypeOK
  BY NoPartsIsEmpty, AnyUpload, UploadAssumption DEF UploadInit, UploadTypeOK, HandlerPc
<1>2. OnlyRealParts
  BY NoPartsIsEmpty DEF UploadInit, OnlyRealParts
<1> QED
  BY <1>1, <1>2
  DEF UploadInit, UploadInv, ListIsComplete, AssembledIsComplete, ObjectIsWhatWasUploaded,
      CompleterOwns, Outcome, OneCompleter, PastStorage

-----------------------------------------------------------------------------
(***************************************************************************)
(* A handler that returns, whatever it has done: by itself it leaves       *)
(* storage, tables and queue alone.                                        *)
(***************************************************************************)

LEMMA RespondKeeps ==
  ASSUME UploadInv, NEW r \in Requests, Respond(r),
         session' \in [Uploads -> {"none", "live", "ended"}], faults' \in 0 .. MaxFaults,
         UNCHANGED <<storageVars, presigned, outcomeVars>>
  PROVE  UploadInv'
<1> USE DEF storageVars, outcomeVars
<1>1. /\ pc' = [pc EXCEPT ![r] = "idle"]
      /\ listed' = [listed EXCEPT ![r] = NoParts]
      /\ upload' \in [Requests -> Uploads]
      /\ \A q \in Requests \ {r} : upload'[q] = upload[q]
  BY AnyUpload DEF Respond, Goto, UploadInv, UploadTypeOK
<1>2. UploadTypeOK'
  BY <1>1, NoPartsIsEmpty DEF UploadInv, UploadTypeOK, HandlerPc
<1>3. \A q \in Requests : pc'[q] # "idle" => q # r /\ pc'[q] = pc[q] /\ upload'[q] = upload[q]
  BY <1>1 DEF UploadInv, UploadTypeOK
<1>4. \A q \in Requests : PartsOf(listed'[q]) \subseteq PartsOf(listed[q])
  BY <1>1, NoPartsIsEmpty DEF UploadInv, UploadTypeOK
<1>5. \A q \in Requests : q # r => listed'[q] = listed[q]
  BY <1>1 DEF UploadInv, UploadTypeOK
<1>6. OnlyRealParts'
  <2>1. \A u \in Uploads : PartsOf(parts'[u]) = PartsOf(parts[u])
    OBVIOUS
  <2> QED  BY <1>4, <2>1 DEF UploadInv, OnlyRealParts
<1>7. ListIsComplete'
  BY <1>3, <1>5 DEF UploadInv, ListIsComplete
<1>8. CompleterOwns' /\ OneCompleter'
  BY <1>3 DEF UploadInv, CompleterOwns, OneCompleter, PastStorage
<1> QED
  BY <1>2, <1>6, <1>7, <1>8
  DEF UploadInv, AssembledIsComplete, ObjectIsWhatWasUploaded, Outcome

LEMMA CreateMultipartKeeps ==
  ASSUME UploadInv, NEW r \in Requests, NEW u \in Uploads, CreateMultipart(r, u)
  PROVE  UploadInv'
<1> USE DEF CreateMultipart, Goto, outcomeVars
<1>1. UploadTypeOK'
  BY DEF UploadInv, UploadTypeOK, HandlerPc
<1>2. OnlyRealParts' /\ ListIsComplete'
  BY DEF UploadInv, UploadTypeOK, OnlyRealParts, ListIsComplete, PartsOf
<1>3. \A w \in Uploads : multipart'[w] = "assembled" <=> multipart[w] = "assembled"
  BY DEF UploadInv, UploadTypeOK
<1>4. CompleterOwns' /\ OneCompleter'
  BY <1>3 DEF UploadInv, UploadTypeOK, CompleterOwns, OneCompleter, PastStorage
<1> QED
  BY <1>1, <1>2, <1>3, <1>4
  DEF UploadInv, AssembledIsComplete, ObjectIsWhatWasUploaded, Outcome

LEMMA CreateSessionKeeps ==
  ASSUME UploadInv, NEW r \in Requests, CreateSession(r)
  PROVE  UploadInv'
<1>1. session' \in [Uploads -> {"none", "live", "ended"}]
  BY DEF CreateSession, UploadInv, UploadTypeOK
<1> QED
  BY <1>1, RespondKeeps DEF CreateSession, UploadInv, UploadTypeOK

LEMMA PresignPartKeeps ==
  ASSUME UploadInv, NEW u \in Uploads, NEW n \in AskedParts, PresignPart(u, n)
  PROVE  UploadInv'
<1> USE DEF PresignPart, storageVars, outcomeVars
<1>1. UploadTypeOK'
  BY DEF UploadInv, UploadTypeOK
<1>2. OnlyRealParts'
  <2>1. n \in 1 .. PartCount
    BY UploadAssumption DEF AskedParts
  <2>2. \A w \in Uploads : presigned'[w] \subseteq presigned[w] \cup {n} /\ presigned[w] \subseteq presigned'[w]
    BY DEF UploadInv, UploadTypeOK
  <2> QED  BY <2>1, <2>2 DEF UploadInv, OnlyRealParts, PartsOf
<1> QED
  BY <1>1, <1>2
  DEF UploadInv, ListIsComplete, AssembledIsComplete, ObjectIsWhatWasUploaded,
      CompleterOwns, Outcome, OneCompleter, PartsOf

LEMMA PutPartKeeps ==
  ASSUME UploadInv, NEW u \in Uploads, NEW n \in AskedParts, NEW c \in Contents, PutPart(u, n, c)
  PROVE  UploadInv'
<1> USE DEF PutPart, outcomeVars
<1>1. UploadTypeOK'
  BY DEF UploadInv, UploadTypeOK
<1>2. \A w \in Uploads : PartsOf(parts'[w]) \subseteq PartsOf(parts[w]) \cup {n}
  BY DEF UploadInv, UploadTypeOK, PartsOf
<1>3. \A w \in Uploads : w # u => parts'[w] = parts[w]
  BY DEF UploadInv, UploadTypeOK
<1>4. OnlyRealParts'
  <2>1. \A w \in Uploads : PartsOf(parts'[w]) \subseteq presigned'[w]
    BY <1>2, <1>3 DEF UploadInv, OnlyRealParts
  <2> QED  BY <2>1 DEF UploadInv, OnlyRealParts, PartsOf
<1>5. ObjectIsWhatWasUploaded'
  BY <1>3 DEF UploadInv, ObjectIsWhatWasUploaded
<1> QED
  BY <1>1, <1>4, <1>5
  DEF UploadInv, ListIsComplete, AssembledIsComplete,
      CompleterOwns, Outcome, OneCompleter, PartsOf

LEMMA ExpireSessionKeeps ==
  ASSUME UploadInv, NEW u \in Uploads, ExpireSession(u)
  PROVE  UploadInv'
  BY DEF ExpireSession, storageVars, outcomeVars, UploadInv, UploadTypeOK, OnlyRealParts,
     ListIsComplete, AssembledIsComplete, ObjectIsWhatWasUploaded, CompleterOwns,
     Outcome, OneCompleter, PartsOf

LEMMA LoadSessionKeeps ==
  ASSUME UploadInv, NEW r \in Requests, NEW u \in Uploads, LoadSession(r, u)
  PROVE  UploadInv'
<1> USE DEF LoadSession, Goto, storageVars, outcomeVars
<1>1. UploadTypeOK'
  BY DEF UploadInv, UploadTypeOK, HandlerPc
<1>2. OnlyRealParts' /\ ListIsComplete'
  BY DEF UploadInv, UploadTypeOK, OnlyRealParts, ListIsComplete, PartsOf
<1>3. CompleterOwns' /\ OneCompleter'
  BY DEF UploadInv, UploadTypeOK, CompleterOwns, OneCompleter, PastStorage
<1> QED
  BY <1>1, <1>2, <1>3
  DEF UploadInv, AssembledIsComplete, ObjectIsWhatWasUploaded, Outcome

-----------------------------------------------------------------------------
(***************************************************************************)
(* The listing and the assembly.                                           *)
(***************************************************************************)

\* A page adds parts that storage has, so numbers of parts only.
LEMMA ListingIsReal ==
  ASSUME UploadInv, NEW r \in Requests
  PROVE  /\ Listing(r) \in [AskedParts -> Contents \cup {Missing}]
         /\ PartsOf(Listing(r)) \subseteq 1 .. PartCount
<1>1. parts[upload[r]] \in [AskedParts -> Contents \cup {Missing}] /\ upload[r] \in Uploads
  BY DEF UploadInv, UploadTypeOK
<1>2. listed[r] \in [AskedParts -> Contents \cup {Missing}]
  BY DEF UploadInv, UploadTypeOK
<1>3. Listing(r) \in [AskedParts -> Contents \cup {Missing}]
  BY <1>1, <1>2 DEF Listing
<1>4. PartsOf(Listing(r)) \subseteq PartsOf(parts[upload[r]]) \cup PartsOf(listed[r])
  BY DEF Listing, PartsOf
<1> QED  BY <1>1, <1>3, <1>4 DEF UploadInv, OnlyRealParts

\* The code compares counts; with real parts only, that is enough.
LEMMA CountIsEnough ==
  ASSUME NEW S \in SUBSET (1 .. PartCount), Cardinality(S) = PartCount
  PROVE  S = 1 .. PartCount
<1>1. IsFiniteSet(1 .. PartCount) /\ Cardinality(1 .. PartCount) = PartCount
  <2>1. PartCount \in Int /\ 1 \in Int /\ ~(1 > PartCount) /\ PartCount - 1 + 1 = PartCount
    BY UploadAssumption
  <2> QED  BY <2>1, FS_Interval
<1> QED  BY <1>1, FS_Subset

LEMMA ListPageKeeps ==
  ASSUME UploadInv, NEW r \in Requests, ListPage(r)
  PROVE  UploadInv'
<1> USE DEF ListPage, storageVars, outcomeVars
<1>1. UploadTypeOK'
  BY ListingIsReal DEF UploadInv, UploadTypeOK
<1>2. \A q \in Requests : listed'[q] = IF q = r THEN Listing(r) ELSE listed[q]
  BY DEF UploadInv, UploadTypeOK
<1>3. OnlyRealParts'
  BY <1>2, ListingIsReal DEF UploadInv, OnlyRealParts, PartsOf
<1>4. ListIsComplete'
  BY <1>2 DEF UploadInv, ListIsComplete
<1> QED
  BY <1>1, <1>3, <1>4
  DEF UploadInv, AssembledIsComplete, ObjectIsWhatWasUploaded, CompleterOwns,
      Outcome, OneCompleter, PartsOf

LEMMA ListPartsKeeps ==
  ASSUME UploadInv, NEW r \in Requests, ListParts(r)
  PROVE  UploadInv'
<1> USE DEF ListParts, Goto, storageVars, outcomeVars
<1>1. UploadTypeOK'
  BY ListingIsReal DEF UploadInv, UploadTypeOK, HandlerPc
<1>2. \A q \in Requests :
         /\ listed'[q] = IF q = r THEN Listing(r) ELSE listed[q]
         /\ pc'[q] = IF q = r THEN "assemble" ELSE pc[q]
  BY DEF UploadInv, UploadTypeOK
<1>3. OnlyRealParts'
  BY <1>2, ListingIsReal DEF UploadInv, OnlyRealParts, PartsOf
<1>4. ListIsComplete'
  <2>1. PartsOf(Listing(r)) = 1 .. PartCount
    BY ListingIsReal, CountIsEnough
  <2> QED  BY <2>1, <1>2 DEF UploadInv, ListIsComplete
<1>5. CompleterOwns' /\ OneCompleter'
  BY <1>2 DEF UploadInv, CompleterOwns, OneCompleter, PastStorage
<1> QED
  BY <1>1, <1>3, <1>4, <1>5
  DEF UploadInv, AssembledIsComplete, ObjectIsWhatWasUploaded, Outcome, PartsOf

\* Storage takes an upload once, and only with the parts it has.
LEMMA AssembleKeeps ==
  ASSUME UploadInv, NEW r \in Requests, Assemble(r)
  PROVE  UploadInv'
<1> DEFINE u == upload[r]
<1>1. /\ pc[r] = "assemble" /\ multipart[u] = "open" /\ u \in Uploads
      /\ \A n \in PartsOf(listed[r]) : parts[u][n] = listed[r][n]
      /\ multipart' = [multipart EXCEPT ![u] = "assembled"]
      /\ object' = [object EXCEPT ![u] = listed[r]]
      /\ pc' = [pc EXCEPT ![r] = "insert"]
      /\ UNCHANGED <<session, parts, presigned, recorded, published, upload, listed, faults>>
  BY DEF Assemble, Goto, outcomeVars, UploadInv, UploadTypeOK
<1> HIDE DEF u
<1>2. UploadTypeOK'
  BY <1>1 DEF UploadInv, UploadTypeOK, HandlerPc
<1>3. PartsOf(listed[r]) = 1 .. PartCount
  BY <1>1 DEF UploadInv, ListIsComplete
<1>4. \A w \in Uploads :
         /\ multipart'[w] = IF w = u THEN "assembled" ELSE multipart[w]
         /\ object'[w] = IF w = u THEN listed[r] ELSE object[w]
  BY <1>1 DEF UploadInv, UploadTypeOK
<1>5. AssembledIsComplete' /\ ObjectIsWhatWasUploaded'
  BY <1>1, <1>3, <1>4 DEF UploadInv, AssembledIsComplete, ObjectIsWhatWasUploaded, PartsOf
<1>6. \A q \in Requests : pc'[q] = IF q = r THEN "insert" ELSE pc[q]
  BY <1>1 DEF UploadInv, UploadTypeOK
<1>7. \A q \in Requests : pc[q] \in PastStorage => upload[q] # u
  BY <1>1 DEF UploadInv, CompleterOwns
<1>8. CompleterOwns' /\ OneCompleter'
  <2>1. upload[r] = u /\ u \notin recorded
    BY <1>1 DEF UploadInv, Outcome, u
  <2>2. \A q \in Requests : upload[q] \in Uploads
    BY DEF UploadInv, UploadTypeOK
  <2>3. CompleterOwns'
    BY <1>1, <1>4, <1>6, <2>1, <2>2 DEF UploadInv, CompleterOwns, PastStorage
  <2>4. OneCompleter'
    BY <1>1, <1>6, <1>7, <2>1 DEF UploadInv, OneCompleter, PastStorage
  <2> QED  BY <2>3, <2>4
<1>9. OnlyRealParts' /\ ListIsComplete'
  BY <1>1, <1>6 DEF UploadInv, OnlyRealParts, ListIsComplete, PartsOf
<1>10. Outcome'
  BY <1>1, <1>4 DEF UploadInv, Outcome
<1> QED
  BY <1>2, <1>5, <1>8, <1>9, <1>10 DEF UploadInv

LEMMA InsertRowKeeps ==
  ASSUME UploadInv, NEW r \in Requests, InsertRow(r)
  PROVE  UploadInv'
<1> USE DEF InsertRow, Goto, storageVars
<1>1. UploadTypeOK'
  BY DEF UploadInv, UploadTypeOK, HandlerPc
<1>2. \A q \in Requests : pc'[q] = IF q = r THEN "publish" ELSE pc[q]
  BY DEF UploadInv, UploadTypeOK
<1>3. upload[r] \in Uploads /\ multipart[upload[r]] = "assembled" /\ published[upload[r]] = 0
  BY DEF UploadInv, UploadTypeOK, CompleterOwns, Outcome, PastStorage
<1>4. CompleterOwns'
  BY <1>2, <1>3 DEF UploadInv, CompleterOwns, OneCompleter, PastStorage
<1>5. OneCompleter'
  BY <1>2 DEF UploadInv, OneCompleter
<1>6. Outcome'
  BY <1>3 DEF UploadInv, Outcome
<1> QED
  BY <1>1, <1>2, <1>4, <1>5, <1>6
  DEF UploadInv, OnlyRealParts, ListIsComplete, AssembledIsComplete,
      ObjectIsWhatWasUploaded, PartsOf

LEMMA PublishEventKeeps ==
  ASSUME UploadInv, NEW r \in Requests, PublishEvent(r)
  PROVE  UploadInv'
<1> USE DEF PublishEvent, Goto, storageVars
<1>1. UploadTypeOK'
  <2>1. published' \in [Uploads -> Nat]
    <3>1. \/ published' = [published EXCEPT ![upload[r]] = published[upload[r]] + 1]
          \/ published' = published
      OBVIOUS
    <3>2. published \in [Uploads -> Nat] /\ upload[r] \in Uploads
      BY DEF UploadInv, UploadTypeOK
    <3> HIDE DEF PublishEvent
    <3> QED  BY <3>1, <3>2
  <2>2. faults' \in 0 .. MaxFaults
    BY FaultKeepsBudget DEF UploadInv, UploadTypeOK
  <2> QED  BY <2>1, <2>2 DEF UploadInv, UploadTypeOK, HandlerPc
<1>2. \A q \in Requests : pc'[q] = IF q = r THEN "end" ELSE pc[q]
  BY DEF UploadInv, UploadTypeOK
<1>3. upload[r] \in recorded /\ published[upload[r]] = 0 /\ upload[r] \in Uploads
  BY DEF UploadInv, UploadTypeOK, CompleterOwns
<1>4. \A w \in Uploads : published'[w] = published[w] \/ (w = upload[r] /\ published'[w] = 1)
  BY <1>3 DEF UploadInv, UploadTypeOK
<1>5. CompleterOwns'
  <2>1. \A q \in Requests : pc'[q] = "publish" => q # r /\ pc[q] = "publish" /\ upload[q] # upload[r]
    BY <1>2 DEF UploadInv, OneCompleter
  <2>2. \A q \in Requests : upload[q] \in Uploads
    BY DEF UploadInv, UploadTypeOK
  <2> QED  BY <1>2, <1>4, <2>1, <2>2 DEF UploadInv, CompleterOwns, PastStorage
<1>6. OneCompleter'
  BY <1>2 DEF UploadInv, OneCompleter
<1>7. Outcome'
  BY <1>3, <1>4 DEF UploadInv, Outcome
<1> QED
  BY <1>1, <1>2, <1>5, <1>6, <1>7
  DEF UploadInv, OnlyRealParts, ListIsComplete, AssembledIsComplete,
      ObjectIsWhatWasUploaded, PartsOf

LEMMA EndSessionKeeps ==
  ASSUME UploadInv, NEW r \in Requests, EndSession(r)
  PROVE  UploadInv'
<1>1. session' \in [Uploads -> {"none", "live", "ended"}]
  BY DEF EndSession, UploadInv, UploadTypeOK
<1>2. faults' \in 0 .. MaxFaults
  BY FaultKeepsBudget DEF EndSession, UploadInv, UploadTypeOK
<1> QED  BY <1>1, <1>2, RespondKeeps DEF EndSession

\* An error answer, also one for a call that failed.
LEMMA RefusalKeeps ==
  ASSUME UploadInv, NEW r \in Requests,
         ListRefused(r) \/ AssembleRefused(r) \/ HandlerStops(r)
  PROVE  UploadInv'
<1>1. session' = session /\ Respond(r) /\ UNCHANGED <<storageVars, presigned, outcomeVars>>
  BY DEF ListRefused, AssembleRefused, HandlerStops
<1>2. faults' \in 0 .. MaxFaults
  BY FaultKeepsBudget DEF ListRefused, AssembleRefused, HandlerStops, UploadInv, UploadTypeOK
<1> QED  BY <1>1, <1>2, RespondKeeps DEF UploadInv, UploadTypeOK

\* What a handler changes by itself: its own program counter and upload; one
\* recorded upload, its own; never the parts.
LEMMA HandlerStepShape ==
  ASSUME UploadTypeOK, NEW r \in Requests, ServeStep(r) \/ HandlerStops(r)
  PROVE  /\ \A q \in Requests : q # r => pc'[q] = pc[q] /\ upload'[q] = upload[q]
         /\ pc'[r] = "idle" \/ upload'[r] = upload[r]
         /\ pc[r] \notin Completing => pc'[r] = "idle" /\ pc[r] = "session"
         /\ pc'[r] # "session"
         /\ pc[r] \in {"publish", "end"} => pc'[r] \in {"end", "idle"}
         /\ pc'[r] \in {"publish", "end"} => pc[r] \in {"insert", "publish"}
         /\ \/ recorded' = recorded
            \/ recorded' = recorded \cup {upload[r]} /\ pc[r] = "insert" /\ pc'[r] = "publish"
         /\ UNCHANGED <<parts, presigned>>
         /\ faults' = faults \/ faults' = faults + 1
<1> USE DEF UploadTypeOK, HandlerPc, Completing, PastStorage, Goto, Fault, storageVars, outcomeVars
<1>1. CASE CreateSession(r)
  BY <1>1 DEF CreateSession, Respond
<1>2. CASE ListPage(r)
  BY <1>2 DEF ListPage
<1>3. CASE ListParts(r)
  BY <1>3 DEF ListParts
<1>4. CASE ListRefused(r)
  BY <1>4 DEF ListRefused, Respond
<1>5. CASE Assemble(r)
  BY <1>5 DEF Assemble
<1>6. CASE AssembleRefused(r)
  BY <1>6 DEF AssembleRefused, Respond
<1>7. CASE InsertRow(r)
  BY <1>7 DEF InsertRow
<1>8. CASE PublishEvent(r)
  BY <1>8 DEF PublishEvent
<1>9. CASE EndSession(r)
  BY <1>9 DEF EndSession, Respond
<1>10. CASE HandlerStops(r)
  BY <1>10 DEF HandlerStops, Respond
<1> QED
  BY <1>1, <1>2, <1>3, <1>4, <1>5, <1>6, <1>7, <1>8, <1>9, <1>10 DEF ServeStep

LEMMA UploadStepKeeps == UploadInv /\ [UploadNext]_uploadVars => UploadInv'
<1> SUFFICES ASSUME UploadInv, [UploadNext]_uploadVars PROVE UploadInv'
  OBVIOUS
<1>1. ASSUME NEW r \in Requests, ServeStep(r) \/ HandlerStops(r) PROVE UploadInv'
  BY <1>1, CreateSessionKeeps, ListPageKeeps, ListPartsKeeps, AssembleKeeps, InsertRowKeeps,
     PublishEventKeeps, EndSessionKeeps, RefusalKeeps DEF ServeStep
<1>2. ASSUME NEW r \in Requests, NEW u \in Uploads, CreateMultipart(r, u) \/ LoadSession(r, u)
      PROVE UploadInv'
  BY <1>2, CreateMultipartKeeps, LoadSessionKeeps
<1>3. ASSUME NEW u \in Uploads, NEW n \in AskedParts, PresignPart(u, n) PROVE UploadInv'
  BY <1>3, PresignPartKeeps
<1>4. ASSUME NEW u \in Uploads, NEW n \in AskedParts, NEW c \in Contents, PutPart(u, n, c)
      PROVE UploadInv'
  BY <1>4, PutPartKeeps
<1>5. ASSUME NEW u \in Uploads, ExpireSession(u) PROVE UploadInv'
  BY <1>5, ExpireSessionKeeps
<1>6. CASE UNCHANGED uploadVars
  BY <1>6
  DEF uploadVars, UploadInv, UploadTypeOK, OnlyRealParts, ListIsComplete, AssembledIsComplete,
      ObjectIsWhatWasUploaded, CompleterOwns, Outcome, OneCompleter, PartsOf
<1> QED
  BY <1>1, <1>2, <1>3, <1>4, <1>5, <1>6 DEF UploadNext

-----------------------------------------------------------------------------
(***************************************************************************)
(* The theorems.                                                           *)
(***************************************************************************)

LEMMA UploadInvariant == UploadSpec => []UploadInv
  BY UploadInitially, UploadStepKeeps, PTL DEF UploadSpec

\* The variables of the handlers, of Redis and of storage keep their types.
THEOREM UploadTypeCorrect == UploadSpec => []UploadTypeOK
<1>1. UploadInv => UploadTypeOK
  BY DEF UploadInv
<1> QED  BY <1>1, UploadInvariant, PTL

\* handleComplete compares the number of parts; what it assembles are parts
\* 1 .. PartCount all the same, whoever PUTs and completes at the same time.
THEOREM AssembledUploadsAreComplete == UploadSpec => []AssembledIsComplete
<1>1. UploadInv => AssembledIsComplete
  BY DEF UploadInv
<1> QED  BY <1>1, UploadInvariant, PTL

\* The ETags catch every PUT that overtakes a listing: the object is made of the
\* parts storage has.
THEOREM ObjectsAreWhatWasUploaded == UploadSpec => []ObjectIsWhatWasUploaded
<1>1. UploadInv => ObjectIsWhatWasUploaded
  BY DEF UploadInv
<1> QED  BY <1>1, UploadInvariant, PTL

\* However many handlers complete an upload, it is announced at most once, and
\* only with its row and its bytes in place.
THEOREM UploadsAreAnnouncedOnce == UploadSpec => []AnnouncedOnce
<1>1. UploadInv => AnnouncedOnce
  BY DEF UploadInv, Outcome, AnnouncedOnce
<1> QED  BY <1>1, UploadInvariant, PTL

\* One handler at most gets past storage with an upload.
THEOREM CompletersAreAlone == UploadSpec => []OneCompleter
<1>1. UploadInv => OneCompleter
  BY DEF UploadInv
<1> QED  BY <1>1, UploadInvariant, PTL

-----------------------------------------------------------------------------
(***************************************************************************)
(* Assembled uploads that nobody will announce: the handler past storage   *)
(* is gone. Nothing undoes the assembly, and a complete that is tried      *)
(* again stops at ListParts, so they stay.                                 *)
(***************************************************************************)

AboutToAnnounce(u) ==
    \E r \in Requests : pc[r] \in {"insert", "publish"} /\ upload[r] = u

Stranded ==
    {u \in Uploads :
        multipart[u] = "assembled" /\ published[u] = 0 /\ ~AboutToAnnounce(u)}

StrandedArePaidFor == IsFiniteSet(Stranded) /\ Cardinality(Stranded) <= faults

\* A set that does not grow, or by one element for one fault, stays paid for.
LEMMA StaysPaidFor ==
  ASSUME NEW S, NEW T, NEW m \in Nat, NEW n \in Nat,
         IsFiniteSet(S), Cardinality(S) <= m,
         \/ T \subseteq S /\ m <= n
         \/ n = m + 1 /\ \E x : T \subseteq S \cup {x}
  PROVE  IsFiniteSet(T) /\ Cardinality(T) <= n
<1>1. Cardinality(S) \in Nat
  BY FS_CardinalityType
<1>2. CASE T \subseteq S /\ m <= n
  <2>1. IsFiniteSet(T) /\ Cardinality(T) <= Cardinality(S)
    BY <1>2, FS_Subset
  <2> QED  BY <1>1, <1>2, <2>1, FS_CardinalityType
<1>3. ASSUME n = m + 1, NEW x, T \subseteq S \cup {x}
      PROVE  IsFiniteSet(T) /\ Cardinality(T) <= n
  <2>1. /\ IsFiniteSet(S \cup {x})
        /\ Cardinality(S \cup {x}) = IF x \in S THEN Cardinality(S) ELSE Cardinality(S) + 1
    BY FS_AddElement, Zenon
  <2>2. IsFiniteSet(T) /\ Cardinality(T) <= Cardinality(S \cup {x})
    BY <1>3, <2>1, FS_Subset
  <2>3. Cardinality(T) \in Nat
    BY <2>2, FS_CardinalityType
  <2> QED  BY <1>1, <1>3, <2>1, <2>2, <2>3
<1> QED  BY <1>2, <1>3

\* A handler announces what it has assembled, unless a call of its own fails.
LEMMA HandlerStrands ==
  ASSUME UploadInv, NEW r \in Requests, ServeStep(r) \/ HandlerStops(r)
  PROVE  \/ Stranded' \subseteq Stranded /\ faults' = faults
         \/ Stranded' \subseteq Stranded \cup {upload[r]} /\ faults' = faults + 1
<1> USE DEF UploadInv, UploadTypeOK
<1>1. /\ \A q \in Requests : q # r => pc'[q] = pc[q] /\ upload'[q] = upload[q]
      /\ upload[r] \in Uploads
      /\ faults \in Nat
  BY HandlerStepShape, UploadAssumption
<1>2. \A u \in Uploads : u # upload[r] =>
          /\ multipart'[u] = multipart[u]
          /\ published'[u] = published[u]
  BY DEF ServeStep, CreateSession, ListPage, ListParts, ListRefused, Assemble, AssembleRefused,
     InsertRow, PublishEvent, EndSession, HandlerStops, storageVars, outcomeVars
<1>3. \A u \in Uploads : u # upload[r] /\ AboutToAnnounce(u) => AboutToAnnounce(u)'
  BY <1>1 DEF AboutToAnnounce
<1>4. Stranded' \subseteq Stranded \cup {upload[r]}
  BY <1>2, <1>3 DEF Stranded
<1>5. CASE faults' = faults + 1
  BY <1>4, <1>5
<1>6. CASE faults' # faults + 1
  <2>1. faults' = faults
    BY <1>6, HandlerStepShape
  <2>2. upload[r] \in Stranded' => upload[r] \in Stranded
    <3>1. CASE \/ CreateSession(r) \/ ListPage(r) \/ ListParts(r) \/ ListRefused(r)
               \/ AssembleRefused(r) \/ EndSession(r)
      <4>1. UNCHANGED <<multipart, published>> /\ pc[r] \notin {"insert", "publish"}
        BY <3>1
        DEF CreateSession, ListPage, ListParts, ListRefused, AssembleRefused, EndSession,
            storageVars, outcomeVars
      <4>2. AboutToAnnounce(upload[r]) => \E q \in Requests : q # r /\ pc[q] \in {"insert", "publish"} /\ upload[q] = upload[r]
        BY <4>1 DEF AboutToAnnounce
      <4>3. AboutToAnnounce(upload[r]) => \E q \in Requests : pc'[q] \in {"insert", "publish"} /\ upload'[q] = upload[r]
        BY <1>1, <4>2
      <4> QED  BY <1>1, <4>1, <4>3 DEF Stranded, AboutToAnnounce
    <3>2. CASE Assemble(r) \/ InsertRow(r)
      <4>1. pc'[r] \in {"insert", "publish"} /\ upload'[r] = upload[r]
        BY <3>2 DEF Assemble, InsertRow, Goto
      <4> QED  BY <4>1 DEF Stranded, AboutToAnnounce
    <3>3. CASE PublishEvent(r)
      <4>1. published' = [published EXCEPT ![upload[r]] = @ + 1]
        BY <1>1, <1>6, <3>3 DEF PublishEvent, Fault
      <4>2. published'[upload[r]] = published[upload[r]] + 1 /\ published[upload[r]] \in Nat
        BY <1>1, <4>1
      <4> QED  BY <4>2 DEF Stranded
    <3>4. CASE HandlerStops(r)
      BY <1>6, <3>4 DEF HandlerStops, Fault
    <3> QED  BY <3>1, <3>2, <3>3, <3>4 DEF ServeStep
  <2> QED  BY <1>4, <2>1, <2>2
<1> QED  BY <1>5, <1>6

LEMMA StrandedStepKeeps ==
  ASSUME UploadInv, UploadInv', StrandedArePaidFor, [UploadNext]_uploadVars
  PROVE  StrandedArePaidFor'
<1>1. faults \in Nat /\ faults' \in Nat
  BY UploadAssumption DEF UploadInv, UploadTypeOK
<1>2. ASSUME Stranded' \subseteq Stranded, faults' = faults PROVE StrandedArePaidFor'
  BY <1>1, <1>2, StaysPaidFor DEF StrandedArePaidFor
<1>3. ASSUME NEW r \in Requests, ServeStep(r) \/ HandlerStops(r) PROVE StrandedArePaidFor'
  <2>1. CASE Stranded' \subseteq Stranded /\ faults' = faults
    BY <1>2, <2>1
  <2>2. CASE Stranded' \subseteq Stranded \cup {upload[r]} /\ faults' = faults + 1
    <3>1. IsFiniteSet(Stranded) /\ Cardinality(Stranded) <= faults
      BY DEF StrandedArePaidFor
    <3>2. IsFiniteSet(Stranded') /\ Cardinality(Stranded') <= faults'
      BY <1>1, <2>2, <3>1, StaysPaidFor
    <3> QED  BY <3>2 DEF StrandedArePaidFor
  <2> QED  BY <1>3, <2>1, <2>2, HandlerStrands
<1>4. ASSUME NEW r \in Requests, NEW u \in Uploads, CreateMultipart(r, u) \/ LoadSession(r, u)
      PROVE StrandedArePaidFor'
  <2>1. /\ pc[r] = "idle" /\ published' = published /\ faults' = faults
        /\ \A q \in Requests : q # r => pc'[q] = pc[q] /\ upload'[q] = upload[q]
        /\ \A w \in Uploads : multipart'[w] = "assembled" => multipart[w] = "assembled"
    BY <1>4 DEF CreateMultipart, LoadSession, Goto, storageVars, outcomeVars, UploadInv, UploadTypeOK
  <2>2. \A w : AboutToAnnounce(w) => AboutToAnnounce(w)'
    BY <2>1 DEF AboutToAnnounce
  <2>3. Stranded' \subseteq Stranded
    BY <2>1, <2>2 DEF Stranded
  <2> QED  BY <1>2, <2>1, <2>3
<1>5. ASSUME UNCHANGED <<multipart, published, pc, upload, faults>> PROVE StrandedArePaidFor'
  BY <1>2, <1>5 DEF Stranded, AboutToAnnounce
<1>6. ASSUME NEW u \in Uploads,
             \/ ExpireSession(u)
             \/ \E n \in AskedParts : PresignPart(u, n) \/ \E c \in Contents : PutPart(u, n, c)
      PROVE  StrandedArePaidFor'
  BY <1>5, <1>6 DEF ExpireSession, PresignPart, PutPart, storageVars, outcomeVars
<1>7. CASE UNCHANGED uploadVars
  BY <1>5, <1>7 DEF uploadVars
<1> QED  BY <1>3, <1>4, <1>6, <1>7 DEF UploadNext

\* Every upload that is assembled and not announced, and that no handler is about
\* to announce, is paid for by a fault of its own: races of several completes
\* and expiring sessions strand none. The safety half of AssembledIsAnnounced.
THEOREM StrandedUploadsArePaidFor == UploadSpec => []StrandedArePaidFor
<1>1. UploadInit => StrandedArePaidFor
  <2> SUFFICES ASSUME UploadInit PROVE StrandedArePaidFor
    OBVIOUS
  <2>1. Stranded = {} /\ faults = 0
    BY DEF UploadInit, Stranded
  <2> QED  BY <2>1, FS_EmptySet DEF StrandedArePaidFor
<1>2. UploadInv /\ UploadInv' /\ StrandedArePaidFor /\ [UploadNext]_uploadVars => StrandedArePaidFor'
  BY StrandedStepKeeps
<1> QED  BY <1>1, <1>2, UploadInvariant, PTL DEF UploadSpec

-----------------------------------------------------------------------------
(***************************************************************************)
(* The session of an upload, whoever calls the service: it begins once,    *)
(* after the multipart upload and before anything else is done with it.    *)
(***************************************************************************)

SessionBeginsOnce ==
    /\ \A u \in Uploads :
          /\ multipart[u] = "none" => session[u] = "none"
          /\ presigned[u] # {} => session[u] # "none"
    /\ \A r \in Requests :
          /\ pc[r] = "session" => session[upload[r]] = "none" /\ multipart[upload[r]] # "none"
          /\ pc[r] \in Completing => session[upload[r]] # "none"
    /\ \A r1, r2 \in Requests :
          r1 # r2 /\ pc[r1] = "session" /\ pc[r2] = "session" => upload[r1] # upload[r2]

-----------------------------------------------------------------------------
(***************************************************************************)
(* The invariant of the page.                                              *)
(***************************************************************************)

PageStateOK ==
    /\ page \in {"ready", "status", "create", "part", "complete"}
    /\ file \in Files
    /\ pending \in (Files \X Uploads) \cup {Nothing}
    /\ current \in Uploads
    /\ received \subseteq AskedParts
    /\ next \in Nat \ {0}
    /\ call \in Requests \cup {Nothing}
    /\ finished \subseteq Files

\* The upload the page works on is the one it remembers for the file.
WorksOnRemembered ==
    /\ page \in {"status", "part", "complete"} => pending = <<file, current>>
    /\ page # "ready" => file \notin finished

\* The page awaits an answer only where it has asked.
AwaitsOwnCall ==
    call # Nothing =>
        \/ page = "create" /\ pc[call] = "session"
        \/ page = "complete" /\ pc[call] \in Completing /\ upload[call] = current

\* All parts of u are slices of f, as many as there are.
MadeOf(u, f) == \A n \in AskedParts : parts[u][n] \in {f, Missing}

OneFilePerUpload ==
    /\ \A u \in Uploads : \E f \in Files : MadeOf(u, f)
    /\ pending # Nothing => MadeOf(pending[2], pending[1])

\* The awaited handler has recorded u; its answer will finish the file.
AboutToFinish(u) ==
    call # Nothing /\ pc[call] \in {"publish", "end"} /\ upload[call] = u

\* Uploads of f that are, or may become, videos the page does not know of.
Spent(f) ==
    {u \in Uploads :
        /\ MadeOf(u, f)
        /\ \/ u \in recorded /\ ~AboutToFinish(u)
           \/ \E r \in Requests : r # call /\ pc[r] \in Completing /\ upload[r] = u}

\* Each of them was paid for by a fault, or is the one that finished the file.
SpentIsPaidFor ==
    \A f \in Files :
        /\ IsFiniteSet(Spent(f))
        /\ Cardinality(Spent(f)) <= faults + (IF f \in finished THEN 1 ELSE 0)

PageInv ==
    /\ UploadInv
    /\ SessionBeginsOnce
    /\ PageStateOK
    /\ WorksOnRemembered
    /\ AwaitsOwnCall
    /\ OneFilePerUpload
    /\ SpentIsPaidFor

-----------------------------------------------------------------------------
(***************************************************************************)
(* Steps of the service.                                                   *)
(***************************************************************************)

LEMMA SessionInitially == UploadInit => SessionBeginsOnce
  BY DEF UploadInit, SessionBeginsOnce, Completing, PastStorage

LEMMA CreateMultipartSession ==
  ASSUME UploadInv, SessionBeginsOnce, NEW r \in Requests, NEW u \in Uploads,
         CreateMultipart(r, u)
  PROVE  SessionBeginsOnce'
  BY DEF UploadInv, UploadTypeOK, SessionBeginsOnce, CreateMultipart, Goto, outcomeVars,
     Completing, PastStorage

LEMMA HandlerStepSession ==
  ASSUME UploadTypeOK, SessionBeginsOnce, NEW r \in Requests, ServeStep(r) \/ HandlerStops(r)
  PROVE  SessionBeginsOnce'
<1>1. \A u \in Uploads :
         /\ session[u] # "none" => session'[u] # "none"
         /\ session[u] = "none" /\ session'[u] # "none" => u = upload[r] /\ pc[r] = "session"
         /\ multipart'[u] = "none" => multipart[u] = "none"
         /\ multipart[u] # "none" => multipart'[u] # "none"
  <2> USE DEF UploadTypeOK, SessionBeginsOnce, Goto, storageVars, Completing, PastStorage
  <2>1. CASE CreateSession(r)
    BY <2>1 DEF CreateSession, HandlerStops
  <2>2. CASE ListPage(r) \/ ListParts(r) \/ ListRefused(r) \/ AssembleRefused(r)
    BY <2>2 DEF ListPage, ListParts, ListRefused, AssembleRefused
  <2>3. CASE Assemble(r)
    BY <2>3 DEF Assemble
  <2>4. CASE InsertRow(r) \/ PublishEvent(r) \/ HandlerStops(r)
    BY <2>4 DEF InsertRow, PublishEvent, HandlerStops
  <2>5. CASE EndSession(r)
    BY <2>5 DEF EndSession
  <2> QED  BY <2>1, <2>2, <2>3, <2>4, <2>5 DEF ServeStep
<1>2. \A q \in Requests : upload[q] \in Uploads
  BY DEF UploadTypeOK
<1>3. \A q \in Requests : pc'[q] = "session" => q # r /\ pc[q] = "session" /\ upload'[q] = upload[q]
  BY HandlerStepShape
<1>4. \A q \in Requests : pc'[q] \in Completing =>
          pc[q] \in Completing /\ upload'[q] = upload[q]
  BY HandlerStepShape DEF Completing, PastStorage
<1>5. presigned' = presigned
  BY HandlerStepShape
<1>6. \A q \in Requests : pc'[q] = "session" => session'[upload[q]] = "none"
  BY <1>1, <1>2, <1>3 DEF SessionBeginsOnce
<1>7. \A u \in Uploads : multipart'[u] = "none" => session'[u] = "none"
  BY <1>1 DEF SessionBeginsOnce
<1> QED
  BY <1>1, <1>2, <1>3, <1>4, <1>5, <1>6, <1>7 DEF SessionBeginsOnce

LEMMA SessionStepKeeps ==
  ASSUME UploadInv, SessionBeginsOnce, [UploadNext]_uploadVars
  PROVE  SessionBeginsOnce'
<1> USE DEF UploadInv
<1>1. ASSUME NEW r \in Requests, ServeStep(r) \/ HandlerStops(r) PROVE SessionBeginsOnce'
  BY <1>1, HandlerStepSession
<1>2. ASSUME NEW r \in Requests, NEW u \in Uploads, CreateMultipart(r, u) PROVE SessionBeginsOnce'
  BY <1>2, CreateMultipartSession
<1>3. ASSUME NEW r \in Requests, NEW u \in Uploads, LoadSession(r, u) PROVE SessionBeginsOnce'
  BY <1>3
  DEF UploadTypeOK, SessionBeginsOnce, LoadSession, Goto, storageVars, Completing, PastStorage
<1>4. ASSUME NEW u \in Uploads, NEW n \in AskedParts, PresignPart(u, n) PROVE SessionBeginsOnce'
  BY <1>4 DEF UploadTypeOK, SessionBeginsOnce, PresignPart, storageVars
<1>5. ASSUME NEW u \in Uploads, NEW n \in AskedParts, NEW c \in Contents, PutPart(u, n, c)
      PROVE SessionBeginsOnce'
  BY <1>5 DEF SessionBeginsOnce, PutPart
<1>6. ASSUME NEW u \in Uploads, ExpireSession(u) PROVE SessionBeginsOnce'
  BY <1>6 DEF UploadTypeOK, SessionBeginsOnce, ExpireSession, storageVars
<1>7. CASE UNCHANGED uploadVars
  BY <1>7 DEF uploadVars, SessionBeginsOnce
<1> QED
  BY <1>1, <1>2, <1>3, <1>4, <1>5, <1>6, <1>7 DEF UploadNext

\* Every step of the page and of the handlers is one of the service, or none,
\* or a call that is lost before it reaches the service.
OnlyFaults == Fault /\ UNCHANGED <<session, storageVars, presigned, outcomeVars, pc, upload, listed>>

LEMMA OnlyFaultsKeeps ==
  ASSUME UploadInv, SessionBeginsOnce, OnlyFaults
  PROVE  UploadInv' /\ SessionBeginsOnce'
<1>1. faults' \in 0 .. MaxFaults
  BY FaultKeepsBudget DEF OnlyFaults, UploadInv
<1> QED
  BY <1>1
  DEF OnlyFaults, storageVars, outcomeVars, UploadInv, UploadTypeOK, OnlyRealParts,
      ListIsComplete, AssembledIsComplete, ObjectIsWhatWasUploaded, CompleterOwns, Outcome,
      OneCompleter, PartsOf, SessionBeginsOnce

LEMMA ServiceKeeps ==
  ASSUME UploadInv, SessionBeginsOnce, [UploadNext]_uploadVars \/ OnlyFaults
  PROVE  UploadInv' /\ SessionBeginsOnce'
  BY UploadStepKeeps, SessionStepKeeps, OnlyFaultsKeeps

-----------------------------------------------------------------------------
(***************************************************************************)
(* Counting the uploads spent on a file.                                   *)
(***************************************************************************)

LEMMA SpentShrinks ==
  ASSUME SpentIsPaidFor, faults \in Nat, faults' \in Nat, NEW f \in Files,
         Spent(f)' \subseteq Spent(f), faults <= faults', f \in finished => f \in finished'
  PROVE  /\ IsFiniteSet(Spent(f)')
         /\ Cardinality(Spent(f)') <= faults' + (IF f \in finished' THEN 1 ELSE 0)
<1>1. IsFiniteSet(Spent(f)) /\ Cardinality(Spent(f)) <= faults + (IF f \in finished THEN 1 ELSE 0)
  BY DEF SpentIsPaidFor
<1>2. /\ IsFiniteSet(Spent(f)')
      /\ Cardinality(Spent(f)') <= Cardinality(Spent(f))
  BY <1>1, FS_Subset
<1>3. Cardinality(Spent(f)) \in Nat /\ Cardinality(Spent(f)') \in Nat
  BY <1>1, <1>2, FS_CardinalityType
<1> HIDE DEF Spent
<1> QED  BY <1>1, <1>2, <1>3

LEMMA SpentGrowsByOne ==
  ASSUME SpentIsPaidFor, faults \in Nat, faults' \in Nat, NEW f \in Files, NEW u,
         Spent(f)' \subseteq Spent(f) \cup {u},
         \/ faults' = faults + 1 /\ (f \in finished => f \in finished')
         \/ faults <= faults' /\ f \notin finished /\ f \in finished'
  PROVE  /\ IsFiniteSet(Spent(f)')
         /\ Cardinality(Spent(f)') <= faults' + (IF f \in finished' THEN 1 ELSE 0)
<1>1. IsFiniteSet(Spent(f)) /\ Cardinality(Spent(f)) <= faults + (IF f \in finished THEN 1 ELSE 0)
  BY DEF SpentIsPaidFor
<1>2. /\ IsFiniteSet(Spent(f) \cup {u})
      /\ Cardinality(Spent(f) \cup {u}) <= Cardinality(Spent(f)) + 1
  <2>1. Cardinality(Spent(f)) \in Nat
    BY <1>1, FS_CardinalityType
  <2>2. /\ IsFiniteSet(Spent(f) \cup {u})
        /\ Cardinality(Spent(f) \cup {u}) =
              IF u \in Spent(f) THEN Cardinality(Spent(f)) ELSE Cardinality(Spent(f)) + 1
    BY <1>1, FS_AddElement, Zenon
  <2> QED  BY <2>1, <2>2
<1>3. /\ IsFiniteSet(Spent(f)')
      /\ Cardinality(Spent(f)') <= Cardinality(Spent(f) \cup {u})
  BY <1>2, FS_Subset
<1>4. /\ Cardinality(Spent(f)) \in Nat
      /\ Cardinality(Spent(f)') \in Nat
      /\ Cardinality(Spent(f) \cup {u}) \in Nat
  BY <1>1, <1>2, <1>3, FS_CardinalityType
<1> HIDE DEF Spent
<1> QED  BY <1>1, <1>2, <1>3, <1>4

\* What neither finishes a file nor takes the page's answer away spends nothing.
LEMMA NothingSpent ==
  ASSUME SpentIsPaidFor, faults \in Nat, faults' \in Nat, faults <= faults',
         finished \subseteq finished',
         \A f \in Files : Spent(f)' \subseteq Spent(f)
  PROVE  SpentIsPaidFor'
<1> SUFFICES ASSUME NEW f \in Files
             PROVE  /\ IsFiniteSet(Spent(f)')
                    /\ Cardinality(Spent(f)') <= faults' + (IF f \in finished' THEN 1 ELSE 0)
  BY DEF SpentIsPaidFor
<1> QED  BY SpentShrinks

LEMMA FaultSpent ==
  ASSUME SpentIsPaidFor, faults \in Nat, faults' = faults + 1, finished' = finished, NEW u,
         \A f \in Files : Spent(f)' \subseteq Spent(f) \cup {u}
  PROVE  SpentIsPaidFor'
<1> SUFFICES ASSUME NEW f \in Files
             PROVE  /\ IsFiniteSet(Spent(f)')
                    /\ Cardinality(Spent(f)') <= faults' + (IF f \in finished' THEN 1 ELSE 0)
  BY DEF SpentIsPaidFor
<1> faults' \in Nat
  OBVIOUS
<1> QED  BY SpentGrowsByOne

-----------------------------------------------------------------------------
(***************************************************************************)
(* The page's steps, one lemma each.                                       *)
(***************************************************************************)

LEMMA FaultsAreNat == UploadInv => faults \in Nat /\ (Fault => faults' = faults + 1)
  BY UploadAssumption DEF UploadInv, UploadTypeOK, Fault

LEMMA NothingIsNoCall == Nothing \notin Requests /\ Nothing \notin Files \X Uploads
  BY PageAssumption DEF Files

\* While it awaits no answer, the page does as it likes with its own variables:
\* nothing is spent.
LEMMA PageAloneSpends ==
  ASSUME PageInv, UNCHANGED uploadVars \/ OnlyFaults, UNCHANGED <<call, finished>>
  PROVE  SpentIsPaidFor'
<1>1. faults \in Nat /\ faults' \in Nat /\ faults <= faults'
  BY FaultsAreNat DEF PageInv, OnlyFaults, uploadVars
<1>2. UNCHANGED <<parts, recorded, pc, upload, call>>
  BY DEF OnlyFaults, uploadVars, storageVars, outcomeVars
<1>3. \A f \in Files : Spent(f)' = Spent(f)
  BY <1>2 DEF Spent, MadeOf, AboutToFinish
<1> QED  BY <1>1, <1>3, NothingSpent DEF PageInv

LEMMA ClickKeeps ==
  ASSUME PageInv, NEW f \in Files, Click(f)
  PROVE  PageInv'
<1> USE DEF PageInv
<1>1. UploadInv' /\ SessionBeginsOnce'
  BY ServiceKeeps DEF Click
<1>2. PageStateOK' /\ WorksOnRemembered'
  BY DEF Click, Remembered, PageStateOK, WorksOnRemembered
<1>3. AwaitsOwnCall'
  BY DEF Click, AwaitsOwnCall
<1>4. OneFilePerUpload'
  BY DEF Click, uploadVars, OneFilePerUpload, MadeOf
<1>5. SpentIsPaidFor'
  BY PageAloneSpends DEF Click
<1> QED  BY <1>1, <1>2, <1>3, <1>4, <1>5

\* The page goes on to the loop, to a new upload, or gives up without a fault.
LEMMA PageMovesKeep ==
  ASSUME PageInv,
         \/ StatusOk \/ StatusNotOk \/ SkipPart \/ PartRefused \/ CompleteNotFound
  PROVE  PageInv'
<1> USE DEF PageInv
<1>1. UNCHANGED uploadVars \/ OnlyFaults
  BY DEF StatusOk, StatusNotOk, SkipPart, PartRefused, CompleteNotFound, OnlyFaults
<1>2. UploadInv' /\ SessionBeginsOnce'
  BY <1>1, ServiceKeeps
<1>3. call = Nothing
  BY DEF AwaitsOwnCall, StatusOk, StatusNotOk, SkipPart, PartRefused, Sends, CompleteNotFound
<1>4. UNCHANGED <<call, finished>>
  BY <1>3 DEF StatusOk, StatusNotOk, SkipPart, PartRefused, CompleteNotFound, StartsLoop, Stops
<1>5. PageStateOK'
  <2>1. (CHOOSE f \in Files : TRUE) \in Files /\ SomeUpload \in Uploads
    BY PageAssumption, AnyUpload DEF SomeUpload
  <2>2. PartsOf(parts[current]) \subseteq AskedParts
    BY DEF PartsOf
  <2> QED
    BY <2>1, <2>2
    DEF PageStateOK, StatusOk, StatusNotOk, SkipPart, PartRefused, CompleteNotFound,
        StartsLoop, Stops
<1>6. WorksOnRemembered'
  BY DEF WorksOnRemembered, StatusOk, StatusNotOk, SkipPart, PartRefused, CompleteNotFound,
         StartsLoop, Stops
<1>7. AwaitsOwnCall'
  BY <1>3, <1>4 DEF AwaitsOwnCall
<1>8. OneFilePerUpload'
  <2>1. parts' = parts
    BY <1>1 DEF uploadVars, OnlyFaults, storageVars
  <2>2. pending' \in {pending, Nothing}
    BY DEF StatusOk, StatusNotOk, SkipPart, PartRefused, CompleteNotFound, StartsLoop, Stops
  <2> QED  BY <2>1, <2>2 DEF OneFilePerUpload, MadeOf
<1>9. SpentIsPaidFor'
  BY <1>1, <1>4, PageAloneSpends
<1> QED  BY <1>2, <1>5, <1>6, <1>7, <1>8, <1>9

LEMMA AskCreateKeeps ==
  ASSUME PageInv, NEW r \in Requests, AskCreate(r)
  PROVE  PageInv'
<1> USE DEF PageInv
<1> DEFINE u == CHOOSE u \in Fresh : TRUE
<1>1. u \in Uploads /\ CreateMultipart(r, u)
  BY DEF AskCreate, Fresh
<1> HIDE DEF u
<1>2. UploadInv' /\ SessionBeginsOnce'
  BY <1>1, ServiceKeeps DEF UploadNext
<1>3. /\ page = "create" /\ call = Nothing /\ call' = r
      /\ UNCHANGED <<page, file, pending, current, received, next, finished>>
  BY DEF AskCreate
<1>4. /\ pc[r] = "idle" /\ pc' = [pc EXCEPT ![r] = "session"]
      /\ upload' = [upload EXCEPT ![r] = u]
      /\ UNCHANGED <<parts, recorded, faults>>
  BY <1>1 DEF CreateMultipart, Goto, outcomeVars
<1>5. PageStateOK' /\ WorksOnRemembered'
  BY <1>3 DEF PageStateOK, WorksOnRemembered
<1>6. pc'[r] = "session" /\ \A q \in Requests : q # r => pc'[q] = pc[q] /\ upload'[q] = upload[q]
  BY <1>4 DEF UploadInv, UploadTypeOK
<1>7. AwaitsOwnCall'
  BY <1>3, <1>6 DEF AwaitsOwnCall
<1>8. OneFilePerUpload'
  BY <1>3, <1>4 DEF OneFilePerUpload, MadeOf
<1>9. SpentIsPaidFor'
  <2>1. \A f \in Files : Spent(f)' \subseteq Spent(f)
    BY <1>3, <1>4, <1>6, NothingIsNoCall
    DEF Spent, MadeOf, AboutToFinish, Completing, PastStorage
  <2> QED  BY <2>1, <1>3, <1>4, FaultsAreNat, NothingSpent
<1> QED  BY <1>2, <1>5, <1>7, <1>8, <1>9

\* The upload that has just been created holds no part yet.
LEMMA CreatedKeeps ==
  ASSUME PageInv, NEW r \in Requests, Created(r)
  PROVE  PageInv'
<1> USE DEF PageInv
<1>1. UploadInv' /\ SessionBeginsOnce'
  BY ServiceKeeps DEF Created, UploadNext, ServeStep
<1>2. /\ call = r /\ call' = Nothing /\ pc[r] = "session" /\ page = "create"
      /\ page' = "part" /\ pending' = <<file, upload[r]>> /\ current' = upload[r]
      /\ received' = {} /\ next' = 1 /\ UNCHANGED <<file, finished>>
  BY NothingIsNoCall DEF Created, StartsLoop, CreateSession, AwaitsOwnCall, Completing, PastStorage
<1>3. upload[r] \in Uploads
  BY DEF UploadInv, UploadTypeOK
<1>4. PageStateOK' /\ WorksOnRemembered'
  BY <1>2, <1>3 DEF PageStateOK, WorksOnRemembered
<1>5. AwaitsOwnCall'
  BY <1>2 DEF AwaitsOwnCall
<1>6. UNCHANGED <<parts, recorded, faults>>
  BY DEF Created, CreateSession, storageVars, outcomeVars
<1>7. PartsOf(parts[upload[r]]) = {}
  BY <1>2, <1>3 DEF SessionBeginsOnce, UploadInv, OnlyRealParts
<1>8. OneFilePerUpload'
  BY <1>2, <1>6, <1>7 DEF OneFilePerUpload, MadeOf, PartsOf
<1>9. SpentIsPaidFor'
  <2>1. \A q \in Requests : q # r => pc'[q] = pc[q] /\ upload'[q] = upload[q]
    BY HandlerStepShape DEF Created, ServeStep, UploadInv
  <2>2. pc'[r] = "idle"
    BY <1>2, HandlerStepShape DEF Created, ServeStep, UploadInv, Completing, PastStorage
  <2>3. \A f \in Files : Spent(f)' \subseteq Spent(f)
    BY <1>2, <1>6, <2>1, <2>2 DEF Spent, MadeOf, AboutToFinish, Completing, PastStorage
  <2> QED  BY <1>2, <1>6, <2>3, FaultsAreNat, NothingSpent
<1> QED  BY <1>1, <1>4, <1>5, <1>8, <1>9

LEMMA AskPresignKeeps ==
  ASSUME PageInv, AskPresign
  PROVE  PageInv'
<1> USE DEF PageInv
<1>1. next \in AskedParts /\ current \in Uploads /\ PresignPart(current, next)
  BY UploadAssumption DEF AskPresign, Sends, PageStateOK, AskedParts
<1>2. UploadInv' /\ SessionBeginsOnce'
  BY <1>1, ServiceKeeps DEF UploadNext
<1>3. UNCHANGED pageVars /\ UNCHANGED <<parts, recorded, pc, upload, faults>>
  BY DEF AskPresign, PresignPart, storageVars, outcomeVars
<1>4. PageStateOK' /\ WorksOnRemembered' /\ AwaitsOwnCall' /\ OneFilePerUpload'
  BY <1>3 DEF pageVars, PageStateOK, WorksOnRemembered, AwaitsOwnCall, OneFilePerUpload, MadeOf
<1>5. SpentIsPaidFor'
  <2>1. \A f \in Files : Spent(f)' = Spent(f)
    BY <1>3 DEF pageVars, Spent, MadeOf, AboutToFinish
  <2> QED  BY <1>3, <2>1, FaultsAreNat, NothingSpent DEF pageVars
<1> QED  BY <1>2, <1>4, <1>5

\* The slice goes to the upload that is remembered for its file.
LEMMA SendPartKeeps ==
  ASSUME PageInv, SendPart
  PROVE  PageInv'
<1> USE DEF PageInv
<1>1. /\ next \in AskedParts /\ current \in Uploads /\ file \in Files
      /\ PutPart(current, next, file)
  BY UploadAssumption DEF SendPart, Sends, PageStateOK, AskedParts
<1>2. UploadInv' /\ SessionBeginsOnce'
  BY <1>1, ServiceKeeps DEF UploadNext, Files
<1>3. /\ page = "part" /\ next' = next + 1
      /\ UNCHANGED <<page, file, pending, current, received, call, finished>>
  BY DEF SendPart, Sends
<1>4. UNCHANGED <<recorded, pc, upload, faults>>
  BY <1>1 DEF PutPart, outcomeVars
<1>5. PageStateOK' /\ WorksOnRemembered' /\ AwaitsOwnCall'
  BY <1>3, <1>4 DEF PageStateOK, WorksOnRemembered, AwaitsOwnCall
<1>6. \A u \in Uploads, n \in AskedParts :
          parts'[u][n] = IF u = current /\ n = next THEN file ELSE parts[u][n]
  BY <1>1 DEF PutPart, UploadInv, UploadTypeOK
<1>7. pending = <<file, current>> /\ MadeOf(current, file)
  BY <1>3, NothingIsNoCall, <1>1 DEF WorksOnRemembered, OneFilePerUpload
<1>8. \A u \in Uploads, f \in Files : MadeOf(u, f)' => MadeOf(u, f)
  <2>1. Missing \notin Files
    BY UploadAssumption DEF Files
  <2> QED  BY <1>1, <1>6, <1>7, <2>1 DEF MadeOf
<1>9. OneFilePerUpload'
  <2>1. MadeOf(current, file)'
    BY <1>1, <1>3, <1>6, <1>7 DEF MadeOf
  <2>2. \A u \in Uploads, f \in Files : u # current /\ MadeOf(u, f) => MadeOf(u, f)'
    BY <1>6 DEF MadeOf
  <2>3. \A u \in Uploads : \E f \in Files : MadeOf(u, f)'
    BY <1>1, <1>3, <2>1, <2>2 DEF OneFilePerUpload
  <2> QED  BY <1>3, <1>7, <2>1, <2>3 DEF OneFilePerUpload
<1>10. SpentIsPaidFor'
  <2>1. \A f \in Files : Spent(f)' \subseteq Spent(f)
    BY <1>3, <1>4, <1>8 DEF Spent, AboutToFinish
  <2> QED  BY <1>3, <1>4, <2>1, FaultsAreNat, NothingSpent
<1> QED  BY <1>2, <1>5, <1>9, <1>10

LEMMA AskCompleteKeeps ==
  ASSUME PageInv, NEW r \in Requests, AskComplete(r)
  PROVE  PageInv'
<1> USE DEF PageInv
<1>1. current \in Uploads /\ LoadSession(r, current)
  BY DEF AskComplete, PageStateOK
<1>2. UploadInv' /\ SessionBeginsOnce'
  BY <1>1, ServiceKeeps DEF UploadNext
<1>3. /\ page = "part" /\ call = Nothing /\ call' = r /\ page' = "complete"
      /\ UNCHANGED <<file, pending, current, received, next, finished>>
  BY DEF AskComplete, AwaitsOwnCall
<1>4. /\ pc[r] = "idle" /\ pc' = [pc EXCEPT ![r] = "list"]
      /\ upload' = [upload EXCEPT ![r] = current]
      /\ UNCHANGED <<parts, recorded, faults>>
  BY <1>1 DEF LoadSession, Goto, storageVars, outcomeVars
<1>5. PageStateOK' /\ WorksOnRemembered'
  BY <1>3 DEF PageStateOK, WorksOnRemembered
<1>6. /\ pc'[r] = "list" /\ upload'[r] = current
      /\ \A q \in Requests : q # r => pc'[q] = pc[q] /\ upload'[q] = upload[q]
  BY <1>4 DEF UploadInv, UploadTypeOK
<1>7. AwaitsOwnCall'
  BY <1>3, <1>6 DEF AwaitsOwnCall, Completing
<1>8. OneFilePerUpload'
  BY <1>3, <1>4 DEF OneFilePerUpload, MadeOf
<1>9. SpentIsPaidFor'
  <2>1. \A f \in Files : Spent(f)' \subseteq Spent(f)
    BY <1>3, <1>4, <1>6, NothingIsNoCall
    DEF Spent, MadeOf, AboutToFinish, Completing, PastStorage
  <2> QED  BY <2>1, <1>3, <1>4, FaultsAreNat, NothingSpent
<1> QED  BY <1>2, <1>5, <1>7, <1>8, <1>9

\* An assembled upload has all of its parts, so it is made of one file only.
LEMMA AssembledOfOneFile ==
  ASSUME UploadInv, NEW u \in Uploads, multipart[u] = "assembled",
         NEW f \in Files, MadeOf(u, f)
  PROVE  /\ \A n \in 1 .. PartCount : object[u][n] = f
         /\ \A g \in Files : MadeOf(u, g) => g = f
<1>1. ASSUME NEW n \in 1 .. PartCount
      PROVE  parts[u][n] = object[u][n] /\ parts[u][n] # Missing /\ n \in AskedParts
  BY UploadAssumption
  DEF UploadInv, AssembledIsComplete, ObjectIsWhatWasUploaded, PartsOf, AskedParts
<1>2. 1 \in 1 .. PartCount
  BY UploadAssumption
<1> QED  BY <1>1, <1>2 DEF MadeOf

LEMMA StopsKeepsTypes ==
  ASSUME PageStateOK, NEW remembered \in {pending, Nothing}, Stops(remembered),
         finished' \subseteq Files
  PROVE  PageStateOK' /\ WorksOnRemembered' /\ AwaitsOwnCall'
<1>1. (CHOOSE f \in Files : TRUE) \in Files /\ SomeUpload \in Uploads
  BY PageAssumption, AnyUpload DEF SomeUpload
<1>2. PageStateOK'
  BY <1>1 DEF PageStateOK, Stops
<1> QED  BY <1>2 DEF Stops, WorksOnRemembered, AwaitsOwnCall

\* The answer that finishes the file: its video now counts, once.
LEMMA CompletedKeeps ==
  ASSUME PageInv, NEW r \in Requests, Completed(r)
  PROVE  PageInv'
<1> USE DEF PageInv
<1>1. UploadInv' /\ SessionBeginsOnce'
  BY ServiceKeeps DEF Completed, UploadNext, ServeStep
<1>2. call = r /\ pc[r] = "end" /\ page = "complete" /\ upload[r] = current
  BY NothingIsNoCall DEF Completed, EndSession, AwaitsOwnCall
<1>3. Stops(Nothing) /\ finished' = finished \cup {file} /\ file \in Files /\ current \in Uploads
  BY DEF Completed, PageStateOK
<1>4. PageStateOK' /\ WorksOnRemembered' /\ AwaitsOwnCall'
  BY <1>3, StopsKeepsTypes DEF PageStateOK
<1>5. UNCHANGED <<parts, recorded>>
  BY DEF Completed, EndSession, storageVars, outcomeVars
<1>6. OneFilePerUpload'
  BY <1>3, <1>5 DEF Stops, OneFilePerUpload, MadeOf
<1>7. /\ \A q \in Requests : q # r => pc'[q] = pc[q] /\ upload'[q] = upload[q]
      /\ pc'[r] = "idle"
      /\ faults' \in {faults, faults + 1} /\ faults \in Nat
  BY <1>2, HandlerStepShape, FaultsAreNat DEF Completed, ServeStep, UploadInv
<1>8. \A f \in Files : Spent(f)' \subseteq Spent(f) \cup {current}
  BY <1>2, <1>3, <1>5, <1>7, NothingIsNoCall
  DEF Stops, Spent, MadeOf, AboutToFinish, Completing, PastStorage
<1>9. \A f \in Files : f # file => ~MadeOf(current, f)
  <2>1. MadeOf(current, file)
    BY <1>2, <1>3, NothingIsNoCall DEF WorksOnRemembered, OneFilePerUpload
  <2>2. multipart[current] = "assembled"
    BY <1>2 DEF UploadInv, CompleterOwns, PastStorage
  <2> QED  BY <1>3, <2>1, <2>2, AssembledOfOneFile
<1>10. SpentIsPaidFor'
  <2> SUFFICES ASSUME NEW f \in Files
               PROVE  /\ IsFiniteSet(Spent(f)')
                      /\ Cardinality(Spent(f)') <= faults' + (IF f \in finished' THEN 1 ELSE 0)
    BY DEF SpentIsPaidFor
  <2>1. CASE f = file
    <3>1. f \notin finished /\ f \in finished'
      BY <1>2, <1>3, <2>1 DEF WorksOnRemembered
    <3> QED  BY <1>7, <1>8, <3>1, SpentGrowsByOne
  <2>2. CASE f # file
    <3> PICK u \in Uploads : u = current
      BY <1>3
    <3>1. ~MadeOf(u, f)'
      BY <1>5, <1>9, <2>2 DEF MadeOf
    <3>2. u \notin Spent(f)'
      BY <3>1 DEF Spent
    <3>3. Spent(f)' \subseteq Spent(f)
      BY <1>8, <3>2
    <3> QED  BY <1>3, <1>7, <3>3, SpentShrinks
  <2> QED  BY <2>1, <2>2
<1> QED  BY <1>1, <1>4, <1>6, <1>10

\* An error answer leaves what other handlers do; a lost one, a fault, may leave
\* a handler that goes on.
LEMMA RefusedKeeps ==
  ASSUME PageInv, NEW r \in Requests, Refused(r)
  PROVE  PageInv'
<1> USE DEF PageInv
<1>1. call = r /\ Stops(pending) /\ finished' = finished
  BY DEF Refused
<1>2. UploadInv' /\ SessionBeginsOnce'
  BY ServiceKeeps DEF Refused, UploadNext, ServeStep
<1>3. PageStateOK' /\ WorksOnRemembered' /\ AwaitsOwnCall'
  BY <1>1, StopsKeepsTypes DEF PageStateOK
<1>4. /\ UNCHANGED <<parts, recorded>>
      /\ \A q \in Requests : q # r => pc'[q] = pc[q] /\ upload'[q] = upload[q]
      /\ pc'[r] = "idle"
  <2>1. Respond(r) /\ UNCHANGED <<parts, recorded>>
    BY DEF Refused, ListRefused, AssembleRefused, HandlerStops, storageVars, outcomeVars
  <2> QED  BY <2>1 DEF Respond, Goto, UploadInv, UploadTypeOK
<1>5. OneFilePerUpload'
  BY <1>1, <1>4 DEF Stops, OneFilePerUpload, MadeOf
<1>6. CASE ListRefused(r) \/ AssembleRefused(r)
  <2>1. pc[r] \in {"list", "assemble"} /\ faults' = faults
    BY <1>6 DEF ListRefused, AssembleRefused
  <2>2. \A f \in Files : Spent(f)' \subseteq Spent(f)
    BY <1>1, <1>4, <2>1, NothingIsNoCall
    DEF Stops, Spent, MadeOf, AboutToFinish, Completing, PastStorage
  <2>3. SpentIsPaidFor'
    BY <1>1, <2>1, <2>2, FaultsAreNat, NothingSpent
  <2> QED  BY <1>2, <1>3, <1>5, <2>3
<1>7. CASE HandlerStops(r)
  <2>1. faults \in Nat /\ faults' = faults + 1
    BY <1>7, FaultsAreNat DEF HandlerStops
  <2>2. \A f \in Files : Spent(f)' \subseteq Spent(f) \cup {upload[r]}
    BY <1>1, <1>4, NothingIsNoCall
    DEF Stops, Spent, MadeOf, AboutToFinish, Completing, PastStorage
  <2>3. SpentIsPaidFor'
    BY <1>1, <2>1, <2>2, FaultSpent
  <2> QED  BY <1>2, <1>3, <1>5, <2>3
<1> QED  BY <1>6, <1>7 DEF Refused

LEMMA HandlerWorksKeeps ==
  ASSUME PageInv, NEW r \in Requests, HandlerWorks(r)
  PROVE  PageInv'
<1> USE DEF PageInv
<1>1. ServeStep(r) \/ HandlerStops(r)
  BY DEF HandlerWorks, ServeStep
<1>2. UploadInv' /\ SessionBeginsOnce'
  BY <1>1, ServiceKeeps DEF UploadNext
<1>3. UNCHANGED pageVars
  BY DEF HandlerWorks
<1>4. /\ \A q \in Requests : q # r => pc'[q] = pc[q] /\ upload'[q] = upload[q]
      /\ pc'[r] = "idle" \/ upload'[r] = upload[r]
      /\ pc[r] \notin Completing => pc'[r] = "idle" /\ pc[r] = "session"
      /\ pc[r] \in {"publish", "end"} => pc'[r] \in {"end", "idle"}
      /\ \/ recorded' = recorded
         \/ recorded' = recorded \cup {upload[r]} /\ pc[r] = "insert" /\ pc'[r] = "publish"
      /\ parts' = parts
      /\ faults' = faults \/ faults' = faults + 1
  BY <1>1, HandlerStepShape DEF UploadInv
<1>5. call = r =>
         /\ pc[r] \in Completing /\ pc'[r] \in Completing
         /\ pc[r] \in {"publish", "end"} => pc'[r] = "end"
         /\ upload'[r] = upload[r]
  BY DEF HandlerWorks, ListPage, ListParts, Assemble, InsertRow, PublishEvent, Goto,
         Completing, PastStorage, UploadInv, UploadTypeOK
<1>6. PageStateOK' /\ WorksOnRemembered'
  BY <1>3 DEF pageVars, PageStateOK, WorksOnRemembered
<1>7. AwaitsOwnCall'
  <2>1. call \in Requests \cup {Nothing}
    BY DEF PageStateOK
  <2> QED
    BY <1>3, <1>4, <1>5, <2>1 DEF pageVars, AwaitsOwnCall, Completing, PastStorage
<1>8. OneFilePerUpload'
  BY <1>3, <1>4 DEF pageVars, OneFilePerUpload, MadeOf
<1>9. SpentIsPaidFor'
  <2>1. call' = call /\ call \in Requests \cup {Nothing}
    BY <1>3 DEF pageVars, PageStateOK
  <2>2. \A u \in Uploads : AboutToFinish(u) => AboutToFinish(u)'
    BY <1>4, <1>5, <2>1, NothingIsNoCall DEF AboutToFinish
  <2>3. recorded' # recorded => AboutToFinish(upload[r])' \/ (r # call /\ pc[r] \in Completing)
    BY <1>4, <1>5, <2>1, NothingIsNoCall DEF AboutToFinish, Completing, PastStorage
  <2>4. \A q \in Requests : pc'[q] \in Completing => pc[q] \in Completing /\ upload'[q] = upload[q]
    BY <1>4 DEF Completing, PastStorage
  <2>5. \A f \in Files : Spent(f)' \subseteq Spent(f)
    BY <1>4, <2>1, <2>2, <2>3, <2>4 DEF Spent, MadeOf
  <2>6. faults \in Nat
    BY FaultsAreNat
  <2> QED  BY <1>3, <1>4, <2>5, <2>6, NothingSpent DEF pageVars
<1> QED  BY <1>2, <1>6, <1>7, <1>8, <1>9

LEMMA GiveUpKeeps ==
  ASSUME PageInv, GiveUp
  PROVE  PageInv'
<1> USE DEF PageInv
<1>1. OnlyFaults /\ Stops(pending) /\ finished' = finished
  BY DEF GiveUp, OnlyFaults
<1>2. UploadInv' /\ SessionBeginsOnce'
  BY <1>1, ServiceKeeps
<1>3. PageStateOK' /\ WorksOnRemembered' /\ AwaitsOwnCall'
  BY <1>1, StopsKeepsTypes DEF PageStateOK
<1>4. UNCHANGED <<parts, recorded, pc, upload>>
  BY <1>1 DEF OnlyFaults, storageVars, outcomeVars
<1>5. OneFilePerUpload'
  BY <1>1, <1>4 DEF Stops, OneFilePerUpload, MadeOf
<1>6. SpentIsPaidFor'
  <2>1. faults \in Nat /\ faults' = faults + 1
    BY <1>1, FaultsAreNat DEF OnlyFaults
  <2>2. \A f \in Files : Spent(f)' \subseteq Spent(f) \cup {upload[call]}
    BY <1>1, <1>4, NothingIsNoCall
    DEF Stops, Spent, MadeOf, AboutToFinish, Completing, PastStorage
  <2> QED  BY <1>1, <2>1, <2>2, FaultSpent
<1> QED  BY <1>2, <1>3, <1>5, <1>6

LEMMA ExpiryKeeps ==
  ASSUME PageInv, NEW u \in Uploads, ExpireSession(u), UNCHANGED pageVars
  PROVE  PageInv'
<1> USE DEF PageInv
<1>1. UploadInv' /\ SessionBeginsOnce'
  BY ServiceKeeps DEF UploadNext
<1>2. UNCHANGED <<parts, recorded, pc, upload, faults>>
  BY DEF ExpireSession, storageVars, outcomeVars
<1>3. PageStateOK' /\ WorksOnRemembered' /\ AwaitsOwnCall' /\ OneFilePerUpload'
  BY <1>2 DEF pageVars, PageStateOK, WorksOnRemembered, AwaitsOwnCall, OneFilePerUpload, MadeOf
<1>4. SpentIsPaidFor'
  <2>1. \A f \in Files : Spent(f)' = Spent(f)
    BY <1>2 DEF pageVars, Spent, MadeOf, AboutToFinish
  <2> QED  BY <1>2, <2>1, FaultsAreNat, NothingSpent DEF pageVars
<1> QED  BY <1>1, <1>3, <1>4

-----------------------------------------------------------------------------
LEMMA PageInitially == PageUploadInit => PageInv
<1> SUFFICES ASSUME PageUploadInit PROVE PageInv
  OBVIOUS
<1> USE DEF PageUploadInit
<1>1. UploadInv /\ SessionBeginsOnce
  BY UploadInitially, SessionInitially
<1>2. PageStateOK
  BY PageAssumption, AnyUpload DEF PageInit, SomeUpload, PageStateOK
<1>3. WorksOnRemembered /\ AwaitsOwnCall
  BY DEF PageInit, WorksOnRemembered, AwaitsOwnCall
<1>4. OneFilePerUpload
  BY PageAssumption DEF UploadInit, PageInit, NoParts, OneFilePerUpload, MadeOf
<1>5. \A f \in Files : Spent(f) = {}
  BY DEF UploadInit, Spent, Completing, PastStorage
<1>6. SpentIsPaidFor
  <2>1. IsFiniteSet({}) /\ Cardinality({}) = 0 /\ faults = 0 /\ finished = {}
    BY FS_EmptySet DEF UploadInit, PageInit
  <2> QED  BY <1>5, <2>1 DEF SpentIsPaidFor
<1> QED  BY <1>1, <1>2, <1>3, <1>4, <1>6 DEF PageInv

LEMMA PageStepKeeps == PageInv /\ [PageUploadNext]_pageUploadVars => PageInv'
<1> SUFFICES ASSUME PageInv, [PageUploadNext]_pageUploadVars PROVE PageInv'
  OBVIOUS
<1>1. CASE PageStep
  BY <1>1, PageMovesKeep, AskPresignKeeps, SendPartKeeps, AskCreateKeeps, CreatedKeeps,
     AskCompleteKeeps, CompletedKeeps, RefusedKeeps DEF PageStep
<1>2. ASSUME NEW f \in Files, Click(f) PROVE PageInv'
  BY <1>2, ClickKeeps
<1>3. ASSUME NEW r \in Requests, HandlerWorks(r) PROVE PageInv'
  BY <1>3, HandlerWorksKeeps
<1>4. ASSUME NEW u \in Uploads, ExpireSession(u), UNCHANGED pageVars PROVE PageInv'
  BY <1>4, ExpiryKeeps
<1>5. CASE UNCHANGED pageUploadVars
  <2> USE <1>5 DEF PageInv, pageUploadVars, pageVars
  <2>1. UploadInv' /\ SessionBeginsOnce'
    BY ServiceKeeps
  <2>2. PageStateOK' /\ WorksOnRemembered' /\ AwaitsOwnCall' /\ OneFilePerUpload'
    BY DEF uploadVars, PageStateOK, WorksOnRemembered, AwaitsOwnCall, OneFilePerUpload, MadeOf
  <2>3. SpentIsPaidFor'
    BY PageAloneSpends
  <2> QED  BY <2>1, <2>2, <2>3
<1> QED
  BY <1>1, <1>2, <1>3, <1>4, <1>5, GiveUpKeeps DEF PageUploadNext

LEMMA PageInvariant == PageUploadSpec => []PageInv
  BY PageInitially, PageStepKeeps, PTL DEF PageUploadSpec

-----------------------------------------------------------------------------
(***************************************************************************)
(* What a reader may rely on.                                              *)
(***************************************************************************)

\* A recorded video is assembled from the slices of one file, however often
\* doUpload was interrupted, resumed or started afresh, and whatever the page
\* has forgotten: received parts are skipped only in an upload of that file.
THEOREM RecordedVideosAreOneFile == PageUploadSpec => []RecordedIsOneFile
<1>1. ASSUME PageInv PROVE RecordedIsOneFile
  <2> SUFFICES ASSUME NEW u \in recorded
               PROVE  \E f \in Files : \A n \in 1 .. PartCount : object[u][n] = f
    BY DEF RecordedIsOneFile
  <2>1. u \in Uploads /\ multipart[u] = "assembled" /\ UploadInv
    BY <1>1 DEF PageInv, UploadInv, UploadTypeOK, Outcome
  <2>2. PICK f \in Files : MadeOf(u, f)
    BY <1>1, <2>1 DEF PageInv, OneFilePerUpload
  <2> QED  BY <2>1, <2>2, AssembledOfOneFile
<1> QED  BY <1>1, PageInvariant, PTL

\* The videos of a file but one were each paid for by a fault: a lost answer or
\* a call that failed. Expired sessions, forgotten uploads and handlers that
\* finish after the page has left never add one by themselves.
THEOREM VideosArePaidFor == PageUploadSpec => []OneVideoPerFile
<1>1. ASSUME PageInv, NEW f \in Files PROVE Cardinality(VideosOf(f)) <= 1 + faults
  <2> USE <1>1 DEF PageInv
  <2>1. /\ IsFiniteSet(Spent(f))
        /\ Cardinality(Spent(f)) <= faults + (IF f \in finished THEN 1 ELSE 0)
        /\ Cardinality(Spent(f)) \in Nat /\ faults \in Nat
    BY FS_CardinalityType, FaultsAreNat DEF SpentIsPaidFor
  <2>2. \A u \in VideosOf(f) : u \in Uploads /\ MadeOf(u, f) /\ u \in recorded
    <3> SUFFICES ASSUME NEW u \in VideosOf(f) PROVE u \in Uploads /\ MadeOf(u, f) /\ u \in recorded
      OBVIOUS
    <3>1. u \in recorded /\ u \in Uploads /\ multipart[u] = "assembled" /\ object[u][1] = f
      BY DEF VideosOf, UploadInv, UploadTypeOK, Outcome
    <3>2. PICK g \in Files : MadeOf(u, g)
      BY <3>1 DEF OneFilePerUpload
    <3>3. object[u][1] = g
      BY <3>1, <3>2, AssembledOfOneFile, UploadAssumption
    <3> QED  BY <3>1, <3>2, <3>3
  <2>3. CASE f \in finished
    <3>1. VideosOf(f) \subseteq Spent(f)
      <4> SUFFICES ASSUME NEW u \in VideosOf(f), AboutToFinish(u) PROVE FALSE
        BY <2>2 DEF Spent
      <4>1. page = "complete" /\ pending = <<file, u>> /\ file \in Files /\ file \notin finished
        BY DEF AboutToFinish, AwaitsOwnCall, WorksOnRemembered, PageStateOK
      <4>2. MadeOf(u, file) /\ multipart[u] = "assembled"
        BY <4>1, <2>2, NothingIsNoCall DEF OneFilePerUpload, UploadInv, Outcome
      <4> QED  BY <2>2, <2>3, <4>1, <4>2, AssembledOfOneFile
    <3>2. Cardinality(VideosOf(f)) <= Cardinality(Spent(f)) /\ Cardinality(VideosOf(f)) \in Nat
      BY <2>1, <3>1, FS_Subset, FS_CardinalityType
    <3> QED  BY <2>1, <2>3, <3>2
  <2>4. CASE f \notin finished
    <3>1. VideosOf(f) \subseteq Spent(f) \cup {upload[call]}
      BY <2>2 DEF Spent, AboutToFinish
    <3>2. /\ IsFiniteSet(Spent(f) \cup {upload[call]})
          /\ Cardinality(Spent(f) \cup {upload[call]}) =
                IF upload[call] \in Spent(f) THEN Cardinality(Spent(f))
                ELSE Cardinality(Spent(f)) + 1
      BY <2>1, FS_AddElement, Zenon
    <3>3. /\ Cardinality(VideosOf(f)) <= Cardinality(Spent(f) \cup {upload[call]})
          /\ Cardinality(VideosOf(f)) \in Nat
      BY <3>1, <3>2, FS_Subset, FS_CardinalityType
    <3> HIDE DEF Spent, VideosOf
    <3> QED  BY <2>1, <2>4, <3>2, <3>3
  <2> QED  BY <2>3, <2>4
<1>2. PageInv => OneVideoPerFile
  BY <1>1 DEF OneVideoPerFile
<1> QED  BY <1>2, PageInvariant, PTL

-----------------------------------------------------------------------------
(***************************************************************************)
(* The arithmetic of the parts.                                            *)
(***************************************************************************)

\* What fits is left alone, and whatever comes out fits.
LEMMA WrapFits ==
  ASSUME NEW max \in Nat, NEW x \in Int
  PROVE  /\ Wrap(x, max) \in Int /\ Wrap(x, max) <= max
         /\ x \in 0 .. max => Wrap(x, max) = x
<1>1. (x + max + 1) % (2 * (max + 1)) \in 0 .. 2 * (max + 1) - 1
  OBVIOUS
<1>2. ASSUME x \in 0 .. max PROVE Wrap(x, max) = x
  BY <1>2 DEF Wrap
<1> QED  BY <1>1, <1>2 DEF Wrap

\* The slices make up the file when they are as many as the size needs.
LEMMA PlanIsCeiling ==
  ASSUME NEW size \in Nat \ {0}, NEW count \in Int
  PROVE  IsPlan(count, size) <=>
             count >= 1 /\ (count - 1) * PartSize < size /\ size <= count * PartSize
<1> USE PlanAssumption
<1>1. ASSUME IsPlan(count, size)
      PROVE  count >= 1 /\ (count - 1) * PartSize < size /\ size <= count * PartSize
  <2>1. count >= 1 /\ Start(count) < End(count, size) /\ End(count, size) = size
    BY <1>1 DEF IsPlan
  <2>2. count * PartSize = (count - 1) * PartSize + PartSize
    OBVIOUS
  <2> QED  BY <2>1, <2>2 DEF Start, End
<1>2. ASSUME count >= 1, (count - 1) * PartSize < size, size <= count * PartSize
      PROVE  IsPlan(count, size)
  <2>1. \A n \in Int : n * PartSize = (n - 1) * PartSize + PartSize
    OBVIOUS
  <2>2. ASSUME NEW n \in 1 .. count PROVE (n - 1) * PartSize <= (count - 1) * PartSize
    OBVIOUS
  <2>3. \A n \in 1 .. count : Start(n) < End(n, size)
    BY <1>2, <2>1, <2>2 DEF Start, End
  <2>4. ASSUME NEW n \in 1 .. count - 1 PROVE End(n, size) = Start(n + 1)
    <3>1. n + 1 \in 1 .. count /\ (n + 1) - 1 = n
      OBVIOUS
    <3>2. n * PartSize <= (count - 1) * PartSize
      BY <2>2, <3>1
    <3> QED  BY <1>2, <2>1, <3>1, <3>2 DEF Start, End
  <2>5. End(count, size) = size
    BY <1>2, <2>1 DEF Start, End
  <2> QED  BY <1>2, <2>3, <2>4, <2>5 DEF IsPlan
<1> QED  BY <1>1, <1>2

LEMMA CountFits ==
  ASSUME NEW size \in Int
  PROVE  PartCountOf(size) \in Int /\ PartCountOf(size) <= MaxInt32
<1> USE PlanAssumption
<1>1. Wrap(size + PartSize - 1, MaxInt64) \in Int
  BY WrapFits
<1>2. Quotient(Wrap(size + PartSize - 1, MaxInt64), PartSize) \in Int
  BY <1>1 DEF Quotient
<1> QED  BY <1>2, WrapFits DEF PartCountOf

LEMMA PlannableIsPlanned ==
  ASSUME NEW size \in Nat \ {0}, Plannable(size)
  PROVE  IsPlan(PartCountOf(size), size)
<1> USE PlanAssumption
<1> DEFINE sum == size + PartSize - 1
           needed == sum \div PartSize
<1>1. PartSize * (MaxInt32 + 1) = MaxInt32 * PartSize + PartSize
  OBVIOUS
<1>2. sum \in Nat /\ sum \in 0 .. MaxInt64 /\ sum < MaxInt32 * PartSize + PartSize
  BY <1>1 DEF Plannable
<1>3. Wrap(sum, MaxInt64) = sum /\ Quotient(sum, PartSize) = needed
  BY <1>2, WrapFits DEF Quotient
<1>4. needed \in Int /\ PartSize * needed <= sum /\ sum < PartSize * needed + PartSize
  BY <1>2
<1>5. PartSize * needed = needed * PartSize /\ (needed - 1) * PartSize = needed * PartSize - PartSize
  BY <1>4
<1>6. needed >= 1 /\ needed <= MaxInt32
  <2>1. 0 < PartSize * needed
    BY <1>4
  <2>2. needed >= 1
    BY <1>4, <2>1
  <2>3. PartSize * needed < PartSize * (MaxInt32 + 1)
    BY <1>1, <1>2, <1>4
  <2> HIDE DEF needed
  <2>4. needed < MaxInt32 + 1
    BY <1>4, <2>3
  <2> QED  BY <1>4, <2>2, <2>4
<1>7. PartCountOf(size) = needed
  <2>1. Wrap(needed, MaxInt32) = needed
    BY <1>4, <1>6, WrapFits
  <2>2. needed # 0
    BY <1>6
  <2> QED  BY <1>3, <2>1, <2>2 DEF PartCountOf
<1>8. (needed - 1) * PartSize < size /\ size <= needed * PartSize
  BY <1>4, <1>5
<1> QED
  BY <1>4, <1>6, <1>7, <1>8, PlanIsCeiling

\* The count of handleCreateUpload and the slices of the page make up the file
\* for exactly the sizes whose parts an int32 can count: the correction of a
\* zero count and the wrapped counts of larger files never come out right.
THEOREM SlicesMakeUpTheFile == PlansAreRight
<1> SUFFICES ASSUME NEW size \in 1 .. MaxInt64
             PROVE  IsPlan(PartCountOf(size), size) <=> Plannable(size)
  BY DEF PlansAreRight
<1> USE PlanAssumption
<1>1. size \in Nat \ {0}
  OBVIOUS
<1>2. ASSUME IsPlan(PartCountOf(size), size) PROVE Plannable(size)
  <2>1. PartCountOf(size) \in Int /\ PartCountOf(size) <= MaxInt32
    BY <1>1, CountFits
  <2>2. size <= PartCountOf(size) * PartSize
    BY <1>1, <1>2, <2>1, PlanIsCeiling
  <2>3. PartCountOf(size) * PartSize <= MaxInt32 * PartSize
    BY <2>1
  <2> QED  BY <2>1, <2>2, <2>3 DEF Plannable
<1> QED  BY <1>1, <1>2, PlannableIsPlanned

\* A wrapped count is too small for the size, whatever the sum wrapped to.
LEMMA UnplannableIsTooBig ==
  ASSUME NEW size \in Nat \ {0}, ~Plannable(size), NEW n \in Nat, n <= MaxInt32
  PROVE  n * PartSize < size
<1> USE PlanAssumption
<1>1. n * PartSize <= MaxInt32 * PartSize
  OBVIOUS
<1> QED  BY <1>1 DEF Plannable

LoopInRange == next \in 1 .. PartCount + 1

LEMMA LoopInitially == PageUploadInit => LoopInRange
  BY UploadAssumption DEF PageUploadInit, PageInit, LoopInRange

LEMMA LoopStepKeeps == LoopInRange /\ [PageUploadNext]_pageUploadVars => LoopInRange'
<1> SUFFICES ASSUME LoopInRange, [PageUploadNext]_pageUploadVars PROVE LoopInRange'
  OBVIOUS
<1> USE UploadAssumption DEF LoopInRange
<1>1. ASSUME NEW remembered, Stops(remembered) PROVE LoopInRange'
  BY <1>1 DEF Stops
<1>2. ASSUME NEW u, NEW have, StartsLoop(u, have) PROVE LoopInRange'
  BY <1>2 DEF StartsLoop
<1>3. CASE SkipPart \/ SendPart
  BY <1>3 DEF SkipPart, SendPart, Sends
<1>4. CASE StatusOk \/ StatusNotOk \/ AskPresign \/ PartRefused \/ CompleteNotFound
  BY <1>1, <1>2, <1>4
  DEF StatusOk, StatusNotOk, AskPresign, PartRefused, CompleteNotFound, pageVars
<1>5. ASSUME NEW r \in Requests,
             AskCreate(r) \/ Created(r) \/ AskComplete(r) \/ Completed(r) \/ Refused(r)
      PROVE  LoopInRange'
  BY <1>1, <1>2, <1>5 DEF AskCreate, Created, AskComplete, Completed, Refused
<1>6. CASE GiveUp
  BY <1>1, <1>6 DEF GiveUp
<1>7. ASSUME NEW f \in Files, Click(f) PROVE LoopInRange'
  BY <1>7 DEF Click
<1>8. CASE UNCHANGED pageVars
  BY <1>8 DEF pageVars
<1> QED
  BY <1>3, <1>4, <1>5, <1>6, <1>7, <1>8
  DEF PageUploadNext, PageStep, HandlerWorks, pageUploadVars

\* In every run of doUpload's loop, over parts sent and parts skipped, the
\* slices follow one another without a gap or an empty one, and the loop ends at
\* the end of the file exactly if the part count is not one that overflowed.
THEOREM LoopsCoverFiles == PageUploadSpec => []LoopCoversTheFile
<1>1. LoopInRange => LoopCoversTheFile
  <2> SUFFICES ASSUME LoopInRange, NEW size \in 1 .. MaxInt64, PartCountOf(size) = PartCount
               PROVE  IF next <= PartCount
                      THEN SlicedOff(size) = Start(next) /\ Start(next) < End(next, size)
                      ELSE SlicedOff(size) = size <=> Plannable(size)
    BY DEF LoopCoversTheFile
  <2> USE UploadAssumption, PlanAssumption
  <2>1. size \in Nat \ {0} /\ next \in 1 .. PartCount + 1 /\ PartCount <= MaxInt32
    BY CountFits DEF LoopInRange
  <2>2. CASE Plannable(size)
    <3>1. IsPlan(PartCount, size)
      BY <2>1, <2>2, PlannableIsPlanned
    <3>2. CASE next <= PartCount
      <4>1. Start(next) < End(next, size)
        BY <2>1, <3>1, <3>2 DEF IsPlan
      <4>2. CASE next = 1
        BY <4>1, <4>2 DEF SlicedOff, Start
      <4>3. CASE next # 1
        <5>1. next - 1 \in 1 .. PartCount - 1 /\ (next - 1) + 1 = next
          BY <2>1, <3>2, <4>3
        <5>2. End(next - 1, size) = Start(next)
          BY <3>1, <5>1 DEF IsPlan
        <5> QED  BY <3>2, <4>1, <4>3, <5>2 DEF SlicedOff
      <4> QED  BY <3>2, <4>2, <4>3
    <3>3. CASE ~(next <= PartCount)
      <4>1. next # 1 /\ next - 1 = PartCount
        BY <2>1, <3>3
      <4> QED  BY <2>2, <3>1, <3>3, <4>1 DEF SlicedOff, IsPlan
    <3> QED  BY <3>2, <3>3
  <2>3. CASE ~Plannable(size)
    <3>1. ASSUME NEW n \in 1 .. PartCount
          PROVE  /\ n * PartSize = Start(n) + PartSize
                 /\ n * PartSize < size
                 /\ End(n, size) = n * PartSize
      <4>1. n * PartSize = (n - 1) * PartSize + PartSize
        OBVIOUS
      <4>2. n * PartSize < size
        BY <2>1, <2>3, UnplannableIsTooBig
      <4> QED  BY <4>1, <4>2 DEF Start, End
    <3>2. CASE next <= PartCount
      <4>1. Start(next) < End(next, size)
        <5>1. Start(next) \in Int /\ PartSize > 0
          BY <2>1 DEF Start
        <5> QED  BY <2>1, <3>1, <3>2, <5>1
      <4>2. SlicedOff(size) = Start(next)
        BY <2>1, <3>1, <3>2 DEF SlicedOff, Start
      <4> QED  BY <3>2, <4>1, <4>2
    <3>3. CASE ~(next <= PartCount)
      <4>1. next # 1 /\ next - 1 = PartCount /\ PartCount \in 1 .. PartCount
        BY <2>1, <3>3
      <4>2. SlicedOff(size) = PartCount * PartSize
        BY <3>1, <4>1 DEF SlicedOff
      <4> QED  BY <2>3, <3>1, <3>3, <4>1, <4>2
    <3> QED  BY <3>2, <3>3
  <2> QED  BY <2>2, <2>3
<1> QED  BY <1>1, LoopInitially, LoopStepKeeps, PTL DEF PageUploadSpec

=============================================================================
