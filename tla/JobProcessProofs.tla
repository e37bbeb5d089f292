-------------------------- MODULE JobProcessProofs --------------------------
(***************************************************************************)
(* Proofs about JobProcess, for any number of renditions and thumbnails:   *)
(* what an attempt leaves in storage and on disk, and that all three       *)
(* workers keep the contract handleDelivery relies on.                     *)
(***************************************************************************)
EXTENDS JobProcess, TLAPS

Working == ProcessPc \ {"idle", "return"}

\* The steps of process that each kind of job takes.
StepOfKind ==
    /\ pc \in {"encode", "join"} => kind = "hls"
    /\ pc = "frames" => kind = "thumbnail"
    /\ pc \in {"probe", "extract", "transcribe"} => kind = "caption"
    /\ pc = "duration" => kind # "hls"
    /\ pc = "mkdir" => kind # "caption"

\* An encoder that reported success has finished its rendition, and only while
\* GenerateHLS waits for them do encoders run.
EncodersAreAwaited ==
    /\ pc # "join" => \A i \in 1 .. Renditions : encoder[i] # "running"
    /\ pc = "join" => \A i \in 1 .. Renditions : encoder[i] = "ok" => made[i] = "complete"

\* Files are PUT after the whole output is there, in the order of the walk.
SentInOrder ==
    /\ \E n \in 0 .. FileCount[kind] : sent = 1 .. n
    /\ pc = "upload" => sent # Output
    /\ pc \in Working \ {"upload"} => sent = {}
    /\ pc = "upload" \/ sent # {} => \A f \in Output : made[f] = "complete"

\* Until process returns, everything it has created is to be removed; on the
\* way to the captions that is the input, then the .wav as well.
RemovalsAreDeferred ==
    /\ pc \in {"idle", "download"} => disk = {}
    /\ pc \in Working => disk = deferred
    /\ pc \in {"probe", "extract"} => disk = {"input"}
    /\ pc = "transcribe" => disk = {"input", "wav"}

ProcessInv ==
    /\ ProcessTypeOK
    /\ StepOfKind
    /\ EncodersAreAwaited
    /\ SentInOrder
    /\ RemovalsAreDeferred
    /\ OnlyFailuresLeaveFiles

-----------------------------------------------------------------------------
LEMMA FilesOfKind ==
  ASSUME kind \in AllJobTypes
  PROVE  /\ FileCount[kind] \in Nat \ {0}
         /\ kind = "hls" => FileCount[kind] = Renditions + 1 /\ Master \in Output
                            /\ 1 .. Renditions \subseteq Output
                            /\ \A f \in Output : f = Master \/ f \in 1 .. Renditions
         /\ kind = "thumbnail" => FileCount[kind] = Thumbnails
         /\ kind = "caption" => FileCount[kind] = 1 /\ 1 \in Output
<1>1. /\ FileCount["hls"] = Renditions + 1 /\ FileCount["thumbnail"] = Thumbnails
      /\ FileCount["caption"] = 1
  BY DEF FileCount
<1>2. kind = "hls" \/ kind = "thumbnail" \/ kind = "caption"
  BY DEF AllJobTypes
<1> QED  BY <1>1, <1>2, ProcessAssumption DEF Output, Master

\* The walk goes on behind the files that were sent.
LEMMA WalkGoesOn ==
  ASSUME kind \in AllJobTypes, NEW n \in 0 .. FileCount[kind], sent = 1 .. n, sent # Output
  PROVE  /\ NextInWalk = n + 1 /\ n + 1 <= FileCount[kind]
         /\ sent \cup {NextInWalk} = 1 .. n + 1
         /\ 1 .. n + 1 = Output <=> n + 1 = FileCount[kind]
<1>1. FileCount[kind] \in Nat /\ Output = 1 .. FileCount[kind]
  BY FilesOfKind DEF Output
<1>2. n \in Nat /\ n < FileCount[kind]
  BY <1>1
<1>3. n + 1 \in Output \ sent /\ \A g \in Output \ sent : n + 1 <= g
  BY <1>1, <1>2
<1>4. NextInWalk \in Output \ sent /\ \A g \in Output \ sent : NextInWalk <= g
  BY <1>3 DEF NextInWalk
<1>5. NextInWalk = n + 1
  BY <1>1, <1>2, <1>3, <1>4
<1>6. 1 .. n + 1 = Output => n + 1 = FileCount[kind]
  <2> SUFFICES ASSUME 1 .. n + 1 = Output PROVE n + 1 = FileCount[kind]
    OBVIOUS
  <2>1. FileCount[kind] \in Output
    BY <1>1, <1>2
  <2> QED  BY <1>1, <1>2, <2>1
<1> QED  BY <1>1, <1>2, <1>5, <1>6

LEMMA ProcessInitially == ProcessInit => ProcessInv
<1> SUFFICES ASSUME ProcessInit PROVE ProcessInv
  OBVIOUS
<1>1. kind \in AllJobTypes
  BY JobTypesAssumption DEF ProcessInit
<1>2. ProcessTypeOK
  BY <1>1 DEF ProcessInit, ProcessTypeOK, ProcessPc, NoEncoders, Nothing, Temporary
<1>3. SentInOrder
  BY <1>1, FilesOfKind DEF ProcessInit, SentInOrder, Working
<1> QED
  BY <1>2, <1>3
  DEF ProcessInit, ProcessInv, StepOfKind, EncodersAreAwaited, NoEncoders, RemovalsAreDeferred,
      OnlyFailuresLeaveFiles, Working

-----------------------------------------------------------------------------
(***************************************************************************)
(* One lemma per group of steps.                                           *)
(***************************************************************************)

LEMMA StartKeeps == ASSUME ProcessInv, Start  PROVE ProcessInv'
<1> USE DEF ProcessInv, Start
<1>1. ProcessTypeOK'
  BY DEF ProcessTypeOK, ProcessPc, Nothing, Output
<1>2. SentInOrder'
  BY FilesOfKind DEF ProcessTypeOK, SentInOrder, Working
<1>3. StepOfKind' /\ EncodersAreAwaited' /\ OnlyFailuresLeaveFiles'
  BY DEF StepOfKind, EncodersAreAwaited, OnlyFailuresLeaveFiles
<1>4. RemovalsAreDeferred'
  BY DEF ProcessTypeOK, RemovalsAreDeferred
<1> QED  BY <1>1, <1>2, <1>3, <1>4

\* A step that creates a path, or learns something, and goes on.
LEMMA PreparesKeeps ==
  ASSUME ProcessInv, DownloadInput \/ MakeOutDir \/ ProbeAudio \/ ExtractAudio
  PROVE  ProcessInv'
<1>1. /\ pc \in Working \ {"upload", "join"} /\ pc' \in Working \ {"upload", "join"}
      /\ UNCHANGED <<kind, cancelled, encoder, made, sent, verdict>>
      /\ \/ UNCHANGED <<disk, deferred>>
         \/ \E path \in Temporary : disk' = disk \cup {path} /\ deferred' = deferred \cup {path}
      /\ pc' \in {"probe", "extract", "transcribe"} => kind = "caption"
      /\ pc' = "encode" => kind = "hls"
      /\ pc' = "mkdir" => kind # "caption"
      /\ pc' = "duration" => kind # "hls"
      /\ pc' # "frames"
  BY DEF DownloadInput, MakeOutDir, ProbeAudio, ExtractAudio, CreateTemp, Goto, localVars,
     Working, ProcessPc, Temporary, ProcessInv, StepOfKind
<1> USE <1>1 DEF ProcessInv
<1>2. ProcessTypeOK'
  BY DEF ProcessTypeOK, Working, Output
<1>3. SentInOrder'
  BY DEF SentInOrder, Working, Output
<1>4. StepOfKind' /\ EncodersAreAwaited' /\ OnlyFailuresLeaveFiles'
  BY DEF StepOfKind, EncodersAreAwaited, OnlyFailuresLeaveFiles, Working
<1>5. RemovalsAreDeferred'
  <2> USE DEF RemovalsAreDeferred, Working, ProcessPc, CreateTemp, Goto, localVars
  <2>1. CASE DownloadInput
    BY <2>1 DEF DownloadInput
  <2>2. CASE MakeOutDir
    BY <2>2 DEF MakeOutDir
  <2>3. CASE ProbeAudio
    BY <2>3 DEF ProbeAudio
  <2>4. CASE ExtractAudio
    BY <2>4 DEF ExtractAudio
  <2> QED  BY <2>1, <2>2, <2>3, <2>4
<1> QED  BY <1>2, <1>3, <1>4, <1>5

LEMMA StartEncodersKeeps == ASSUME ProcessInv, StartEncoders  PROVE ProcessInv'
<1> USE DEF ProcessInv, StartEncoders, Goto
<1>1. ProcessTypeOK'
  BY DEF ProcessTypeOK, ProcessPc, Output
<1>2. SentInOrder'
  BY DEF SentInOrder, Working, ProcessPc, Output
<1>3. EncodersAreAwaited'
  BY DEF EncodersAreAwaited
<1> QED
  BY <1>1, <1>2, <1>3 DEF StepOfKind, RemovalsAreDeferred, OnlyFailuresLeaveFiles, Working, ProcessPc

LEMMA EncoderKeeps ==
  ASSUME ProcessInv, NEW i \in 1 .. Renditions, EncoderSucceeds(i) \/ EncoderFails(i)
  PROVE  ProcessInv'
<1>1. /\ encoder[i] = "running" /\ pc = "join" /\ kind = "hls" /\ i \in Output
      /\ UNCHANGED <<kind, pc, cancelled, disk, deferred, sent, verdict>>
  BY FilesOfKind
  DEF EncoderSucceeds, EncoderFails, ProcessInv, ProcessTypeOK, EncodersAreAwaited, StepOfKind
<1>2. \/ encoder' = [encoder EXCEPT ![i] = "ok"] /\ made' = [made EXCEPT ![i] = "complete"]
      \/ encoder' = [encoder EXCEPT ![i] = "failed"] /\ made' = made
  BY DEF EncoderSucceeds, EncoderFails
<1> USE <1>1, <1>2 DEF ProcessInv
<1>3. ProcessTypeOK'
  BY DEF ProcessTypeOK, Output
<1>4. EncodersAreAwaited'
  <2>1. 1 .. Renditions \subseteq Output
    BY FilesOfKind DEF ProcessTypeOK
  <2> QED  BY <2>1 DEF ProcessTypeOK, EncodersAreAwaited
<1>5. SentInOrder'
  BY DEF SentInOrder, Working, ProcessPc, Output
<1> QED  BY <1>3, <1>4, <1>5 DEF StepOfKind, RemovalsAreDeferred, OnlyFailuresLeaveFiles, Working

\* The output is complete: process goes on to storage.
LEMMA ProducedKeeps ==
  ASSUME ProcessInv, pc \in Working \ {"upload"}, pc' = "upload",
         UNCHANGED <<kind, cancelled, encoder, disk, deferred, sent, verdict>>,
         made' \in [Output -> {"absent", "partial", "complete"}],
         \A f \in Output : made'[f] = "complete",
         \A i \in 1 .. Renditions : encoder[i] # "running"
  PROVE  ProcessInv'
<1> USE DEF ProcessInv
<1>1. ProcessTypeOK'
  BY DEF ProcessTypeOK, Working, ProcessPc, Output
<1>2. SentInOrder'
  <2>1. 1 \in Output /\ Output' = Output
    BY FilesOfKind DEF ProcessTypeOK, Output
  <2> QED  BY <2>1 DEF SentInOrder, Working
<1> QED
  BY <1>1, <1>2 DEF StepOfKind, EncodersAreAwaited, RemovalsAreDeferred, OnlyFailuresLeaveFiles, Working,
     ProcessPc

LEMMA WriteMasterKeeps == ASSUME ProcessInv, WriteMaster  PROVE ProcessInv'
<1>1. /\ pc = "join" /\ kind = "hls" /\ \A i \in 1 .. Renditions : encoder[i] = "ok"
      /\ made' = [made EXCEPT ![Master] = "complete"]
  BY DEF WriteMaster, AllEncoded, ProcessInv, StepOfKind
<1>2. \A f \in Output : f = Master \/ made[f] = "complete"
  BY <1>1, FilesOfKind DEF ProcessInv, ProcessTypeOK, EncodersAreAwaited
<1>3. /\ made' \in [Output -> {"absent", "partial", "complete"}]
      /\ \A f \in Output : made'[f] = "complete"
  BY <1>1, <1>2 DEF ProcessInv, ProcessTypeOK
<1> QED  BY <1>1, <1>3, ProducedKeeps DEF WriteMaster, Goto, Working, ProcessPc

LEMMA CaptionKeeps ==
  ASSUME ProcessInv, kind = "caption", ProbeDuration \/ Transcribe
  PROVE  ProcessInv'
<1>1. /\ pc \in {"duration", "transcribe"} /\ pc' = "upload"
      /\ made' = [made EXCEPT ![1] = "complete"]
      /\ UNCHANGED <<kind, cancelled, encoder, disk, deferred, sent, verdict>>
  BY DEF ProbeDuration, Transcribe, Goto
<1>2. Output = {1}
  BY FilesOfKind DEF ProcessInv, ProcessTypeOK, Output
<1>3. /\ made' \in [Output -> {"absent", "partial", "complete"}]
      /\ \A f \in Output : made'[f] = "complete"
  BY <1>1, <1>2 DEF ProcessInv, ProcessTypeOK
<1>4. \A i \in 1 .. Renditions : encoder[i] # "running"
  BY <1>1 DEF ProcessInv, EncodersAreAwaited
<1> QED  BY <1>1, <1>3, <1>4, ProducedKeeps DEF Working, ProcessPc

\* Still some frames to grab.
LEMMA FramesKeep ==
  ASSUME ProcessInv, kind = "thumbnail", pc \in {"duration", "frames"}, pc' = "frames",
         UNCHANGED <<kind, cancelled, encoder, disk, deferred, sent, verdict>>,
         made' \in [Output -> {"absent", "partial", "complete"}]
  PROVE  ProcessInv'
<1> USE DEF ProcessInv
<1>1. ProcessTypeOK'
  BY DEF ProcessTypeOK, ProcessPc, Output
<1>2. SentInOrder'
  BY DEF SentInOrder, Working, ProcessPc, Output
<1> QED
  BY <1>1, <1>2 DEF StepOfKind, EncodersAreAwaited, RemovalsAreDeferred, OnlyFailuresLeaveFiles, Working,
     ProcessPc

LEMMA ProbeDurationKeeps == ASSUME ProcessInv, ProbeDuration  PROVE ProcessInv'
<1>1. CASE kind = "caption"
  BY <1>1, CaptionKeeps
<1>2. CASE kind # "caption"
  <2>1. /\ kind = "thumbnail" /\ pc = "duration" /\ pc' = "frames"
        /\ UNCHANGED <<kind, cancelled, encoder, made, disk, deferred, sent, verdict>>
    BY <1>2 DEF ProbeDuration, Goto, ProcessInv, StepOfKind, ProcessTypeOK, AllJobTypes
  <2> QED  BY <2>1, FramesKeep DEF ProcessInv, ProcessTypeOK
<1> QED  BY <1>1, <1>2

LEMMA GrabFrameKeeps ==
  ASSUME ProcessInv, NEW f \in Output, GrabFrame(f)
  PROVE  ProcessInv'
<1>1. /\ kind = "thumbnail" /\ pc = "frames"
      /\ UNCHANGED <<kind, cancelled, encoder, disk, deferred, sent, verdict>>
      /\ made' = [made EXCEPT ![f] = "complete"]
      /\ \A g \in Output : made[g] = "complete" <=> g < f
  BY DEF GrabFrame, Goto, ProcessInv, StepOfKind
<1>2. Output = 1 .. Thumbnails
  BY <1>1, FilesOfKind DEF ProcessInv, ProcessTypeOK, Output
<1>3. made' \in [Output -> {"absent", "partial", "complete"}]
  BY <1>1 DEF ProcessInv, ProcessTypeOK
<1>4. CASE f = Thumbnails
  <2>1. pc' = "upload"
    BY <1>4 DEF GrabFrame, Goto
  <2>2. \A g \in Output : made'[g] = "complete"
    BY <1>1, <1>2, <1>4, ProcessAssumption DEF ProcessInv, ProcessTypeOK
  <2>3. \A i \in 1 .. Renditions : encoder[i] # "running"
    BY <1>1 DEF ProcessInv, EncodersAreAwaited
  <2> QED  BY <1>1, <1>3, <2>1, <2>2, <2>3, ProducedKeeps DEF Working, ProcessPc
<1>5. CASE f # Thumbnails
  <2>1. pc' = "frames"
    BY <1>5 DEF GrabFrame, Goto
  <2> QED  BY <1>1, <1>3, <2>1, FramesKeep
<1> QED  BY <1>4, <1>5

\* What a PUT does, in numbers.
LEMMA PutFileShape ==
  ASSUME ProcessInv, PutFile
  PROVE  \E n \in 0 .. FileCount[kind] - 1 :
            /\ sent = 1 .. n /\ sent' = 1 .. n + 1
            /\ \/ n + 1 < FileCount[kind] /\ pc' = "upload" /\ verdict' = verdict
               \/ n + 1 = FileCount[kind] /\ pc' = "return" /\ verdict' = "ok"
               \/ pc' = "return" /\ verdict' = "error"
<1>1. kind \in AllJobTypes /\ FileCount[kind] \in Nat /\ sent # Output
  BY FilesOfKind DEF PutFile, ProcessInv, ProcessTypeOK, SentInOrder
<1>2. PICK n \in 0 .. FileCount[kind] : sent = 1 .. n
  BY DEF ProcessInv, SentInOrder
<1>3. /\ n + 1 <= FileCount[kind] /\ sent' = 1 .. n + 1
      /\ 1 .. n + 1 = Output <=> n + 1 = FileCount[kind]
  BY <1>1, <1>2, WalkGoesOn DEF PutFile
<1>4. n \in 0 .. FileCount[kind] - 1
  BY <1>1, <1>3
<1>5. \/ n + 1 # FileCount[kind] /\ pc' = "upload" /\ verdict' = verdict
      \/ n + 1 = FileCount[kind] /\ pc' = "return" /\ verdict' = "ok"
      \/ pc' = "return" /\ verdict' = "error"
  BY <1>3 DEF PutFile, Goto, Decide
<1> QED  BY <1>1, <1>2, <1>3, <1>4, <1>5

LEMMA PutFileKeeps == ASSUME ProcessInv, PutFile  PROVE ProcessInv'
<1>1. /\ kind \in AllJobTypes /\ FileCount[kind] \in Nat /\ Output = 1 .. FileCount[kind]
      /\ pc = "upload" /\ UNCHANGED <<kind, cancelled, encoder, made, disk, deferred>>
  BY FilesOfKind DEF PutFile, localVars, ProcessInv, ProcessTypeOK, Output
<1>2. PICK n \in 0 .. FileCount[kind] - 1 :
            /\ sent = 1 .. n /\ sent' = 1 .. n + 1
            /\ \/ n + 1 < FileCount[kind] /\ pc' = "upload" /\ verdict' = verdict
               \/ n + 1 = FileCount[kind] /\ pc' = "return" /\ verdict' = "ok"
               \/ pc' = "return" /\ verdict' = "error"
  BY PutFileShape
<1>3. sent' \subseteq Output /\ n + 1 \in 0 .. FileCount[kind]
  BY <1>1, <1>2
<1> USE DEF ProcessInv
<1>4. ProcessTypeOK'
  BY <1>1, <1>2, <1>3 DEF ProcessTypeOK, ProcessPc, Output
<1>5. SentInOrder'
  <2>1. pc' = "upload" => 1 .. n + 1 # 1 .. FileCount[kind]
    <3> SUFFICES ASSUME pc' = "upload" PROVE FileCount[kind] \notin 1 .. n + 1
      BY <1>1, <1>2
    <3> QED  BY <1>1, <1>2
  <2>2. \A f \in Output : made'[f] = "complete"
    BY <1>1 DEF SentInOrder
  <2> QED  BY <1>1, <1>2, <1>3, <2>1, <2>2 DEF SentInOrder, Working, Output
<1>6. EncodersAreAwaited' /\ StepOfKind'
  BY <1>1, <1>2 DEF EncodersAreAwaited, StepOfKind
<1>7. RemovalsAreDeferred' /\ OnlyFailuresLeaveFiles'
  BY <1>1, <1>2 DEF RemovalsAreDeferred, OnlyFailuresLeaveFiles, Working, ProcessPc
<1> QED  BY <1>4, <1>5, <1>6, <1>7

\* process returns an error; a command that failed may leave its output.
LEMMA ErrorKeeps ==
  ASSUME ProcessInv, pc \in Working, Decide("error"),
         UNCHANGED <<kind, cancelled, encoder, made, deferred, sent>>,
         \/ disk' = disk
         \/ pc = "extract" /\ disk' = disk \cup {"wav"}
         \/ pc = "transcribe" /\ disk' = disk \cup {"vtt"},
         \A i \in 1 .. Renditions : encoder[i] # "running"
  PROVE  ProcessInv'
<1> USE DEF ProcessInv, Decide
<1>1. ProcessTypeOK'
  BY DEF ProcessTypeOK, ProcessPc, Output, Temporary
<1>2. SentInOrder'
  BY DEF SentInOrder, Working, ProcessPc, Output
<1>3. EncodersAreAwaited' /\ StepOfKind'
  BY DEF EncodersAreAwaited, StepOfKind
<1>4. RemovalsAreDeferred'
  BY DEF RemovalsAreDeferred, Working
<1>5. OnlyFailuresLeaveFiles'
  <2>1. /\ disk = deferred
        /\ pc = "extract" => disk = {"input"}
        /\ pc = "transcribe" => disk = {"input", "wav"}
    BY DEF RemovalsAreDeferred
  <2>2. pc \in {"extract", "transcribe"} => kind = "caption" /\ sent = {}
    BY DEF StepOfKind, SentInOrder, Working
  <2>3. verdict' = "error" /\ UNCHANGED <<kind, deferred, sent>>
    OBVIOUS
  <2> QED  BY <2>1, <2>2, <2>3 DEF OnlyFailuresLeaveFiles
<1> QED  BY <1>1, <1>2, <1>3, <1>4, <1>5

LEMMA EncodingFailedKeeps == ASSUME ProcessInv, EncodingFailed  PROVE ProcessInv'
  BY ErrorKeeps DEF EncodingFailed, localVars, Working, ProcessPc

LEMMA CallErrsKeeps == ASSUME ProcessInv, CallErrs  PROVE ProcessInv'
<1>1. pc \in Working
  BY DEF CallErrs, External, Working, ProcessPc, ProcessInv, ProcessTypeOK
<1>2. \A i \in 1 .. Renditions : encoder[i] # "running"
  BY DEF CallErrs, External, AllEncoded, ProcessInv, EncodersAreAwaited
<1>3. \/ disk' = disk
      \/ pc = "extract" /\ disk' = disk \cup {"wav"}
      \/ pc = "transcribe" /\ disk' = disk \cup {"vtt"}
  <2>1. /\ DOMAIN Leaves = {"extract", "transcribe"}
        /\ Leaves["extract"] = {{}, {"wav"}} /\ Leaves["transcribe"] = {{}, {"vtt"}}
    BY DEF Leaves
  <2>2. PICK left \in IF pc \in DOMAIN Leaves THEN Leaves[pc] ELSE {{}} : disk' = disk \cup left
    BY DEF CallErrs
  <2>3. \/ left = {}
        \/ pc = "extract" /\ left = {"wav"}
        \/ pc = "transcribe" /\ left = {"vtt"}
    BY <2>1, <2>2
  <2> QED  BY <2>2, <2>3
<1> QED  BY <1>1, <1>2, <1>3, ErrorKeeps DEF CallErrs

LEMMA ReturnKeeps == ASSUME ProcessInv, Return  PROVE ProcessInv'
<1> USE DEF ProcessInv, Return, Goto
<1>1. ProcessTypeOK'
  BY DEF ProcessTypeOK, ProcessPc, Output, NoEncoders, Temporary
<1>2. SentInOrder'
  BY DEF SentInOrder, Working, ProcessPc, Output
<1>3. EncodersAreAwaited' /\ StepOfKind'
  BY DEF EncodersAreAwaited, StepOfKind, NoEncoders
<1>4. RemovalsAreDeferred' /\ OnlyFailuresLeaveFiles'
  BY DEF RemovalsAreDeferred, OnlyFailuresLeaveFiles, Working
<1> QED  BY <1>1, <1>2, <1>3, <1>4

LEMMA ProcessStepKeeps == ProcessInv /\ [ProcessNext]_processVars => ProcessInv'
<1> SUFFICES ASSUME ProcessInv, [ProcessNext]_processVars PROVE ProcessInv'
  OBVIOUS
<1>1. CASE Sigterm \/ UNCHANGED processVars
  <2>1. cancelled' \in BOOLEAN
    BY <1>1 DEF Sigterm, processVars, ProcessInv, ProcessTypeOK
  <2>2. UNCHANGED <<kind, pc, encoder, made, disk, deferred, sent, verdict>>
    BY <1>1 DEF Sigterm, processVars, localVars
  <2> QED
    BY <2>1, <2>2 DEF ProcessInv, ProcessTypeOK, Output, StepOfKind, EncodersAreAwaited,
       SentInOrder, RemovalsAreDeferred, OnlyFailuresLeaveFiles
<1>2. CASE GoOn
  <2>1. CASE Transcribe
    BY <2>1, CaptionKeeps DEF Transcribe, ProcessInv, StepOfKind
  <2> QED
    BY <1>2, <2>1, StartKeeps, PreparesKeeps, StartEncodersKeeps, WriteMasterKeeps,
       EncodingFailedKeeps, ProbeDurationKeeps, GrabFrameKeeps, PutFileKeeps, CallErrsKeeps,
       ReturnKeeps DEF GoOn
<1> QED  BY <1>1, <1>2, EncoderKeeps DEF ProcessNext

LEMMA ProcessInvariant == ProcessSpec => []ProcessInv
  BY ProcessInitially, ProcessStepKeeps, PTL DEF ProcessSpec

-----------------------------------------------------------------------------
THEOREM ProcessTypeCorrect == ProcessSpec => []ProcessTypeOK
<1>1. ProcessInv => ProcessTypeOK
  BY DEF ProcessInv
<1> QED  BY <1>1, ProcessInvariant, PTL

\* Nothing of an output reaches storage before all of it was produced, however
\* many renditions are encoded at once and whichever of them fails: UploadDir
\* comes after wg.Wait and after the check of every goroutine's error.
THEOREM OnlyFinalFilesAreSent == ProcessSpec => []SentIsFinal
<1>1. ASSUME ProcessInv PROVE SentIsFinal
  <2> SUFFICES ASSUME sent # {} PROVE pc # "join" /\ \A f \in Output : made[f] = "complete"
    BY <1>1 DEF SentIsFinal, ProcessInv, EncodersAreAwaited
  <2> QED  BY <1>1 DEF ProcessInv, SentInOrder, Working, ProcessPc
<1> QED  BY <1>1, ProcessInvariant, PTL

\* outDir is removed, and another attempt begins, only when no ffmpeg writes to
\* it: GenerateHLS waits for every goroutine, failed or not.
THEOREM NoEncoderOutlivesItsAttempt == ProcessSpec => []NoStrayEncoder
<1>1. ProcessInv => NoStrayEncoder
  BY DEF ProcessInv, EncodersAreAwaited, NoStrayEncoder
<1> QED  BY <1>1, ProcessInvariant, PTL

\* The deferred removals cover what an attempt created, but for the output of
\* the command that failed it.
THEOREM LeftFilesAreOfFailures == ProcessSpec => []OnlyFailuresLeaveFiles
<1>1. ProcessInv => OnlyFailuresLeaveFiles
  BY DEF ProcessInv
<1> QED  BY <1>1, ProcessInvariant, PTL

-----------------------------------------------------------------------------
(***************************************************************************)
(* The contract of the attempt.                                            *)
(***************************************************************************)

LEMMA ProcessStepIsAttemptStep ==
  ProcessInv /\ [ProcessNext]_processVars
     => [Attempt!BeginAttempt \/ Attempt!PutNext \/ Attempt!FailAttempt]_(Attempt!attemptVars)
<1> DEFINE phase == IF verdict = "none" THEN "working" ELSE verdict
<1> SUFFICES ASSUME ProcessInv, [ProcessNext]_processVars
             PROVE  \/ Attempt!BeginAttempt \/ Attempt!PutNext \/ Attempt!FailAttempt
                    \/ UNCHANGED Attempt!attemptVars
  OBVIOUS
<1>1. ASSUME UNCHANGED <<kind, sent, verdict>> PROVE UNCHANGED Attempt!attemptVars
  BY <1>1 DEF Attempt!attemptVars
<1>2. CASE Start
  BY <1>2 DEF Start, Attempt!BeginAttempt, ProcessInv, ProcessTypeOK
<1>3. CASE PutFile
  <2>1. PICK n \in 0 .. FileCount[kind] - 1 :
            /\ sent = 1 .. n /\ sent' = 1 .. n + 1
            /\ \/ n + 1 < FileCount[kind] /\ pc' = "upload" /\ verdict' = verdict
               \/ n + 1 = FileCount[kind] /\ pc' = "return" /\ verdict' = "ok"
               \/ pc' = "return" /\ verdict' = "error"
    BY <1>3, PutFileShape
  <2>2. FileCount[kind] \in Nat
    BY FilesOfKind DEF ProcessInv, ProcessTypeOK
  <2>3. verdict = "none" /\ kind' = kind
    BY <1>3 DEF PutFile, ProcessInv, ProcessTypeOK
  <2>4. verdict' \in {IF n + 1 = FileCount[kind] THEN "ok" ELSE "none", "error"}
    BY <2>1, <2>2, <2>3
  <2>5. n + 1 \in 1 .. FileCount[kind] /\ sent = 1 .. (n + 1) - 1 /\ sent' = 1 .. n + 1
    BY <2>1, <2>2
  <2> QED  BY <2>3, <2>4, <2>5 DEF Attempt!PutNext
<1>4. CASE CallErrs \/ EncodingFailed
  BY <1>4 DEF CallErrs, EncodingFailed, External, Decide, Attempt!FailAttempt, ProcessInv,
     ProcessTypeOK
<1>5. CASE UNCHANGED processVars
  BY <1>1, <1>5 DEF processVars
<1>6. ASSUME NEW i \in 1 .. Renditions, EncoderSucceeds(i) \/ EncoderFails(i)
      PROVE  UNCHANGED Attempt!attemptVars
  BY <1>1, <1>6 DEF EncoderSucceeds, EncoderFails
<1>7. CASE Sigterm
  BY <1>1, <1>7 DEF Sigterm
<1>8. CASE \/ DownloadInput \/ MakeOutDir \/ StartEncoders \/ WriteMaster \/ ProbeDuration
           \/ (\E f \in Output : GrabFrame(f)) \/ ProbeAudio \/ ExtractAudio \/ Transcribe
           \/ Return
  BY <1>1, <1>8 DEF DownloadInput, MakeOutDir, StartEncoders, WriteMaster, ProbeDuration,
     GrabFrame, ProbeAudio, ExtractAudio, Transcribe, Return, Goto
<1> QED
  BY <1>2, <1>3, <1>4, <1>5, <1>6, <1>7, <1>8 DEF ProcessNext, GoOn

\* The process functions of all three workers PUT the files of their output in
\* the order of the walk, the entry point last, and report success only after
\* the last: what JobPipeline assumes of an attempt.
THEOREM ProcessImplementsAttempt == ProcessSpec => KeepsAttemptContract
<1>1. ProcessInit => Attempt!AttemptInit
  BY FilesOfKind, JobTypesAssumption DEF ProcessInit, Attempt!AttemptInit
<1> QED
  BY <1>1, ProcessStepIsAttemptStep, ProcessInvariant, PTL
  DEF ProcessSpec, KeepsAttemptContract, Attempt!AttemptSpec

=============================================================================
