----------------------------- MODULE JobProcess -----------------------------
(***************************************************************************)
(* The process functions of the three workers, attempt after attempt: the  *)
(* raw object downloaded to a temporary file, the output produced by       *)
(* ffmpeg, ffprobe and whisper.cpp, the files PUT in the order of          *)
(* filepath.Walk, the deferred removals. GenerateHLS runs one ffmpeg per   *)
(* rendition at once and joins them; the rest is sequential.               *)
(*                                                                         *)
(* Every command and every storage call may fail, and may hang for ever:   *)
(* none has a timeout (whisper's HTTP API excepted). All of them are given *)
(* the context that SIGTERM cancels. External: a command that exits with 0 *)
(* has written its output.                                                 *)
(***************************************************************************)
EXTENDS VodTypes, FiniteSets

CONSTANTS
    Renditions,   \* number of renditions (3 in the code)
    Thumbnails    \* number of thumbnails (3 in the code)

ASSUME ProcessAssumption ==
    Renditions \in Nat \ {0} /\ Thumbnails \in Nat \ {0}

VARIABLES
    kind,       \* the worker's job type
    pc,         \* the next call of process; "idle": between two attempts
    cancelled,  \* SIGTERM received
    encoder,    \* the goroutines of GenerateHLS and their ffmpegs
    made,       \* how far each file of the output is (on disk, or in memory)
    disk,       \* temporary paths of this attempt that exist
    deferred,   \* those whose removal is deferred
    sent,       \* files PUT by this attempt
    verdict     \* what process returns, once decided

processVars == <<kind, pc, cancelled, encoder, made, disk, deferred, sent, verdict>>

\* Files are numbered in the order of the walk. The rendition directories sort
\* before master.m3u8; a rendition's playlist and segments count as one file.
FileCount == [hls |-> Renditions + 1, thumbnail |-> Thumbnails, caption |-> 1]
Output == 1 .. FileCount[kind]
Master == Renditions + 1

Temporary == {"input", "outDir", "wav", "vtt"}

ProcessPc == {"idle", "download", "mkdir", "encode", "join", "probe", "frames",
              "duration", "extract", "transcribe", "upload", "return"}

ProcessTypeOK ==
    /\ kind \in AllJobTypes
    /\ pc \in ProcessPc
    /\ cancelled \in BOOLEAN
    /\ encoder \in [1 .. Renditions -> {"none", "running", "ok", "failed"}]
    /\ made \in [Output -> {"absent", "partial", "complete"}]
    /\ disk \subseteq Temporary
    /\ deferred \subseteq disk
    /\ sent \subseteq Output
    /\ verdict \in {"none", "ok", "error"}
    /\ verdict = "none" <=> pc \notin {"idle", "return"}

Nothing == [f \in Output |-> "absent"]
NoEncoders == [i \in 1 .. Renditions |-> "none"]

\* A worker that has made no attempt yet is as one that failed without trace.
ProcessInit ==
    /\ kind \in JobTypes
    /\ pc = "idle"
    /\ cancelled = FALSE
    /\ encoder = NoEncoders
    /\ made = Nothing
    /\ disk = {}
    /\ deferred = {}
    /\ sent = {}
    /\ verdict = "error"

-----------------------------------------------------------------------------
Goto(next) == pc' = next /\ UNCHANGED verdict

Decide(result) == pc' = "return" /\ verdict' = result

localVars == <<encoder, made, disk, deferred>>

\* handleDelivery calls process, for a job it could claim (so not with a
\* context that is done).
Start ==
    /\ pc = "idle"
    /\ ~cancelled
    /\ pc' = "download"
    /\ verdict' = "none"
    /\ made' = Nothing
    /\ sent' = {}
    /\ UNCHANGED <<kind, cancelled, encoder, disk, deferred>>

\* Mutant: the removal is deferred before the path is created.
CreateTempEarly(path) ==
    /\ deferred' = deferred \cup {path}
    /\ UNCHANGED disk

\* A path this attempt has created and will remove when it returns.
CreateTemp(path) ==
    /\ disk' = disk \cup {path}
    /\ deferred' = deferred \cup {path}

\* DownloadToTempFile; on an error it removes its file itself.
DownloadInput ==
    /\ pc = "download"
    /\ CreateTemp("input")
    /\ Goto(IF kind = "caption" THEN "probe" ELSE "mkdir")
    /\ UNCHANGED <<kind, cancelled, encoder, made, sent>>

MakeOutDir ==
    /\ pc = "mkdir"
    /\ CreateTemp("outDir")
    /\ Goto(IF kind = "hls" THEN "encode" ELSE "duration")
    /\ UNCHANGED <<kind, cancelled, encoder, made, sent>>

(* GenerateHLS *)

\* One goroutine and one ffmpeg per rendition, writing into outDir.
StartEncoders ==
    /\ pc = "encode"
    /\ encoder' = [i \in 1 .. Renditions |-> "running"]
    /\ made' = [f \in Output |-> IF f = Master THEN "absent" ELSE "partial"]
    /\ Goto("join")
    /\ UNCHANGED <<kind, cancelled, disk, deferred, sent>>

EncoderSucceeds(i) ==
    /\ encoder[i] = "running"
    /\ encoder' = [encoder EXCEPT ![i] = "ok"]
    /\ made' = [made EXCEPT ![i] = "complete"]
    /\ UNCHANGED <<kind, pc, cancelled, disk, deferred, sent, verdict>>

EncoderFails(i) ==
    /\ encoder[i] = "running"
    /\ encoder' = [encoder EXCEPT ![i] = "failed"]
    /\ UNCHANGED <<kind, pc, cancelled, made, disk, deferred, sent, verdict>>

\* Mutant: the errors of the goroutines are not looked at.
AllEncodedUnchecked == \A i \in 1 .. Renditions : encoder[i] # "running"

AllEncoded == \A i \in 1 .. Renditions : encoder[i] = "ok"

\* The master playlist, after wg.Wait and when no goroutine reported an error.
WriteMaster ==
    /\ pc = "join"
    /\ AllEncoded
    /\ made' = [made EXCEPT ![Master] = "complete"]
    /\ Goto("upload")
    /\ UNCHANGED <<kind, cancelled, encoder, disk, deferred, sent>>

\* Mutant: the first error that is reported returns at once.
FirstErrorReturns ==
    /\ pc = "join"
    /\ \E i \in 1 .. Renditions : encoder[i] = "failed"
    /\ Decide("error")
    /\ UNCHANGED <<kind, cancelled, localVars, sent>>

EncodingFailed ==
    /\ pc = "join"
    /\ \A i \in 1 .. Renditions : encoder[i] # "running"
    /\ ~AllEncoded
    /\ Decide("error")
    /\ UNCHANGED <<kind, cancelled, localVars, sent>>

(* GenerateThumbnails, and the caption of a video without sound *)

\* probeDuration: the captions of a silent video need nothing more.
ProbeDuration ==
    /\ pc = "duration"
    /\ made' = IF kind = "caption" THEN [made EXCEPT ![1] = "complete"] ELSE made
    /\ Goto(IF kind = "caption" THEN "upload" ELSE "frames")
    /\ UNCHANGED <<kind, cancelled, encoder, disk, deferred, sent>>

\* One ffmpeg after the other.
GrabFrame(f) ==
    /\ pc = "frames"
    /\ \A g \in Output : made[g] = "complete" <=> g < f
    /\ made' = [made EXCEPT ![f] = "complete"]
    /\ Goto(IF f = Thumbnails THEN "upload" ELSE "frames")
    /\ UNCHANGED <<kind, cancelled, encoder, disk, deferred, sent>>

(* The captions of a video with sound *)

\* HasAudioStream.
ProbeAudio ==
    /\ pc = "probe"
    /\ \E next \in {"extract", "duration"} : Goto(next)
    /\ UNCHANGED <<kind, cancelled, localVars, sent>>

ExtractAudio ==
    /\ pc = "extract"
    /\ CreateTemp("wav")
    /\ Goto("transcribe")
    /\ UNCHANGED <<kind, cancelled, encoder, made, sent>>

\* Mutant: the .vtt that whisper.cpp wrote next to the .wav stays.
TranscribeKeepsVtt ==
    /\ pc = "transcribe"
    /\ made' = [made EXCEPT ![1] = "complete"]
    /\ disk' = disk \cup {"vtt"}
    /\ Goto("upload")
    /\ UNCHANGED <<kind, cancelled, encoder, deferred, sent>>

\* Whisper.cpp's .vtt is read and removed at once.
Transcribe ==
    /\ pc = "transcribe"
    /\ made' = [made EXCEPT ![1] = "complete"]
    /\ Goto("upload")
    /\ UNCHANGED <<kind, cancelled, encoder, disk, deferred, sent>>

\* A command that failed may have left its output file: the removal of the .wav
\* is deferred only after ExtractAudio succeeded, and that of the .vtt comes
\* after reading it.
Leaves == [extract |-> {{}, {"wav"}}, transcribe |-> {{}, {"vtt"}}]

(* UploadDir, or the PutObject of the captions *)

\* Mutant: the walk visits master.m3u8 first.
NextInWalkLast == CHOOSE f \in Output \ sent : \A g \in Output \ sent : f >= g

NextInWalk == CHOOSE f \in Output \ sent : \A g \in Output \ sent : f <= g

PutFile ==
    /\ pc = "upload"
    /\ sent' = sent \cup {NextInWalk}
    /\ \/ sent' # Output /\ Goto("upload")
       \/ sent' = Output /\ Decide("ok")
       \/ Decide("error")
    /\ UNCHANGED <<kind, cancelled, localVars>>

-----------------------------------------------------------------------------
\* A command or a storage call, given the context.
External == pc \notin {"idle", "mkdir", "encode", "join", "return"}

\* The call under way (or the creation of outDir, or the write of the master
\* playlist) returns an error, and so does process.
CallErrs ==
    /\ External \/ pc = "mkdir" \/ (pc = "join" /\ AllEncoded)
    /\ \E left \in IF pc \in DOMAIN Leaves THEN Leaves[pc] ELSE {{}} :
          disk' = disk \cup left
    /\ Decide("error")
    /\ UNCHANGED <<kind, cancelled, encoder, made, deferred, sent>>

\* process returns: the deferred removals run. What is left behind is nobody's.
Return ==
    /\ pc = "return"
    /\ Goto("idle")
    /\ disk' = {}
    /\ deferred' = {}
    /\ encoder' = NoEncoders
    /\ UNCHANGED <<kind, cancelled, made, sent>>

Sigterm ==
    /\ ~cancelled
    /\ cancelled' = TRUE
    /\ UNCHANGED <<kind, pc, localVars, sent, verdict>>

\* With the context done, exec.CommandContext kills the command and the storage
\* client gives up its request.
Interrupt == cancelled /\ External /\ CallErrs

\* Mutant: ffmpeg is started with exec.Command.
InterruptEncoderNever(i) == FALSE /\ UNCHANGED processVars

InterruptEncoder(i) == cancelled /\ EncoderFails(i)

GoOn ==
    \/ Start \/ DownloadInput \/ MakeOutDir
    \/ StartEncoders \/ WriteMaster \/ EncodingFailed
    \/ ProbeDuration \/ \E f \in Output : GrabFrame(f)
    \/ ProbeAudio \/ ExtractAudio \/ Transcribe
    \/ PutFile \/ CallErrs \/ Return

ProcessNext ==
    \/ GoOn
    \/ \E i \in 1 .. Renditions : EncoderSucceeds(i) \/ EncoderFails(i)
    \/ Sigterm

ProcessSpec == ProcessInit /\ [][ProcessNext]_processVars

\* The code's own steps are taken, and what the context interrupts ends.
\* Nothing is assumed of a command or a call that is not interrupted.
ProcessFairSpec ==
    /\ ProcessSpec
    /\ WF_processVars(MakeOutDir \/ StartEncoders \/ WriteMaster \/ EncodingFailed \/ Return)
    /\ WF_processVars(Interrupt)
    /\ \A i \in 1 .. Renditions : WF_processVars(InterruptEncoder(i))

-----------------------------------------------------------------------------
(***************************************************************************)
(* Properties                                                              *)
(***************************************************************************)

\* Nothing is PUT before the whole output has been produced, and nothing that
\* an encoder left unfinished or is still writing: a failed rendition never
\* reaches storage, let alone behind a master playlist that refers to it.
SentIsFinal ==
    sent # {} =>
        /\ \A f \in Output : made[f] = "complete"
        /\ \A i \in 1 .. Renditions : encoder[i] # "running"

\* No ffmpeg outlives the attempt that started it: outDir is removed, and the
\* next attempt starts, only when nobody writes any more, also if one
\* rendition fails early or the worker is told to stop.
NoStrayEncoder ==
    pc \in {"idle", "return"} => \A i \in 1 .. Renditions : encoder[i] # "running"

\* What an attempt leaves on disk, beyond what its deferred removals take away,
\* is the output of the one command that failed it: the .wav of ExtractAudio, or
\* the .vtt of whisper.cpp, and then the .wav does go. Nothing stays after any
\* other failure, nor after success. (Go discards the errors of os.Remove; the
\* removals are taken to succeed.)
OnlyFailuresLeaveFiles ==
    pc = "return" /\ disk # deferred =>
        /\ kind = "caption" /\ verdict = "error" /\ sent = {}
        /\ \/ deferred = {"input"} /\ disk = {"input", "wav"}
           \/ deferred = {"input", "wav"} /\ disk = {"input", "wav", "vtt"}

Attempt ==
    INSTANCE AttemptContract
    WITH total <- FileCount[kind],
         phase <- IF verdict = "none" THEN "working" ELSE verdict

\* What handleDelivery relies on, in all three workers.
KeepsAttemptContract == Attempt!AttemptSpec

\* SIGTERM ends the attempt under way, whatever command or call hangs in it.
CancelEndsAttempt == cancelled ~> pc = "idle"

=============================================================================
