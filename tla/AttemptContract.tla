--------------------------- MODULE AttemptContract ---------------------------
(***************************************************************************)
(* What a worker's process function promises to handleDelivery, and all    *)
(* that JobPipeline uses of it (Download, UploadFile, ProcessFails): an    *)
(* attempt PUTs the files of its output one by one in a fixed order, the   *)
(* entry point last, and returns without an error only after all of them.  *)
(***************************************************************************)
EXTENDS Naturals

VARIABLES
    total,   \* files of the output
    sent,    \* those this attempt has PUT
    phase    \* "working", or what process returns: "ok" or "error"

attemptVars == <<total, sent, phase>>

AttemptInit == total \in Nat \ {0} /\ sent = {} /\ phase = "error"

BeginAttempt ==
    /\ phase # "working"
    /\ phase' = "working"
    /\ sent' = {}
    /\ UNCHANGED total

\* The next file arrives. The last one decides the attempt, unless the answer
\* to the PUT is lost.
PutNext ==
    \E file \in 1 .. total :
        /\ phase = "working"
        /\ sent = 1 .. file - 1
        /\ sent' = 1 .. file
        /\ phase' \in {IF file = total THEN "ok" ELSE "working", "error"}
        /\ UNCHANGED total

FailAttempt ==
    /\ phase = "working"
    /\ phase' = "error"
    /\ UNCHANGED <<total, sent>>

AttemptSpec ==
    AttemptInit /\ [][BeginAttempt \/ PutNext \/ FailAttempt]_attemptVars

=============================================================================
