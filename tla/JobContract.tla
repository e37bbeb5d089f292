---------------------------- MODULE JobContract ----------------------------
(***************************************************************************)
(* What the processing pipeline promises to whoever reads the API and      *)
(* loads files from storage: the status each job of a video shows, and     *)
(* whether the job's output is in storage as a whole. Nothing of queues,   *)
(* claims, attempts or crashes is visible here.                            *)
(***************************************************************************)
CONSTANTS
    Videos,    \* ids of uploaded videos
    JobTypes,  \* the jobs of a video
    CompletionsAreFinal  \* whether only a retry takes a completion back

ASSUME FinalityAssumption == CompletionsAreFinal \in BOOLEAN

VARIABLES
    shown,     \* shown[v][t]: what GET /api/videos/{v} shows of job t
    whole      \* <<v, t>> such that all files of the output are in storage

contractVars == <<shown, whole>>

Shown == {"absent", "pending", "failed", "completed", "removed"}

ContractInit ==
    /\ shown = [v \in Videos |-> [t \in JobTypes |-> "absent"]]
    /\ whole = {}

Shows(v, t, s) == shown' = [shown EXCEPT ![v][t] = s]

ShowsAll(v, s) == shown' = [shown EXCEPT ![v] = [t \in JobTypes |-> s]]

\* A completed upload appears with all of its jobs at once.
Record(v) ==
    /\ \A t \in JobTypes : shown[v][t] = "absent"
    /\ ShowsAll(v, "pending")
    /\ UNCHANGED whole

\* The last file of an output arrives; an attempt under way may still bring it
\* after the video was removed.
Produce(v, t) ==
    /\ shown[v][t] # "absent"
    /\ whole' = whole \cup {<<v, t>>}
    /\ UNCHANGED shown

\* A job reads as completed only once its output is whole.
Complete(v, t) ==
    /\ shown[v][t] \in {"pending", "failed"}
    /\ <<v, t>> \in whole
    /\ Shows(v, t, "completed")
    /\ UNCHANGED whole

\* An attempt failed; there may be others. Where two attempts on one job may
\* overlap, the failure of one may come after the completion of the other.
Fail(v, t) ==
    /\ \/ shown[v][t] = "pending"
       \/ shown[v][t] = "completed" /\ ~CompletionsAreFinal
    /\ Shows(v, t, "failed")
    /\ UNCHANGED whole

\* A manual retry. The files of a completed job stay where they are.
Retry(v, t) ==
    /\ shown[v][t] \in {"failed", "completed"}
    /\ Shows(v, t, "pending")
    /\ UNCHANGED whole

\* A DELETE: the video is gone for good.
Remove(v) ==
    /\ \A t \in JobTypes : shown[v][t] \notin {"absent", "removed"}
    /\ ShowsAll(v, "removed")
    /\ UNCHANGED whole

\* The files of a removed video go; nobody else's do.
Sweep(v, t) ==
    /\ shown[v][t] = "removed"
    /\ whole' = whole \ {<<v, t>>}
    /\ UNCHANGED shown

JobStep(v, t) ==
    Produce(v, t) \/ Complete(v, t) \/ Fail(v, t) \/ Retry(v, t) \/ Sweep(v, t)

ContractNext ==
    \E v \in Videos :
        Record(v) \/ Remove(v) \/ \E t \in JobTypes : JobStep(v, t)

ContractSpec == ContractInit /\ [][ContractNext]_contractVars

=============================================================================
