------------------------------ MODULE VodTypes ------------------------------
(***************************************************************************)
(* The vocabulary of internal/models/models.go: video ids, job types and   *)
(* the status values that both tables and the API share.                   *)
(***************************************************************************)
EXTENDS Naturals

CONSTANTS
    Videos,     \* ids of uploaded videos (uuid.NewString, never reused)
    JobTypes,   \* the job types of an instance: a subset of AllJobTypes
    NoVideo     \* "no video id"

AllJobTypes == {"hls", "thumbnail", "caption"}

ASSUME JobTypesAssumption == JobTypes \subseteq AllJobTypes
ASSUME NoVideoAssumption == NoVideo \notin Videos

Status == {"pending", "processing", "completed", "failed"}

=============================================================================
