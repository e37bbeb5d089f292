--------------------------- MODULE MCJobPipeline ---------------------------
(***************************************************************************)
(* Instances of JobPipeline for TLC.                                       *)
(***************************************************************************)
EXTENDS JobPipeline, TLC

CONSTANTS wHls, wCap, wHls2

\* docker-compose.yml: one worker process per queue.
Deployed == (wHls :> "hls") @@ (wCap :> "caption")

\* docker compose up --scale ffmpeg-worker=2.
ScaledOut == (wHls :> "hls") @@ (wHls2 :> "hls")

\* A single queue with a single worker.
Single == wHls :> "hls"

RequestSymmetry == Permutations(Requests)

=============================================================================
