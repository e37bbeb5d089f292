----------------------------- MODULE MCRowLocks -----------------------------
(***************************************************************************)
(* Instance of RowLocks for TLC: a worker and two handlers of              *)
(* upload-service.                                                         *)
(***************************************************************************)
EXTENDS RowLocks, TLC

CONSTANTS wHls, api1, api2

OneWorker == (wHls :> "hls") @@ (api1 :> "api") @@ (api2 :> "api")

=============================================================================
