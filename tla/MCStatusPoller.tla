--------------------------- MODULE MCStatusPoller ---------------------------
(* An instance of StatusPoller for TLC. *)
EXTENDS StatusPoller

CONSTANTS v1, v2

BothVideos == {v1, v2}

\* The videos are alike: it does not matter which is followed first.
OneAfterTheOther == <<v1, v2>>

\* Ticks of the older call overlap; the newer one asks again when it has heard.
TwoAndOne == <<2, 1>>

=============================================================================
