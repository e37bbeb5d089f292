---------------------------- MODULE StatusPoller ----------------------------
(***************************************************************************)
(* The page web/index.html following the videos it uploaded:               *)
(* pollVideoStatus, its tick and its timer, against a pipeline of which    *)
(* only the contract is known. The page is one JavaScript thread, but a    *)
(* tick gives it up while its fetch is under way: ticks overlap, answers   *)
(* overtake each other, and a call of pollVideoStatus for a newer video    *)
(* finds those of an older one still in flight.                            *)
(*                                                                         *)
(* Only the encoding status steers the page. What a tick does for the      *)
(* thumbnails is left out: it neither loads the player nor stops a timer.  *)
(***************************************************************************)
EXTENDS JobContract, Naturals

CONSTANTS
    MaxPolls,   \* bound on the calls of pollVideoStatus
    Follows,    \* Follows[p]: the video of the p-th call, each time another
    MaxTicks,   \* MaxTicks[p]: bound on the fetches call p has in flight
    MaxFaults   \* bound on fetches that are rejected or answered with an error

ASSUME PollerAssumption ==
    /\ "hls" \in JobTypes
    /\ MaxPolls \in Nat
    /\ Follows \in [1 .. MaxPolls -> Videos]
    /\ \A p, q \in 1 .. MaxPolls : Follows[p] = Follows[q] => p = q
    /\ MaxTicks \in [1 .. MaxPolls -> Nat \ {0}] /\ MaxFaults \in Nat

VARIABLES
    started,      \* calls 1 .. started of pollVideoStatus have been made
    timer,        \* timer[p]: the timer of call p
    pollHandle,   \* the page's variable: the call whose timer it names, or 0
    flight,       \* flight[p][f]: fetches of call p under way that are at f
    loaded,       \* calls that have loaded the player
    sawFailed,    \* calls that have handled a 'failed'
    faults

pageVars == <<started, timer, pollHandle, flight, loaded, sawFailed, faults>>
pollerVars == <<contractVars, pageVars>>

Polls == 1 .. MaxPolls
Started == 1 .. started
Status(p) == shown[Follows[p]]["hls"]

\* A fetch has not reached the server yet, or its answer is on its way.
Answer == {"error", "pending", "failed", "completed"}
Fetch == {"asked"} \cup Answer

UnderWay(p) ==
    flight[p]["asked"] + flight[p]["error"]
        + flight[p]["pending"] + flight[p]["failed"] + flight[p]["completed"]

\* "none": the first tick is under way; "never": its fetch was rejected.
PageTypeOK ==
    /\ started \in 0 .. MaxPolls
    /\ timer \in [Polls -> {"none", "live", "cleared", "never"}]
    /\ pollHandle \in {0} \cup {p \in Polls : timer[p] \in {"live", "cleared"}}
    /\ flight \in [Polls -> [Fetch -> Nat]]
    /\ \A p \in Polls : UnderWay(p) <= MaxTicks[p]
    /\ loaded \cup sawFailed \subseteq Started
    /\ faults \in 0 .. MaxFaults

PageInit ==
    /\ started = 0
    /\ timer = [p \in Polls |-> "none"]
    /\ pollHandle = 0
    /\ flight = [p \in Polls |-> [f \in Fetch |-> 0]]
    /\ loaded = {}
    /\ sawFailed = {}
    /\ faults = 0

-----------------------------------------------------------------------------
Sent(p) == flight' = [flight EXCEPT ![p]["asked"] = @ + 1]
Takes(p, f) == flight[p][f] > 0 /\ flight' = [flight EXCEPT ![p][f] = @ - 1]
Answers(p, s) ==
    /\ flight[p]["asked"] > 0
    /\ flight' = [flight EXCEPT ![p]["asked"] = @ - 1, ![p][s] = @ + 1]

Fault == faults < MaxFaults /\ faults' = faults + 1

\* clearInterval(pollHandle), whoever's timer that is. Clearing twice is fine.
Cleared ==
    [p \in Polls |-> IF p = pollHandle THEN "cleared" ELSE timer[p]]

\* Mutant: the timer is set before the first tick is awaited.
StartPollAtOnce(p) ==
    /\ p = started + 1
    /\ Status(p) # "absent"
    /\ started' = p
    /\ timer' = Cleared
    /\ pollHandle' = p
    /\ Sent(p)
    /\ UNCHANGED <<contractVars, loaded, sawFailed, faults>>

\* pollVideoStatus: after an upload, or for the video in the URL. The timer
\* of the call before is cleared, if it has one already; then the first tick.
StartPoll(p) ==
    /\ p = started + 1
    /\ Status(p) # "absent"
    /\ started' = p
    /\ timer' = Cleared
    /\ Sent(p)
    /\ UNCHANGED <<contractVars, pollHandle, loaded, sawFailed, faults>>

\* The timer fires, whatever ticks are still under way.
Fire(p) ==
    /\ timer[p] = "live"
    /\ UnderWay(p) < MaxTicks[p]
    /\ Sent(p)
    /\ UNCHANGED <<contractVars, started, timer, pollHandle, loaded, sawFailed, faults>>

\* upload-service answers GET /api/videos/{id} with the row as it is now, or
\* with a 404.
Serve(p) ==
    /\ Answers(p, IF Status(p) \in {"absent", "removed"} THEN "error" ELSE Status(p))
    /\ UNCHANGED <<contractVars, started, timer, pollHandle, loaded, sawFailed, faults>>

\* The API fails with a 5xx.
ServeErrs(p) ==
    /\ Answers(p, "error")
    /\ Fault
    /\ UNCHANGED <<contractVars, started, timer, pollHandle, loaded, sawFailed>>

\* fetch rejects: so does the tick, and with the first tick pollVideoStatus
\* itself, before it has set a timer.
FetchRejects(p) ==
    /\ Takes(p, "asked")
    /\ Fault
    /\ timer' = [timer EXCEPT ![p] = IF @ = "none" THEN "never" ELSE @]
    /\ UNCHANGED <<contractVars, started, pollHandle, loaded, sawFailed>>

\* Mutant: anything but 'pending' is taken for playable.
PlaysUnlessPending(status) == status \notin {"pending", "error"}

Plays(status) == status = "completed"

\* Mutant: only a failure ends the polling.
StopsAtFailure(status) == status = "failed"

\* Mutant: anything but 'pending' ends the polling, an error too.
StopsUnlessPending(status) == status # "pending"

Stops(status) == status \in {"completed", "failed"}

\* The rest of tick, in one go; an answer with an error is only logged. It acts
\* for its own call, even if the page has turned to another video, and clears
\* whatever timer pollHandle names. After the first tick the await returns and
\* the timer is set, whatever that tick has found and cleared.
HandleAnswer(p, status) ==
    LET timers == IF Stops(status) THEN Cleared ELSE timer
        first == timer[p] = "none"
    IN  /\ Takes(p, status)
        /\ loaded' = IF Plays(status) THEN loaded \cup {p} ELSE loaded
        /\ sawFailed' = IF status = "failed" THEN sawFailed \cup {p} ELSE sawFailed
        /\ timer' = IF first THEN [timers EXCEPT ![p] = "live"] ELSE timers
        /\ pollHandle' = IF first THEN p ELSE pollHandle
        /\ UNCHANGED <<contractVars, started, faults>>

Handle(p) == \E status \in Answer : HandleAnswer(p, status)

PageNext ==
    \E p \in Polls :
        \/ StartPoll(p)
        \/ Fire(p) \/ Serve(p) \/ ServeErrs(p) \/ FetchRejects(p) \/ Handle(p)

PollerInit == ContractInit /\ PageInit

PollerSpec ==
    /\ PollerInit
    /\ [][PageNext \/ (ContractNext /\ UNCHANGED pageVars)]_pollerVars

\* Timers fire, the API answers, the page handles what has arrived, in any
\* order. Nothing is assumed of the pipeline.
PollerFairSpec ==
    /\ PollerSpec
    /\ \A p \in Polls :
          WF_pollerVars(Fire(p)) /\ WF_pollerVars(Serve(p)) /\ WF_pollerVars(Handle(p))

-----------------------------------------------------------------------------
(***************************************************************************)
(* Properties                                                              *)
(***************************************************************************)

\* A video the page loads is in storage as a whole, however old the answer that
\* made it load and whatever was retried since; only a DELETE takes it away.
LoadsOnlyWhole ==
    \A p \in loaded :
        <<Follows[p], "hls">> \in whole \/ Status(p) = "removed"

Playable(p) == p \in Started /\ Status(p) = "completed"

\* The start or a tick of another call cleared the timer of call p, which had no
\* verdict yet.
Silenced(p) ==
    timer[p] = "cleared" /\ p \notin loaded \cup sawFailed /\ Started # {p}

\* A call of pollVideoStatus finds out that its video is playable, unless its
\* first fetch was rejected, it gave up at a 'failed', or the page follows two
\* videos and one call has cleared the timer of the other.
NoticesCompletion ==
    \A p \in Polls :
        Playable(p)
            ~> \/ ~Playable(p)
               \/ p \in loaded \cup sawFailed
               \/ timer[p] = "never" \/ Silenced(p)

\* Once it has its verdict, a page that follows one video stops asking, also if
\* the first tick brought the verdict and set a timer all the same.
PollingEnds ==
    Started = {1} /\ 1 \in loaded
        ~> Started # {1} \/ timer[1] # "live" \/ ~Playable(1)

=============================================================================
