------------------------- MODULE StatusPollerProofs -------------------------
(***************************************************************************)
(* Proofs about JobContract and about the page that relies on it, for any  *)
(* videos, any number of calls and any number of fetches in flight. What   *)
(* the page knows of the pipeline is the contract alone.                   *)
(***************************************************************************)
EXTENDS StatusPoller, TLAPS

-----------------------------------------------------------------------------
(* The contract: what reads as completed is whole.                          *)

ContractTypeOK == shown \in [Videos -> [JobTypes -> Shown]]

ShownIsWhole ==
    \A v \in Videos, t \in JobTypes :
        shown[v][t] = "completed" => <<v, t>> \in whole

ContractInv == ContractTypeOK /\ ShownIsWhole

LEMMA ContractStepInv == ContractInv /\ [ContractNext]_contractVars => ContractInv'
<1> SUFFICES ASSUME ContractInv, [ContractNext]_contractVars  PROVE ContractInv'
  OBVIOUS
<1> USE DEF ContractInv, ContractTypeOK, ShownIsWhole, Shown
<1>1. ASSUME NEW v \in Videos, Record(v) \/ Remove(v)  PROVE ContractInv'
  <2>1. whole' = whole
    BY <1>1 DEF Record, Remove
  <2>2. \E s \in {"pending", "removed"} :
            shown' = [shown EXCEPT ![v] = [t \in JobTypes |-> s]]
    BY <1>1 DEF Record, Remove, ShowsAll
  <2> QED  BY <2>1, <2>2
<1>2. ASSUME NEW v \in Videos, NEW t \in JobTypes, Produce(v, t)  PROVE ContractInv'
  BY <1>2 DEF Produce
<1>3. ASSUME NEW v \in Videos, NEW t \in JobTypes, Complete(v, t)  PROVE ContractInv'
  BY <1>3 DEF Complete, Shows
<1>4. ASSUME NEW v \in Videos, NEW t \in JobTypes, Fail(v, t) \/ Retry(v, t)
      PROVE  ContractInv'
  BY <1>4 DEF Fail, Retry, Shows
<1>5. ASSUME NEW v \in Videos, NEW t \in JobTypes, Sweep(v, t)  PROVE ContractInv'
  BY <1>5 DEF Sweep
<1>6. CASE UNCHANGED contractVars
  BY <1>6 DEF contractVars
<1> QED
  BY <1>1, <1>2, <1>3, <1>4, <1>5, <1>6 DEF ContractNext, JobStep

LEMMA ContractInitInv == ContractInit => ContractInv
BY DEF ContractInit, ContractInv, ContractTypeOK, ShownIsWhole, Shown

\* Whatever implements JobContract never shows a completed job whose output is
\* not in storage as a whole.
THEOREM ContractShowsWhole == ContractSpec => []ShownIsWhole
<1>1. ContractInv => ShownIsWhole
  BY DEF ContractInv
<1> QED  BY <1>1, ContractInitInv, ContractStepInv, PTL DEF ContractSpec

-----------------------------------------------------------------------------
(* The page. An answer under way is out of date, but what it says of a      *)
(* completed video stays true until a DELETE.                               *)

WholeOrGone(p) == <<Follows[p], "hls">> \in whole \/ Status(p) = "removed"

AnswersAreTrue ==
    \A p \in Polls : flight[p]["completed"] > 0 => WholeOrGone(p)

\* Before its start a call has done nothing; while its first tick is under way,
\* it has a fetch under way.
NotStarted == \A p \in Polls \ Started : timer[p] = "none" /\ UnderWay(p) = 0

FirstTickIsUnderWay == \A p \in Started : timer[p] = "none" => UnderWay(p) > 0

\* Nobody follows p any more, and the page can tell why.
Settled(p) == p \in loaded \cup sawFailed \/ timer[p] = "never" \/ Silenced(p)

\* A call of pollVideoStatus that is not settled has a timer, or a first tick
\* under way that sets one.
StillFollowed ==
    \A p \in Started :
        Settled(p) \/ timer[p] = "live" \/ (timer[p] = "none" /\ UnderWay(p) > 0)

PollerInv ==
    /\ ContractInv
    /\ PageTypeOK
    /\ NotStarted
    /\ FirstTickIsUnderWay
    /\ StillFollowed
    /\ AnswersAreTrue
    /\ LoadsOnlyWhole

LEMMA FollowsVideos ==
  ASSUME NEW p \in Polls  PROVE Follows[p] \in Videos /\ "hls" \in JobTypes
BY PollerAssumption DEF Polls

\* Files of a video go only by the sweep of its DELETE, and it never returns.
LEMMA WholeOrGoneStays ==
  ASSUME ContractInv, [ContractNext]_contractVars, NEW p \in Polls, WholeOrGone(p)
  PROVE  WholeOrGone(p)'
<1> USE FollowsVideos DEF ContractInv, ContractTypeOK, WholeOrGone, Status
<1> DEFINE v == Follows[p]
<1>0. v \in Videos /\ "hls" \in JobTypes
  OBVIOUS
<1>1. ASSUME NEW x \in Videos, Record(x)  PROVE WholeOrGone(p)'
  BY <1>0, <1>1 DEF Record, ShowsAll
<1>2. ASSUME NEW x \in Videos, Remove(x)  PROVE WholeOrGone(p)'
  BY <1>0, <1>2 DEF Remove, ShowsAll
<1>3. ASSUME NEW x \in Videos, NEW t \in JobTypes, Produce(x, t) \/ Sweep(x, t)
      PROVE  WholeOrGone(p)'
  BY <1>0, <1>3 DEF Produce, Sweep
<1>4. ASSUME NEW x \in Videos, NEW t \in JobTypes, Complete(x, t) \/ Fail(x, t) \/ Retry(x, t)
      PROVE  WholeOrGone(p)'
  <2>1. /\ shown[x][t] # "removed"
        /\ whole' = whole
        /\ \E s : shown' = [shown EXCEPT ![x][t] = s]
    BY <1>4 DEF Complete, Fail, Retry, Shows
  <2> QED  BY <1>0, <2>1
<1>5. CASE UNCHANGED contractVars
  BY <1>5 DEF contractVars
<1> QED
  BY <1>1, <1>2, <1>3, <1>4, <1>5 DEF ContractNext, JobStep

\* Fetches of one call under way, as they are sent, answered and taken.
LEMMA FlightMoves ==
  ASSUME PageTypeOK, NEW p \in Polls
  PROVE  /\ \A q \in Polls : UnderWay(q) \in Nat
         /\ Sent(p) =>
               /\ flight' \in [Polls -> [Fetch -> Nat]]
               /\ UnderWay(p)' = UnderWay(p) + 1
               /\ flight'[p]["completed"] = flight[p]["completed"]
         /\ \A f \in Fetch : Takes(p, f) =>
               /\ flight' \in [Polls -> [Fetch -> Nat]]
               /\ UnderWay(p) > 0
               /\ UnderWay(p)' = UnderWay(p) - 1
               /\ flight'[p]["completed"] <= flight[p]["completed"]
         /\ \A s \in Answer : Answers(p, s) =>
               /\ flight' \in [Polls -> [Fetch -> Nat]]
               /\ UnderWay(p)' = UnderWay(p)
               /\ s # "completed" => flight'[p]["completed"] = flight[p]["completed"]
         /\ Sent(p) \/ (\E f \in Fetch : Takes(p, f)) \/ (\E s \in Answer : Answers(p, s))
               => \A q \in Polls : q # p =>
                     flight'[q] = flight[q] /\ UnderWay(q)' = UnderWay(q)
<1> USE DEF Fetch, Answer, UnderWay
<1>1. flight \in [Polls -> [Fetch -> Nat]]
  BY DEF PageTypeOK
<1>2. \A q \in Polls : UnderWay(q) \in Nat
  BY <1>1
<1>3. ASSUME Sent(p)
      PROVE  /\ flight' \in [Polls -> [Fetch -> Nat]]
             /\ UnderWay(p)' = UnderWay(p) + 1
             /\ flight'[p]["completed"] = flight[p]["completed"]
             /\ \A q \in Polls : q # p => flight'[q] = flight[q]
  BY <1>1, <1>3 DEF Sent
<1>4. ASSUME NEW f \in Fetch, Takes(p, f)
      PROVE  /\ flight' \in [Polls -> [Fetch -> Nat]]
             /\ UnderWay(p) > 0
             /\ UnderWay(p)' = UnderWay(p) - 1
             /\ flight'[p]["completed"] <= flight[p]["completed"]
             /\ \A q \in Polls : q # p => flight'[q] = flight[q]
  <2>1. /\ flight' \in [Polls -> [Fetch -> Nat]]
        /\ \A q \in Polls : q # p => flight'[q] = flight[q]
        /\ flight[p] \in [Fetch -> Nat]
        /\ flight[p][f] > 0
        /\ flight'[p] = [flight[p] EXCEPT ![f] = flight[p][f] - 1]
    BY <1>1, <1>4 DEF Takes
  <2>2. /\ \A g \in Fetch : flight[p][g] \in Nat
        /\ \A g \in Fetch : flight'[p][g] = IF g = f THEN flight[p][g] - 1 ELSE flight[p][g]
    BY <2>1
  <2>3. UnderWay(p) > 0 /\ UnderWay(p)' = UnderWay(p) - 1
    BY <2>1, <2>2
  <2>4. flight'[p]["completed"] <= flight[p]["completed"]
    BY <2>2
  <2> QED  BY <2>1, <2>3, <2>4
<1>5. ASSUME NEW s \in Answer, Answers(p, s)
      PROVE  /\ flight' \in [Polls -> [Fetch -> Nat]]
             /\ UnderWay(p)' = UnderWay(p)
             /\ s # "completed" => flight'[p]["completed"] = flight[p]["completed"]
             /\ \A q \in Polls : q # p => flight'[q] = flight[q]
  BY <1>1, <1>5 DEF Answers
<1>6. \A q \in Polls : flight'[q] = flight[q] => UnderWay(q)' = UnderWay(q)
  OBVIOUS
<1> HIDE DEF Fetch, Answer, UnderWay
<1> QED  BY <1>2, <1>3, <1>4, <1>5, <1>6

LEMMA PollerInitInv == PollerInit => PollerInv
<1> SUFFICES ASSUME PollerInit PROVE PollerInv
  OBVIOUS
<1>1. ContractInv
  BY ContractInitInv DEF PollerInit
<1>2. \A p \in Polls : \A f \in Fetch : flight[p][f] = 0
  BY DEF PollerInit, PageInit
<1>3. \A p \in Polls : UnderWay(p) = 0 /\ flight[p]["completed"] = 0
  BY <1>2 DEF UnderWay, Fetch, Answer
<1>4. Started = {}
  BY DEF PollerInit, PageInit, Started
<1>5. PageTypeOK
  BY <1>3, <1>4, PollerAssumption DEF PollerInit, PageInit, PageTypeOK, Polls
<1> QED
  BY <1>1, <1>3, <1>4, <1>5
  DEF PollerInit, PageInit, PollerInv, LoadsOnlyWhole, AnswersAreTrue, NotStarted,
      FirstTickIsUnderWay, StillFollowed

\* The pipeline moves, the page does not.
LEMMA PipelineMoves ==
  ASSUME PollerInv, [ContractNext]_contractVars, UNCHANGED pageVars
  PROVE  PollerInv'
<1>1. ContractInv'
  BY ContractStepInv DEF PollerInv
<1>2. UNCHANGED <<started, timer, pollHandle, flight, loaded, sawFailed, faults>>
  BY DEF pageVars
<1>3. \A p \in Polls : WholeOrGone(p) => WholeOrGone(p)'
  BY WholeOrGoneStays DEF PollerInv
<1>4. PageTypeOK' /\ NotStarted' /\ FirstTickIsUnderWay' /\ StillFollowed'
  BY <1>2 DEF PollerInv, PageTypeOK, NotStarted, FirstTickIsUnderWay, StillFollowed,
     Settled, Silenced, Started, UnderWay
<1>5. AnswersAreTrue' /\ LoadsOnlyWhole'
  <2>1. loaded \subseteq Polls
    BY PollerAssumption DEF PollerInv, PageTypeOK, Started, Polls
  <2> QED  BY <1>2, <1>3, <2>1 DEF PollerInv, AnswersAreTrue, LoadsOnlyWhole, WholeOrGone
<1> QED  BY <1>1, <1>4, <1>5 DEF PollerInv

\* The page moves. The bookkeeping of its calls needs nothing of the pipeline.
PageSafe == PageTypeOK /\ NotStarted /\ FirstTickIsUnderWay /\ StillFollowed

LEMMA StartedArePolls ==
  ASSUME PageTypeOK
  PROVE  /\ Started \subseteq Polls
         /\ \A p \in Polls : started + 1 = p => Started \cup {p} = 1 .. p /\ p \notin Started
         /\ 0 \notin Polls
BY PollerAssumption DEF PageTypeOK, Started, Polls

LEMMA StartPollKeeps ==
  ASSUME PageSafe, NEW p \in Polls, StartPoll(p)
  PROVE  PageSafe'
<1>1. PageTypeOK /\ NotStarted /\ FirstTickIsUnderWay /\ StillFollowed
  BY DEF PageSafe
<1>2. /\ started' = p
      /\ timer' = Cleared
      /\ Sent(p)
      /\ UNCHANGED <<pollHandle, loaded, sawFailed, faults>>
  BY DEF StartPoll
<1>3. /\ Started' = Started \cup {p}
      /\ p \notin Started
      /\ Started \subseteq Polls
  BY <1>1, <1>2, StartedArePolls DEF StartPoll, Started
<1>4. timer[p] = "none" /\ UnderWay(p) = 0
  BY <1>1, <1>3 DEF NotStarted
<1>5. /\ p # pollHandle
      /\ pollHandle # 0 => pollHandle \in Polls /\ timer[pollHandle] \in {"live", "cleared"}
  BY <1>1, <1>4, StartedArePolls DEF PageTypeOK
<1>6. \A q \in Polls : timer'[q] = IF q = pollHandle THEN "cleared" ELSE timer[q]
  BY <1>2 DEF Cleared
<1>7. /\ flight' \in [Polls -> [Fetch -> Nat]]
      /\ UnderWay(p)' = 1
      /\ \A q \in Polls : q # p => UnderWay(q)' = UnderWay(q)
  BY <1>1, <1>2, <1>4, FlightMoves
<1>8. PageTypeOK'
  <2>1. timer' \in [Polls -> {"none", "live", "cleared", "never"}]
    BY <1>1, <1>2 DEF PageTypeOK, Cleared
  <2>2. pollHandle' \in {0} \cup {q \in Polls : timer'[q] \in {"live", "cleared"}}
    BY <1>1, <1>2, <1>5, <1>6
  <2>3. \A q \in Polls : UnderWay(q)' <= MaxTicks[q]
    <3>1. \A q \in Polls : UnderWay(q) <= MaxTicks[q] /\ MaxTicks[q] \in Nat \ {0}
      BY <1>1, PollerAssumption DEF PageTypeOK, Polls
    <3>2. 1 <= MaxTicks[p]
      BY <3>1
    <3> QED  BY <1>7, <3>1, <3>2
  <2>4. started' \in 0 .. MaxPolls
    BY <1>2, PollerAssumption DEF Polls
  <2> QED  BY <1>1, <1>2, <1>3, <1>7, <2>1, <2>2, <2>3, <2>4 DEF PageTypeOK
<1>9. NotStarted'
  BY <1>1, <1>3, <1>5, <1>6, <1>7, StartedArePolls DEF NotStarted
<1>10. FirstTickIsUnderWay'
  BY <1>1, <1>3, <1>6, <1>7 DEF FirstTickIsUnderWay
<1>11. StillFollowed'
  <2> SUFFICES ASSUME NEW q \in Started'
               PROVE  Settled(q)' \/ timer'[q] = "live" \/ (timer'[q] = "none" /\ UnderWay(q)' > 0)
    BY DEF StillFollowed
  <2>1. CASE q = p
    BY <1>4, <1>5, <1>6, <1>7, <2>1
  <2>2. CASE q # p /\ q = pollHandle
    BY <1>3, <1>6, <2>2 DEF Settled, Silenced
  <2>3. CASE q # p /\ q # pollHandle
    <3>1. q \in Started /\ timer'[q] = timer[q] /\ UnderWay(q)' = UnderWay(q)
      BY <1>3, <1>6, <1>7, <2>3
    <3>2. Settled(q) => Settled(q)'
      BY <1>2, <1>3, <2>3, <3>1 DEF Settled, Silenced
    <3> QED  BY <1>1, <3>1, <3>2 DEF StillFollowed
  <2> QED  BY <2>1, <2>2, <2>3
<1> QED  BY <1>8, <1>9, <1>10, <1>11 DEF PageSafe

\* Only fetches of call p are sent or answered.
LEMMA FetchesKeep ==
  ASSUME PageSafe, NEW p \in Polls,
         UNCHANGED <<started, timer, pollHandle, loaded, sawFailed>>,
         faults' \in 0 .. MaxFaults,
         \/ timer[p] = "live" /\ Sent(p) /\ UnderWay(p) < MaxTicks[p]
         \/ \E s \in Answer : Answers(p, s)
  PROVE  PageSafe'
<1>1. PageTypeOK /\ NotStarted /\ FirstTickIsUnderWay /\ StillFollowed
  BY DEF PageSafe
<1>2. /\ flight' \in [Polls -> [Fetch -> Nat]]
      /\ \A q \in Polls : UnderWay(q) \in Nat /\ UnderWay(q)' \in Nat
      /\ \A q \in Polls : q # p => UnderWay(q)' = UnderWay(q)
      /\ UnderWay(p)' = UnderWay(p)
            \/ (timer[p] = "live" /\ UnderWay(p) < MaxTicks[p] /\ UnderWay(p)' = UnderWay(p) + 1)
  BY <1>1, FlightMoves
<1>3. Started' = Started /\ Started \subseteq Polls
  BY <1>1, StartedArePolls DEF Started
<1>4. PageTypeOK'
  <2>1. \A q \in Polls : UnderWay(q) <= MaxTicks[q] /\ MaxTicks[q] \in Nat
    BY <1>1, PollerAssumption DEF PageTypeOK, Polls
  <2>2. \A q \in Polls : UnderWay(q)' <= MaxTicks[q]
    BY <1>2, <2>1
  <2> QED  BY <1>1, <1>2, <1>3, <2>2 DEF PageTypeOK
<1>5. NotStarted'
  BY <1>1, <1>2, <1>3 DEF NotStarted
<1>6. FirstTickIsUnderWay'
  BY <1>1, <1>2, <1>3 DEF FirstTickIsUnderWay
<1>7. StillFollowed'
  BY <1>1, <1>2, <1>3 DEF StillFollowed, Settled, Silenced
<1> QED  BY <1>4, <1>5, <1>6, <1>7 DEF PageSafe

LEMMA FetchRejectsKeeps ==
  ASSUME PageSafe, NEW p \in Polls, FetchRejects(p)
  PROVE  PageSafe'
<1>1. PageTypeOK /\ NotStarted /\ FirstTickIsUnderWay /\ StillFollowed
  BY DEF PageSafe
<1>2. /\ Takes(p, "asked")
      /\ timer' = [timer EXCEPT ![p] = IF @ = "none" THEN "never" ELSE @]
      /\ UNCHANGED <<started, pollHandle, loaded, sawFailed>>
  BY DEF FetchRejects
<1>3. faults' \in 0 .. MaxFaults
  BY <1>1, PollerAssumption DEF FetchRejects, Fault, PageTypeOK
<1>4. /\ flight' \in [Polls -> [Fetch -> Nat]]
      /\ \A q \in Polls : UnderWay(q) \in Nat
      /\ \A q \in Polls : q # p => UnderWay(q)' = UnderWay(q)
      /\ UnderWay(p) > 0
      /\ UnderWay(p)' = UnderWay(p) - 1
  BY <1>1, <1>2, FlightMoves DEF Fetch
<1>5. Started' = Started /\ Started \subseteq Polls /\ p \in Started
  BY <1>1, <1>2, <1>4, StartedArePolls DEF Started, NotStarted
<1>6. /\ timer' \in [Polls -> {"none", "live", "cleared", "never"}]
      /\ \A q \in Polls : q # p => timer'[q] = timer[q]
      /\ timer'[p] = IF timer[p] = "none" THEN "never" ELSE timer[p]
  BY <1>1, <1>2 DEF PageTypeOK
<1>7. PageTypeOK'
  <2>1. \A q \in Polls : UnderWay(q) <= MaxTicks[q] /\ MaxTicks[q] \in Nat
    BY <1>1, PollerAssumption DEF PageTypeOK, Polls
  <2>2. \A q \in Polls : UnderWay(q)' <= MaxTicks[q]
    BY <1>4, <2>1
  <2>3. pollHandle' \in {0} \cup {q \in Polls : timer'[q] \in {"live", "cleared"}}
    BY <1>1, <1>2, <1>6 DEF PageTypeOK
  <2> QED  BY <1>1, <1>2, <1>3, <1>4, <1>5, <1>6, <2>2, <2>3 DEF PageTypeOK
<1>8. NotStarted'
  BY <1>1, <1>4, <1>5, <1>6 DEF NotStarted
<1>9. FirstTickIsUnderWay'
  BY <1>1, <1>4, <1>5, <1>6 DEF FirstTickIsUnderWay
<1>10. StillFollowed'
  BY <1>1, <1>2, <1>4, <1>5, <1>6 DEF StillFollowed, Settled, Silenced
<1> QED  BY <1>7, <1>8, <1>9, <1>10 DEF PageSafe

\* Whoever clears the timer of a call without a verdict is another call.
LEMMA HandleKeeps ==
  ASSUME PageSafe, NEW p \in Polls, NEW status \in Answer, HandleAnswer(p, status)
  PROVE  PageSafe'
<1>1. PageTypeOK /\ NotStarted /\ FirstTickIsUnderWay /\ StillFollowed
  BY DEF PageSafe
<1>2. /\ Takes(p, status)
      /\ loaded' = IF Plays(status) THEN loaded \cup {p} ELSE loaded
      /\ sawFailed' = IF status = "failed" THEN sawFailed \cup {p} ELSE sawFailed
      /\ UNCHANGED <<started, faults>>
      /\ pollHandle' = IF timer[p] = "none" THEN p ELSE pollHandle
  BY DEF HandleAnswer
<1>3. /\ flight' \in [Polls -> [Fetch -> Nat]]
      /\ \A q \in Polls : UnderWay(q) \in Nat
      /\ \A q \in Polls : q # p => UnderWay(q)' = UnderWay(q)
      /\ UnderWay(p) > 0
      /\ UnderWay(p)' = UnderWay(p) - 1
  BY <1>1, <1>2, FlightMoves DEF Fetch
<1>4. Started' = Started /\ Started \subseteq Polls /\ p \in Started
  BY <1>1, <1>2, <1>3, StartedArePolls DEF Started, NotStarted
<1>5. /\ timer' \in [Polls -> {"none", "live", "cleared", "never"}]
      /\ timer[p] = "none" => timer'[p] = "live"
      /\ \A q \in Polls : timer[q] = "none" /\ q # p => timer'[q] = "none"
      /\ \A q \in Polls : timer[q] # "none" =>
            \/ timer'[q] = timer[q]
            \/ Stops(status) /\ timer'[q] = "cleared" /\ timer[q] \in {"live", "cleared"}
  <2>1. /\ timer \in [Polls -> {"none", "live", "cleared", "never"}]
        /\ \A q \in Polls : q = pollHandle => timer[q] \in {"live", "cleared"}
    BY <1>1, StartedArePolls DEF PageTypeOK
  <2>2. \/ timer' = [Cleared EXCEPT ![p] = "live"] /\ timer[p] = "none" /\ Stops(status)
        \/ timer' = [timer EXCEPT ![p] = "live"] /\ timer[p] = "none" /\ ~Stops(status)
        \/ timer' = Cleared /\ timer[p] # "none" /\ Stops(status)
        \/ timer' = timer /\ timer[p] # "none" /\ ~Stops(status)
    BY DEF HandleAnswer
  <2> QED  BY <2>1, <2>2 DEF Cleared
<1>6. Stops(status) => p \in loaded' \cup sawFailed'
  BY <1>2 DEF Stops, Plays
<1>7. PageTypeOK'
  <2>1. \A q \in Polls : UnderWay(q) <= MaxTicks[q] /\ MaxTicks[q] \in Nat
    BY <1>1, PollerAssumption DEF PageTypeOK, Polls
  <2>2. \A q \in Polls : UnderWay(q)' <= MaxTicks[q]
    BY <1>3, <2>1
  <2>3. pollHandle' \in {0} \cup {q \in Polls : timer'[q] \in {"live", "cleared"}}
    <3>1. pollHandle = 0 \/ (pollHandle \in Polls /\ timer[pollHandle] \in {"live", "cleared"})
      BY <1>1 DEF PageTypeOK
    <3> QED  BY <1>2, <1>5, <3>1
  <2>4. loaded' \cup sawFailed' \subseteq Started'
    BY <1>1, <1>2, <1>4 DEF PageTypeOK
  <2> QED  BY <1>1, <1>2, <1>3, <1>5, <2>2, <2>3, <2>4 DEF PageTypeOK
<1>8. NotStarted'
  BY <1>1, <1>3, <1>4, <1>5 DEF NotStarted
<1>9. FirstTickIsUnderWay'
  BY <1>1, <1>3, <1>4, <1>5 DEF FirstTickIsUnderWay, PageTypeOK
<1>10. StillFollowed'
  <2> SUFFICES ASSUME NEW q \in Started
               PROVE  Settled(q)' \/ timer'[q] = "live" \/ (timer'[q] = "none" /\ UnderWay(q)' > 0)
    BY <1>4 DEF StillFollowed
  <2>1. CASE timer[q] = "none"
    BY <1>1, <1>3, <1>4, <1>5, <2>1 DEF FirstTickIsUnderWay
  <2>2. CASE timer[q] # "none" /\ timer'[q] = timer[q]
    <3>1. Settled(q) => Settled(q)'
      BY <1>2, <1>4, <2>2 DEF Settled, Silenced
    <3> QED  BY <1>1, <2>2, <3>1 DEF StillFollowed
  <2>3. CASE Stops(status) /\ timer'[q] = "cleared"
    BY <1>4, <1>6, <2>3 DEF Settled, Silenced
  <2> QED  BY <1>4, <1>5, <2>1, <2>2, <2>3
<1> QED  BY <1>7, <1>8, <1>9, <1>10 DEF PageSafe

\* What a step of the page shows of the videos it follows.
LEMMA PageShows ==
  ASSUME PollerInv, PageNext
  PROVE  /\ UNCHANGED contractVars
         /\ PageSafe'
         /\ AnswersAreTrue'
         /\ LoadsOnlyWhole'
<1>1. PICK p \in Polls :
          StartPoll(p) \/ Fire(p) \/ Serve(p) \/ ServeErrs(p) \/ FetchRejects(p) \/ Handle(p)
  BY DEF PageNext
<1>2. PageTypeOK /\ PageSafe /\ ContractInv /\ AnswersAreTrue /\ LoadsOnlyWhole
  BY DEF PollerInv, PageSafe
<1>3. UNCHANGED contractVars
  BY <1>1 DEF StartPoll, Fire, Serve, ServeErrs, FetchRejects, Handle, HandleAnswer
<1>4. \A q \in Polls : WholeOrGone(q)' = WholeOrGone(q)
  BY <1>3 DEF contractVars, WholeOrGone, Status
<1>5. ASSUME loaded' = loaded,
             \A q \in Polls : flight'[q]["completed"] > 0 =>
                 flight[q]["completed"] > 0 \/ WholeOrGone(q)
      PROVE  AnswersAreTrue' /\ LoadsOnlyWhole'
  <2>1. AnswersAreTrue'
    BY <1>2, <1>4, <1>5 DEF AnswersAreTrue
  <2>2. loaded \subseteq Polls
    BY <1>2, StartedArePolls DEF PageTypeOK
  <2> QED  BY <1>2, <1>4, <1>5, <2>1, <2>2 DEF LoadsOnlyWhole, WholeOrGone
<1>6. \A q \in Polls : flight[q]["completed"] \in Nat
  BY <1>2 DEF PageTypeOK, Fetch, Answer
<1>7. CASE StartPoll(p) \/ Fire(p)
  <2>1. Sent(p) /\ loaded' = loaded
    BY <1>7 DEF StartPoll, Fire
  <2>2. AnswersAreTrue' /\ LoadsOnlyWhole'
    BY <1>2, <1>5, <2>1, FlightMoves
  <2>3. CASE StartPoll(p)
    BY <1>2, <1>3, <2>2, <2>3, StartPollKeeps
  <2>4. CASE Fire(p)
    <3>1. faults' \in 0 .. MaxFaults
      BY <1>2, <2>4 DEF Fire, PageTypeOK
    <3>2. PageSafe'
      BY <1>2, <2>4, <3>1, FetchesKeep DEF Fire
    <3> QED  BY <1>3, <2>2, <3>2
  <2> QED  BY <1>7, <2>3, <2>4
<1>8. CASE Serve(p)
  <2>1. PICK s \in Answer : Answers(p, s) /\ (s = "completed" => Status(p) = "completed")
    <3>1. Status(p) \in Shown
      BY <1>2, FollowsVideos DEF ContractInv, ContractTypeOK, Status
    <3>2. (IF Status(p) \in {"absent", "removed"} THEN "error" ELSE Status(p)) \in Answer
      BY <3>1 DEF Shown, Answer
    <3> QED  BY <1>8, <3>2 DEF Serve
  <2>2. s = "completed" => WholeOrGone(p)
    BY <1>2, <2>1, FollowsVideos DEF ContractInv, ShownIsWhole, Status, WholeOrGone
  <2>3. AnswersAreTrue' /\ LoadsOnlyWhole'
    <3>1. loaded' = loaded
      BY <1>8 DEF Serve
    <3>2. \A q \in Polls : flight'[q]["completed"] > 0 =>
              flight[q]["completed"] > 0 \/ WholeOrGone(q)
      BY <1>2, <2>1, <2>2, FlightMoves
    <3> QED  BY <1>5, <3>1, <3>2
  <2>4. faults' \in 0 .. MaxFaults
    BY <1>2, <1>8 DEF Serve, PageTypeOK
  <2>5. UNCHANGED <<started, timer, pollHandle, loaded, sawFailed>>
    BY <1>8 DEF Serve
  <2>6. PageSafe'
    BY <1>2, <2>1, <2>4, <2>5, FetchesKeep
  <2> QED  BY <1>3, <2>3, <2>6
<1>9. CASE ServeErrs(p)
  <2>1. Answers(p, "error") /\ "error" \in Answer /\ loaded' = loaded
    BY <1>9 DEF ServeErrs, Answer
  <2>2. AnswersAreTrue' /\ LoadsOnlyWhole'
    BY <1>2, <1>5, <2>1, FlightMoves
  <2>3. faults' \in 0 .. MaxFaults
    BY <1>2, <1>9, PollerAssumption DEF ServeErrs, Fault, PageTypeOK
  <2>4. UNCHANGED <<started, timer, pollHandle, loaded, sawFailed>>
    BY <1>9 DEF ServeErrs
  <2>5. PageSafe'
    BY <1>2, <2>1, <2>3, <2>4, FetchesKeep
  <2> QED  BY <1>3, <2>2, <2>5
<1>10. CASE FetchRejects(p)
  <2>1. Takes(p, "asked") /\ "asked" \in Fetch /\ loaded' = loaded
    BY <1>10 DEF FetchRejects, Fetch
  <2>2. AnswersAreTrue' /\ LoadsOnlyWhole'
    <3>1. \A q \in Polls : flight'[q]["completed"] \in Nat
      BY <1>2, <2>1, FlightMoves DEF Fetch, Answer
    <3> QED  BY <1>2, <1>5, <1>6, <2>1, <3>1, FlightMoves
  <2> QED  BY <1>2, <1>3, <1>10, <2>2, FetchRejectsKeeps
<1>11. CASE Handle(p)
  <2>1. PICK status \in Answer : HandleAnswer(p, status)
    BY <1>11 DEF Handle
  <2>2. Takes(p, status) /\ status \in Fetch
    BY <2>1 DEF HandleAnswer, Fetch
  <2>3. \A q \in Polls : flight'[q]["completed"] > 0 => flight[q]["completed"] > 0
    <3>1. \A q \in Polls : flight'[q]["completed"] \in Nat
      BY <1>2, <2>2, FlightMoves DEF Fetch, Answer
    <3> QED  BY <1>2, <1>6, <2>2, <3>1, FlightMoves
  <2>4. AnswersAreTrue'
    BY <1>2, <1>4, <2>3 DEF AnswersAreTrue
  <2>5. LoadsOnlyWhole'
    <3>1. loaded' = loaded \/ (loaded' = loaded \cup {p} /\ status = "completed")
      BY <2>1 DEF HandleAnswer, Plays
    <3>2. status = "completed" => WholeOrGone(p)
      BY <1>2, <2>2 DEF Takes, AnswersAreTrue
    <3>3. loaded \subseteq Polls /\ \A q \in loaded : WholeOrGone(q)
      BY <1>2, StartedArePolls DEF PageTypeOK, LoadsOnlyWhole, WholeOrGone
    <3>4. \A q \in loaded' : WholeOrGone(q)'
      BY <1>4, <3>1, <3>2, <3>3
    <3> QED  BY <3>4 DEF LoadsOnlyWhole, WholeOrGone
  <2> QED  BY <1>2, <1>3, <2>1, <2>4, <2>5, HandleKeeps
<1> QED  BY <1>1, <1>7, <1>8, <1>9, <1>10, <1>11

LEMMA PollerStepInv ==
  PollerInv /\ [PageNext \/ (ContractNext /\ UNCHANGED pageVars)]_pollerVars => PollerInv'
<1> SUFFICES ASSUME PollerInv, [PageNext \/ (ContractNext /\ UNCHANGED pageVars)]_pollerVars
             PROVE  PollerInv'
  OBVIOUS
<1>1. CASE PageNext
  <2>1. UNCHANGED contractVars
    BY <1>1, PageShows
  <2>2. ContractInv'
    BY <2>1, ContractStepInv DEF PollerInv
  <2> QED  BY <1>1, <2>2, PageShows DEF PollerInv, PageSafe
<1>2. CASE (ContractNext /\ UNCHANGED pageVars) \/ UNCHANGED pollerVars
  <2>1. [ContractNext]_contractVars /\ UNCHANGED pageVars
    BY <1>2 DEF pollerVars
  <2> QED  BY <2>1, PipelineMoves
<1> QED  BY <1>1, <1>2

\* Every state of the page is well formed: no call sets pollHandle before it has
\* a timer, and no call has more fetches under way than it may.
THEOREM PageTypeCorrect == PollerSpec => []PageTypeOK
<1>1. PollerInv => PageTypeOK
  BY DEF PollerInv
<1> QED  BY <1>1, PollerInitInv, PollerStepInv, PTL DEF PollerSpec

\* However starts, ticks and answers of several calls interleave, nobody stops
\* following a video unnoticed: as long as a call has no verdict, it has a live
\* timer or a first tick under way, unless that tick was rejected or another
\* call has cleared its timer. The safety half of NoticesCompletion.
THEOREM CallsStayFollowed == PollerSpec => []StillFollowed
<1>1. PollerInv => StillFollowed
  BY DEF PollerInv
<1> QED  BY <1>1, PollerInitInv, PollerStepInv, PTL DEF PollerSpec

\* The player is given only outputs that can be loaded in full, however old the
\* answer and whichever call of pollVideoStatus handles it.
THEOREM PlayersLoadWholeOutputs == PollerSpec => []LoadsOnlyWhole
<1>1. PollerInv => LoadsOnlyWhole
  BY DEF PollerInv
<1> QED  BY <1>1, PollerInitInv, PollerStepInv, PTL DEF PollerSpec

=============================================================================
