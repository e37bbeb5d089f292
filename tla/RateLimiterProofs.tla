-------------------------- MODULE RateLimiterProofs --------------------------
(***************************************************************************)
(* Proofs about RateLimiter, for any limit, window and set of requests.    *)
(***************************************************************************)
EXTENDS RateLimiter, TLAPS

\* A request between its INCR and its EXPIRE is the one that created the key:
\* the key exists, has no expiry yet, and no other request is there.
ExpireIsOwn ==
    /\ \A r \in Requests : pc[r] = "expire" => count > 0 /\ ttl = 0
    /\ \A r1, r2 \in Requests :
          pc[r1] = "expire" /\ pc[r2] = "expire" => r1 = r2

\* Every request let through, but for those on a failed INCR or TTL, has a
\* number of its own, at most Limit; so has one that is still at its EXPIRE.
ServedAreCounted ==
    /\ failedOpen <= served
    /\ served <= count + failedOpen
    /\ served <= Limit + failedOpen
    /\ \A r \in Requests : pc[r] = "expire" =>
          served < count + failedOpen /\ served < Limit + failedOpen

LimiterInv == LimiterTypeOK /\ ExpireIsOwn /\ ServedAreCounted

\* What a step of a request does to the requests let through, and to the expiry.
ServesOrNot == UNCHANGED historyVars \/ ServeWithinLimit \/ ServeOpen

RequestStep(r) == Incr(r) \/ IncrErrs(r) \/ Command(r)

LEMMA RequestsServe ==
  ASSUME NEW r \in Requests, RequestStep(r)
  PROVE  ServesOrNot /\ (ttl' = ttl \/ ttl' = Window)
  BY DEF RequestStep, ServesOrNot, Incr, IncrErrs, Command, Expire, ExpireErrs,
     Refuse, TtlErrs

LEMMA ServingKeepsType ==
  ASSUME LimiterTypeOK, ServesOrNot
  PROVE  /\ served' \in Nat /\ failedOpen' \in Nat
         /\ recent' \in [Ages -> Nat] /\ recentOpen' \in [Ages -> Nat]
  BY DEF LimiterTypeOK, ServesOrNot, historyVars, ServeWithinLimit, ServeOpen, Serve

LEMMA LimiterInitially == LimiterInit => LimiterInv
  <1> SUFFICES ASSUME LimiterInit PROVE LimiterInv
    OBVIOUS
  <1> USE LimiterAssumption DEF LimiterInit
  <1>1. LimiterTypeOK
    <2>1. recent \in [Ages -> Nat] /\ recentOpen \in [Ages -> Nat]
      OBVIOUS
    <2>2. pc \in [Requests -> {"idle", "expire", "ttl"}]
      OBVIOUS
    <2>3. expireLost \in BOOLEAN
      OBVIOUS
    <2>4. 0 \in 0 .. Window /\ 0 \in 0 .. MaxRequests /\ 0 \in 0 .. MaxFaults
      OBVIOUS
    <2> QED BY <2>1, <2>2, <2>3, <2>4 DEF LimiterTypeOK
  <1>2. ExpireIsOwn /\ ServedAreCounted
    BY DEF ExpireIsOwn, ServedAreCounted
  <1> QED BY <1>1, <1>2 DEF LimiterInv

LEMMA IncrKeeps ==
  ASSUME LimiterInv, NEW r \in Requests, Incr(r)
  PROVE  LimiterInv'
  <1> USE LimiterAssumption
  <1>0. ServesOrNot
    BY RequestsServe DEF RequestStep
  <1>1. LimiterTypeOK'
    <2>1. NextCommand(count + 1) \in {"idle", "expire", "ttl"}
      BY DEF NextCommand
    <2> QED BY <1>0, <2>1, ServingKeepsType
            DEF LimiterInv, LimiterTypeOK, Incr, NewRequest
  <1>2. pc'[r] = "expire" => count = 0
    <2>1. NextCommand(count + 1) = "expire" => count + 1 = 1
      BY DEF NextCommand, LimiterInv, LimiterTypeOK
    <2> QED BY <2>1 DEF Incr, LimiterInv, LimiterTypeOK
  <1>3. \A q \in Requests \ {r} : pc'[q] = pc[q]
    BY DEF Incr, LimiterInv, LimiterTypeOK
  <1>4. count' = count + 1 /\ ttl' = ttl
    BY DEF Incr
  <1>5. ExpireIsOwn'
    BY <1>2, <1>3, <1>4 DEF ExpireIsOwn, LimiterInv, LimiterTypeOK
  <1>6. ServedAreCounted'
    <2> USE DEF LimiterInv, LimiterTypeOK, ServedAreCounted, ExpireIsOwn
    <2>1. CASE NextCommand(count + 1) = "idle"
      <3>1. served' = served + 1 /\ failedOpen' = failedOpen /\ pc'[r] = "idle"
        BY <2>1 DEF Incr, ServeWithinLimit, Serve
      <3>2. count + 1 <= Limit
        BY <2>1 DEF NextCommand
      <3> QED BY <1>3, <1>4, <3>1, <3>2
    <2>2. CASE NextCommand(count + 1) # "idle"
      <3>1. served' = served /\ failedOpen' = failedOpen
        BY <2>2 DEF Incr, historyVars
      <3> QED BY <1>2, <1>3, <1>4, <3>1
    <2> QED BY <2>1, <2>2
  <1> QED BY <1>1, <1>5, <1>6 DEF LimiterInv

LEMMA IncrErrsKeeps ==
  ASSUME LimiterInv, NEW r \in Requests, IncrErrs(r)
  PROVE  LimiterInv'
  <1> USE LimiterAssumption
  <1>0. ServesOrNot
    BY RequestsServe DEF RequestStep
  <1>1. (count' = count \/ count' = count + 1) /\ UNCHANGED <<ttl, pc>>
    BY DEF IncrErrs
  <1>2. LimiterTypeOK'
    <2>1. asked' \in 0 .. MaxRequests /\ faults' \in 0 .. MaxFaults
      BY DEF LimiterInv, LimiterTypeOK, IncrErrs, NewRequest, Fault
    <2>2. expireLost' \in BOOLEAN
      BY DEF LimiterInv, LimiterTypeOK, IncrErrs
    <2> QED BY <1>0, <1>1, <2>1, <2>2, ServingKeepsType DEF LimiterInv, LimiterTypeOK
  <1>3. ExpireIsOwn'
    BY <1>1 DEF LimiterInv, LimiterTypeOK, ExpireIsOwn
  <1>4. ServedAreCounted'
    <2> USE DEF LimiterInv, LimiterTypeOK, ServedAreCounted
    <2>1. CASE ServeOpen
      BY <1>1, <2>1 DEF ServeOpen, Serve
    <2>2. CASE UNCHANGED historyVars
      BY <1>1, <2>2 DEF historyVars
    <2> QED BY <2>1, <2>2 DEF IncrErrs
  <1> QED BY <1>2, <1>3, <1>4 DEF LimiterInv

LEMMA CommandKeeps ==
  ASSUME LimiterInv, NEW r \in Requests, Command(r)
  PROVE  LimiterInv'
  <1> USE LimiterAssumption
  <1>0. ServesOrNot
    BY RequestsServe DEF RequestStep
  <1>1. /\ pc' = [pc EXCEPT ![r] = "idle"]
        /\ UNCHANGED <<count, asked>>
    BY DEF Command, Expire, ExpireErrs, Refuse, TtlErrs, Finish
  <1>2. faults' \in 0 .. MaxFaults /\ expireLost' \in BOOLEAN
    <2>1. faults' = faults \/ Fault
      BY DEF Command, Expire, ExpireErrs, Refuse, TtlErrs
    <2>2. expireLost' = expireLost \/ expireLost' = TRUE
      BY DEF Command, Expire, ExpireErrs, Refuse, TtlErrs
    <2>3. faults' \in 0 .. MaxFaults
      BY <2>1 DEF Fault, LimiterInv, LimiterTypeOK
    <2>4. expireLost \in BOOLEAN
      BY DEF LimiterInv, LimiterTypeOK
    <2>5. expireLost' \in BOOLEAN
      BY <2>2, <2>4
    <2> QED BY <2>3, <2>5
  <1>3. ttl' = ttl \/ (pc[r] = "expire" /\ ttl' = Window)
    BY DEF Command, Expire, ExpireErrs, Refuse, TtlErrs
  <1>4. LimiterTypeOK'
    <2>1. pc' \in [Requests -> {"idle", "expire", "ttl"}]
      BY <1>1 DEF LimiterInv, LimiterTypeOK
    <2>2. ttl' \in 0 .. Window /\ (count' = 0 => ttl' = 0)
      BY <1>1, <1>3 DEF LimiterInv, LimiterTypeOK, ExpireIsOwn
    <2> QED BY <1>0, <1>1, <1>2, <2>1, <2>2, ServingKeepsType
            DEF LimiterInv, LimiterTypeOK
  <1>5. ExpireIsOwn'
    BY <1>1, <1>3 DEF LimiterInv, LimiterTypeOK, ExpireIsOwn
  <1>6. ServedAreCounted'
    <2> USE DEF LimiterInv, LimiterTypeOK, ServedAreCounted, ExpireIsOwn
    <2>1. \A q \in Requests : pc'[q] = "expire" => pc[q] = "expire" /\ q # r
      BY <1>1
    <2>2. CASE UNCHANGED historyVars
      BY <1>1, <2>1, <2>2 DEF historyVars
    <2>3. CASE pc[r] = "expire" /\ ServeWithinLimit
      BY <1>1, <2>1, <2>3 DEF ServeWithinLimit, Serve
    <2>4. CASE ServeOpen
      BY <1>1, <2>1, <2>4 DEF ServeOpen, Serve
    <2> QED BY <2>2, <2>3, <2>4 DEF Command, Expire, ExpireErrs, Refuse, TtlErrs
  <1> QED BY <1>4, <1>5, <1>6 DEF LimiterInv

LEMMA TickKeeps ==
  ASSUME LimiterInv, Tick
  PROVE  LimiterInv'
  <1> USE LimiterAssumption
  <1>1. LimiterTypeOK'
    <2>1. recent' \in [Ages -> Nat] /\ recentOpen' \in [Ages -> Nat]
      BY DEF Tick, LimiterInv, LimiterTypeOK, Ages
    <2> QED BY <2>1 DEF Tick, LimiterInv, LimiterTypeOK
  <1>2. ExpireIsOwn'
    BY DEF Tick, LimiterInv, LimiterTypeOK, ExpireIsOwn
  <1>3. ServedAreCounted'
    BY DEF Tick, LimiterInv, LimiterTypeOK, ServedAreCounted, ExpireIsOwn
  <1> QED BY <1>1, <1>2, <1>3 DEF LimiterInv

LEMMA LimiterInvariance == LimiterSpec => []LimiterInv
  <1>1. LimiterInv /\ [LimiterNext]_limiterVars => LimiterInv'
    <2> SUFFICES ASSUME LimiterInv, [LimiterNext]_limiterVars PROVE LimiterInv'
      OBVIOUS
    <2>1. CASE UNCHANGED limiterVars
      BY <2>1 DEF limiterVars, historyVars, LimiterInv, LimiterTypeOK, ExpireIsOwn,
         ServedAreCounted
    <2>2. ASSUME NEW r \in Requests, Incr(r) PROVE LimiterInv'
      BY <2>2, IncrKeeps
    <2>3. ASSUME NEW r \in Requests, IncrErrs(r) PROVE LimiterInv'
      BY <2>3, IncrErrsKeeps
    <2>4. ASSUME NEW r \in Requests, Command(r) PROVE LimiterInv'
      BY <2>4, CommandKeeps
    <2>5. CASE Tick
      BY <2>5, TickKeeps
    <2> QED BY <2>1, <2>2, <2>3, <2>4, <2>5 DEF LimiterNext
  <1> QED BY <1>1, LimiterInitially, PTL DEF LimiterSpec

\* The counter, the clock and the requests stay in their ranges; in particular
\* a counter that does not exist has no expiry.
THEOREM LimiterTypeCorrect == LimiterSpec => []LimiterTypeOK
  <1>1. LimiterInv => LimiterTypeOK
    BY DEF LimiterInv
  <1> QED BY <1>1, LimiterInvariance, PTL

\* However requests interleave, every request served beyond the limit between
\* two expiries of the key was served because its INCR or its TTL failed; no
\* other command that fails, is repeated or is never sent lets one more in.
THEOREM LimitHolds == LimiterSpec => []AtMostLimitPerWindow
  <1>1. LimiterInv => AtMostLimitPerWindow
    BY DEF LimiterInv, ServedAreCounted, AtMostLimitPerWindow
  <1> QED BY <1>1, LimiterInvariance, PTL

-----------------------------------------------------------------------------
(* The burst at a window boundary. Since ttl was last set, and in any case  *)
(* since the last tick, only the present life of the key gave out numbers;  *)
(* the last Window ticks saw this life and at most the one before it.       *)

\* The requests let through on a number of their own: in this life of the key,
\* and since i ticks ago.
NumberedAtMost(i, more) == recent[i] + failedOpen <= served + recentOpen[i] + more

SinceExpireIsThisLife ==
    \A i \in Ages :
        i = 0 \/ (ttl > 0 /\ i <= Window - ttl) => NumberedAtMost(i, 0)

TwoLivesAtMost == NumberedAtMost(Window - 1, Limit)

LongerIsMore ==
    \A i, j \in Ages :
        i <= j => recent[i] + recentOpen[j] <= recent[j] + recentOpen[i]

OpenAreRecent == \A i \in Ages : recentOpen[i] <= recent[i]

BurstInv ==
    SinceExpireIsThisLife /\ TwoLivesAtMost /\ LongerIsMore /\ OpenAreRecent

LEMMA BurstInitially == LimiterInit => BurstInv
  BY LimiterAssumption
     DEF LimiterInit, BurstInv, SinceExpireIsThisLife, TwoLivesAtMost, LongerIsMore,
         OpenAreRecent, NumberedAtMost, Ages

LEMMA BurstKept ==
  ASSUME LimiterInv, BurstInv, [LimiterNext]_limiterVars  PROVE BurstInv'
<1> USE LimiterAssumption
    DEF BurstInv, SinceExpireIsThisLife, TwoLivesAtMost, LongerIsMore, OpenAreRecent,
        NumberedAtMost, Ages
<1>0. /\ recent \in [Ages -> Nat] /\ recentOpen \in [Ages -> Nat]
      /\ served \in Nat /\ failedOpen \in Nat /\ failedOpen <= served
      /\ served <= Limit + failedOpen
      /\ ttl \in 0 .. Window
  BY DEF LimiterInv, LimiterTypeOK, ServedAreCounted
<1>1. CASE Tick
  <2>1. /\ recent' = [i \in Ages |-> IF i = 0 THEN 0 ELSE recent[i - 1]]
        /\ recentOpen' = [i \in Ages |-> IF i = 0 THEN 0 ELSE recentOpen[i - 1]]
    BY <1>1 DEF Tick
  <2>2. \A i \in Ages :
           /\ recent'[i] = IF i = 0 THEN 0 ELSE recent[i - 1]
           /\ recentOpen'[i] = IF i = 0 THEN 0 ELSE recentOpen[i - 1]
    BY <2>1
  <2>0. OpenAreRecent'
    BY <2>2
  <2>3. LongerIsMore'
    <3> SUFFICES ASSUME NEW i \in Ages, NEW j \in Ages, i <= j
                 PROVE  recent'[i] + recentOpen'[j] <= recent'[j] + recentOpen'[i]
      OBVIOUS
    <3>1. CASE i = 0 /\ j = 0
      BY <2>2, <3>1
    <3>2. CASE i = 0 /\ j # 0
      <4>1. j - 1 \in Ages
        BY <3>2
      <4>2. recentOpen[j - 1] <= recent[j - 1]
        BY <4>1
      <4>3. /\ recent'[i] = 0 /\ recentOpen'[i] = 0
            /\ recent'[j] = recent[j - 1] /\ recentOpen'[j] = recentOpen[j - 1]
        BY <2>2, <3>2, <4>1
      <4>4. recent[j - 1] \in Nat /\ recentOpen[j - 1] \in Nat
        BY <1>0, <4>1
      <4> QED  BY <4>2, <4>3, <4>4
    <3>3. CASE i # 0
      <4>1. i - 1 \in Ages /\ j - 1 \in Ages /\ i - 1 <= j - 1 /\ j # 0
        BY <3>3
      <4>2. /\ recent'[i] = recent[i - 1] /\ recentOpen'[i] = recentOpen[i - 1]
            /\ recent'[j] = recent[j - 1] /\ recentOpen'[j] = recentOpen[j - 1]
        BY <2>2, <3>3, <4>1
      <4>3. recent[i - 1] + recentOpen[j - 1] <= recent[j - 1] + recentOpen[i - 1]
        BY <4>1
      <4> QED  BY <4>2, <4>3
    <3> QED  BY <3>1, <3>2, <3>3
  <2>4. CASE ttl = 1
    <3>1. ttl' = 0 /\ served' = 0 /\ failedOpen' = 0
      BY <1>1, <2>4 DEF Tick
    <3>2. SinceExpireIsThisLife'
      BY <2>2, <3>1
    <3>3. TwoLivesAtMost'
      <4>1. CASE Window = 1
        BY <1>0, <2>2, <3>1, <4>1
      <4>2. CASE Window # 1
        <5>1. Window - 2 \in Ages /\ Window - 1 \in Ages
          BY <4>2
        <5>2. /\ recent'[Window - 1] = recent[Window - 2]
              /\ recentOpen'[Window - 1] = recentOpen[Window - 2]
          BY <2>2, <4>2, <5>1
        <5>3. recent[Window - 2] \in Nat /\ recentOpen[Window - 2] \in Nat
          BY <1>0, <5>1
        <5>4. NumberedAtMost(Window - 2, 0)
          BY <2>4, <5>1
        <5> HIDE DEF BurstInv, SinceExpireIsThisLife, LongerIsMore, OpenAreRecent
        <5> QED  BY <1>0, <3>1, <5>2, <5>3, <5>4
      <4> QED  BY <4>1, <4>2
    <3> QED  BY <2>0, <2>3, <3>2, <3>3
  <2>5. CASE ttl # 1
    <3>1. /\ served' = served /\ failedOpen' = failedOpen
          /\ ttl' = IF ttl = 0 THEN 0 ELSE ttl - 1
      BY <1>1, <2>5 DEF Tick
    <3>2. SinceExpireIsThisLife'
      <4> SUFFICES ASSUME NEW i \in Ages,
                          i = 0 \/ (ttl' > 0 /\ i <= Window - ttl')
                   PROVE  NumberedAtMost(i, 0)'
        OBVIOUS
      <4>1. CASE i = 0
        BY <1>0, <2>2, <3>1, <4>1
      <4>2. CASE i # 0
        <5>1. i - 1 \in Ages /\ ttl > 0 /\ i - 1 <= Window - ttl
          BY <1>0, <3>1, <4>2
        <5> QED  BY <2>2, <3>1, <4>2, <5>1
      <4> QED  BY <4>1, <4>2
    <3>3. TwoLivesAtMost'
      <4>1. CASE Window = 1
        BY <1>0, <2>2, <3>1, <4>1
      <4>2. CASE Window # 1
        <5>1. Window - 2 \in Ages /\ Window - 1 \in Ages
          BY <4>2
        <5>2. /\ recent'[Window - 1] = recent[Window - 2]
              /\ recentOpen'[Window - 1] = recentOpen[Window - 2]
          BY <2>2, <4>2, <5>1
        <5>3. recent[Window - 2] + recentOpen[Window - 1]
                 <= recent[Window - 1] + recentOpen[Window - 2]
          BY <5>1
        <5>4. /\ recent[Window - 1] \in Nat /\ recent[Window - 2] \in Nat
              /\ recentOpen[Window - 1] \in Nat /\ recentOpen[Window - 2] \in Nat
          BY <1>0, <5>1
        <5>5. NumberedAtMost(Window - 1, Limit)
          OBVIOUS
        <5> HIDE DEF BurstInv, SinceExpireIsThisLife, LongerIsMore, OpenAreRecent
        <5> QED  BY <1>0, <3>1, <5>2, <5>3, <5>4, <5>5
      <4> QED  BY <4>1, <4>2
    <3> QED  BY <2>0, <2>3, <3>2, <3>3
  <2> QED  BY <2>4, <2>5
<1>2. ASSUME NEW r \in Requests, RequestStep(r)  PROVE BurstInv'
  <2>1. ServesOrNot /\ (ttl' = ttl \/ ttl' = Window)
    BY <1>2, RequestsServe
  <2>2. PICK one \in 0 .. 1, open \in 0 .. 1 :
           /\ \A i \in Ages : /\ recent'[i] = recent[i] + one
                              /\ recentOpen'[i] = recentOpen[i] + open
           /\ served' = served + one
           /\ failedOpen' = failedOpen + open
           /\ open <= one
    <3>1. CASE UNCHANGED historyVars
      <4>1. /\ \A i \in Ages : /\ recent'[i] = recent[i] + 0
                               /\ recentOpen'[i] = recentOpen[i] + 0
            /\ served' = served + 0
            /\ failedOpen' = failedOpen + 0
        BY <1>0, <3>1 DEF historyVars
      <4> QED  BY <4>1
    <3>2. CASE ServeWithinLimit
      <4>1. /\ \A i \in Ages : /\ recent'[i] = recent[i] + 1
                               /\ recentOpen'[i] = recentOpen[i] + 0
            /\ served' = served + 1
            /\ failedOpen' = failedOpen + 0
        BY <1>0, <3>2 DEF ServeWithinLimit, Serve
      <4> QED  BY <4>1
    <3>3. CASE ServeOpen
      <4>1. /\ \A i \in Ages : /\ recent'[i] = recent[i] + 1
                               /\ recentOpen'[i] = recentOpen[i] + 1
            /\ served' = served + 1
            /\ failedOpen' = failedOpen + 1
        BY <3>3 DEF ServeOpen, Serve
      <4> QED  BY <4>1
    <3> QED  BY <2>1, <3>1, <3>2, <3>3 DEF ServesOrNot
  <2>3. \A i \in Ages : recent[i] \in Nat /\ recentOpen[i] \in Nat
    BY <1>0
  <2>4. \A i \in Ages, more \in Nat :
           NumberedAtMost(i, more) => NumberedAtMost(i, more)'
    <3> SUFFICES ASSUME NEW i \in Ages, NEW more \in Nat, NumberedAtMost(i, more)
                 PROVE  NumberedAtMost(i, more)'
      OBVIOUS
    <3> HIDE DEF BurstInv, Ages
    <3>1. /\ recent'[i] = recent[i] + one /\ recentOpen'[i] = recentOpen[i] + open
          /\ served' = served + one /\ failedOpen' = failedOpen + open
      BY <2>2
    <3> QED  BY <1>0, <2>3, <3>1
  <2>5. LongerIsMore' /\ OpenAreRecent'
    <3>1. LongerIsMore'
      BY <2>2, <2>3
    <3>2. one >= open
      BY <2>2
    <3>3. OpenAreRecent'
      BY <2>2, <2>3, <3>2
    <3> QED  BY <3>1, <3>3
  <2>6. TwoLivesAtMost'
    <3>1. Window - 1 \in Ages /\ Limit \in Nat
      OBVIOUS
    <3> QED  BY <2>4, <3>1
  <2>7. SinceExpireIsThisLife'
    <3> SUFFICES ASSUME NEW i \in Ages,
                        i = 0 \/ (ttl' > 0 /\ i <= Window - ttl')
                 PROVE  NumberedAtMost(i, 0)'
      OBVIOUS
    <3>1. i = 0 \/ (ttl > 0 /\ i <= Window - ttl)
      <4>1. CASE ttl' = ttl
        BY <4>1
      <4>2. CASE ttl' = Window
        BY <4>2
      <4> QED  BY <2>1, <4>1, <4>2
    <3>2. NumberedAtMost(i, 0)
      BY <3>1
    <3> QED  BY <2>4, <3>2
  <2> QED  BY <2>5, <2>6, <2>7
<1>3. CASE UNCHANGED limiterVars
  BY <1>3 DEF limiterVars, historyVars
<1> QED  BY <1>1, <1>2, <1>3 DEF LimiterNext, RequestStep

\* No Window ticks in a row see more than twice the limit served, but for the
\* requests served in them on a failed INCR or TTL: the accepted burst at a
\* window boundary is the worst there is.
THEOREM BurstsAreBounded == LimiterSpec => []BurstBounded
<1>1. LimiterInv /\ BurstInv => BurstBounded
  <2> SUFFICES ASSUME LimiterInv, BurstInv  PROVE BurstBounded
    OBVIOUS
  <2>1. Window - 1 \in Ages
    BY LimiterAssumption DEF Ages
  <2> QED  BY <2>1, LimiterAssumption
           DEF LimiterInv, LimiterTypeOK, ServedAreCounted, BurstInv, TwoLivesAtMost,
               NumberedAtMost, BurstBounded
<1>2. LimiterInv /\ BurstInv /\ [LimiterNext]_limiterVars => BurstInv'
  BY BurstKept
<1> QED  BY <1>1, <1>2, LimiterInvariance, BurstInitially, PTL DEF LimiterSpec

-----------------------------------------------------------------------------
(* The reset. A key that has no expiry has its EXPIRE still to come, or that *)
(* very command was lost: then the client is refused for ever.               *)

ResetIsComing ==
    /\ count > 0 /\ ttl = 0 => expireLost \/ \E r \in Requests : pc[r] = "expire"
    /\ expireLost => count > 0 /\ ttl = 0 /\ \A r \in Requests : pc[r] # "expire"

LEMMA ResetKept ==
  ASSUME LimiterInv, ResetIsComing, [LimiterNext]_limiterVars  PROVE ResetIsComing'
<1> USE LimiterAssumption DEF ResetIsComing
<1>0. /\ count \in Nat /\ ttl \in 0 .. Window /\ expireLost \in BOOLEAN
      /\ pc \in [Requests -> {"idle", "expire", "ttl"}]
      /\ ExpireIsOwn
  BY DEF LimiterInv, LimiterTypeOK
<1>1. CASE Tick
  BY <1>0, <1>1 DEF Tick
<1>2. ASSUME NEW r \in Requests, Incr(r)  PROVE ResetIsComing'
  <2>1. /\ pc[r] = "idle"
        /\ count' = count + 1 /\ ttl' = ttl /\ expireLost' = expireLost
        /\ pc' = [pc EXCEPT ![r] = NextCommand(count + 1)]
    BY <1>2 DEF Incr
  <2>2. CASE count = 0
    <3>1. NextCommand(count + 1) = "expire"
      BY <2>2 DEF NextCommand
    <3> QED  BY <1>0, <2>1, <2>2, <3>1
  <2>3. CASE count > 0
    <3>1. NextCommand(count + 1) # "expire"
      BY <1>0, <2>3 DEF NextCommand
    <3>2. \A q \in Requests : pc[q] = "expire" <=> pc'[q] = "expire"
      BY <1>0, <2>1, <3>1
    <3> QED  BY <1>0, <2>1, <2>3, <3>2
  <2> QED  BY <1>0, <2>2, <2>3
<1>3. ASSUME NEW r \in Requests, IncrErrs(r)  PROVE ResetIsComing'
  <2>1. UNCHANGED <<ttl, pc>>
    BY <1>3 DEF IncrErrs
  <2>2. CASE UNCHANGED <<count, expireLost>>
    BY <2>1, <2>2
  <2>3. CASE count = 0 /\ count' = count + 1 /\ expireLost' = TRUE
    <3>1. ttl = 0 /\ \A q \in Requests : pc[q] # "expire"
      BY <2>3 DEF ExpireIsOwn, LimiterInv, LimiterTypeOK
    <3> QED  BY <2>1, <2>3, <3>1
  <2>4. CASE count # 0 /\ count' = count + 1 /\ expireLost' = expireLost
    BY <1>0, <2>1, <2>4
  <2> QED  BY <1>3, <2>2, <2>3, <2>4 DEF IncrErrs
<1>4. ASSUME NEW r \in Requests, Expire(r)  PROVE ResetIsComing'
  BY <1>0, <1>4 DEF Expire
<1>5. ASSUME NEW r \in Requests, ExpireErrs(r)  PROVE ResetIsComing'
  <2>1. /\ pc[r] = "expire" /\ count' = count
        /\ pc' = [pc EXCEPT ![r] = "idle"]
        /\ \/ ttl' = Window /\ expireLost' = expireLost
           \/ expireLost' = TRUE /\ ttl' = ttl
    BY <1>5 DEF ExpireErrs, Finish
  <2>2. ~expireLost /\ count > 0 /\ ttl = 0
    BY <1>0, <2>1 DEF ExpireIsOwn
  <2>3. \A q \in Requests : pc'[q] # "expire"
    BY <1>0, <2>1 DEF ExpireIsOwn
  <2> QED  BY <1>0, <2>1, <2>2, <2>3
<1>6. ASSUME NEW r \in Requests, Refuse(r) \/ TtlErrs(r)  PROVE ResetIsComing'
  <2>1. /\ pc[r] = "ttl" /\ UNCHANGED <<count, ttl, expireLost>>
        /\ pc' = [pc EXCEPT ![r] = "idle"]
    BY <1>6 DEF Refuse, TtlErrs, Finish
  <2>2. \A q \in Requests : pc[q] = "expire" <=> pc'[q] = "expire"
    BY <1>0, <2>1
  <2> QED  BY <2>1, <2>2
<1>7. CASE UNCHANGED limiterVars
  BY <1>7 DEF limiterVars
<1> QED  BY <1>1, <1>2, <1>3, <1>4, <1>5, <1>6, <1>7 DEF LimiterNext, Command

\* However requests interleave, a key is without an expiry only while the
\* request that created it is there to send its EXPIRE, or when that EXPIRE
\* failed or was never sent. The safety half of ResetsUnlessExpireLost.
THEOREM ResetIsNeverForgotten == LimiterSpec => []ResetIsComing
<1>1. LimiterInit => ResetIsComing
  BY DEF LimiterInit, ResetIsComing
<1>2. LimiterInv /\ ResetIsComing /\ [LimiterNext]_limiterVars => ResetIsComing'
  BY ResetKept
<1> QED  BY <1>1, <1>2, LimiterInvariance, PTL DEF LimiterSpec

=============================================================================
