----------------------------- MODULE RateLimiter -----------------------------
(***************************************************************************)
(* internal/ratelimit and the middleware in front of POST /uploads: a      *)
(* fixed-window counter per client in Redis. Allow is two or three Redis   *)
(* commands, each atomic, with nothing holding them together: INCR, EXPIRE *)
(* for the first of a window, TTL for a request over the limit. Requests   *)
(* run concurrently. Allow returns an error when any of its commands fails *)
(* and the middleware then serves the request: it fails open, over the     *)
(* limit too. One client is modelled: clients share no key.                *)
(***************************************************************************)
EXTENDS Naturals

CONSTANTS
    Requests,      \* concurrent requests of the client
    Limit,         \* requests admitted per window
    Window,        \* length of the window, in clock ticks
    MaxRequests,   \* bound on the requests of a behaviour
    MaxFaults      \* bound on Redis commands that fail or are never sent

ASSUME LimiterAssumption ==
    /\ Limit \in Nat \ {0}
    /\ Window \in Nat \ {0}
    /\ MaxRequests \in Nat
    /\ MaxFaults \in Nat

VARIABLES
    count,       \* the client's counter; 0: the key does not exist
    ttl,         \* ticks to the key's expiry; 0: it has none
    pc,          \* the next Redis command of a request
    asked,       \* requests so far
    faults,      \* commands that failed or were not sent so far
    (* history *)
    served,      \* requests let through since the key last expired
    failedOpen,  \* those of them let through because INCR or TTL failed
    recent,      \* recent[i]: requests let through since i ticks ago
    recentOpen,  \* recentOpen[i]: those of them for a failed INCR or TTL
    expireLost   \* the key in place will never be given its expiry

historyVars == <<served, failedOpen, recent, recentOpen>>
limiterVars == <<count, ttl, pc, asked, faults, historyVars, expireLost>>

\* How long ago a stretch of time began, up to a window's length.
Ages == 0 .. Window - 1

LimiterTypeOK ==
    /\ count \in Nat
    /\ ttl \in 0 .. Window
    /\ count = 0 => ttl = 0
    /\ pc \in [Requests -> {"idle", "expire", "ttl"}]
    /\ asked \in 0 .. MaxRequests
    /\ faults \in 0 .. MaxFaults
    /\ served \in Nat /\ failedOpen \in Nat
    /\ recent \in [Ages -> Nat] /\ recentOpen \in [Ages -> Nat]
    /\ expireLost \in BOOLEAN

LimiterInit ==
    /\ count = 0
    /\ ttl = 0
    /\ pc = [r \in Requests |-> "idle"]
    /\ asked = 0
    /\ faults = 0
    /\ served = 0 /\ failedOpen = 0
    /\ recent = [i \in Ages |-> 0] /\ recentOpen = [i \in Ages |-> 0]
    /\ expireLost = FALSE

-----------------------------------------------------------------------------
Fault == faults < MaxFaults /\ faults' = faults + 1

NewRequest == asked < MaxRequests /\ asked' = asked + 1

Finish(r) == pc' = [pc EXCEPT ![r] = "idle"]

\* The middleware calls next.ServeHTTP.
Serve ==
    /\ served' = served + 1
    /\ recent' = [i \in Ages |-> recent[i] + 1]

\* Allow said yes, or failed at an EXPIRE: that request is its window's first.
ServeWithinLimit == Serve /\ UNCHANGED <<failedOpen, recentOpen>>

\* Allow failed at an INCR or at a TTL, and nothing is known of the count or
\* it is over the limit.
ServeOpen ==
    /\ Serve
    /\ failedOpen' = failedOpen + 1
    /\ recentOpen' = [i \in Ages |-> recentOpen[i] + 1]

\* Mutant: the first request does not set the expiry.
NextCommandNoExpire(n) == IF n > Limit THEN "ttl" ELSE "idle"

\* Mutant: off by one.
NextCommandOneMore(n) ==
    CASE n = 1 -> "expire" [] n # 1 /\ n > Limit + 1 -> "ttl" [] OTHER -> "idle"

\* The first request of a window goes on to EXPIRE, one over the limit to TTL,
\* the others are through.
NextCommand(n) ==
    CASE n = 1 -> "expire" [] n # 1 /\ n > Limit -> "ttl" [] OTHER -> "idle"

\* INCR creates the key at 1.
Incr(r) ==
    /\ pc[r] = "idle"
    /\ NewRequest
    /\ count' = count + 1
    /\ pc' = [pc EXCEPT ![r] = NextCommand(count + 1)]
    /\ IF NextCommand(count + 1) = "idle"
       THEN ServeWithinLimit ELSE UNCHANGED historyVars
    /\ UNCHANGED <<ttl, faults, expireLost>>

\* INCR gets no answer; it may have been done all the same, and if it created
\* the key nobody sets its expiry. Allow returns the error and the request is
\* served, or the service stops, or the Redis client sends the command again
\* (Incr, as if for the first time).
IncrErrs(r) ==
    /\ pc[r] = "idle"
    /\ Fault
    /\ \/ UNCHANGED <<count, expireLost>>
       \/ /\ count' = count + 1
          /\ expireLost' = IF count = 0 THEN TRUE ELSE expireLost
    /\ \/ NewRequest /\ ServeOpen
       \/ UNCHANGED <<asked, historyVars>>
    /\ UNCHANGED <<ttl, pc>>

\* Mutant: the window is rounded up.
ExpireLate(r) ==
    /\ pc[r] = "expire"
    /\ ttl' = Window + 1
    /\ ServeWithinLimit
    /\ Finish(r)
    /\ UNCHANGED <<count, asked, faults, expireLost>>

\* Mutant: the window in another unit.
ExpireSoon(r) ==
    /\ pc[r] = "expire"
    /\ ttl' = 1
    /\ ServeWithinLimit
    /\ Finish(r)
    /\ UNCHANGED <<count, asked, faults, expireLost>>

\* The key is there: until this command it has no expiry.
Expire(r) ==
    /\ pc[r] = "expire"
    /\ ttl' = Window
    /\ ServeWithinLimit
    /\ Finish(r)
    /\ UNCHANGED <<count, asked, faults, expireLost>>

\* EXPIRE fails (done or not), or is not sent: the client has gone away and
\* its context is cancelled, or the service stops. Unless it stopped, the
\* request is served.
ExpireErrs(r) ==
    /\ pc[r] = "expire"
    /\ Fault
    /\ \/ ttl' = Window /\ UNCHANGED expireLost
       \/ expireLost' = TRUE /\ UNCHANGED ttl
    /\ ServeWithinLimit \/ UNCHANGED historyVars
    /\ Finish(r)
    /\ UNCHANGED <<count, asked>>

\* Over the limit: 429, with the key's TTL as Retry-After.
Refuse(r) ==
    /\ pc[r] = "ttl"
    /\ Finish(r)
    /\ UNCHANGED <<count, ttl, asked, faults, historyVars, expireLost>>

\* Over the limit, and TTL fails or is not sent: the request is served, unless
\* the service stops.
TtlErrs(r) ==
    /\ pc[r] = "ttl"
    /\ Fault
    /\ ServeOpen \/ UNCHANGED historyVars
    /\ Finish(r)
    /\ UNCHANGED <<count, ttl, asked, expireLost>>

\* One tick of the clock. A key whose TTL runs out is deleted.
Tick ==
    /\ IF ttl = 1
       THEN count' = 0 /\ served' = 0 /\ failedOpen' = 0
       ELSE UNCHANGED <<count, served, failedOpen>>
    /\ ttl' = IF ttl = 0 THEN 0 ELSE ttl - 1
    /\ recent' = [i \in Ages |-> IF i = 0 THEN 0 ELSE recent[i - 1]]
    /\ recentOpen' = [i \in Ages |-> IF i = 0 THEN 0 ELSE recentOpen[i - 1]]
    /\ UNCHANGED <<pc, asked, faults, expireLost>>

Command(r) == Expire(r) \/ ExpireErrs(r) \/ Refuse(r) \/ TtlErrs(r)

LimiterNext ==
    \/ \E r \in Requests : Incr(r) \/ IncrErrs(r) \/ Command(r)
    \/ Tick

LimiterSpec == LimiterInit /\ [][LimiterNext]_limiterVars

\* Time passes and a request in Allow sends its next command.
LimiterFairSpec ==
    /\ LimiterSpec
    /\ WF_limiterVars(Tick)
    /\ \A r \in Requests : WF_limiterVars(Command(r))

-----------------------------------------------------------------------------
(***************************************************************************)
(* Properties                                                              *)
(***************************************************************************)

\* However requests interleave, between two expiries of the key the middleware
\* serves no more than Limit requests, but for those it served because Redis
\* did not answer their INCR or their TTL. A lost EXPIRE, a lost INCR that was
\* done and one that was repeated let nobody else through.
AtMostLimitPerWindow == served <= Limit + failedOpen

\* The accepted burst at a window boundary is bounded: no Window ticks in a
\* row, wherever they start, see more than twice the limit served, but for the
\* requests served in those very ticks on a failed INCR or TTL.
BurstBounded == recent[Window - 1] <= 2 * Limit + recentOpen[Window - 1]

\* ratelimit.go: the first increment sets the expiry, "so the counter resets
\* automatically". A client over the limit is not refused for ever.
CounterResets == count > Limit ~> count = 0

\* The only way out of that: the EXPIRE of this very key failed or was never
\* sent. Every other failure, and every interleaving, leaves the reset intact.
ResetsUnlessExpireLost == count > Limit ~> count = 0 \/ expireLost

=============================================================================
