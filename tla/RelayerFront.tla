---------------------------- MODULE RelayerFront ----------------------------
(***************************************************************************)
(* What stands in front of the relayer's queues: the rate limiter that     *)
(* every HTTP request passes, and GET /fee with its cache of the network's *)
(* priority fee.  A request that asks a node waits for it, or for a timer, *)
(* while others are served.  Time is counted in ticks; timers fire on time *)
(* because nothing blocks the event loop for long.                         *)
(*                                                                         *)
(* A fee is named by the moment at which it was taken: a node read it from *)
(* recent slots, or the estimator set it to 0 because the lookup failed.   *)
(***************************************************************************)
EXTENDS Integers, FiniteSets

CONSTANTS
    Clients,          \* addresses, as req.ip tells them
    MaxRequests,      \* bound: HTTP requests
    ClientOf,         \* the address each request comes from
    FeeRequests,      \* those of GET /fee; the others go to other routes
    MaxTime,          \* bound: ticks
    MaxRestarts,      \* bound: restarts of the process
    RateLimitMax,     \* RATE_LIMIT_MAX
    RateLimitWindow,  \* RATE_LIMIT_WINDOW_MS
    CacheDuration,    \* cacheDurationMs
    RpcTimeout        \* rpcTimeoutMs

ASSUME FrontAssumption ==
    /\ MaxRequests \in Nat
    /\ ClientOf \in [1 .. MaxRequests -> Clients]
    /\ FeeRequests \subseteq 1 .. MaxRequests
    /\ MaxTime \in Nat
    /\ MaxRestarts \in Nat
    /\ RateLimitMax \in Nat \ {0}
    /\ RateLimitWindow \in Nat \ {0}
    /\ CacheDuration \in Nat
    /\ RpcTimeout \in Nat
    /\ RpcTimeout < CacheDuration

VARIABLES
    now,                \* Date.now()
    requestCounts,      \* per address: count and resetAt; 0 and 0 if none
    cachedPriorityFee,  \* NoFee stands for null
    cacheTimestamp,
    step,               \* where each request stands
    arrived,            \* when it came
    read,               \* the fee a node read for it, on its way back
    fee,                \* the fee it was answered
    answered,           \* when
    restarts

limiterVars == <<requestCounts, arrived>>
feeVars == <<cachedPriorityFee, cacheTimestamp, fee, answered>>
vars == <<now, limiterVars, feeVars, step, read, restarts>>

-----------------------------------------------------------------------------
Requests == 1 .. MaxRequests

NoFee == -1

\* "passed": let through to a route that answers without the estimator;
\* "cached", "answered": GET /fee, from the cache or after a lookup;
\* "lost": the process ended, and with it its memory of the request.
Steps == {"none", "refused", "passed", "cached", "lookup", "answered", "lost"}

Accepted(r) == step[r] \in {"passed", "cached", "lookup", "answered"}

Init ==
    /\ now = 0
    /\ requestCounts = [a \in Clients |-> [count |-> 0, resetAt |-> 0]]
    /\ cachedPriorityFee = NoFee
    /\ cacheTimestamp = 0
    /\ step = [r \in Requests |-> "none"]
    /\ arrived = [r \in Requests |-> 0]
    /\ read = [r \in Requests |-> NoFee]
    /\ fee = [r \in Requests |-> NoFee]
    /\ answered = [r \in Requests |-> 0]
    /\ restarts = 0

\* Requests come in the order of their numbers, early enough for their timers
\* to fire within MaxTime.
Arrives(r) ==
    /\ step[r] = "none"
    /\ \A q \in Requests : q < r => step[q] # "none"
    /\ now + RpcTimeout <= MaxTime
    /\ arrived' = [arrived EXCEPT ![r] = now]
    /\ UNCHANGED <<now, read, restarts>>

-----------------------------------------------------------------------------
(* rateLimiter()                                                           *)

WindowOver(a) == now >= requestCounts[a].resetAt

\* Mutant: the window is read in the wrong unit.
CountedShort(a) ==
    [requestCounts EXCEPT ![a] =
        IF WindowOver(a) THEN [count |-> 1, resetAt |-> now + 1]
        ELSE [count |-> @.count + 1, resetAt |-> @.resetAt]]

\* The first request after a window opens the next.
Counted(a) ==
    [requestCounts EXCEPT ![a] =
        IF WindowOver(a) THEN [count |-> 1, resetAt |-> now + RateLimitWindow]
        ELSE [count |-> @.count + 1, resetAt |-> @.resetAt]]

MayPass(a) == WindowOver(a) \/ requestCounts[a].count < RateLimitMax

\* Mutant: whoever insists is kept out for longer.
RefuseExtends(r) ==
    /\ Arrives(r)
    /\ ~MayPass(ClientOf[r])
    /\ step' = [step EXCEPT ![r] = "refused"]
    /\ requestCounts' =
          [requestCounts EXCEPT ![ClientOf[r]].resetAt = now + RateLimitWindow]
    /\ UNCHANGED feeVars

\* 429, which changes nothing.
Refuse(r) ==
    /\ Arrives(r)
    /\ ~MayPass(ClientOf[r])
    /\ step' = [step EXCEPT ![r] = "refused"]
    /\ UNCHANGED <<requestCounts, feeVars>>

\* Any other route, and unknown ones: the middleware runs before them all.
Pass(r) ==
    /\ r \notin FeeRequests
    /\ Arrives(r)
    /\ MayPass(ClientOf[r])
    /\ requestCounts' = Counted(ClientOf[r])
    /\ step' = [step EXCEPT ![r] = "passed"]
    /\ UNCHANGED feeVars

-----------------------------------------------------------------------------
(* GET /fee: FeeEstimator.estimate().  Up to the call of the node nothing  *)
(* awaits, so a request is counted, and looks into the cache, in one step. *)

CacheHit ==
    /\ cachedPriorityFee # NoFee
    /\ now - cacheTimestamp < CacheDuration

FromCache(r) ==
    /\ r \in FeeRequests
    /\ Arrives(r)
    /\ MayPass(ClientOf[r])
    /\ CacheHit
    /\ requestCounts' = Counted(ClientOf[r])
    /\ step' = [step EXCEPT ![r] = "cached"]
    /\ fee' = [fee EXCEPT ![r] = cachedPriorityFee]
    /\ answered' = [answered EXCEPT ![r] = now]
    /\ UNCHANGED <<cachedPriorityFee, cacheTimestamp>>

\* Lookups are not shared: each request that misses asks for itself.
Lookup(r) ==
    /\ r \in FeeRequests
    /\ Arrives(r)
    /\ MayPass(ClientOf[r])
    /\ ~CacheHit
    /\ requestCounts' = Counted(ClientOf[r])
    /\ step' = [step EXCEPT ![r] = "lookup"]
    /\ UNCHANGED feeVars

\* A node looks at its recent slots; it may be slow, before or after.
NodeReads(r) ==
    /\ step[r] = "lookup"
    /\ read[r] = NoFee
    /\ read' = [read EXCEPT ![r] = now]
    /\ UNCHANGED <<now, limiterVars, feeVars, step, restarts>>

\* Mutant: the cache is stamped with the time of the answer.
StoreStampedLate(r, f) ==
    /\ cachedPriorityFee' = f
    /\ cacheTimestamp' = now

\* The cache is stamped with the time before the await, whatever the cache
\* holds by now.
Store(r, f) ==
    /\ cachedPriorityFee' = f
    /\ cacheTimestamp' = arrived[r]

Answer(r, f) ==
    /\ step' = [step EXCEPT ![r] = "answered"]
    /\ fee' = [fee EXCEPT ![r] = f]
    /\ answered' = [answered EXCEPT ![r] = now]
    /\ UNCHANGED <<now, limiterVars, read, restarts>>

\* The node's answer arrives.
Replied(r) ==
    /\ step[r] = "lookup"
    /\ read[r] # NoFee
    /\ Store(r, read[r])
    /\ Answer(r, read[r])

\* Mutant: a fee of 0 is answered but not kept.
FallBackForgets(r) ==
    /\ Answer(r, now)
    /\ UNCHANGED <<cachedPriorityFee, cacheTimestamp>>

\* The catch of getPriorityFee(): 0 is stored and answered.
FallBack(r) ==
    /\ Store(r, now)
    /\ Answer(r, now)

\* The call throws.
LookupFails(r) ==
    /\ step[r] = "lookup"
    /\ FallBack(r)

Deadline(r) == arrived[r] + RpcTimeout

\* Mutant: the timer is cleared when the node starts to answer.
TimesOutUnread(r) ==
    /\ step[r] = "lookup"
    /\ read[r] = NoFee
    /\ now >= Deadline(r)
    /\ FallBack(r)

\* raceTimeout(): the timer wins, and the node's answer is ignored.
TimesOut(r) ==
    /\ step[r] = "lookup"
    /\ now >= Deadline(r)
    /\ FallBack(r)

-----------------------------------------------------------------------------
(* The clock, and the process.                                             *)

\* No timer that is due waits for a later tick.
Tick ==
    /\ now < MaxTime
    /\ \A r \in Requests : step[r] = "lookup" => now < Deadline(r)
    /\ now' = now + 1
    /\ UNCHANGED <<limiterVars, feeVars, step, read, restarts>>

\* The process starts again with no counts and no cache; what it did before
\* is no part of the history any more.
Restart ==
    /\ restarts < MaxRestarts
    /\ restarts' = restarts + 1
    /\ requestCounts' = [a \in Clients |-> [count |-> 0, resetAt |-> 0]]
    /\ cachedPriorityFee' = NoFee
    /\ cacheTimestamp' = 0
    /\ step' = [r \in Requests |-> IF step[r] = "none" THEN "none" ELSE "lost"]
    /\ arrived' = [r \in Requests |-> 0]
    /\ read' = [r \in Requests |-> NoFee]
    /\ fee' = [r \in Requests |-> NoFee]
    /\ answered' = [r \in Requests |-> 0]
    /\ UNCHANGED now

Next ==
    \/ \E r \in Requests :
          \/ Refuse(r)
          \/ Pass(r)
          \/ FromCache(r)
          \/ Lookup(r)
          \/ NodeReads(r)
          \/ Replied(r)
          \/ LookupFails(r)
          \/ TimesOut(r)
    \/ Tick
    \/ Restart

Spec == Init /\ [][Next]_vars

\* Time goes on, and a timer that is due fires.  Nothing is assumed of nodes.
FairSpec ==
    /\ Spec
    /\ WF_vars(Tick)
    /\ \A r \in Requests : WF_vars(TimesOut(r))

-----------------------------------------------------------------------------
Time == 0 .. MaxTime

\* Types; no address is counted beyond its limit.
TypeOK ==
    /\ now \in Time
    /\ requestCounts \in
          [Clients -> [count : 0 .. RateLimitMax, resetAt : Nat]]
    /\ cachedPriorityFee \in Time \cup {NoFee}
    /\ cacheTimestamp \in Time
    /\ step \in [Requests -> Steps]
    /\ arrived \in [Requests -> Time]
    /\ read \in [Requests -> Time \cup {NoFee}]
    /\ fee \in [Requests -> Time \cup {NoFee}]
    /\ answered \in [Requests -> Time]
    /\ restarts \in 0 .. MaxRestarts

\* Requests of address a that passed the limiter from time t on, for n ticks.
AcceptedFrom(a, t, n) ==
    {r \in Requests : /\ Accepted(r)
                      /\ ClientOf[r] = a
                      /\ arrived[r] >= t
                      /\ arrived[r] < t + n}

\* rateLimiter() counts in windows that the first request opens.  A client
\* that times its requests to the end of one and the start of the next gets
\* through with twice the limit in one window's time, and never with more.
BurstBounded ==
    \A a \in Clients, t \in Time :
        Cardinality(AcceptedFrom(a, t, RateLimitWindow)) <= 2 * RateLimitMax

\* A 429 is deserved: in the window's time before it, this address - not
\* others, and not its own refused requests - used up the limit.
RefusalDeserved ==
    \A r \in Requests :
        step[r] = "refused" =>
            Cardinality(AcceptedFrom(ClientOf[r],
                                     arrived[r] - RateLimitWindow + 1,
                                     RateLimitWindow)) >= RateLimitMax

\* A fee that GET /fee answers was taken a short while ago: less than the cache
\* duration, although lookups overlap, answers are slow, and a late one
\* replaces what a quicker one has stored.
FeeFresh ==
    \A r \in Requests :
        step[r] \in {"cached", "answered"} =>
            /\ fee[r] # NoFee
            /\ answered[r] - fee[r] < CacheDuration

\* "Cached for cacheDurationMs to avoid excessive RPC calls" (fees.ts), during
\* an outage too: no lookup starts until the cache duration has gone by since
\* the start of every finished one, but for the time that a slow one, finishing
\* late, can set the stamp back.
LookupsSpaced ==
    [][\A r \in Requests :
          (step[r] = "none" /\ step'[r] = "lookup") =>
              \A q \in Requests :
                  step[q] = "answered" =>
                      now - arrived[q] >= CacheDuration - RpcTimeout]_vars

\* No node can keep a client waiting: every lookup ends, unless the process
\* does.
LookupEnds ==
    \A r \in Requests :
        step[r] = "lookup" ~> step[r] \in {"answered", "lost"}

=============================================================================
