------------------------- MODULE RelayerFrontProofs -------------------------
(***************************************************************************)
(* Theorems about RelayerFront, for every number of addresses and          *)
(* requests, every limit, window, cache duration and timeout.              *)
(***************************************************************************)
EXTENDS RelayerFront, FiniteSetTheorems, TLAPS

USE FrontAssumption

-----------------------------------------------------------------------------
(* Types.                                                                  *)

\* A request that arrives is let through only below the limit, so that the
\* count it leaves is within it.
LEMMA CountedTypes ==
    ASSUME TypeOK, NEW a \in Clients, MayPass(a),
           requestCounts' = Counted(a)
    PROVE  requestCounts' \in
              [Clients -> [count : 0 .. RateLimitMax, resetAt : Nat]]
PROOF
<1>1. /\ now \in Nat
      /\ requestCounts[a] \in [count : 0 .. RateLimitMax, resetAt : Nat]
  BY DEF TypeOK, Time
<1>2. CASE WindowOver(a)
  BY <1>1, <1>2 DEF TypeOK, Counted
<1>3. CASE ~WindowOver(a)
  <2>1. requestCounts[a].count + 1 \in 0 .. RateLimitMax
    BY <1>1, <1>3 DEF MayPass
  <2>2. QED BY <1>1, <1>3, <2>1 DEF TypeOK, Counted
<1>4. QED BY <1>2, <1>3

LEMMA InitTypes == Init => TypeOK
BY DEF Init, TypeOK, Time, Steps, NoFee, Requests

LEMMA NextTypes == TypeOK /\ [Next]_vars => TypeOK'
PROOF
<1>. SUFFICES ASSUME TypeOK, [Next]_vars PROVE TypeOK'
  OBVIOUS
<1>. USE DEF Requests, Time, Steps
<1>1. ASSUME NEW r \in Requests, Refuse(r) PROVE TypeOK'
  BY <1>1 DEF TypeOK, Refuse, Arrives, feeVars
<1>2. ASSUME NEW r \in Requests, Pass(r) PROVE TypeOK'
  <2>1. requestCounts' \in
          [Clients -> [count : 0 .. RateLimitMax, resetAt : Nat]]
    BY <1>2, CountedTypes DEF Pass
  <2>2. QED BY <1>2, <2>1 DEF TypeOK, Pass, Arrives, feeVars
<1>3. ASSUME NEW r \in Requests, FromCache(r) PROVE TypeOK'
  <2>1. requestCounts' \in
          [Clients -> [count : 0 .. RateLimitMax, resetAt : Nat]]
    BY <1>3, CountedTypes DEF FromCache
  <2>2. QED BY <1>3, <2>1 DEF TypeOK, FromCache, Arrives
<1>4. ASSUME NEW r \in Requests, Lookup(r) PROVE TypeOK'
  <2>1. requestCounts' \in
          [Clients -> [count : 0 .. RateLimitMax, resetAt : Nat]]
    BY <1>4, CountedTypes DEF Lookup
  <2>2. QED BY <1>4, <2>1 DEF TypeOK, Lookup, Arrives, feeVars
<1>5. ASSUME NEW r \in Requests, NodeReads(r) PROVE TypeOK'
  BY <1>5 DEF TypeOK, NodeReads, limiterVars, feeVars
<1>6. ASSUME NEW r \in Requests, Replied(r) PROVE TypeOK'
  BY <1>6 DEF TypeOK, Replied, Store, Answer, limiterVars
<1>7. ASSUME NEW r \in Requests, FallBack(r) PROVE TypeOK'
  BY <1>7 DEF TypeOK, FallBack, Store, Answer, limiterVars
<1>8. CASE Tick
  BY <1>8 DEF TypeOK, Tick, limiterVars, feeVars
<1>9. CASE Restart
  BY <1>9 DEF TypeOK, Restart, NoFee
<1>10. CASE UNCHANGED vars
  BY <1>10 DEF TypeOK, vars, limiterVars, feeVars
<1>11. QED
  BY <1>1, <1>2, <1>3, <1>4, <1>5, <1>6, <1>7, <1>8, <1>9, <1>10
     DEF Next, LookupFails, TimesOut

\* Types, and no address is counted beyond its limit.
THEOREM FrontTypes == Spec => []TypeOK
BY InitTypes, NextTypes, PTL DEF Spec

-----------------------------------------------------------------------------
(* The fee.  FeeFresh says nothing of the cache.  LookupInv bounds what is  *)
(* on its way, and CacheInv says that the stamp is no later than the fee it *)
(* goes with, and no earlier, by more than the timeout, than the start of   *)
(* any finished lookup: a late one sets the stamp back by no more.          *)

LookupInv ==
    \A r \in Requests :
        /\ step[r] \in {"lookup", "answered"} => arrived[r] <= now
        /\ step[r] = "lookup" => now <= Deadline(r)
        /\ read[r] # NoFee =>
              /\ step[r] \in {"lookup", "answered"}
              /\ arrived[r] <= read[r]
              /\ read[r] <= now

CacheInv ==
    /\ cachedPriorityFee # NoFee =>
          /\ cacheTimestamp <= cachedPriorityFee
          /\ cachedPriorityFee <= now
    /\ \A r \in Requests :
          step[r] = "answered" =>
              /\ cachedPriorityFee # NoFee
              /\ arrived[r] <= cacheTimestamp + RpcTimeout

FeeInv == TypeOK /\ LookupInv /\ CacheInv /\ FeeFresh

\* Both ways in which a lookup ends store and answer a fee taken since its
\* start.
LEMMA LookupEnding ==
    ASSUME FeeInv, NEW r \in Requests, step[r] = "lookup",
           NEW f \in Time, arrived[r] <= f, f <= now,
           Store(r, f), Answer(r, f)
    PROVE  LookupInv' /\ CacheInv' /\ FeeFresh'
PROOF
<1>. USE DEF FeeInv, TypeOK, Time, Requests, Store, Answer, limiterVars
<1>1. /\ now \in Nat /\ cacheTimestamp \in Nat /\ f \in Nat
      /\ \A q \in Requests : arrived[q] \in Nat /\ read[q] \in Nat \cup {NoFee}
                             /\ fee[q] \in Nat \cup {NoFee} /\ answered[q] \in Nat
  OBVIOUS
<1>2. /\ arrived[r] <= now
      /\ now <= arrived[r] + RpcTimeout
  BY DEF LookupInv, Deadline
<1>3. f # NoFee
  BY DEF NoFee
<1>4. LookupInv'
  BY DEF LookupInv, Deadline
<1>5. CacheInv'
  <2>1. ASSUME NEW q \in Requests, step'[q] = "answered"
        PROVE  arrived[q] <= arrived[r] + RpcTimeout
    <3>1. arrived[q] <= now
      BY <1>2, <2>1 DEF LookupInv
    <3>2. /\ arrived[q] \in Nat /\ arrived[r] \in Nat
          /\ now \in Nat /\ RpcTimeout \in Nat
      BY <1>1
    <3>. HIDE DEF Store, Answer, TypeOK
    <3>3. QED BY <1>2, <3>1, <3>2, SMT
  <2>2. QED BY <1>3, <2>1 DEF CacheInv
<1>6. FeeFresh'
  <2>1. fee'[r] = f /\ answered'[r] = now /\ step'[r] = "answered"
    OBVIOUS
  <2>2. now - f < CacheDuration
    BY <1>1, <1>2
  <2>3. QED BY <1>3, <2>1, <2>2 DEF FeeFresh
<1>7. QED BY <1>4, <1>5, <1>6

LEMMA InitFee == Init => FeeInv
PROOF
<1>1. Init => LookupInv /\ CacheInv /\ FeeFresh
  BY DEF Init, LookupInv, CacheInv, FeeFresh, NoFee
<1>2. QED BY <1>1, InitTypes DEF FeeInv

LEMMA NextFee == FeeInv /\ [Next]_vars => FeeInv'
PROOF
<1>. SUFFICES ASSUME FeeInv, [Next]_vars
              PROVE  LookupInv' /\ CacheInv' /\ FeeFresh'
  BY NextTypes DEF FeeInv
<1>. USE DEF FeeInv
<1>0. /\ now \in Nat /\ cacheTimestamp \in Nat
      /\ cachedPriorityFee \in Nat \cup {NoFee}
      /\ step \in [Requests -> Steps]
      /\ read \in [Requests -> Nat \cup {NoFee}]
      /\ fee \in [Requests -> Nat \cup {NoFee}]
      /\ arrived \in [Requests -> Nat]
      /\ answered \in [Requests -> Nat]
  BY DEF TypeOK, Time
<1>1. ASSUME NEW r \in Requests, Refuse(r) \/ Pass(r)
      PROVE  LookupInv' /\ CacheInv' /\ FeeFresh'
  <2>1. CASE Refuse(r)
    BY <1>0, <2>1 DEF Refuse, Arrives, feeVars, LookupInv, CacheInv, FeeFresh, Deadline
  <2>2. CASE Pass(r)
    BY <1>0, <2>2 DEF Pass, Arrives, feeVars, LookupInv, CacheInv, FeeFresh, Deadline
  <2> QED
    BY <1>1, <2>1, <2>2
<1>2. ASSUME NEW r \in Requests, FromCache(r)
      PROVE  LookupInv' /\ CacheInv' /\ FeeFresh'
  <2>1. LookupInv' /\ CacheInv'
    BY <1>0, <1>2 DEF FromCache, Arrives, LookupInv, CacheInv, Deadline
  <2>2. now - cachedPriorityFee < CacheDuration
    BY <1>0, <1>2 DEF FromCache, CacheHit, CacheInv
  <2>3. FeeFresh'
    BY <1>0, <1>2, <2>2 DEF FromCache, CacheHit, Arrives, FeeFresh
  <2>4. QED BY <2>1, <2>3
<1>3. ASSUME NEW r \in Requests, Lookup(r)
      PROVE  LookupInv' /\ CacheInv' /\ FeeFresh'
  <2>1. LookupInv'
    BY <1>0, <1>3 DEF Lookup, Arrives, feeVars, LookupInv, Deadline
  <2>2. CacheInv' /\ FeeFresh'
    BY <1>0, <1>3 DEF Lookup, Arrives, feeVars, CacheInv, FeeFresh
  <2>3. QED BY <2>1, <2>2
<1>4. ASSUME NEW r \in Requests, NodeReads(r)
      PROVE  LookupInv' /\ CacheInv' /\ FeeFresh'
  BY <1>0, <1>4 DEF NodeReads, limiterVars, feeVars, LookupInv, CacheInv,
                    FeeFresh, Deadline
<1>5. ASSUME NEW r \in Requests, Replied(r)
      PROVE  LookupInv' /\ CacheInv' /\ FeeFresh'
  <2>1. read[r] \in Time /\ arrived[r] <= read[r] /\ read[r] <= now
    BY <1>5 DEF Replied, TypeOK, LookupInv
  <2>2. QED BY <1>5, <2>1, LookupEnding DEF Replied
<1>6. ASSUME NEW r \in Requests, LookupFails(r) \/ TimesOut(r)
      PROVE  LookupInv' /\ CacheInv' /\ FeeFresh'
  <2>1. now \in Time /\ arrived[r] <= now /\ now <= now
    BY <1>0, <1>6 DEF LookupFails, TimesOut, TypeOK, LookupInv
  <2>2. QED BY <1>6, <2>1, LookupEnding DEF LookupFails, TimesOut, FallBack
<1>7. CASE Tick
  <2>1. LookupInv'
    BY <1>0, <1>7 DEF Tick, limiterVars, feeVars, LookupInv, Deadline
  <2>2. CacheInv' /\ FeeFresh'
    BY <1>0, <1>7 DEF Tick, limiterVars, feeVars, CacheInv, FeeFresh
  <2>3. QED BY <2>1, <2>2
<1>8. CASE Restart
  BY <1>8 DEF Restart, LookupInv, CacheInv, FeeFresh
<1>9. CASE UNCHANGED vars
  BY <1>9 DEF vars, limiterVars, feeVars, LookupInv, CacheInv, FeeFresh, Deadline
<1>10. QED
  BY <1>1, <1>2, <1>3, <1>4, <1>5, <1>6, <1>7, <1>8, <1>9 DEF Next

\* However lookups overlap and fail, GET /fee answers a fee taken less than the
\* cache duration ago.
THEOREM FrontFeeFresh == Spec => []FeeFresh
PROOF
<1>1. FeeInv => FeeFresh
  BY DEF FeeInv
<1>2. QED BY <1>1, InitFee, NextFee, PTL DEF Spec

\* A lookup starts only when the cache duration, less what a slow lookup can
\* set the stamp back, has gone by since the start of every finished one.
THEOREM FrontLookupsSpaced == Spec => LookupsSpaced
PROOF
<1>1. ASSUME FeeInv, [Next]_vars,
             NEW r \in Requests, step[r] = "none", step'[r] = "lookup",
             NEW q \in Requests, step[q] = "answered"
      PROVE  now - arrived[q] >= CacheDuration - RpcTimeout
  <2>1. /\ now \in Nat /\ cacheTimestamp \in Nat /\ arrived[q] \in Nat
        /\ step \in [Requests -> Steps]
    BY <1>1 DEF FeeInv, TypeOK, Time
  <2>2. Lookup(r)
    <3>1. PICK p \in Requests :
             \/ Refuse(p) \/ Pass(p) \/ FromCache(p) \/ Lookup(p)
             \/ NodeReads(p) \/ Replied(p) \/ LookupFails(p) \/ TimesOut(p)
             \/ Tick \/ Restart \/ UNCHANGED vars
      BY <1>1 DEF Next
    <3>2. ~(Tick \/ Restart \/ UNCHANGED vars \/ NodeReads(p))
      BY <1>1 DEF Tick, Restart, vars, NodeReads
    <3>3. ~(Refuse(p) \/ Pass(p) \/ FromCache(p))
      BY <1>1, <2>1 DEF Refuse, Pass, FromCache
    <3>4. ~(Replied(p) \/ LookupFails(p) \/ TimesOut(p))
      BY <1>1, <2>1 DEF Replied, LookupFails, TimesOut, FallBack, Answer
    <3>5. Lookup(p)
      BY <3>1, <3>2, <3>3, <3>4
    <3>6. p = r
      BY <1>1, <2>1, <3>5 DEF Lookup
    <3>7. QED BY <3>5, <3>6
  <2>3. now - cacheTimestamp >= CacheDuration
    BY <1>1, <2>1, <2>2 DEF Lookup, CacheHit, FeeInv, CacheInv
  <2>4. arrived[q] <= cacheTimestamp + RpcTimeout
    BY <1>1 DEF FeeInv, CacheInv
  <2>5. QED BY <2>1, <2>3, <2>4
<1>2. FeeInv /\ [Next]_vars =>
        [\A r \in Requests :
            (step[r] = "none" /\ step'[r] = "lookup") =>
                \A q \in Requests :
                    step[q] = "answered" =>
                        now - arrived[q] >= CacheDuration - RpcTimeout]_vars
  BY <1>1
<1>3. QED BY <1>2, InitFee, NextFee, PTL DEF Spec, LookupsSpaced

-----------------------------------------------------------------------------
(* The limiter.  An interval as long as a window meets at most two of them, *)
(* because a window opens only when the one before is over.  WindowInv says *)
(* how many requests the open window has, and that no more than the limit   *)
(* came in the same time before it.                                         *)

AcceptedSet == {r \in Requests : Accepted(r)}

\* The requests of S, with their times of arrival, that address a made in the
\* interval of a window's length from t on.
Within(S, at, a, t) ==
    {r \in S : ClientOf[r] = a /\ at[r] >= t /\ at[r] < t + RateLimitWindow}

Opened(a) == requestCounts[a].resetAt - RateLimitWindow

WindowInv ==
    /\ \A a \in Clients :
          /\ Opened(a) <= now
          /\ Cardinality(Within(AcceptedSet, arrived, a, Opened(a)))
                = requestCounts[a].count
          /\ Cardinality(Within(AcceptedSet, arrived, a,
                                Opened(a) - RateLimitWindow)) <= RateLimitMax
    /\ \A r \in AcceptedSet :
          arrived[r] <= now /\ arrived[r] < requestCounts[ClientOf[r]].resetAt

RateInv == TypeOK /\ WindowInv /\ BurstBounded /\ RefusalDeserved

LEMMA RequestsFinite == IsFiniteSet(Requests)
BY FS_Interval DEF Requests

LEMMA WithinFinite ==
    ASSUME NEW S \in SUBSET Requests, NEW at, NEW a, NEW t
    PROVE  /\ IsFiniteSet(Within(S, at, a, t))
           /\ Cardinality(Within(S, at, a, t)) \in Nat
<1>1. Within(S, at, a, t) \subseteq Requests
  BY DEF Within
<1>2. IsFiniteSet(Within(S, at, a, t))
  BY <1>1, RequestsFinite, FS_Subset
<1>3. QED BY <1>2, FS_CardinalityType

LEMMA AcceptedWithin ==
    \A a, t : AcceptedFrom(a, t, RateLimitWindow)
                 = Within(AcceptedSet, arrived, a, t)
BY DEF AcceptedFrom, AcceptedSet, Within

\* Requests of an interval that begins after o - RateLimitWindow came in the
\* window opened at o or in the same time before it.
LEMMA TwoWindows ==
    ASSUME NEW S \in SUBSET Requests, NEW at \in [Requests -> Nat],
           NEW a, NEW t \in Int, NEW o \in Int, o - RateLimitWindow <= t,
           \A q \in S : ClientOf[q] = a => at[q] < o + RateLimitWindow
    PROVE  Cardinality(Within(S, at, a, t))
              <= Cardinality(Within(S, at, a, o))
                 + Cardinality(Within(S, at, a, o - RateLimitWindow))
<1>. DEFINE X == Within(S, at, a, o)
            Y == Within(S, at, a, o - RateLimitWindow)
            Z == Within(S, at, a, t)
<1>1. Z \subseteq X \cup Y
  <2>1. ASSUME NEW q \in Z PROVE q \in X \cup Y
    <3>1. /\ q \in S /\ ClientOf[q] = a /\ at[q] \in Nat
          /\ at[q] >= t /\ at[q] < o + RateLimitWindow
      BY <2>1 DEF Within
    <3>2. at[q] >= o \/ at[q] < (o - RateLimitWindow) + RateLimitWindow
      BY <3>1
    <3>3. at[q] >= o - RateLimitWindow
      BY <3>1
    <3>4. QED BY <3>1, <3>2, <3>3 DEF Within
  <2>2. QED BY <2>1
<1>2. /\ IsFiniteSet(X) /\ Cardinality(X) \in Nat
      /\ IsFiniteSet(Y) /\ Cardinality(Y) \in Nat
  BY WithinFinite
<1>. HIDE DEF X, Y, Z
<1>3. /\ IsFiniteSet(X \cup Y)
      /\ Cardinality(X \cup Y)
            = Cardinality(X) + Cardinality(Y) - Cardinality(X \cap Y)
  BY <1>2, FS_Union
<1>4. Cardinality(X \cap Y) \in Nat
  <2>1. IsFiniteSet(X \cap Y)
    BY <1>2, FS_Subset
  <2>2. QED BY <2>1, FS_CardinalityType
<1>5. Cardinality(Z) <= Cardinality(X \cup Y)
  BY <1>1, <1>3, FS_Subset
<1>6. Cardinality(Z) \in Nat
  BY <1>1, <1>3, FS_Subset, FS_CardinalityType
<1>7. Cardinality(X) + Cardinality(Y) - Cardinality(X \cap Y)
         <= Cardinality(X) + Cardinality(Y)
  BY <1>2, <1>4
<1>8. QED BY <1>2, <1>3, <1>4, <1>5, <1>6, <1>7 DEF X, Y, Z

\* A request that is counted is the only change to what was accepted.
LEMMA CountingStep ==
    ASSUME RateInv, NEW r \in Requests, Arrives(r), MayPass(ClientOf[r]),
           NEW s \in {"passed", "cached", "lookup"},
           step' = [step EXCEPT ![r] = s],
           requestCounts' = Counted(ClientOf[r])
    PROVE  WindowInv' /\ BurstBounded' /\ RefusalDeserved'
PROOF
<1>. DEFINE c == ClientOf[r]
            W == RateLimitWindow
            S == AcceptedSet
            T == S \cup {r}
            at == arrived
            ct == [arrived EXCEPT ![r] = now]
<1>1. /\ now \in Nat /\ W \in Nat \ {0} /\ RateLimitMax \in Nat \ {0}
      /\ step \in [Requests -> Steps] /\ arrived \in [Requests -> Nat]
      /\ c \in Clients /\ now' = now /\ step[r] = "none"
      /\ \A q \in Requests : ClientOf[q] \in Clients
  BY SMTT(20) DEF RateInv, TypeOK, Time, Arrives, Requests
<1>2. /\ S \in SUBSET Requests /\ r \notin S
      /\ AcceptedSet' = T
      /\ arrived' = ct
  BY <1>1 DEF AcceptedSet, Accepted, Arrives
<1>3. /\ \A a \in Clients : /\ requestCounts[a].count \in 0 .. RateLimitMax
                            /\ requestCounts[a].resetAt \in Nat
      /\ \A a \in Clients \ {c} : requestCounts'[a] = requestCounts[a]
      /\ WindowOver(c) => /\ requestCounts'[c].count = 1
                          /\ requestCounts'[c].resetAt = now + W
      /\ ~WindowOver(c) =>
            /\ requestCounts'[c].count = requestCounts[c].count + 1
            /\ requestCounts'[c].resetAt = requestCounts[c].resetAt
  BY <1>1 DEF RateInv, TypeOK, Counted
<1>4. \A a \in Clients : Opened(a) \in Int /\ Opened(a)' \in Int
  BY <1>1, <1>3 DEF Opened
<1>5. ASSUME NEW a \in Clients, NEW t \in Int
      PROVE  /\ Cardinality(Within(S, at, a, t)) \in Nat
             /\ Cardinality(Within(T, ct, a, t)) \in Nat
             /\ Within(S, at, a, t) \subseteq Within(T, ct, a, t)
             /\ (a = c /\ t <= now /\ now < t + W) =>
                   Cardinality(Within(T, ct, a, t))
                      = Cardinality(Within(S, at, a, t)) + 1
             /\ ~(a = c /\ t <= now /\ now < t + W) =>
                   Within(T, ct, a, t) = Within(S, at, a, t)
  <2>1. T \in SUBSET Requests
    BY <1>2
  <2>2. /\ Cardinality(Within(S, at, a, t)) \in Nat
        /\ Cardinality(Within(T, ct, a, t)) \in Nat
    BY <1>2, <2>1, WithinFinite
  <2>3. ~(a = c /\ t <= now /\ now < t + W) =>
           Within(T, ct, a, t) = Within(S, at, a, t)
    BY <1>1, <1>2 DEF Within
  <2>4. (a = c /\ t <= now /\ now < t + W) =>
           Within(T, ct, a, t) = Within(S, at, a, t) \cup {r}
    BY <1>1, <1>2 DEF Within
  <2>5. IsFiniteSet(Within(S, at, a, t)) /\ r \notin Within(S, at, a, t)
    <3>1. r \notin Within(S, at, a, t)
      BY <1>2 DEF Within
    <3>. HIDE DEF S
    <3>2. IsFiniteSet(Within(S, at, a, t))
      BY <1>2, WithinFinite
    <3>3. QED BY <3>1, <3>2
  <2>. HIDE DEF T, ct, S
  <2>6. QED BY <2>2, <2>3, <2>4, <2>5, FS_AddElement
<1>. HIDE DEF T, ct
\* The window of every address after the step.
<1>6. ASSUME NEW a \in Clients
      PROVE  /\ Opened(a)' <= now
             /\ Cardinality(Within(T, ct, a, Opened(a)'))
                   = requestCounts'[a].count
             /\ Cardinality(Within(T, ct, a, Opened(a)' - W)) <= RateLimitMax
  <2>1. /\ Opened(a) <= now
        /\ Cardinality(Within(S, at, a, Opened(a))) = requestCounts[a].count
        /\ Cardinality(Within(S, at, a, Opened(a) - W)) <= RateLimitMax
        /\ \A q \in S : at[q] < requestCounts[ClientOf[q]].resetAt
    BY DEF RateInv, WindowInv
  <2>2. CASE a # c
    <3>1. Opened(a)' = Opened(a) /\ requestCounts'[a].count = requestCounts[a].count
      BY <1>3, <2>2 DEF Opened
    <3>2. Opened(a) \in Int /\ Opened(a) - W \in Int
      BY <1>1, <1>4
    <3>3. /\ Within(T, ct, a, Opened(a)) = Within(S, at, a, Opened(a))
          /\ Within(T, ct, a, Opened(a) - W) = Within(S, at, a, Opened(a) - W)
      BY <1>5, <2>2, <3>2
    <3>4. QED BY <2>1, <3>1, <3>3
  <2>3. CASE a = c /\ WindowOver(c)
    <3>1. Opened(a)' = now
      BY <1>1, <1>3, <2>3 DEF Opened
    <3>2. Within(S, at, a, now) = {}
      BY <1>1, <1>2, <1>3, <2>1, <2>3 DEF WindowOver, Within
    <3>3. Cardinality(Within(T, ct, a, now)) = 1
      <4>1. now \in Int /\ now <= now /\ now < now + W
        BY <1>1
      <4>2. Cardinality(Within(T, ct, a, now))
               = Cardinality(Within(S, at, a, now)) + 1
        BY <1>5, <2>3, <4>1
      <4>3. Cardinality(Within(S, at, a, now)) = 0
        BY <3>2, FS_EmptySet
      <4>4. QED BY <4>2, <4>3
    <3>4. Within(T, ct, a, now - W) = Within(S, at, a, now - W)
      BY <1>1, <1>5
    <3>5. Within(S, at, a, now - W) \subseteq Within(S, at, a, Opened(a))
      BY <1>1, <1>2, <1>3, <2>1, <2>3 DEF WindowOver, Within, Opened
    <3>6. Cardinality(Within(S, at, a, now - W))
             <= Cardinality(Within(S, at, a, Opened(a)))
      BY <1>2, <3>5, WithinFinite, FS_Subset
    <3>7. Cardinality(Within(S, at, a, now - W)) <= RateLimitMax
      <4>1. now - W \in Int /\ Opened(a) \in Int
        BY <1>1, <1>4
      <4>2. /\ Cardinality(Within(S, at, a, now - W)) \in Nat
            /\ requestCounts[a].count \in 0 .. RateLimitMax
        BY <1>3, <1>5, <4>1
      <4>3. QED BY <1>1, <2>1, <3>6, <4>2
    <3>8. QED BY <1>1, <1>3, <2>3, <3>1, <3>3, <3>4, <3>7
  <2>4. CASE a = c /\ ~WindowOver(c)
    <3>1. Opened(a)' = Opened(a)
      BY <1>3, <2>4 DEF Opened
    <3>2. now < Opened(a) + W
      BY <1>1, <1>3, <2>4 DEF WindowOver, Opened
    <3>3. Cardinality(Within(T, ct, a, Opened(a))) = requestCounts'[a].count
      BY <1>3, <1>4, <1>5, <2>1, <2>4, <3>2
    <3>4. ~(now < (Opened(a) - W) + W)
      BY <1>1, <1>4, <2>1
    <3>5. Within(T, ct, a, Opened(a) - W) = Within(S, at, a, Opened(a) - W)
      BY SMTT(20), <1>1, <1>4, <1>5, <3>4
    <3>6. QED BY <2>1, <3>1, <3>3, <3>5
  <2>5. QED BY <2>2, <2>3, <2>4
<1>7. ASSUME NEW q \in T
      PROVE  ct[q] <= now /\ ct[q] < requestCounts'[ClientOf[q]].resetAt
  <2>1. CASE q = r
    BY <1>1, <1>3, <2>1 DEF WindowOver, ct
  <2>2. CASE q # r
    <3>1. /\ q \in S /\ q \in Requests /\ ct[q] = at[q] /\ at[q] \in Nat
          /\ at[q] <= now /\ at[q] < requestCounts[ClientOf[q]].resetAt
      BY <1>1, <1>2, <2>2 DEF T, ct, RateInv, WindowInv
    <3>2. requestCounts[ClientOf[q]].resetAt
             <= requestCounts'[ClientOf[q]].resetAt
      BY SMTT(20), <1>1, <1>3, <3>1 DEF WindowOver
    <3>3. /\ requestCounts[ClientOf[q]].resetAt \in Nat
          /\ requestCounts'[ClientOf[q]].resetAt \in Nat
      BY SMTT(20), <1>1, <1>3, <3>1
    <3>4. QED BY <3>1, <3>2, <3>3
  <2>3. QED BY <2>1, <2>2
<1>8. WindowInv'
  BY <1>1, <1>2, <1>6, <1>7 DEF WindowInv
<1>9. BurstBounded'
  <2>1. ASSUME NEW a \in Clients, NEW t \in Time
        PROVE  Cardinality(Within(T, ct, a, t)) <= 2 * RateLimitMax
    <3>1. t \in Int /\ Cardinality(Within(S, at, a, t)) <= 2 * RateLimitMax
      BY AcceptedWithin DEF RateInv, BurstBounded, Time
    <3>2. CASE ~(a = c /\ t <= now /\ now < t + W)
      BY <1>5, <3>1, <3>2
    <3>3. CASE a = c /\ t <= now /\ now < t + W
      <4>1. Opened(a)' - W <= t
        BY <1>1, <1>4, <1>6, <3>1, <3>3
      <4>2. /\ T \in SUBSET Requests /\ ct \in [Requests -> Nat]
            /\ \A q \in T : ClientOf[q] = a => ct[q] < Opened(a)' + W
        BY SMTT(20), <1>1, <1>2, <1>3, <1>7 DEF T, ct, Opened
      <4>3. Cardinality(Within(T, ct, a, t))
               <= Cardinality(Within(T, ct, a, Opened(a)'))
                  + Cardinality(Within(T, ct, a, Opened(a)' - W))
        BY <1>4, <3>1, <4>1, <4>2, TwoWindows
      <4>4. requestCounts'[a].count \in Nat /\ requestCounts'[a].count <= RateLimitMax
        BY SMTT(20), <1>1, <1>3, <3>3 DEF MayPass
      <4>5. Opened(a)' - W \in Int
        BY <1>1, <1>4
      <4>6. /\ Cardinality(Within(T, ct, a, t)) \in Nat
            /\ Cardinality(Within(T, ct, a, Opened(a)' - W)) \in Nat
        BY <1>5, <3>1, <4>5
      <4>7. QED BY <1>1, <1>6, <4>3, <4>4, <4>6
    <3>4. QED BY <3>2, <3>3
  <2>2. \A a, t : AcceptedFrom(a, t, W)' = Within(T, ct, a, t)
    BY <1>2 DEF AcceptedFrom, AcceptedSet, Within
  <2>3. QED BY <2>1, <2>2 DEF BurstBounded
<1>10. RefusalDeserved'
  <2>1. ASSUME NEW q \in Requests, step'[q] = "refused"
        PROVE  Cardinality(Within(T, ct, ClientOf[q], ct[q] - W + 1)) >= RateLimitMax
    <3>1. q # r /\ step[q] = "refused" /\ ct[q] = at[q] /\ at[q] \in Nat
      BY <1>1, <2>1 DEF ct
    <3>2. Cardinality(Within(S, at, ClientOf[q], at[q] - W + 1)) >= RateLimitMax
      BY <3>1, AcceptedWithin DEF RateInv, RefusalDeserved
    <3>3. /\ ClientOf[q] \in Clients /\ at[q] - W + 1 \in Int
          /\ Cardinality(Within(S, at, ClientOf[q], at[q] - W + 1)) \in Nat
      <4>1. ClientOf[q] \in Clients /\ at[q] - W + 1 \in Int
        BY <1>1, <3>1
      <4>. HIDE DEF S, W
      <4>2. QED BY <1>5, <4>1
    <3>4. \/ Within(T, ct, ClientOf[q], at[q] - W + 1)
                = Within(S, at, ClientOf[q], at[q] - W + 1)
          \/ Cardinality(Within(T, ct, ClientOf[q], at[q] - W + 1))
                = Cardinality(Within(S, at, ClientOf[q], at[q] - W + 1)) + 1
      BY <1>5, <3>3
    <3>5. QED BY <1>1, <3>1, <3>2, <3>3, <3>4
  <2>2. \A a, t : AcceptedFrom(a, t, W)' = Within(T, ct, a, t)
    BY <1>2 DEF AcceptedFrom, AcceptedSet, Within
  <2>3. QED BY <1>2, <2>1, <2>2 DEF RefusalDeserved
<1>11. QED BY <1>8, <1>9, <1>10

\* A step that accepts nobody and refuses nobody keeps the books, and so does
\* the clock.
LEMMA QuietStep ==
    ASSUME RateInv, now' \in Nat, now <= now',
           requestCounts' = requestCounts, arrived' = arrived,
           \A q \in Requests : /\ Accepted(q)' <=> Accepted(q)
                               /\ step'[q] = "refused" => step[q] = "refused"
    PROVE  WindowInv' /\ BurstBounded' /\ RefusalDeserved'
PROOF
<1>1. /\ AcceptedSet' = AcceptedSet
      /\ AcceptedSet \in SUBSET Requests
      /\ now \in Nat
      /\ arrived \in [Requests -> Nat]
      /\ \A a \in Clients : Opened(a) \in Int /\ Opened(a)' = Opened(a)
  BY DEF AcceptedSet, RateInv, TypeOK, Time, Opened
<1>2. \A a, t : AcceptedFrom(a, t, RateLimitWindow)'
                   = Within(AcceptedSet, arrived, a, t)
  <2>1. \A a, t : AcceptedFrom(a, t, RateLimitWindow)'
                     = Within(AcceptedSet', arrived', a, t)
    BY DEF AcceptedFrom, AcceptedSet, Within
  <2>2. QED BY <1>1, <2>1
<1>3. WindowInv'
  <2>1. \A a \in Clients : Opened(a)' <= now'
    BY <1>1 DEF RateInv, WindowInv
  <2>2. \A q \in AcceptedSet : arrived[q] <= now'
    BY <1>1 DEF RateInv, WindowInv
  <2>3. QED BY <1>1, <2>1, <2>2 DEF RateInv, WindowInv
<1>4. BurstBounded'
  BY <1>2, AcceptedWithin DEF RateInv, BurstBounded
<1>5. RefusalDeserved'
  BY <1>2, AcceptedWithin DEF RateInv, RefusalDeserved
<1>6. QED BY <1>3, <1>4, <1>5

\* A refusal finds a full window, which is part of the interval before it.
LEMMA RefusingStep ==
    ASSUME RateInv, NEW r \in Requests, Refuse(r)
    PROVE  WindowInv' /\ BurstBounded' /\ RefusalDeserved'
PROOF
<1>. DEFINE W == RateLimitWindow
            at == arrived
            ct == [arrived EXCEPT ![r] = now]
<1>1. /\ now \in Nat /\ W \in Nat \ {0} /\ RateLimitMax \in Nat
      /\ step \in [Requests -> Steps] /\ arrived \in [Requests -> Nat]
      /\ step[r] = "none" /\ now' = now /\ requestCounts' = requestCounts
      /\ arrived' = ct
      /\ step' = [step EXCEPT ![r] = "refused"]
      /\ \A q \in Requests : ClientOf[q] \in Clients
  BY SMTT(20) DEF RateInv, TypeOK, Time, Refuse, Arrives, Requests
<1>2. /\ AcceptedSet' = AcceptedSet
      /\ AcceptedSet \in SUBSET Requests
      /\ r \notin AcceptedSet
  BY <1>1 DEF AcceptedSet, Accepted
<1>3. \A a, t : Within(AcceptedSet, ct, a, t) = Within(AcceptedSet, at, a, t)
  BY <1>1, <1>2 DEF Within
<1>4. \A a, t : AcceptedFrom(a, t, W)' = Within(AcceptedSet, at, a, t)
  <2>1. \A a, t : AcceptedFrom(a, t, W)' = Within(AcceptedSet', arrived', a, t)
    BY DEF AcceptedFrom, AcceptedSet, Within
  <2>2. QED BY <1>1, <1>2, <1>3, <2>1
<1>. HIDE DEF ct
<1>5. WindowInv'
  <2>1. \A a \in Clients : Opened(a)' = Opened(a)
    BY <1>1 DEF Opened
  <2>2. \A q \in AcceptedSet : arrived'[q] = arrived[q]
    BY <1>1, <1>2 DEF ct
  <2>3. QED BY <1>1, <1>2, <1>3, <2>1, <2>2 DEF RateInv, WindowInv
<1>6. BurstBounded'
  BY <1>4, AcceptedWithin DEF RateInv, BurstBounded
<1>7. RefusalDeserved'
  <2>1. ASSUME NEW q \in Requests, q # r, step'[q] = "refused"
        PROVE  Cardinality(Within(AcceptedSet, at, ClientOf[q],
                                  arrived'[q] - W + 1)) >= RateLimitMax
    <3>1. step[q] = "refused" /\ arrived'[q] = at[q]
      BY <1>1, <2>1 DEF ct
    <3>2. QED BY <3>1, AcceptedWithin DEF RateInv, RefusalDeserved
  <2>2. Cardinality(Within(AcceptedSet, at, ClientOf[r], now - W + 1))
           >= RateLimitMax
    <3>. DEFINE c == ClientOf[r]
                X == Within(AcceptedSet, at, c, Opened(c))
                Y == Within(AcceptedSet, at, c, now - W + 1)
    <3>1. /\ c \in Clients
          /\ requestCounts[c].resetAt \in Nat /\ requestCounts[c].count \in Nat
          /\ now < requestCounts[c].resetAt
          /\ requestCounts[c].count >= RateLimitMax
      BY <1>1 DEF RateInv, TypeOK, Refuse, MayPass, WindowOver
    <3>2. Cardinality(X) = requestCounts[c].count
      BY <3>1 DEF RateInv, WindowInv
    <3>3. \A q \in AcceptedSet : at[q] <= now
      BY DEF RateInv, WindowInv
    <3>4. X \subseteq Y
      BY <1>1, <1>2, <3>1, <3>3 DEF Within, Opened
    <3>5. IsFiniteSet(Y) /\ Cardinality(Y) \in Nat
      BY <1>2, WithinFinite
    <3>6. Cardinality(X) <= Cardinality(Y)
      BY <3>4, <3>5, FS_Subset
    <3>7. QED BY <1>1, <3>1, <3>2, <3>5, <3>6
  <2>3. arrived'[r] = now
    BY <1>1 DEF ct
  <2>4. ASSUME NEW q \in Requests, step'[q] = "refused"
        PROVE  Cardinality(Within(AcceptedSet, at, ClientOf[q],
                                  arrived'[q] - W + 1)) >= RateLimitMax
    BY <2>1, <2>2, <2>3, <2>4
  <2>5. QED BY <1>4, <2>4 DEF RefusalDeserved
<1>8. QED BY <1>5, <1>6, <1>7

\* Nothing has been accepted: at the start, and after a restart.
LEMMA NothingAccepted ==
    ASSUME now \in Nat, AcceptedSet = {},
           requestCounts = [a \in Clients |-> [count |-> 0, resetAt |-> 0]],
           \A r \in Requests : step[r] # "refused"
    PROVE  WindowInv /\ BurstBounded /\ RefusalDeserved
PROOF
<1>1. \A at, a, t : Cardinality(Within({}, at, a, t)) = 0
  BY FS_EmptySet DEF Within
<1>2. \A a, t : Cardinality(AcceptedFrom(a, t, RateLimitWindow)) = 0
  BY <1>1, AcceptedWithin
<1>3. WindowInv
  <2>1. \A a \in Clients : /\ requestCounts[a].count = 0
                           /\ Opened(a) = 0 - RateLimitWindow
    BY DEF Opened
  <2>2. 0 - RateLimitWindow <= now /\ 0 <= RateLimitMax
    OBVIOUS
  <2>3. QED BY <1>1, <2>1, <2>2 DEF WindowInv
<1>4. BurstBounded
  <2>1. 0 <= 2 * RateLimitMax
    OBVIOUS
  <2>2. QED BY <1>2, <2>1 DEF BurstBounded
<1>5. RefusalDeserved
  BY DEF RefusalDeserved
<1>6. QED BY <1>3, <1>4, <1>5

LEMMA InitRate == Init => RateInv
PROOF
<1>1. Init => /\ now \in Nat /\ AcceptedSet = {}
              /\ requestCounts
                    = [a \in Clients |-> [count |-> 0, resetAt |-> 0]]
              /\ \A r \in Requests : step[r] # "refused"
  BY DEF Init, AcceptedSet, Accepted
<1>2. QED BY <1>1, NothingAccepted, InitTypes DEF RateInv

LEMMA NextRate == RateInv /\ [Next]_vars => RateInv'
PROOF
<1>. SUFFICES ASSUME RateInv, [Next]_vars
              PROVE  WindowInv' /\ BurstBounded' /\ RefusalDeserved'
  BY NextTypes DEF RateInv
<1>0. now \in Nat /\ step \in [Requests -> Steps]
  BY DEF RateInv, TypeOK, Time
<1>1. ASSUME NEW r \in Requests, Refuse(r)
      PROVE  WindowInv' /\ BurstBounded' /\ RefusalDeserved'
  BY <1>1, RefusingStep
<1>2. ASSUME NEW r \in Requests, Pass(r) \/ FromCache(r) \/ Lookup(r)
      PROVE  WindowInv' /\ BurstBounded' /\ RefusalDeserved'
  BY <1>2, CountingStep DEF Pass, FromCache, Lookup
<1>3. ASSUME NEW r \in Requests, NodeReads(r)
      PROVE  WindowInv' /\ BurstBounded' /\ RefusalDeserved'
  BY <1>0, <1>3, QuietStep DEF NodeReads, limiterVars, Accepted
<1>4. ASSUME NEW r \in Requests,
             Replied(r) \/ LookupFails(r) \/ TimesOut(r)
      PROVE  WindowInv' /\ BurstBounded' /\ RefusalDeserved'
  <2>1. \A q \in Requests : /\ Accepted(q)' <=> Accepted(q)
                            /\ step'[q] = "refused" => step[q] = "refused"
    BY <1>0, <1>4 DEF Replied, LookupFails, TimesOut, FallBack, Answer, Accepted
  <2>2. now' = now /\ requestCounts' = requestCounts /\ arrived' = arrived
    BY <1>4 DEF Replied, LookupFails, TimesOut, FallBack, Answer, limiterVars
  <2>3. QED BY <1>0, <2>1, <2>2, QuietStep
<1>5. CASE Tick
  BY <1>0, <1>5, QuietStep DEF Tick, limiterVars, Accepted
<1>6. CASE Restart
  <2>1. /\ now' \in Nat /\ AcceptedSet' = {}
        /\ requestCounts' = [a \in Clients |-> [count |-> 0, resetAt |-> 0]]
        /\ \A r \in Requests : step'[r] # "refused"
    BY <1>0, <1>6 DEF Restart, AcceptedSet, Accepted
  <2>2. \A a, t : Cardinality(AcceptedFrom(a, t, RateLimitWindow)') = 0
    <3>1. \A a, t : AcceptedFrom(a, t, RateLimitWindow)' = {}
      BY <2>1 DEF AcceptedFrom, AcceptedSet
    <3>2. QED BY <3>1, FS_EmptySet
  <2>3. WindowInv'
    <3>1. \A at, a, t : Cardinality(Within({}, at, a, t)) = 0
      BY FS_EmptySet DEF Within
    <3>2. \A a \in Clients : /\ requestCounts'[a].count = 0
                             /\ Opened(a)' = 0 - RateLimitWindow
      BY <2>1 DEF Opened
    <3>3. 0 - RateLimitWindow <= now' /\ 0 <= RateLimitMax
      BY <2>1
    <3>4. QED BY <2>1, <3>1, <3>2, <3>3 DEF WindowInv
  <2>4. BurstBounded' /\ RefusalDeserved'
    <3>1. 0 <= 2 * RateLimitMax
      OBVIOUS
    <3>2. QED BY <2>1, <2>2, <3>1 DEF BurstBounded, RefusalDeserved
  <2>5. QED BY <2>3, <2>4
<1>7. CASE UNCHANGED vars
  BY <1>0, <1>7, QuietStep DEF vars, limiterVars, Accepted
<1>8. QED
  BY <1>1, <1>2, <1>3, <1>4, <1>5, <1>6, <1>7 DEF Next

\* No address gets more than twice the limit through in a window's time,
\* wherever that begins.
THEOREM FrontBurstBounded == Spec => []BurstBounded
PROOF
<1>1. RateInv => BurstBounded
  BY DEF RateInv
<1>2. QED BY <1>1, InitRate, NextRate, PTL DEF Spec

\* Whoever is refused has had the limit's worth of requests served in the
\* window's time before.
THEOREM FrontRefusalDeserved == Spec => []RefusalDeserved
PROOF
<1>1. RateInv => RefusalDeserved
  BY DEF RateInv
<1>2. QED BY <1>1, InitRate, NextRate, PTL DEF Spec

=============================================================================
