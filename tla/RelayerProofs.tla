--------------------------- MODULE RelayerProofs ---------------------------
(***************************************************************************)
(* For every set of requests and transactions, every batch size and every  *)
(* number of retries: the status of a request is what became of its        *)
(* transaction, stays final, and every flush is padded.                    *)
(***************************************************************************)
EXTENDS Relayer, FiniteSetTheorems, SequenceTheorems, TLAPS

\* What a client is told at each point of a request's coroutine, which has an
\* attempt left until it is done.
StatusOf ==
    \A r \in Requests :
        /\ step[r] \in {"none", "lost"} => status[r] = "unknown"
        /\ step[r] \in {"queued", "delay"} => status[r] = "queued"
        /\ step[r] \in {"sending", "waiting", "backoff"} => status[r] = "pending"
        /\ step[r] = "done" => Final(r)
        /\ step[r] # "done" => attempts[r] <= MaxRetries

\* The queue holds requests that no flush has taken.
QueueHoldsUntaken ==
    /\ IsFiniteSet(queue)
    /\ \A r \in queue : step[r] = "queued"
    /\ \A r \in Requests : step[r] \in {"none", "queued"} => batch[r] = 0

RelayInv == TypeOK /\ StatusOf /\ QueueHoldsUntaken /\ ConfirmedSucceeded

\* Padding fills a batch up to a multiple of minBatchSize.
LEMMA PaddingFills ==
    ASSUME NEW n \in Nat
    PROVE  /\ PaddingCount(n) \in Nat
           /\ (n + PaddingCount(n)) % MinBatchSize = 0
<1> DEFINE d == MinBatchSize
           a == n + d - 1
           q == a \div d
<1>1. d \in Nat /\ d > 0
  BY RelayerAssumption
<1>2. a \in Nat /\ a >= 0
  BY <1>1
<1>3. q \in Nat /\ a = d * q + (a % d) /\ a % d \in 0 .. d - 1
  BY <1>1, <1>2
<1>4. q * d = d * q /\ d * q \in Nat
  BY <1>1, <1>3
<1>5. PaddingCount(n) = d * q - n
  BY <1>4 DEF PaddingCount
<1>6. PaddingCount(n) \in Nat
  <2> HIDE DEF q
  <2> QED BY <1>1, <1>3, <1>4, <1>5
<1>7. n + PaddingCount(n) = d * q
  <2> HIDE DEF q
  <2> QED BY <1>1, <1>4, <1>5
<1>8. (d * q) % d = 0
  <2> HIDE DEF q, d
  <2> QED BY <1>1, <1>3, Z3
<1> QED
  BY <1>6, <1>7, <1>8

LEMMA InitEstablishes == Init => RelayInv
<1> SUFFICES ASSUME Init PROVE RelayInv
  OBVIOUS
<1>1. TypeOK
  BY RelayerAssumption DEF Init, TypeOK, Steps
<1>2. StatusOf /\ ConfirmedSucceeded
  BY RelayerAssumption DEF Init, StatusOf, ConfirmedSucceeded, Final
<1>3. QueueHoldsUntaken
  BY FS_EmptySet DEF Init, QueueHoldsUntaken
<1> QED
  BY <1>1, <1>2, <1>3 DEF RelayInv

\* A step of one request's coroutine leaves queue and batches alone, moves the
\* request alone, and a request in the queue does not move.
LEMMA ProceedKeeps ==
    ASSUME RelayInv, NEW r \in Requests, Proceed(r) \/ EvmFails(r)
    PROVE  RelayInv'
<1> USE RelayerAssumption
<1> USE DEF RelayInv, TypeOK, Steps, SolanaRequests
<1>1. CASE DelayEnds(r)
  <2>1. TypeOK'
    BY <1>1 DEF DelayEnds, Finish
  <2>2. StatusOf'
    BY <1>1 DEF DelayEnds, Finish, StatusOf, Final
  <2>3. ConfirmedSucceeded'
    BY <1>1 DEF DelayEnds, Finish, ConfirmedSucceeded
  <2>4. QueueHoldsUntaken'
    BY <1>1 DEF DelayEnds, Finish, QueueHoldsUntaken
  <2> QED BY <2>1, <2>2, <2>3, <2>4
<1>2. CASE Accepted(r)
  <2>1. TypeOK'
    BY <1>2 DEF Accepted
  <2>2. StatusOf' /\ ConfirmedSucceeded'
    BY <1>2 DEF Accepted, StatusOf, ConfirmedSucceeded, Final
  <2>3. QueueHoldsUntaken'
    BY <1>2 DEF Accepted, QueueHoldsUntaken
  <2> QED BY <2>1, <2>2, <2>3
<1>3. CASE Confirmed(r)
  <2>1. TypeOK'
    BY <1>3 DEF Confirmed, Finish
  <2>2. StatusOf' /\ ConfirmedSucceeded'
    BY <1>3 DEF Confirmed, Finish, StatusOf, ConfirmedSucceeded, Final
  <2>3. QueueHoldsUntaken'
    BY <1>3 DEF Confirmed, Finish, QueueHoldsUntaken
  <2> QED BY <2>1, <2>2, <2>3
<1>4. CASE NoRetry(r)
  <2>1. TypeOK'
    BY <1>4 DEF NoRetry, Finish
  <2>2. StatusOf' /\ ConfirmedSucceeded'
    BY <1>4 DEF NoRetry, Finish, StatusOf, ConfirmedSucceeded, Final
  <2>3. QueueHoldsUntaken'
    BY <1>4 DEF NoRetry, Finish, QueueHoldsUntaken
  <2> QED BY <2>1, <2>2, <2>3
<1>5. CASE RetryLater(r)
  <2>1. TypeOK'
    BY <1>5 DEF RetryLater, SendErrs
  <2>2. StatusOf' /\ ConfirmedSucceeded'
    BY <1>5 DEF RetryLater, SendErrs, StatusOf, ConfirmedSucceeded, Final
  <2>3. QueueHoldsUntaken'
    BY <1>5 DEF RetryLater, SendErrs, QueueHoldsUntaken
  <2> QED BY <2>1, <2>2, <2>3
<1>6. CASE GiveUp(r)
  <2>1. /\ step[r] \in {"sending", "waiting"}
        /\ step' = [step EXCEPT ![r] = "done"]
        /\ status' = [status EXCEPT ![r] = "failed"]
        /\ attempts' = [attempts EXCEPT ![r] = @ + 1]
        /\ UNCHANGED <<queue, batch, padding, chain, restarts>>
    BY <1>6 DEF GiveUp, SendErrs, Finish
  <2>2. attempts' \in [Requests -> 0 .. MaxRetries + 1]
    <3>1. attempts[r] <= MaxRetries
      BY <2>1 DEF StatusOf
    <3> QED
      BY <2>1, <3>1
  <2>3. network' \subseteq Transactions
    BY <1>6 DEF GiveUp, SendErrs
  <2>4. TypeOK'
    BY <2>1, <2>2, <2>3
  <2>5. StatusOf' /\ ConfirmedSucceeded'
    BY <2>1 DEF StatusOf, ConfirmedSucceeded, Final
  <2>6. QueueHoldsUntaken'
    BY <2>1 DEF QueueHoldsUntaken
  <2> QED BY <2>4, <2>5, <2>6
<1>7. CASE BackoffEnds(r)
  <2>1. TypeOK'
    BY <1>7 DEF BackoffEnds
  <2>2. StatusOf' /\ ConfirmedSucceeded'
    BY <1>7 DEF BackoffEnds, StatusOf, ConfirmedSucceeded, Final
  <2>3. QueueHoldsUntaken'
    BY <1>7 DEF BackoffEnds, QueueHoldsUntaken
  <2> QED BY <2>1, <2>2, <2>3
<1>8. CASE EvmFails(r)
  <2>1. TypeOK'
    BY <1>8 DEF EvmFails, SendErrs, Finish
  <2>2. StatusOf' /\ ConfirmedSucceeded'
    BY <1>8 DEF EvmFails, SendErrs, Finish, StatusOf, ConfirmedSucceeded, Final
  <2>3. QueueHoldsUntaken'
    BY <1>8 DEF EvmFails, SendErrs, Finish, QueueHoldsUntaken
  <2> QED BY <2>1, <2>2, <2>3
<1> QED
  BY <1>1, <1>2, <1>3, <1>4, <1>5, <1>6, <1>7, <1>8 DEF Proceed

LEMMA EnqueueKeeps ==
    ASSUME RelayInv, NEW r \in Requests, Enqueue(r) \/ EnqueueEvm(r)
    PROVE  RelayInv'
<1> USE DEF RelayInv, TypeOK, Steps, SolanaRequests
<1>1. CASE Enqueue(r)
  <2>1. TypeOK'
    BY <1>1 DEF Enqueue
  <2>2. StatusOf' /\ ConfirmedSucceeded'
    BY <1>1 DEF Enqueue, StatusOf, ConfirmedSucceeded, Final
  <2>3. IsFiniteSet(queue')
    BY <1>1, FS_AddElement DEF Enqueue, QueueHoldsUntaken
  <2>4. QueueHoldsUntaken'
    BY <1>1, <2>3 DEF Enqueue, QueueHoldsUntaken
  <2> QED BY <2>1, <2>2, <2>4
<1>2. CASE EnqueueEvm(r)
  <2>1. TypeOK'
    BY <1>2 DEF EnqueueEvm
  <2>2. StatusOf' /\ ConfirmedSucceeded'
    BY <1>2 DEF EnqueueEvm, StatusOf, ConfirmedSucceeded, Final
  <2>3. QueueHoldsUntaken'
    BY <1>2 DEF EnqueueEvm, QueueHoldsUntaken
  <2> QED BY <2>1, <2>2, <2>3
<1> QED
  BY <1>1, <1>2

LEMMA FlushKeeps ==
    ASSUME RelayInv, Flush
    PROVE  RelayInv'
<1> USE DEF RelayInv, TypeOK, Steps, SolanaRequests, Flush
<1> DEFINE n == Cardinality(queue)
<1>1. PaddingCount(n) \in Nat
  BY PaddingFills, FS_CardinalityType DEF QueueHoldsUntaken
<1>2. padding' \in Seq(Nat) /\ Len(padding') = Len(padding) + 1
  BY <1>1
<1>3. batch' \in [Requests -> 0 .. Len(padding')]
  BY <1>2
<1>4. TypeOK'
  BY <1>2, <1>3
<1>5. StatusOf' /\ ConfirmedSucceeded'
  BY DEF StatusOf, ConfirmedSucceeded, Final, QueueHoldsUntaken
<1>6. QueueHoldsUntaken'
  BY FS_EmptySet DEF QueueHoldsUntaken
<1> QED
  BY <1>4, <1>5, <1>6

LEMMA EnvironmentKeeps ==
    ASSUME RelayInv,
           (\E tx \in Transactions : Land(tx) \/ Expire(tx)) \/ Restart
    PROVE  RelayInv'
<1> USE RelayerAssumption
<1> USE DEF RelayInv, TypeOK, Steps
<1>1. ASSUME NEW tx \in Transactions, Land(tx) \/ Expire(tx)
      PROVE  RelayInv'
  <2>1. TypeOK'
    BY <1>1 DEF Land, Expire, requestVars
  <2>2. StatusOf' /\ QueueHoldsUntaken'
    BY <1>1 DEF Land, Expire, requestVars, StatusOf, QueueHoldsUntaken, Final
  <2>3. ConfirmedSucceeded'
    BY <1>1 DEF Land, Expire, requestVars, ConfirmedSucceeded, CanLand
  <2> QED BY <2>1, <2>2, <2>3
<1>2. CASE Restart
  <2>1. TypeOK'
    BY <1>2 DEF Restart
  <2>2. StatusOf' /\ ConfirmedSucceeded'
    BY <1>2 DEF Restart, StatusOf, ConfirmedSucceeded
  <2>3. QueueHoldsUntaken'
    BY <1>2, FS_EmptySet DEF Restart, QueueHoldsUntaken
  <2> QED BY <2>1, <2>2, <2>3
<1> QED
  BY <1>1, <1>2

LEMMA StutterKeeps ==
    ASSUME RelayInv, UNCHANGED vars
    PROVE  RelayInv'
BY DEF RelayInv, TypeOK, Steps, StatusOf, QueueHoldsUntaken, ConfirmedSucceeded,
       Final, vars, requestVars

LEMMA RelayInvHolds == Spec => []RelayInv
<1>1. RelayInv /\ [Next]_vars => RelayInv'
  BY ProceedKeeps, EnqueueKeeps, FlushKeeps, EnvironmentKeeps, StutterKeeps
     DEF Next
<1> QED
  BY InitEstablishes, <1>1, PTL DEF Spec

-----------------------------------------------------------------------------
\* Types, for every set of requests.
THEOREM RelayTypes == Spec => []TypeOK
<1>1. RelayInv => TypeOK
  BY DEF RelayInv
<1> QED
  BY RelayInvHolds, <1>1, PTL

\* The status endpoint says "confirmed" only of a transaction that succeeded,
\* whatever answers were lost and however often it was sent.
THEOREM RelayConfirmedSucceeded == Spec => []ConfirmedSucceeded
<1>1. RelayInv => ConfirmedSucceeded
  BY DEF RelayInv
<1> QED
  BY RelayInvHolds, <1>1, PTL

\* Only the request's own coroutine, a flush of the queue or a restart could
\* change a final status; the first two only act on requests that have none.
THEOREM RelayFinalStays == Spec => FinalStays
<1> DEFINE Stays == restarts' = restarts =>
                        \A r \in Requests : Final(r) => status'[r] = status[r]
<1>1. RelayInv /\ [Next]_vars => Stays
  <2> SUFFICES ASSUME RelayInv, [Next]_vars, restarts' = restarts,
                      NEW r \in Requests, Final(r)
               PROVE  status'[r] = status[r]
    OBVIOUS
  <2>1. step[r] = "done"
    BY DEF RelayInv, TypeOK, StatusOf, Steps, Final
  <2>2. ASSUME NEW s \in Requests,
               Enqueue(s) \/ EnqueueEvm(s) \/ Proceed(s) \/ EvmFails(s)
        PROVE  status'[r] = status[r]
    <3>1. step[s] # "done"
      BY <2>2 DEF Enqueue, EnqueueEvm, Proceed, DelayEnds, Accepted, Confirmed,
                  NoRetry, RetryLater, GiveUp, BackoffEnds, EvmFails, SendErrs
    <3>2. r # s
      BY <2>1, <3>1
    <3> QED
      BY <2>2, <3>2 DEF RelayInv, TypeOK, Enqueue, EnqueueEvm, Proceed, DelayEnds,
         Accepted, Confirmed, NoRetry, RetryLater, GiveUp, BackoffEnds, EvmFails,
         Finish
  <2>3. CASE Flush \/ (\E tx \in Transactions : Land(tx) \/ Expire(tx))
             \/ UNCHANGED vars
    BY <2>3 DEF Flush, Land, Expire, vars, requestVars
  <2>4. ~Restart
    BY DEF Restart, RelayInv, TypeOK
  <2> QED
    BY <2>2, <2>3, <2>4 DEF Next
<1>2. Spec => [][Stays]_vars
  BY RelayInvHolds, <1>1, PTL DEF Spec
<1> QED
  BY <1>2 DEF FinalStays

\* Every flush of the queue adds up to a multiple of minBatchSize and stays so
\* while later requests arrive, later flushes take them and entries are sent.
THEOREM RelayBatchesPadded == Spec => []BatchesPadded
<1>1. Init => BatchesPadded
  BY DEF Init, BatchesPadded
<1>2. RelayInv /\ BatchesPadded /\ [Next]_vars => BatchesPadded'
  <2> SUFFICES ASSUME RelayInv, BatchesPadded, [Next]_vars PROVE BatchesPadded'
    OBVIOUS
  <2>1. CASE Flush
    <3> SUFFICES ASSUME NEW k \in 1 .. Len(padding')
                 PROVE  /\ InBatch(k)' # {}
                        /\ (Cardinality(InBatch(k)') + padding'[k]) % MinBatchSize = 0
      BY DEF BatchesPadded
    <3> DEFINE n == Cardinality(queue)
    <3>1. n \in Nat /\ queue # {} /\ queue \subseteq Requests
      BY <2>1, FS_CardinalityType
      DEF Flush, RelayInv, QueueHoldsUntaken, TypeOK, SolanaRequests
    <3>2. /\ PaddingCount(n) \in Nat
          /\ (n + PaddingCount(n)) % MinBatchSize = 0
      BY <3>1, PaddingFills
    <3>3. /\ padding \in Seq(Nat)
          /\ padding' = Append(padding, PaddingCount(n))
          /\ Len(padding') = Len(padding) + 1
      BY <2>1, <3>2 DEF Flush, RelayInv, TypeOK
    <3>4. /\ batch \in [Requests -> 0 .. Len(padding)]
          /\ batch' = [r \in Requests |->
                          IF r \in queue THEN Len(padding) + 1 ELSE batch[r]]
          /\ \A r \in queue : batch[r] = 0
      BY <2>1, <3>1 DEF Flush, RelayInv, TypeOK, QueueHoldsUntaken
    <3>5. CASE k = Len(padding) + 1
      <4>1. InBatch(k)' = queue
        BY <3>1, <3>3, <3>4, <3>5 DEF InBatch
      <4>2. padding'[k] = PaddingCount(n)
        BY <3>2, <3>3, <3>5
      <4> QED
        BY <3>1, <3>2, <4>1, <4>2
    <3>6. CASE k \in 1 .. Len(padding)
      <4>1. InBatch(k)' = InBatch(k)
        BY <3>3, <3>4, <3>6 DEF InBatch
      <4>2. padding'[k] = padding[k]
        BY <3>2, <3>3, <3>6
      <4> QED
        BY <3>6, <4>1, <4>2 DEF BatchesPadded
    <3> QED
      BY <3>3, <3>5, <3>6
  <2>2. CASE Restart
    BY <2>2 DEF Restart, BatchesPadded
  <2>3. ASSUME UNCHANGED <<batch, padding>> PROVE BatchesPadded'
    BY <2>3 DEF BatchesPadded, InBatch
  <2>4. Flush \/ Restart \/ UNCHANGED <<batch, padding>>
    BY DEF Next, vars, requestVars, Enqueue, EnqueueEvm, Proceed, DelayEnds,
           Accepted, Confirmed, NoRetry, RetryLater, GiveUp, BackoffEnds,
           EvmFails, Land, Expire
  <2> QED
    BY <2>1, <2>2, <2>3, <2>4
<1> QED
  BY <1>1, <1>2, RelayInvHolds, PTL DEF Spec

=============================================================================
