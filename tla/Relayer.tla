------------------------------ MODULE Relayer ------------------------------
(***************************************************************************)
(* The relay service: the batched queue for Solana transactions and the    *)
(* per-transaction relay for EVM chains.  Each request is one coroutine    *)
(* that sleeps, sends and waits; step[r] is where it stands.  Around it    *)
(* are the nodes, whose answers may be lost, the chains, which apply a     *)
(* signed transaction at most once, and restarts of the process, which     *)
(* keeps everything in memory.                                             *)
(***************************************************************************)
EXTENDS Integers, Sequences, FiniteSets

CONSTANTS
    Requests,      \* tracking ids (random, so never used twice)
    EvmRequests,   \* those of POST /relay/evm; the others are POST /relay
    Transactions,  \* signed transactions
    TxOf,          \* the transaction of each request: clients may repeat one
    Malformed,     \* the ones that Transaction.from cannot parse
    MinBatchSize,  \* minBatchSize
    MaxRetries,    \* maxRetries
    MaxRestarts    \* bound: restarts of the process

ASSUME RelayerAssumption ==
    /\ EvmRequests \subseteq Requests
    /\ TxOf \in [Requests -> Transactions]
    /\ Malformed \subseteq Transactions
    /\ MinBatchSize \in Nat \ {0}
    /\ MaxRetries \in Nat
    /\ MaxRestarts \in Nat

VARIABLES
    queue,     \* queue, as a set: a flush starts all its entries at once
    status,    \* what GET /relay/:id tells; "unknown" is 404
    step,      \* where the request's coroutine stands
    attempts,  \* failed attempts of the request
    batch,     \* the flush that took the request since the start; 0 if none
    padding,   \* the number of dummy transactions of each flush
    network,   \* transactions that a node has accepted and passes on
    chain,     \* the transaction's effect; "expired" when it can have none
               \* any more: blockhash too old, or nonce used by another one
    restarts

requestVars == <<queue, status, step, attempts, batch, padding>>
vars == <<requestVars, network, chain, restarts>>

-----------------------------------------------------------------------------
SolanaRequests == Requests \ EvmRequests

Steps == {"none", "queued", "delay", "sending", "waiting", "backoff", "done",
          "lost"}

CanLand(tx) == chain[tx] = "absent" /\ tx \notin Malformed

Init ==
    /\ queue = {}
    /\ status = [r \in Requests |-> "unknown"]
    /\ step = [r \in Requests |-> "none"]
    /\ attempts = [r \in Requests |-> 0]
    /\ batch = [r \in Requests |-> 0]
    /\ padding = <<>>
    /\ network = {}
    /\ chain = [tx \in Transactions |-> "absent"]
    /\ restarts = 0

-----------------------------------------------------------------------------
(* The two ways in.                                                        *)

\* RelayQueue.enqueue(): nothing is parsed yet.
Enqueue(r) ==
    /\ r \in SolanaRequests
    /\ step[r] = "none"
    /\ queue' = queue \cup {r}
    /\ status' = [status EXCEPT ![r] = "queued"]
    /\ step' = [step EXCEPT ![r] = "queued"]
    /\ UNCHANGED <<attempts, batch, padding, network, chain, restarts>>

\* EvmRelayer.enqueue(): the jitter timer starts at once.
EnqueueEvm(r) ==
    /\ r \in EvmRequests
    /\ step[r] = "none"
    /\ status' = [status EXCEPT ![r] = "queued"]
    /\ step' = [step EXCEPT ![r] = "delay"]
    /\ UNCHANGED <<queue, attempts, batch, padding, network, chain, restarts>>

-----------------------------------------------------------------------------
(* The batch loop.                                                         *)

\* Mutant: batches above the minimum are not padded.
PaddingToMinimum(n) == IF n < MinBatchSize THEN MinBatchSize - n ELSE 0

\* Dummies that fill a batch of n up to the next multiple of minBatchSize.
PaddingCount(n) == ((n + MinBatchSize - 1) \div MinBatchSize) * MinBatchSize - n

\* Mutant: the entries stay in the queue until their flush is over.
FlushKeepsQueue ==
    /\ queue # {}
    /\ step' = [r \in Requests |-> IF r \in queue THEN "delay" ELSE step[r]]
    /\ batch' = [r \in Requests |->
                    IF r \in queue THEN Len(padding) + 1 ELSE batch[r]]
    /\ padding' = Append(padding, PaddingCount(Cardinality(queue)))
    /\ queue' = {r \in queue : step[r] # "done"}
    /\ UNCHANGED <<status, attempts, network, chain, restarts>>

\* Mutant: a batch waits until it needs no padding.
FlushFullBatches ==
    /\ Cardinality(queue) >= MinBatchSize
    /\ step' = [r \in Requests |-> IF r \in queue THEN "delay" ELSE step[r]]
    /\ batch' = [r \in Requests |->
                    IF r \in queue THEN Len(padding) + 1 ELSE batch[r]]
    /\ padding' = Append(padding, PaddingCount(Cardinality(queue)))
    /\ queue' = {}
    /\ UNCHANGED <<status, attempts, network, chain, restarts>>

\* flush(): the interval timer takes the whole queue, whether or not earlier
\* flushes still run, and sends the dummies.
Flush ==
    /\ queue # {}
    /\ step' = [r \in Requests |-> IF r \in queue THEN "delay" ELSE step[r]]
    /\ batch' = [r \in Requests |->
                    IF r \in queue THEN Len(padding) + 1 ELSE batch[r]]
    /\ padding' = Append(padding, PaddingCount(Cardinality(queue)))
    /\ queue' = {}
    /\ UNCHANGED <<status, attempts, network, chain, restarts>>

-----------------------------------------------------------------------------
(* The coroutine of one request.                                           *)

Finish(r, result) ==
    /\ status' = [status EXCEPT ![r] = result]
    /\ step' = [step EXCEPT ![r] = "done"]

\* The jitter delay is over; a batched entry is parsed before it is sent.
DelayEnds(r) ==
    /\ step[r] = "delay"
    /\ \/ /\ r \in SolanaRequests
          /\ TxOf[r] \in Malformed
          /\ Finish(r, "failed")
       \/ /\ r \in EvmRequests \/ TxOf[r] \notin Malformed
          /\ status' = [status EXCEPT ![r] = "pending"]
          /\ step' = [step EXCEPT ![r] = "sending"]
    /\ UNCHANGED <<queue, attempts, batch, padding, network, chain, restarts>>

\* A node accepts the transaction, and the request waits for confirmation.
Accepted(r) ==
    /\ step[r] = "sending"
    /\ CanLand(TxOf[r])
    /\ network' = network \cup {TxOf[r]}
    /\ step' = [step EXCEPT ![r] = "waiting"]
    /\ UNCHANGED <<queue, status, attempts, batch, padding, chain, restarts>>

\* The answer to a send is an error: the node may have accepted it before.
SendErrs(r) ==
    \/ step[r] = "waiting" /\ UNCHANGED network
    \/ step[r] = "sending" /\ UNCHANGED network
    \/ /\ step[r] = "sending"
       /\ CanLand(TxOf[r])
       /\ network' = network \cup {TxOf[r]}

Confirmed(r) ==
    /\ step[r] = "waiting"
    /\ chain[TxOf[r]] = "succeeded"
    /\ Finish(r, "confirmed")
    /\ UNCHANGED <<queue, attempts, batch, padding, network, chain, restarts>>

\* Mutant: a transaction that has been processed counts as confirmed.
NoRetryProcessed(r) ==
    /\ r \in SolanaRequests
    /\ step[r] = "sending"
    /\ Finish(r, IF chain[TxOf[r]] \in {"succeeded", "reverted"}
                 THEN "confirmed" ELSE "failed")
    /\ UNCHANGED <<queue, attempts, batch, padding, network, chain, restarts>>

\* The node refuses for good: bad signature, already processed, or a blockhash
\* that it does not find (it may lag behind, so this can come at any time).
NoRetry(r) ==
    /\ r \in SolanaRequests
    /\ step[r] = "sending"
    /\ Finish(r, "failed")
    /\ UNCHANGED <<queue, attempts, batch, padding, network, chain, restarts>>

\* Any other error, the confirmation's timeout among them: back off.
RetryLater(r) ==
    /\ r \in SolanaRequests
    /\ attempts[r] < MaxRetries
    /\ SendErrs(r)
    /\ attempts' = [attempts EXCEPT ![r] = @ + 1]
    /\ step' = [step EXCEPT ![r] = "backoff"]
    /\ UNCHANGED <<queue, status, batch, padding, chain, restarts>>

\* The last attempt fails.
GiveUp(r) ==
    /\ r \in SolanaRequests
    /\ attempts[r] >= MaxRetries
    /\ SendErrs(r)
    /\ attempts' = [attempts EXCEPT ![r] = @ + 1]
    /\ Finish(r, "failed")
    /\ UNCHANGED <<queue, batch, padding, chain, restarts>>

BackoffEnds(r) ==
    /\ step[r] = "backoff"
    /\ step' = [step EXCEPT ![r] = "sending"]
    /\ UNCHANGED <<queue, status, attempts, batch, padding, network, chain, restarts>>

\* _broadcast() does not retry: a reverted receipt or any thrown error ends it.
EvmFails(r) ==
    /\ r \in EvmRequests
    /\ SendErrs(r)
    /\ Finish(r, "failed")
    /\ UNCHANGED <<queue, attempts, batch, padding, chain, restarts>>

-----------------------------------------------------------------------------
(* The chains, and the process.                                            *)

\* A transaction takes effect or reverts, once.
Land(tx) ==
    /\ tx \in network
    /\ CanLand(tx)
    /\ \E effect \in {"succeeded", "reverted"} :
          chain' = [chain EXCEPT ![tx] = effect]
    /\ UNCHANGED <<requestVars, network, restarts>>

Expire(tx) ==
    /\ CanLand(tx)
    /\ chain' = [chain EXCEPT ![tx] = "expired"]
    /\ UNCHANGED <<requestVars, network, restarts>>

\* The process starts again with an empty queue and no statuses.
Restart ==
    /\ restarts < MaxRestarts
    /\ restarts' = restarts + 1
    /\ queue' = {}
    /\ status' = [r \in Requests |-> "unknown"]
    /\ step' = [r \in Requests |-> IF step[r] = "none" THEN "none" ELSE "lost"]
    /\ attempts' = [r \in Requests |-> 0]
    /\ batch' = [r \in Requests |-> 0]
    /\ padding' = <<>>
    /\ UNCHANGED <<network, chain>>

\* What the runtime and the nodes do with a batched entry until it ends.
Proceed(r) ==
    \/ DelayEnds(r)
    \/ Accepted(r)
    \/ Confirmed(r)
    \/ NoRetry(r)
    \/ RetryLater(r)
    \/ GiveUp(r)
    \/ BackoffEnds(r)

Next ==
    \/ Flush
    \/ \E r \in Requests : Enqueue(r) \/ EnqueueEvm(r) \/ Proceed(r) \/ EvmFails(r)
    \/ \E tx \in Transactions : Land(tx) \/ Expire(tx)
    \/ Restart

Spec == Init /\ [][Next]_vars

\* Timers fire, and every RPC call of the batcher returns or times out.  The
\* receipt of an EVM transaction is awaited without a timeout: nothing is
\* assumed of it, nor of clients and chains.
FairSpec ==
    /\ Spec
    /\ WF_vars(Flush)
    /\ \A r \in SolanaRequests : WF_vars(Proceed(r))

-----------------------------------------------------------------------------
\* Types.
TypeOK ==
    /\ queue \subseteq SolanaRequests
    /\ status \in [Requests ->
                     {"unknown", "queued", "pending", "confirmed", "failed"}]
    /\ step \in [Requests -> Steps]
    /\ attempts \in [Requests -> 0 .. MaxRetries + 1]
    /\ batch \in [Requests -> 0 .. Len(padding)]
    /\ padding \in Seq(Nat)
    /\ network \subseteq Transactions
    /\ chain \in [Transactions -> {"absent", "expired", "succeeded", "reverted"}]
    /\ restarts \in 0 .. MaxRestarts

\* A "confirmed" of the status endpoint is true, although answers get lost,
\* attempts repeat a transaction that may have landed, and two requests may
\* carry the same transaction.
ConfirmedSucceeded ==
    \A r \in Requests :
        status[r] = "confirmed" => chain[TxOf[r]] = "succeeded"

\* Flushes overlap - the interval timer does not wait for the previous one -
\* yet a request has one coroutine: it stays final once the client has been
\* told so, until a restart forgets it.
Final(r) == status[r] \in {"confirmed", "failed"}
FinalStays ==
    [][restarts' = restarts =>
          \A r \in Requests : Final(r) => status'[r] = status[r]]_vars

\* No entry is stuck in the queue, in a delay or in a retry: every batched
\* request ends, unless a restart loses it.
RequestEnds ==
    \A r \in SolanaRequests : status[r] = "queued" ~> step[r] \in {"done", "lost"}

InBatch(k) == {r \in Requests : batch[r] = k}

\* flush(): "every flush window has an indistinguishable total transaction
\* count".  Entries and dummies of each flush add up to a multiple of
\* minBatchSize, however many requests arrived since the last one and whatever
\* earlier flushes are still doing.
BatchesPadded ==
    \A k \in 1 .. Len(padding) :
        /\ InBatch(k) # {}
        /\ (Cardinality(InBatch(k)) + padding[k]) % MinBatchSize = 0

=============================================================================
