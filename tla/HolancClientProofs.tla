------------------------- MODULE HolancClientProofs -------------------------
(***************************************************************************)
(* For every number of calls, endpoints, replicas and payments, and every  *)
(* bound on incidents: what the circuit breakers and the replicas' health  *)
(* flags guarantee; that the wallet locks a note once, for a reason, and   *)
(* derives every blinding once; and, from WholeInv below, that it holds    *)
(* the pool's notes, offers none that is spent and misses no payment.      *)
(***************************************************************************)
EXTENDS HolancClient, FiniteSetTheorems, SequenceTheorems, TLAPS

-----------------------------------------------------------------------------
(* The connection.                                                         *)

CircuitInv ==
    /\ failures \in [Endpoints -> Nat]
    /\ cooling \in [Endpoints -> Nat]
    /\ OpenMeansFailing

\* The breakers change by an answer, a failure, the clock or a restart only.
Breakers ==
    \/ UNCHANGED failoverVars
    \/ \E c \in Calls : Answered(candidates[c][1]) \/ Failed(candidates[c][1])
    \/ Tick
    \/ /\ failures' = [e \in Endpoints |-> 0]
       /\ cooling' = [e \in Endpoints |-> 0]

LEMMA CallsAndBreakers ==
    ASSUME NEW c \in Calls, Call(c) \/ Proceed(c)
    PROVE  Breakers
<1>1. CASE Call(c)
  BY <1>1 DEF Call, GetPoolStatus, Deposit, Insufficient, Withdraw, Transfer, Select,
              FetchIncomingNotes, Breakers
<1>2. CASE Answer(c)
  BY <1>2 DEF Answer, Breakers
<1>3. CASE Refusal(c)
  BY <1>3 DEF Refusal, Breakers
<1>4. CASE Fetched(c) \/ FetchedFaulty(c) \/ FetchFails(c) \/ Decrypted(c)
  BY <1>4 DEF Fetched, FetchedFaulty, FetchFails, Decrypted, Breakers
<1>5. CASE \/ DepositNote(c) \/ SendDeposit(c) \/ PrepareChange(c) \/ ProofFails(c)
           \/ SubmitTransfer(c) \/ SubmitWithdraw(c) \/ BuildFails(c)
  BY <1>5 DEF DepositNote, SendDeposit, PrepareChange, ProofFails, SubmitTransfer,
              SubmitWithdraw, BuildFails, Breakers
<1> QED
  BY <1>1, <1>2, <1>3, <1>4, <1>5 DEF Proceed

LEMMA EnvironmentAndBreakers == Environment => Breakers
  BY DEF Environment, Land, Pay, PayMislabelled, Arrive, Index, IndexFaulty, Resync,
         ReopenStore, Clock, Breakers

LEMMA AnswerKeeps ==
    ASSUME CircuitInv, NEW e, Answered(e)
    PROVE  CircuitInv'
<1>1. failures' \in [Endpoints -> Nat] /\ cooling' \in [Endpoints -> Nat]
  BY DEF CircuitInv, Answered
<1>2. ASSUME NEW f \in Endpoints, cooling'[f] > 0 PROVE failures'[f] >= MaxFailures
  BY <1>2, FailoverAssumption DEF CircuitInv, Answered, OpenMeansFailing
<1> QED
  BY <1>1, <1>2 DEF CircuitInv, OpenMeansFailing

LEMMA FailureKeeps ==
    ASSUME CircuitInv, NEW e, Failed(e)
    PROVE  CircuitInv'
<1>1. failures' \in [Endpoints -> Nat]
  <2>1. CASE e \in Endpoints
    BY <2>1 DEF CircuitInv, Failed
  <2>2. CASE e \notin Endpoints
    <3>1. failures' = failures
      BY <2>2 DEF CircuitInv, Failed
    <3> QED
      BY <3>1 DEF CircuitInv
  <2> QED
    BY <2>1, <2>2
<1>3. cooling' \in [Endpoints -> Nat]
  BY FailoverAssumption DEF CircuitInv, Failed
<1>2. ASSUME NEW f \in Endpoints, cooling'[f] > 0 PROVE failures'[f] >= MaxFailures
  BY <1>2, FailoverAssumption DEF CircuitInv, Failed, OpenMeansFailing
<1> QED
  BY <1>1, <1>2, <1>3 DEF CircuitInv, OpenMeansFailing

LEMMA BreakersKeep == CircuitInv /\ Breakers => CircuitInv'
<1> SUFFICES ASSUME CircuitInv, Breakers PROVE CircuitInv'
  OBVIOUS
<1> USE FailoverAssumption DEF CircuitInv, OpenMeansFailing
<1>1. CASE UNCHANGED failoverVars
  BY <1>1 DEF failoverVars
<1>2. ASSUME NEW c \in Calls, Answered(candidates[c][1]) PROVE CircuitInv'
  BY <1>2, AnswerKeeps
<1>3. ASSUME NEW c \in Calls, Failed(candidates[c][1]) PROVE CircuitInv'
  BY <1>3, FailureKeeps
<1>4. CASE Tick
  BY <1>4 DEF Tick
<1>5. CASE /\ failures' = [e \in Endpoints |-> 0]
           /\ cooling' = [e \in Endpoints |-> 0]
  BY <1>5
<1> QED
  BY <1>1, <1>2, <1>3, <1>4, <1>5 DEF Breakers

LEMMA StepsAndBreakers == [Next]_vars => Breakers
<1> SUFFICES ASSUME [Next]_vars PROVE Breakers
  OBVIOUS
<1>1. CASE \E c \in Calls : Call(c) \/ Proceed(c)
  BY <1>1, CallsAndBreakers
<1>2. CASE Save \/ Restart
  BY <1>2 DEF Save, Restart, Breakers
<1>3. CASE Environment
  BY <1>3, EnvironmentAndBreakers
<1>4. CASE UNCHANGED vars
  BY <1>4 DEF vars, Breakers
<1> QED
  BY <1>1, <1>2, <1>3, <1>4 DEF Next

\* OpenMeansFailing: an endpoint is left out only after MaxFailures failures in a
\* row (rpc.ts exec), whatever calls run at once.
THEOREM ClientOpenMeansFailing == Spec => []OpenMeansFailing
<1>1. Init => CircuitInv
  BY FailoverAssumption DEF Init, InitFailover, CircuitInv, OpenMeansFailing
<1>2. CircuitInv /\ [Next]_vars => CircuitInv'
  BY StepsAndBreakers, BreakersKeep
<1>3. CircuitInv => OpenMeansFailing
  BY DEF CircuitInv
<1> QED
  BY <1>1, <1>2, <1>3, PTL DEF Spec

-----------------------------------------------------------------------------
(* The replicas.                                                           *)

StoreInv ==
    /\ DOMAIN replica = ReplicaIds /\ replica = [i \in ReplicaIds |-> replica[i]]
    /\ replicaHealthy \in [ReplicaIds -> BOOLEAN]
    /\ HealthyReplicasCurrent

\* Reads only take replicas out; a write, a resync and a restart of the indexer
\* are the other steps of the store.
Reads ==
    /\ UNCHANGED <<primary, replica, overlooked>>
    /\ replicaHealthy' \in [ReplicaIds -> BOOLEAN]
    /\ \A i \in ReplicaIds : replicaHealthy'[i] => replicaHealthy[i]

Stores ==
    \/ Reads
    \/ /\ UNCHANGED overlooked
       /\ \/ InsertNote(Cardinality(primary), {})
          \/ \E i \in ReplicaIds : InsertNote(Cardinality(primary), {i})
    \/ \E i \in ReplicaIds : \E failing \in SUBSET (primary \ replica[i]) :
          /\ ResyncReplica(i, failing)
          /\ overlooked' = overlooked \cup (primary \ replica'[i])
    \/ /\ Reopen
       /\ overlooked' = overlooked \cup UNION {primary \ replica[i] : i \in ReplicaIds}

LEMMA UnchangedReads ==
    ASSUME StoreInv, UNCHANGED <<storeVars, overlooked>>
    PROVE  Reads
  BY DEF StoreInv, storeVars, Reads

LEMMA ReplicaAnswers ==
    ASSUME StoreInv, NEW k \in ReplicaIds, ReadFromReplica(k), UNCHANGED overlooked
    PROVE  Reads
  BY DEF StoreInv, ReadFromReplica, Reads

LEMMA PrimaryAnswers ==
    ASSUME StoreInv, ReadFromPrimary, UNCHANGED overlooked
    PROVE  Reads
  BY DEF StoreInv, ReadFromPrimary, Reads

LEMMA CallsAndStores ==
    ASSUME StoreInv, NEW c \in Calls, Call(c) \/ Proceed(c)
    PROVE  Reads
<1>1. CASE Call(c)
  BY <1>1, UnchangedReads
     DEF Call, GetPoolStatus, Deposit, Insufficient, Withdraw, Transfer, Select,
         FetchIncomingNotes, historyVars
<1>2. CASE Fetched(c)
  <2>1. UNCHANGED overlooked
    BY <1>2 DEF Fetched, historyVars
  <2> QED
    BY <1>2, <2>1, ReplicaAnswers, PrimaryAnswers DEF Fetched
<1>3. CASE FetchedFaulty(c)
  <2>1. UNCHANGED overlooked
    BY <1>3 DEF FetchedFaulty
  <2> QED
    BY <1>3, <2>1, ReplicaAnswers, PrimaryAnswers DEF FetchedFaulty
<1>4. CASE Answer(c) \/ Refusal(c) \/ FetchFails(c) \/ Decrypted(c)
  BY <1>4, UnchangedReads DEF Answer, Refusal, FetchFails, Decrypted, historyVars
<1>5. CASE \/ DepositNote(c) \/ SendDeposit(c) \/ PrepareChange(c) \/ ProofFails(c)
           \/ SubmitTransfer(c) \/ SubmitWithdraw(c) \/ BuildFails(c)
  BY <1>5, UnchangedReads
     DEF DepositNote, SendDeposit, PrepareChange, ProofFails, SubmitTransfer,
         SubmitWithdraw, BuildFails, historyVars
<1> QED
  BY <1>1, <1>2, <1>3, <1>4, <1>5 DEF Proceed

LEMMA EnvironmentAndStores ==
    ASSUME StoreInv, Environment
    PROVE  Stores
<1>1. CASE (\E c \in Calls, e \in Endpoints : Land(c, e)) \/ Clock
  BY <1>1, UnchangedReads DEF Land, Clock, historyVars, Stores
<1>2. ASSUME NEW leaf, Arrive(leaf) PROVE Stores
  BY <1>2, UnchangedReads DEF Arrive, Stores
<1>3. CASE Index
  BY <1>3 DEF Index, historyVars, Stores
<1>4. ASSUME NEW i \in ReplicaIds, IndexFaulty(i) PROVE Stores
  BY <1>4 DEF IndexFaulty, Stores
<1>5. ASSUME NEW i \in ReplicaIds, NEW failing \in SUBSET (primary \ replica[i]),
             Resync(i, failing)
      PROVE  Stores
  BY <1>5 DEF Resync, Stores
<1>6. CASE ReopenStore
  BY <1>6 DEF ReopenStore, Stores
<1> QED
  BY <1>1, <1>2, <1>3, <1>4, <1>5, <1>6 DEF Environment, Pay, PayMislabelled

LEMMA StoresKeep ==
    ASSUME StoreInv, Stores
    PROVE  StoreInv'
<1> USE DEF StoreInv, HealthyReplicasCurrent
<1>1. CASE Reads
  BY <1>1 DEF Reads
<1>2. ASSUME NEW leaf, NEW failing, InsertNote(leaf, failing), UNCHANGED overlooked
      PROVE  StoreInv'
  BY <1>2 DEF InsertNote
<1>3. ASSUME NEW i \in ReplicaIds, NEW failing, ResyncReplica(i, failing),
             overlooked' = overlooked \cup (primary \ replica'[i])
      PROVE  StoreInv'
  BY <1>3 DEF ResyncReplica
<1>4. ASSUME Reopen, overlooked' = overlooked \cup
                         UNION {primary \ replica[i] : i \in ReplicaIds}
      PROVE  StoreInv'
  BY <1>4 DEF Reopen
<1> QED
  BY <1>1, <1>2, <1>3, <1>4 DEF Stores

LEMMA StepsAndStores ==
    ASSUME StoreInv, [Next]_vars
    PROVE  Stores
<1>1. CASE \E c \in Calls : Call(c) \/ Proceed(c)
  BY <1>1, CallsAndStores DEF Stores
<1>2. CASE Save \/ Restart
  BY <1>2, UnchangedReads DEF Save, Restart, historyVars, Stores
<1>3. CASE Environment
  BY <1>3, EnvironmentAndStores
<1>4. CASE UNCHANGED vars
  BY <1>4, UnchangedReads DEF vars, historyVars, Stores
<1> QED
  BY <1>1, <1>2, <1>3, <1>4 DEF Next

LEMMA FirstStores == Init => StoreInv
<1> SUFFICES ASSUME Init PROVE StoreInv
  OBVIOUS
<1>1. PICK failing \in SUBSET ReplicaIds :
        /\ replica = [i \in ReplicaIds |->
                        IF i \in failing THEN primary \ {Cardinality(primary) - 1}
                        ELSE primary]
        /\ replicaHealthy = [i \in ReplicaIds |-> i \notin failing]
  BY DEF Init, InitReplicas
<1>2. ASSUME NEW i \in ReplicaIds, replicaHealthy[i] PROVE replica[i] = primary
  BY <1>1, <1>2
<1>3. replicaHealthy \in [ReplicaIds -> BOOLEAN]
  BY <1>1
<1>4. DOMAIN replica = ReplicaIds /\ replica = [i \in ReplicaIds |-> replica[i]]
  BY <1>1
<1> QED
  BY <1>2, <1>3, <1>4 DEF StoreInv, HealthyReplicasCurrent

\* HealthyReplicasCurrent: what a replica that is read from lacks was overlooked
\* by a resync or a restart (replicated-store.ts), whatever failed in between.
THEOREM ClientHealthyReplicasCurrent == Spec => []HealthyReplicasCurrent
<1>1. Init => StoreInv
  BY FirstStores
<1>2. StoreInv /\ [Next]_vars => StoreInv'
  BY StepsAndStores, StoresKeep
<1>3. StoreInv => HealthyReplicasCurrent
  BY DEF StoreInv
<1> QED
  BY <1>1, <1>2, <1>3, PTL DEF Spec

-----------------------------------------------------------------------------
(* What the wallet's methods make of a wallet.                             *)

IsNote(n) == n \in [owner : {n.owner}, value : {n.value}, blinding : {n.blinding},
                    spent : {n.spent}, pending : {n.pending}]

IsRecord(w) == w \in [key : {Key}, notes : {w.notes}, nextBlinding : Nat,
                      lastSyncedLeaf : {w.lastSyncedLeaf}]

IsWallet(w) ==
    /\ IsRecord(w)
    /\ \E n \in Nat : DOMAIN w.notes = 1 .. n
    /\ w.notes = [i \in DOMAIN w.notes |-> w.notes[i]]
    /\ \A i \in DOMAIN w.notes : IsNote(w.notes[i])

IsTaken(n) == n.spent \/ n.pending

LEMMA FlagsTake ==
    ASSUME NEW n, IsNote(n)
    PROVE  LET l == [n EXCEPT !.pending = TRUE]
               m == [n EXCEPT !.spent = TRUE, !.pending = FALSE]
           IN  IsNote(l) /\ IsTaken(l) /\ IsNote(m) /\ IsTaken(m)
  BY DEF IsNote, IsTaken

\* Positions keep their notes, and a note that was taken stays so.
Follows(w, v) ==
    /\ IsWallet(v)
    /\ DOMAIN w.notes \subseteq DOMAIN v.notes
    /\ \A i \in DOMAIN w.notes : IsTaken(w.notes[i]) => IsTaken(v.notes[i])

\* Flags of notes are set, nothing else.
LEMMA FlagsFollow ==
    ASSUME NEW w, IsWallet(w), NEW f, NEW v,
           v = [w EXCEPT !.notes = f],
           f = [i \in DOMAIN w.notes |-> f[i]],
           \A i \in DOMAIN w.notes : IsNote(f[i]) /\ (IsTaken(w.notes[i]) => IsTaken(f[i]))
    PROVE  Follows(w, v) /\ v.nextBlinding = w.nextBlinding /\ v.notes = f
<1>1. v.notes = f /\ v.nextBlinding = w.nextBlinding /\ IsRecord(v)
  BY DEF IsWallet, IsRecord
<1>2. DOMAIN f = DOMAIN w.notes
  OBVIOUS
<1>3. IsWallet(v)
  BY <1>1, <1>2 DEF IsWallet
<1> QED
  BY <1>1, <1>2, <1>3 DEF Follows

LEMMA LockFollows ==
    ASSUME NEW w, IsWallet(w), NEW selected
    PROVE  /\ Follows(w, Lock(w, selected))
           /\ Lock(w, selected).nextBlinding = w.nextBlinding
           /\ \A i \in Positions(selected) \cap DOMAIN w.notes :
                IsTaken(Lock(w, selected).notes[i])
<1> DEFINE f == [i \in DOMAIN w.notes |->
                   IF i \in Positions(selected) THEN [w.notes[i] EXCEPT !.pending = TRUE]
                   ELSE w.notes[i]]
<1>1. Lock(w, selected) = [w EXCEPT !.notes = f]
  BY DEF Lock
<1>2. ASSUME NEW i \in DOMAIN w.notes
      PROVE  /\ IsNote(f[i]) /\ (IsTaken(w.notes[i]) => IsTaken(f[i]))
             /\ i \in Positions(selected) => IsTaken(f[i])
  BY FlagsTake DEF IsWallet
<1>3. f = [i \in DOMAIN w.notes |-> f[i]]
  OBVIOUS
<1> HIDE DEF f
<1> QED
  BY <1>1, <1>2, <1>3, FlagsFollow

LEMMA MarkSpentFollows ==
    ASSUME NEW w, IsWallet(w), NEW commitments
    PROVE  /\ Follows(w, MarkSpent(w, commitments))
           /\ MarkSpent(w, commitments).nextBlinding = w.nextBlinding
<1> DEFINE f == [i \in DOMAIN w.notes |->
                   IF Commitment(w.notes[i]) \in commitments
                   THEN [w.notes[i] EXCEPT !.spent = TRUE, !.pending = FALSE]
                   ELSE w.notes[i]]
<1>1. MarkSpent(w, commitments) = [w EXCEPT !.notes = f]
  BY DEF MarkSpent
<1>2. ASSUME NEW i \in DOMAIN w.notes
      PROVE  IsNote(f[i]) /\ (IsTaken(w.notes[i]) => IsTaken(f[i]))
  BY FlagsTake DEF IsWallet
<1>3. f = [i \in DOMAIN w.notes |-> f[i]]
  OBVIOUS
<1> HIDE DEF f
<1> QED
  BY <1>1, <1>2, <1>3, FlagsFollow

LEMMA WithNoteFollows ==
    ASSUME NEW w, IsWallet(w), NEW n, IsNote(n)
    PROVE  /\ Follows(w, WithNote(w, n))
           /\ WithNote(w, n).nextBlinding = w.nextBlinding
           /\ \A i \in DOMAIN w.notes : WithNote(w, n).notes[i] = w.notes[i]
           /\ \A i \in DOMAIN WithNote(w, n).notes \ DOMAIN w.notes :
                WithNote(w, n).notes[i] = n
<1> DEFINE v == WithNote(w, n)
           S == {w.notes[i] : i \in DOMAIN w.notes} \cup {n}
<1>1. v.notes = Append(w.notes, n) /\ v.nextBlinding = w.nextBlinding /\ IsRecord(v)
  BY DEF IsWallet, IsRecord, WithNote
<1>2. w.notes \in Seq(S)
  <2>1. PICK k \in Nat : DOMAIN w.notes = 1 .. k
    BY DEF IsWallet
  <2>2. w.notes \in [1 .. k -> S]
    BY <2>1 DEF IsWallet
  <2> QED
    BY <2>2
<1>3. /\ Append(w.notes, n) \in Seq(S)
      /\ Len(Append(w.notes, n)) = Len(w.notes) + 1
      /\ \A i \in 1 .. Len(w.notes) : Append(w.notes, n)[i] = w.notes[i]
      /\ Append(w.notes, n)[Len(w.notes) + 1] = n
  BY <1>2
<1>4. DOMAIN w.notes = 1 .. Len(w.notes) /\ Len(w.notes) \in Nat
  BY <1>2
<1>5. DOMAIN v.notes = 1 .. Len(w.notes) + 1
  BY <1>1, <1>3
<1>6. \A i \in DOMAIN v.notes : IsNote(v.notes[i])
  BY <1>1, <1>3, <1>4, <1>5 DEF IsWallet
<1>7. v.notes = [i \in DOMAIN v.notes |-> v.notes[i]]
  BY <1>1, <1>3
<1>8. IsWallet(v)
  <2>1. Len(w.notes) + 1 \in Nat
    BY <1>4
  <2> HIDE DEF v
  <2> QED
    BY <1>1, <1>5, <1>6, <1>7, <2>1 DEF IsWallet
<1>9. \A i \in DOMAIN w.notes : i \in DOMAIN v.notes /\ v.notes[i] = w.notes[i]
  BY <1>1, <1>3, <1>4, <1>5
<1>10. \A i \in DOMAIN v.notes \ DOMAIN w.notes : v.notes[i] = n
  BY <1>1, <1>3, <1>4, <1>5
<1> HIDE DEF v
<1>11. Follows(w, v) /\ v.nextBlinding = w.nextBlinding
  BY <1>1, <1>8, <1>9 DEF Follows
<1> QED
  BY <1>9, <1>10, <1>11 DEF v

LEMMA WatermarkedFollows ==
    ASSUME NEW w, IsWallet(w), NEW entries, NEW k
    PROVE  /\ Follows(w, Watermarked(w, entries, k))
           /\ Watermarked(w, entries, k).nextBlinding = w.nextBlinding
  BY DEF Watermarked, IsRecord, IsWallet, Follows

LEMMA BlindingTakenFollows ==
    ASSUME NEW w, IsWallet(w)
    PROVE  /\ Follows(w, BlindingTaken(w))
           /\ BlindingTaken(w).nextBlinding = w.nextBlinding + 1
           /\ BlindingTaken(w).notes = w.notes
  BY DEF BlindingTaken, IsRecord, IsWallet, Follows

LEMMA FollowsTransitive ==
    ASSUME NEW u, NEW v, NEW w, Follows(u, v), Follows(v, w)
    PROVE  Follows(u, w)
  BY DEF Follows

LEMMA SelectionsUnspent ==
    ASSUME NEW w, NEW amount, NEW selected \in Selections(w, amount)
    PROVE  Positions(selected) \subseteq Unspent(w)
  BY DEF Selections, Positions

-----------------------------------------------------------------------------
(* Coins: a note object that a call selected is never offered again.       *)

CoinInv ==
    /\ IsWallet(wallet) /\ IsWallet(disk)
    /\ DOMAIN inputs = Calls
    /\ \A c \in Calls : \A i \in Positions(inputs[c]) :
         i \in DOMAIN wallet.notes /\ IsTaken(wallet.notes[i])
    /\ SelectedOnce

\* A step that selects nothing.
Moves ==
    /\ Follows(wallet, wallet')
    /\ disk' \in {disk, wallet}
    /\ UNCHANGED inputs

Selects(c, selected) ==
    /\ Positions(selected) \subseteq Unspent(wallet)
    /\ Follows(wallet, wallet')
    /\ \A i \in Positions(selected) : IsTaken(wallet'.notes[i])
    /\ inputs' = [inputs EXCEPT ![c] = selected]
    /\ UNCHANGED disk

Forgets ==
    /\ wallet' = disk
    /\ inputs' = [c \in Calls |-> <<>>]
    /\ UNCHANGED disk

LEMMA FollowsItself == ASSUME NEW w, IsWallet(w) PROVE Follows(w, w)
  BY DEF Follows

LEMMA OwnNoteIsNote ==
    ASSUME NEW w, NEW value, NEW blinding
    PROVE  IsNote(OwnNote(w, value, blinding))
  BY DEF IsNote, OwnNote

LEMMA ContinueMoves ==
    ASSUME IsWallet(wallet), NEW c, NEW w, NEW entries, NEW known, Follows(wallet, w),
           Continue(c, w, entries, known)
    PROVE  Follows(wallet, wallet')
<1>1. PICK k : wallet' = Watermarked(w, entries, k)
  BY DEF Continue
<1>2. Follows(w, wallet')
  BY <1>1, WatermarkedFollows DEF Follows
<1> QED
  BY <1>2, FollowsTransitive

LEMMA SpendSelects ==
    ASSUME IsWallet(wallet), NEW c \in Calls, NEW a,
           NEW selected \in Selections(wallet, a), Select(c, a, selected),
           wallet' \in {Lock(wallet, selected), BlindingTaken(Lock(wallet, selected))}
    PROVE  Selects(c, selected)
<1> DEFINE w == Lock(wallet, selected)
<1>1. Positions(selected) \subseteq Unspent(wallet)
  BY SelectionsUnspent
<1>2. /\ Follows(wallet, w) /\ IsWallet(w)
      /\ \A i \in Positions(selected) : IsTaken(w.notes[i])
  BY <1>1, LockFollows DEF Unspent, Follows
<1> HIDE DEF w
<1>3. Follows(w, wallet') /\ wallet'.notes = w.notes
  BY <1>2, BlindingTakenFollows, FollowsItself DEF w
<1>4. Follows(wallet, wallet')
  BY <1>2, <1>3, FollowsTransitive
<1> QED
  BY <1>1, <1>2, <1>3, <1>4 DEF Selects, Select

LEMMA CallsAndCoins ==
    ASSUME CoinInv, NEW c \in Calls, Call(c)
    PROVE  Moves \/ \E selected : Selects(c, selected)
<1> USE DEF CoinInv
<1>1. CASE GetPoolStatus(c) \/ FetchIncomingNotes(c) \/ \E a \in Amounts : Insufficient(c, a)
  BY <1>1, FollowsItself
     DEF GetPoolStatus, FetchIncomingNotes, Insufficient, walletVars, spendVars, Moves
<1>2. ASSUME NEW a \in Amounts, Deposit(c, a)
      PROVE  Moves
  BY <1>2, BlindingTakenFollows DEF Deposit, Moves
<1>3. ASSUME NEW a \in Amounts, NEW s \in Selections(wallet, a), Withdraw(c, a, s)
      PROVE  Selects(c, s)
  BY <1>3, SpendSelects DEF Withdraw, PrepareWithdraw
<1>4. ASSUME NEW a \in Amounts, NEW s \in Selections(wallet, a), NEW r \in Others,
             Transfer(c, a, r, s)
      PROVE  Selects(c, s)
  BY <1>4, SpendSelects DEF Transfer, PrepareTransfer
<1> QED
  BY <1>1, <1>2, <1>3, <1>4 DEF Call

LEMMA AwaitsAndCoins ==
    ASSUME CoinInv, NEW c \in Calls, Proceed(c)
    PROVE  Moves
<1> USE DEF CoinInv
<1>1. CASE DepositNote(c)
  BY <1>1, WithNoteFollows, OwnNoteIsNote DEF DepositNote, Moves, spendVars
<1>2. CASE PrepareChange(c)
  BY <1>2, BlindingTakenFollows DEF PrepareChange, Moves
<1>3. CASE \/ SendDeposit(c) \/ ProofFails(c) \/ Answer(c) \/ Refusal(c) \/ FetchFails(c)
  BY <1>3, FollowsItself
     DEF SendDeposit, ProofFails, Answer, Refusal, FetchFails, walletVars, spendVars, Moves
<1>4. CASE SubmitTransfer(c) \/ SubmitWithdraw(c) \/ BuildFails(c)
  BY <1>4, MarkSpentFollows DEF SubmitTransfer, SubmitWithdraw, BuildFails, spendVars, Moves
<1>5. CASE Fetched(c) \/ FetchedFaulty(c)
  <2>1. \E entries, known : Continue(c, wallet, entries, known)
    BY <1>5 DEF Fetched, FetchedFaulty, Receive
  <2>2. Follows(wallet, wallet')
    BY <2>1, FollowsItself, ContinueMoves
  <2> QED
    BY <1>5, <2>2 DEF Fetched, FetchedFaulty, spendVars, Moves
<1>6. CASE Decrypted(c)
  <2> DEFINE w == IF body[c][1].to = Key
                  THEN WithNote(wallet, Discovered(wallet, body[c][1])) ELSE wallet
  <2>1. \E entries, known : Continue(c, w, entries, known)
    BY <1>6 DEF Decrypted, Decoded
  <2>2. Follows(wallet, w)
    BY WithNoteFollows, OwnNoteIsNote, FollowsItself DEF Discovered
  <2> HIDE DEF w
  <2>3. Follows(wallet, wallet')
    BY <2>1, <2>2, ContinueMoves
  <2> QED
    BY <1>6, <2>3 DEF Decrypted, spendVars, Moves
<1> QED
  BY <1>1, <1>2, <1>3, <1>4, <1>5, <1>6 DEF Proceed

LEMMA EnvironmentAndCoins ==
    ASSUME Environment
    PROVE  UNCHANGED <<walletVars, kind, step, spendVars, forgotten>>
  BY DEF Environment, Land, Pay, PayMislabelled, Arrive, Index, IndexFaulty, Resync,
         ReopenStore, Clock, historyVars

LEMMA StepsAndCoins ==
    ASSUME CoinInv, [Next]_vars
    PROVE  Moves \/ Forgets \/ \E c \in Calls : \E selected : Selects(c, selected)
<1>1. CASE \E c \in Calls : Call(c) \/ Proceed(c)
  BY <1>1, CallsAndCoins, AwaitsAndCoins
<1>2. CASE Save \/ UNCHANGED vars
  BY <1>2, FollowsItself DEF Save, vars, walletVars, spendVars, CoinInv, Moves
<1>3. CASE Restart
  BY <1>3 DEF Restart, Forgets
<1>4. CASE Environment
  BY <1>4, EnvironmentAndCoins, FollowsItself DEF walletVars, spendVars, CoinInv, Moves
<1> QED
  BY <1>1, <1>2, <1>3, <1>4 DEF Next

LEMMA SelectionKeeps ==
    ASSUME CoinInv, NEW c \in Calls, NEW selected, Selects(c, selected)
    PROVE  CoinInv'
<1> USE DEF CoinInv, Selects
<1>1. IsWallet(wallet)' /\ IsWallet(disk)' /\ DOMAIN inputs' = Calls
  BY DEF Follows
<1>2. ASSUME NEW d \in Calls, NEW i \in Positions(inputs'[d])
      PROVE  i \in DOMAIN wallet'.notes /\ IsTaken(wallet'.notes[i])
  <2>1. CASE d = c
    BY <2>1, <1>2 DEF Follows, Unspent
  <2>2. CASE d # c
    BY <2>2, <1>2 DEF Follows
  <2> QED
    BY <2>1, <2>2
<1>3. ASSUME NEW d \in Calls, d # c
      PROVE  Positions(selected) \cap Positions(inputs[d]) = {}
  BY <1>3 DEF Unspent, IsTaken
<1>4. ASSUME NEW d \in Calls, NEW e \in Calls, d # e
      PROVE  Positions(inputs'[d]) \cap Positions(inputs'[e]) = {}
  BY <1>3, <1>4 DEF SelectedOnce
<1> QED
  BY <1>1, <1>2, <1>4 DEF SelectedOnce

LEMMA CoinsKeep ==
    ASSUME CoinInv, [Next]_vars
    PROVE  CoinInv'
<1>1. CASE Moves
  BY <1>1 DEF Moves, CoinInv, Follows, SelectedOnce
<1>2. CASE Forgets
  <2>1. \A c \in Calls : Positions(inputs'[c]) = {}
    BY <1>2 DEF Forgets, Positions
  <2> QED
    BY <1>2, <2>1 DEF Forgets, CoinInv, SelectedOnce
<1> QED
  BY <1>1, <1>2, StepsAndCoins, SelectionKeeps

LEMMA FirstWalletIsWallet == IsWallet(FirstWallet)
<1> DEFINE f == [k \in 1 .. Synced |->
                   OwnNote(NewWallet(Key), FirstLeaves[k].value, <<"sender", k>>)]
<1>1. Synced \in Nat
  BY ClientAssumption
<1>2. \A k \in 1 .. Synced : IsNote(f[k])
  BY OwnNoteIsNote
<1>3. DOMAIN f = 1 .. Synced /\ f = [k \in DOMAIN f |-> f[k]]
  OBVIOUS
<1>4. FirstWallet = [NewWallet(Key) EXCEPT !.notes = f, !.lastSyncedLeaf = Synced - 1]
  BY DEF FirstWallet
<1> HIDE DEF f
<1>5. IsRecord(FirstWallet) /\ FirstWallet.notes = f
  BY <1>4 DEF NewWallet, IsRecord
<1> QED
  BY <1>1, <1>2, <1>3, <1>5 DEF IsWallet

LEMMA FirstCoins == Init => CoinInv
<1> SUFFICES ASSUME Init PROVE CoinInv
  OBVIOUS
<1>1. DOMAIN inputs = Calls /\ \A c \in Calls : Positions(inputs[c]) = {}
  BY DEF Init, Positions
<1> QED
  BY <1>1, FirstWalletIsWallet DEF Init, CoinInv, SelectedOnce

\* SelectedOnce: no two calls hold the same note object, for any number of calls,
\* selections, syncs and restarts (wallet.ts prepareTransfer, prepareWithdraw).
THEOREM ClientSelectedOnce == Spec => []SelectedOnce
<1>1. Init => CoinInv
  BY FirstCoins
<1>2. CoinInv /\ [Next]_vars => CoinInv'
  BY CoinsKeep
<1>3. CoinInv => SelectedOnce
  BY DEF CoinInv
<1> QED
  BY <1>1, <1>2, <1>3, PTL DEF Spec

-----------------------------------------------------------------------------
(* Blindings: the counter stays ahead of what was derived from it.         *)

\* Derived from the counter, of this session or of one that was forgotten.
Counted(b, next, past) == b \in past \/ \E j \in Nat : j < next /\ b = <<Key, j>>

BlindInv ==
    /\ CoinInv
    /\ DOMAIN outputs = Calls /\ DOMAIN step = Calls
    /\ \A c \in Calls : step[c] = "preparing" => outputs[c] = <<outputs[c][1]>>
    /\ \A c \in Calls : \A k \in DOMAIN outputs[c] :
         Counted(outputs[c][k][3], wallet.nextBlinding, forgotten)
    /\ BlindingsDistinct

NonePrepares ==
    /\ DOMAIN step' = Calls
    /\ \A c \in Calls : step'[c] = "preparing" => step[c] = "preparing"

\* No output note is made.
Derives0 ==
    /\ wallet'.nextBlinding = wallet.nextBlinding
    /\ UNCHANGED <<outputs, forgotten>>
    /\ NonePrepares

\* The outputs of c are now o, with one new blinding at most, of the k-th.
Derives1(c, o, k) ==
    /\ outputs' = [outputs EXCEPT ![c] = o]
    /\ UNCHANGED forgotten
    /\ wallet'.nextBlinding \in {wallet.nextBlinding, wallet.nextBlinding + 1}
    /\ k \in DOMAIN o => /\ o[k][3] = <<Key, wallet.nextBlinding>>
                          /\ wallet'.nextBlinding = wallet.nextBlinding + 1
    /\ \A m \in DOMAIN o \ {k} : m \in DOMAIN outputs[c] /\ o[m] = outputs[c][m]
    /\ DOMAIN step' = Calls
    /\ \A d \in Calls : step'[d] = "preparing" =>
         IF d = c THEN o = <<o[1]>> ELSE step[d] = "preparing"

LEMMA WalletKey == ASSUME CoinInv PROVE Blinding(wallet) = <<Key, wallet.nextBlinding>>
  BY DEF CoinInv, IsWallet, IsRecord, Blinding

LEMMA ContinueDerives ==
    ASSUME BlindInv, NEW c \in Calls, NEW w, NEW entries, NEW known, IsWallet(w),
           w.nextBlinding = wallet.nextBlinding, Continue(c, w, entries, known),
           UNCHANGED <<outputs, forgotten>>
    PROVE  Derives0
<1>1. \E k : wallet' = Watermarked(w, entries, k)
  BY DEF Continue
<1>2. wallet'.nextBlinding = wallet.nextBlinding
  BY <1>1, WatermarkedFollows
<1>3. NonePrepares
  BY DEF Continue, BlindInv, NonePrepares
<1> QED
  BY <1>2, <1>3 DEF Derives0

LEMMA SpendDerives ==
    ASSUME IsWallet(wallet), NEW selected
    PROVE  /\ Lock(wallet, selected).nextBlinding = wallet.nextBlinding
           /\ BlindingTaken(Lock(wallet, selected)).nextBlinding = wallet.nextBlinding + 1
  BY LockFollows, BlindingTakenFollows DEF Follows

LEMMA OneDerived ==
    ASSUME CoinInv, NEW c \in Calls, NEW o, NEW value,
           outputs' = [outputs EXCEPT ![c] = <<<<o, value, Blinding(wallet)>>>>],
           wallet'.nextBlinding = wallet.nextBlinding + 1,
           UNCHANGED forgotten, DOMAIN step' = Calls,
           \A d \in Calls \ {c} : step'[d] = step[d]
    PROVE  Derives1(c, <<<<o, value, Blinding(wallet)>>>>, 1)
<1> DEFINE s == <<<<o, value, Blinding(wallet)>>>>
<1>1. DOMAIN s = {1} /\ s[1][3] = Blinding(wallet) /\ s = <<s[1]>>
  OBVIOUS
<1>2. outputs' = [outputs EXCEPT ![c] = s]
  OBVIOUS
<1> HIDE DEF s
<1>3. Derives1(c, s, 1)
  BY <1>1, <1>2, WalletKey DEF Derives1
<1> QED
  BY <1>3 DEF s

LEMMA CallsAndBlindings ==
    ASSUME BlindInv, NEW c \in Calls, Call(c)
    PROVE  Derives0 \/ \E o, k : Derives1(c, o, k)
<1> USE DEF BlindInv, CoinInv
<1>1. CASE GetPoolStatus(c) \/ FetchIncomingNotes(c) \/ \E a \in Amounts : Insufficient(c, a)
  BY <1>1 DEF GetPoolStatus, FetchIncomingNotes, Insufficient, Begin, walletVars, spendVars,
              historyVars, Derives0, NonePrepares
<1>2. ASSUME NEW a \in Amounts, Deposit(c, a)
      PROVE  Derives1(c, <<<<Key, a, Blinding(wallet)>>>>, 1)
  <2>1. wallet'.nextBlinding = wallet.nextBlinding + 1
    BY <1>2, BlindingTakenFollows DEF Deposit
  <2>2. DOMAIN step' = Calls /\ \A d \in Calls \ {c} : step'[d] = step[d]
    BY <1>2 DEF Deposit, Begin
  <2> QED
    BY <1>2, <2>1, <2>2, OneDerived DEF Deposit, historyVars
<1>3. ASSUME NEW a \in Amounts, NEW s \in Selections(wallet, a), Withdraw(c, a, s)
      PROVE  \E o, k : Derives1(c, o, k)
  <2> DEFINE change == Change(wallet, s, a)
  <2>1. CASE change > 0
    <3>1. Derives1(c, <<<<Key, change, Blinding(wallet)>>>>, 1)
      <4>1. wallet'.nextBlinding = wallet.nextBlinding + 1
        BY <1>3, <2>1, SpendDerives DEF Withdraw, PrepareWithdraw
      <4>2. DOMAIN step' = Calls /\ \A d \in Calls \ {c} : step'[d] = step[d]
        BY <1>3 DEF Withdraw, Begin
      <4> QED
        BY <1>3, <2>1, <4>1, <4>2, OneDerived DEF Withdraw, Select, historyVars
    <3> QED
      BY <3>1
  <2>2. CASE ~(change > 0)
    <3>1. Derives1(c, <<>>, 1)
      BY <1>3, <2>2, SpendDerives
         DEF Withdraw, PrepareWithdraw, Select, Begin, historyVars, Derives1
    <3> QED
      BY <3>1
  <2> QED
    BY <2>1, <2>2
<1>4. ASSUME NEW a \in Amounts, NEW s \in Selections(wallet, a), NEW r \in Others,
             Transfer(c, a, r, s)
      PROVE  Derives1(c, <<<<r, a, Blinding(wallet)>>>>, 1)
  <2>1. wallet'.nextBlinding = wallet.nextBlinding + 1
    BY <1>4, SpendDerives DEF Transfer, PrepareTransfer
  <2>2. DOMAIN step' = Calls /\ \A d \in Calls \ {c} : step'[d] = step[d]
    BY <1>4 DEF Transfer, Begin
  <2> QED
    BY <1>4, <2>1, <2>2, OneDerived DEF Transfer, Select, historyVars
<1> QED
  BY <1>1, <1>2, <1>3, <1>4 DEF Call

LEMMA AwaitsAndBlindings ==
    ASSUME BlindInv, NEW c \in Calls, Proceed(c)
    PROVE  Derives0 \/ \E o, k : Derives1(c, o, k)
<1> USE DEF BlindInv, CoinInv
<1>1. CASE DepositNote(c)
  BY <1>1, WithNoteFollows, OwnNoteIsNote
     DEF DepositNote, spendVars, historyVars, Derives0, NonePrepares
<1>2. CASE PrepareChange(c)
  <2> DEFINE new == <<Key, Change(wallet, inputs[c], total[c]), Blinding(wallet)>>
             o == Append(outputs[c], new)
  <2>1. outputs[c] = <<outputs[c][1]>>
    BY <1>2 DEF PrepareChange
  <2>2. outputs[c] \in Seq({outputs[c][1], new}) /\ Len(outputs[c]) = 1
    <3>1. \A x, y : <<x>> \in Seq({x, y}) /\ Len(<<x>>) = 1
      OBVIOUS
    <3> HIDE DEF new, o
    <3> QED
      BY <2>1, <3>1
  <2>3. DOMAIN o = {1, 2} /\ o[1] = outputs[c][1] /\ o[2] = new
    <3>1. o \in Seq({outputs[c][1], new}) /\ Len(o) = 2
      BY <2>2
    <3>2. o[1] = outputs[c][1] /\ o[2] = new
      BY <2>2
    <3> QED
      BY <3>1, <3>2
  <2>4. 1 \in DOMAIN outputs[c]
    BY <2>1
  <2>5. new[3] = <<Key, wallet.nextBlinding>>
    BY WalletKey
  <2>6. wallet'.nextBlinding = wallet.nextBlinding + 1
    BY <1>2, BlindingTakenFollows DEF PrepareChange
  <2>7. outputs' = [outputs EXCEPT ![c] = o] /\ UNCHANGED forgotten
    BY <1>2 DEF PrepareChange, historyVars
  <2>8. DOMAIN step' = Calls /\ step'[c] # "preparing"
        /\ \A d \in Calls \ {c} : step'[d] = step[d]
    BY <1>2 DEF PrepareChange
  <2> HIDE DEF o, new
  <2>9. Derives1(c, o, 2)
    BY <2>3, <2>4, <2>5, <2>6, <2>7, <2>8 DEF Derives1
  <2> QED
    BY <2>9
<1>3. CASE \/ SendDeposit(c) \/ ProofFails(c) \/ Answer(c) \/ Refusal(c) \/ FetchFails(c)
  BY <1>3 DEF SendDeposit, ProofFails, Answer, Refusal, FetchFails, Send, walletVars,
              spendVars, historyVars, Derives0, NonePrepares
<1>4. CASE SubmitTransfer(c) \/ SubmitWithdraw(c) \/ BuildFails(c)
  BY <1>4, MarkSpentFollows
     DEF SubmitTransfer, SubmitWithdraw, BuildFails, Send, spendVars, historyVars,
         Derives0, NonePrepares
<1>5. CASE Fetched(c) \/ FetchedFaulty(c)
  <2>1. \E entries, known : Continue(c, wallet, entries, known)
    BY <1>5 DEF Fetched, FetchedFaulty, Receive
  <2>2. UNCHANGED <<outputs, forgotten>>
    BY <1>5 DEF Fetched, FetchedFaulty, spendVars, historyVars
  <2> QED
    BY <2>1, <2>2, ContinueDerives
<1>6. CASE Decrypted(c)
  <2> DEFINE w == IF body[c][1].to = Key
                  THEN WithNote(wallet, Discovered(wallet, body[c][1])) ELSE wallet
  <2>1. \E entries, known : Continue(c, w, entries, known)
    BY <1>6 DEF Decrypted, Decoded
  <2>2. IsWallet(w) /\ w.nextBlinding = wallet.nextBlinding
    BY WithNoteFollows, OwnNoteIsNote DEF Discovered, Follows
  <2>3. UNCHANGED <<outputs, forgotten>>
    BY <1>6 DEF Decrypted, spendVars, historyVars
  <2> HIDE DEF w
  <2> QED
    BY <2>1, <2>2, <2>3, ContinueDerives
<1> QED
  BY <1>1, <1>2, <1>3, <1>4, <1>5, <1>6 DEF Proceed

\* What was derived before the restart and is not below the restored counter.
LEMMA RestartForgets ==
    ASSUME BlindInv, Restart
    PROVE  /\ wallet' = disk /\ forgotten \subseteq forgotten'
           /\ \A j \in Nat : j < wallet.nextBlinding /\ ~(j < disk.nextBlinding)
                               => <<Key, j>> \in forgotten'
           /\ UNCHANGED outputs /\ NonePrepares
<1>1. wallet.nextBlinding \in Nat /\ disk.nextBlinding \in Nat
  BY DEF BlindInv, CoinInv, IsWallet, IsRecord
<1>2. ASSUME NEW j \in Nat, j < wallet.nextBlinding, ~(j < disk.nextBlinding)
      PROVE  <<Key, j>> \in forgotten'
  <2>1. j \in disk.nextBlinding .. wallet.nextBlinding - 1
    BY <1>1, <1>2
  <2> QED
    BY <2>1 DEF Restart
<1>3. wallet' = disk /\ forgotten \subseteq forgotten' /\ UNCHANGED outputs
  BY DEF Restart
<1>4. NonePrepares
  BY DEF Restart, BlindInv, NonePrepares
<1> QED
  BY <1>2, <1>3, <1>4

LEMMA RestartKeeps ==
    ASSUME BlindInv, Restart, CoinInv'
    PROVE  BlindInv'
<1> USE RestartForgets
<1>1. ASSUME NEW b, Counted(b, wallet.nextBlinding, forgotten)
      PROVE  Counted(b, wallet'.nextBlinding, forgotten')
  BY <1>1 DEF Counted
<1>2. \A c \in Calls : \A k \in DOMAIN outputs[c] :
        Counted(outputs[c][k][3], wallet'.nextBlinding, forgotten')
  BY <1>1 DEF BlindInv
<1> QED
  BY <1>2 DEF BlindInv, BlindingsDistinct, NonePrepares

LEMMA QuietKeeps ==
    ASSUME BlindInv, Derives0, CoinInv'
    PROVE  BlindInv'
  BY DEF BlindInv, BlindingsDistinct, NonePrepares, Derives0

LEMMA DerivationKeeps ==
    ASSUME BlindInv, NEW c \in Calls, NEW o, NEW k, Derives1(c, o, k), CoinInv'
    PROVE  BlindInv'
<1> DEFINE fresh == <<Key, wallet.nextBlinding>>
<1>1. wallet.nextBlinding \in Nat
  BY DEF BlindInv, CoinInv, IsWallet, IsRecord
<1>2. ASSUME NEW b, Counted(b, wallet.nextBlinding, forgotten)
      PROVE  Counted(b, wallet'.nextBlinding, forgotten') /\ (b = fresh => b \in forgotten)
  BY <1>1, <1>2 DEF Counted, Derives1
<1>3. k \in DOMAIN o => Counted(fresh, wallet'.nextBlinding, forgotten')
  BY <1>1 DEF Counted, Derives1
<1>4. ASSUME NEW d \in Calls, NEW m \in DOMAIN outputs'[d]
      PROVE  /\ Counted(outputs'[d][m][3], wallet'.nextBlinding, forgotten')
             /\ IF d = c /\ m = k THEN outputs'[d][m][3] = fresh
                ELSE m \in DOMAIN outputs[d] /\ outputs'[d][m] = outputs[d][m]
  <2>1. CASE d = c /\ m = k
    BY <1>3, <1>4, <2>1 DEF Derives1, BlindInv
  <2>2. CASE ~(d = c /\ m = k)
    <3>1. m \in DOMAIN outputs[d] /\ outputs'[d][m] = outputs[d][m]
      BY <1>4, <2>2 DEF Derives1, BlindInv
    <3> QED
      BY <1>2, <2>2, <3>1 DEF BlindInv
  <2> QED
    BY <2>1, <2>2
<1>5. ASSUME NEW d \in Calls, NEW e \in Calls, NEW m \in DOMAIN outputs'[d],
             NEW n \in DOMAIN outputs'[e], <<d, m>> # <<e, n>>,
             outputs'[d][m][3] = outputs'[e][n][3]
      PROVE  outputs'[d][m][3] \in forgotten'
  <2>1. CASE d = c /\ m = k
    <3>1. n \in DOMAIN outputs[e] /\ outputs[e][n][3] = fresh
      BY <1>4, <1>5, <2>1
    <3>2. fresh \in forgotten
      BY <1>2, <3>1 DEF BlindInv
    <3> QED
      BY <1>4, <1>5, <2>1, <3>2 DEF Derives1
  <2>2. CASE e = c /\ n = k
    <3>1. m \in DOMAIN outputs[d] /\ outputs[d][m][3] = fresh
      BY <1>4, <1>5, <2>2
    <3>2. fresh \in forgotten
      BY <1>2, <3>1 DEF BlindInv
    <3>3. outputs'[e][n][3] = fresh
      BY <1>4, <2>2
    <3> QED
      BY <1>5, <3>2, <3>3 DEF Derives1
  <2>3. CASE ~(d = c /\ m = k) /\ ~(e = c /\ n = k)
    BY <1>4, <1>5, <2>3 DEF BlindInv, BlindingsDistinct, Derives1
  <2> QED
    BY <2>1, <2>2, <2>3
<1>6. DOMAIN outputs' = Calls /\ DOMAIN step' = Calls
  BY DEF Derives1, BlindInv
<1>7. \A d \in Calls : step'[d] = "preparing" => outputs'[d] = <<outputs'[d][1]>>
  BY DEF Derives1, BlindInv
<1> QED
  BY <1>4, <1>5, <1>6, <1>7 DEF BlindInv, BlindingsDistinct

LEMMA BlindingsKeep ==
    ASSUME BlindInv, [Next]_vars
    PROVE  BlindInv'
<1>1. CoinInv'
  BY CoinsKeep DEF BlindInv
<1>2. CASE \E c \in Calls : Call(c) \/ Proceed(c)
  BY <1>1, <1>2, CallsAndBlindings, AwaitsAndBlindings, QuietKeeps, DerivationKeeps
<1>3. CASE Restart
  BY <1>1, <1>3, RestartKeeps
<1>4. CASE Save \/ Environment \/ UNCHANGED vars
  <2>1. Derives0
    BY <1>4, EnvironmentAndCoins
       DEF Save, vars, walletVars, spendVars, historyVars, BlindInv, Derives0, NonePrepares
  <2> QED
    BY <1>1, <2>1, QuietKeeps
<1> QED
  BY <1>2, <1>3, <1>4 DEF Next

\* BlindingsDistinct: only a restart from an older file makes two output notes
\* share a blinding (wallet.ts deriveBlinding), however calls are interleaved.
THEOREM ClientBlindingsDistinct == Spec => []BlindingsDistinct
<1>1. Init => CoinInv
  BY FirstCoins
<1>2. Init => BlindInv
  <2> SUFFICES ASSUME Init PROVE BlindInv
    OBVIOUS
  <2>1. \A c \in Calls : DOMAIN outputs[c] = {}
    BY DEF Init
  <2> QED
    BY <1>1, <2>1 DEF Init, BlindInv, BlindingsDistinct
<1>3. BlindInv /\ [Next]_vars => BlindInv'
  BY BlindingsKeep
<1>4. BlindInv => BlindingsDistinct
  BY DEF BlindInv
<1> QED
  BY <1>2, <1>3, <1>4, PTL DEF Spec

-----------------------------------------------------------------------------
(* Locks: what is locked, some call explains.                              *)

\* Notes keep their places and commitments, and only those of P are locked anew.
Carries(w, v, P) ==
    /\ \A i \in DOMAIN w.notes :
         i \in DOMAIN v.notes /\ Commitment(v.notes[i]) = Commitment(w.notes[i])
    /\ \A i \in DOMAIN v.notes :
         v.notes[i].pending => i \in DOMAIN w.notes /\ (w.notes[i].pending \/ i \in P)

LEMMA CarriesSame ==
    ASSUME NEW w, NEW v, v.notes = w.notes
    PROVE  Carries(w, v, {})
  BY DEF Carries

LEMMA CarriesTransitive ==
    ASSUME NEW u, NEW v, NEW w, NEW P, Carries(u, v, P), Carries(v, w, {})
    PROVE  Carries(u, w, P)
  BY DEF Carries

LEMMA FlagsKeepCommitment ==
    ASSUME NEW n, IsNote(n)
    PROVE  LET l == [n EXCEPT !.pending = TRUE]
               m == [n EXCEPT !.spent = TRUE, !.pending = FALSE]
           IN  /\ Commitment(l) = Commitment(n)
               /\ Commitment(m) = Commitment(n) /\ ~m.pending
  BY DEF IsNote, Commitment

LEMMA LockCarries ==
    ASSUME NEW w, IsWallet(w), NEW selected
    PROVE  Carries(w, Lock(w, selected), Positions(selected))
<1> DEFINE f == [i \in DOMAIN w.notes |->
                   IF i \in Positions(selected) THEN [w.notes[i] EXCEPT !.pending = TRUE]
                   ELSE w.notes[i]]
<1>1. Lock(w, selected).notes = f
  BY DEF Lock, IsWallet, IsRecord
<1>2. ASSUME NEW i \in DOMAIN w.notes
      PROVE  /\ Commitment(f[i]) = Commitment(w.notes[i])
             /\ f[i].pending => w.notes[i].pending \/ i \in Positions(selected)
  BY FlagsKeepCommitment DEF IsWallet
<1>3. DOMAIN f = DOMAIN w.notes
  OBVIOUS
<1> HIDE DEF f
<1> QED
  BY <1>1, <1>2, <1>3 DEF Carries

LEMMA MarkSpentCarries ==
    ASSUME NEW w, IsWallet(w), NEW commitments
    PROVE  /\ Carries(w, MarkSpent(w, commitments), {})
           /\ \A i \in DOMAIN w.notes : Commitment(w.notes[i]) \in commitments
                => ~MarkSpent(w, commitments).notes[i].pending
<1> DEFINE f == [i \in DOMAIN w.notes |->
                   IF Commitment(w.notes[i]) \in commitments
                   THEN [w.notes[i] EXCEPT !.spent = TRUE, !.pending = FALSE]
                   ELSE w.notes[i]]
<1>1. MarkSpent(w, commitments).notes = f
  BY DEF MarkSpent, IsWallet, IsRecord
<1>2. ASSUME NEW i \in DOMAIN w.notes
      PROVE  /\ Commitment(f[i]) = Commitment(w.notes[i])
             /\ f[i].pending => w.notes[i].pending
             /\ Commitment(w.notes[i]) \in commitments => ~f[i].pending
  BY FlagsKeepCommitment DEF IsWallet
<1>3. DOMAIN f = DOMAIN w.notes
  OBVIOUS
<1> HIDE DEF f
<1> QED
  BY <1>1, <1>2, <1>3 DEF Carries

LEMMA WithNoteCarries ==
    ASSUME NEW w, IsWallet(w), NEW x, NEW value, NEW blinding
    PROVE  LET v == WithNote(w, OwnNote(x, value, blinding))
           IN  IsWallet(v) /\ Carries(w, v, {})
<1> DEFINE n == OwnNote(x, value, blinding)
<1>1. IsNote(n) /\ ~n.pending
  BY OwnNoteIsNote DEF OwnNote
<1> HIDE DEF n
<1>2. WithNote(w, n).notes = WithNote(w, n).notes
  OBVIOUS
<1>3. IsWallet(WithNote(w, n)) /\ Carries(w, WithNote(w, n), {})
  BY <1>1, WithNoteFollows DEF Follows, Carries
<1> QED
  BY <1>3 DEF n

LEMMA WatermarkedCarries ==
    ASSUME NEW w, IsWallet(w), NEW entries, NEW k
    PROVE  Carries(w, Watermarked(w, entries, k), {})
<1>1. Watermarked(w, entries, k).notes = w.notes
  BY DEF Watermarked, IsRecord, IsWallet
<1> QED
  BY <1>1, CarriesSame

\* The steps at which a call may hold locks.
Holding == {"preparing", "proving", "failed"}

LockInv ==
    /\ CoinInv
    /\ DOMAIN spends = Calls /\ DOMAIN step = Calls
    /\ \A c \in Calls : \A k \in DOMAIN inputs[c] :
         /\ k \in DOMAIN spends[c]
         /\ spends[c][k] = Commitment(wallet.notes[inputs[c][k]])
    /\ LocksExplained

\* Nothing is locked, and nothing selected.
LocksNothing ==
    /\ Carries(wallet, wallet', {})
    /\ disk' = disk \/ (disk' = wallet /\ wallet' = wallet)
    /\ UNCHANGED <<inputs, spends>>

HoldersStay ==
    /\ DOMAIN step' = Calls
    /\ \A d \in Calls : step[d] \in Holding => step'[d] \in Holding

OthersStay(c) ==
    /\ DOMAIN step' = Calls
    /\ \A d \in Calls \ {c} : step'[d] = step[d]

Rests == LocksNothing /\ HoldersStay

\* The notes that c holds are marked.
Marks(c) ==
    /\ LocksNothing
    /\ UNCHANGED disk
    /\ OthersStay(c)
    /\ \A i \in DOMAIN wallet.notes : Commitment(wallet.notes[i]) \in Shown(c)
         => ~wallet'.notes[i].pending

Locks(c, selected) ==
    /\ step[c] = "idle"
    /\ step'[c] \in Holding
    /\ OthersStay(c)
    /\ Positions(selected) \subseteq DOMAIN wallet.notes
    /\ Carries(wallet, wallet', Positions(selected))
    /\ UNCHANGED disk
    /\ inputs' = [inputs EXCEPT ![c] = selected]
    /\ spends' = [spends EXCEPT ![c] =
                    [k \in DOMAIN selected |-> Commitment(wallet.notes[selected[k]])]]

LEMMA SpendLocks ==
    ASSUME LockInv, NEW c \in Calls, NEW a, NEW m, NEW next \in Holding,
           NEW selected \in Selections(wallet, a), Select(c, a, selected),
           Begin(c, m, next),
           wallet' \in {Lock(wallet, selected), BlindingTaken(Lock(wallet, selected))}
    PROVE  Locks(c, selected)
<1> DEFINE w == Lock(wallet, selected)
<1>1. Positions(selected) \subseteq DOMAIN wallet.notes
  BY SelectionsUnspent DEF Unspent
<1>2. IsWallet(w) /\ Carries(wallet, w, Positions(selected))
  BY LockFollows, LockCarries DEF Follows, LockInv, CoinInv
<1> HIDE DEF w
<1>3. Carries(w, wallet', {})
  BY <1>2, CarriesSame, BlindingTakenFollows DEF w
<1>4. Carries(wallet, wallet', Positions(selected))
  BY <1>2, <1>3, CarriesTransitive
<1>5. step[c] = "idle" /\ step'[c] = next /\ OthersStay(c)
  BY DEF Begin, LockInv, OthersStay
<1> QED
  BY <1>1, <1>4, <1>5 DEF Locks, Select

LEMMA CallsAndLocks ==
    ASSUME LockInv, NEW c \in Calls, Call(c)
    PROVE  Rests \/ \E selected : Locks(c, selected)
<1>1. CASE GetPoolStatus(c) \/ FetchIncomingNotes(c) \/ \E a \in Amounts : Insufficient(c, a)
  <2>1. UNCHANGED <<walletVars, inputs, spends>>
    BY <1>1 DEF GetPoolStatus, FetchIncomingNotes, Insufficient, spendVars
  <2>2. HoldersStay
    BY <1>1 DEF GetPoolStatus, FetchIncomingNotes, Insufficient, Begin, LockInv, Holding,
                HoldersStay
  <2> QED
    BY <2>1, <2>2, CarriesSame DEF walletVars, LocksNothing, Rests
<1>2. ASSUME NEW a \in Amounts, Deposit(c, a)
      PROVE  Rests
  <2>1. wallet'.notes = wallet.notes
    BY <1>2, BlindingTakenFollows DEF Deposit, LockInv, CoinInv
  <2>2. HoldersStay
    BY <1>2 DEF Deposit, Begin, LockInv, Holding, HoldersStay
  <2> QED
    BY <1>2, <2>1, <2>2, CarriesSame DEF Deposit, LocksNothing, Rests
<1>3. ASSUME NEW a \in Amounts, NEW s \in Selections(wallet, a), Withdraw(c, a, s)
      PROVE  Locks(c, s)
  BY <1>3, SpendLocks DEF Withdraw, PrepareWithdraw, Holding
<1>4. ASSUME NEW a \in Amounts, NEW s \in Selections(wallet, a), NEW r \in Others,
             Transfer(c, a, r, s)
      PROVE  Locks(c, s)
  BY <1>4, SpendLocks DEF Transfer, PrepareTransfer, Holding
<1> QED
  BY <1>1, <1>2, <1>3, <1>4 DEF Call

LEMMA ContinueCarries ==
    ASSUME NEW c \in Calls, NEW w, NEW entries, NEW known, IsWallet(w),
           Carries(wallet, w, {}), Continue(c, w, entries, known)
    PROVE  Carries(wallet, wallet', {})
<1>1. PICK k : wallet' = Watermarked(w, entries, k)
  BY DEF Continue
<1> QED
  BY <1>1, WatermarkedCarries, CarriesTransitive

LEMMA AwaitsAndLocks ==
    ASSUME LockInv, NEW c \in Calls, Proceed(c)
    PROVE  Rests \/ Marks(c)
<1> USE DEF LockInv, CoinInv
<1>1. CASE DepositNote(c)
  <2>1. HoldersStay
    BY <1>1 DEF DepositNote, Holding, HoldersStay
  <2>2. Carries(wallet, wallet', {})
    BY <1>1, WithNoteCarries DEF DepositNote
  <2> QED
    BY <1>1, <2>1, <2>2 DEF DepositNote, spendVars, LocksNothing, Rests
<1>2. CASE PrepareChange(c)
  <2>1. HoldersStay
    BY <1>2 DEF PrepareChange, Holding, HoldersStay
  <2>2. Carries(wallet, wallet', {})
    BY <1>2, BlindingTakenFollows, CarriesSame DEF PrepareChange
  <2> QED
    BY <1>2, <2>1, <2>2 DEF PrepareChange, LocksNothing, Rests
<1>3. CASE \/ SendDeposit(c) \/ ProofFails(c) \/ Answer(c) \/ Refusal(c) \/ FetchFails(c)
  <2>1. UNCHANGED <<walletVars, inputs, spends>>
    BY <1>3 DEF SendDeposit, ProofFails, Answer, Refusal, FetchFails, spendVars
  <2>2. HoldersStay
    BY <1>3 DEF SendDeposit, Send, ProofFails, Answer, Refusal, FetchFails, Holding,
                HoldersStay
  <2> QED
    BY <2>1, <2>2, CarriesSame DEF walletVars, LocksNothing, Rests
<1>4. CASE SubmitTransfer(c) \/ SubmitWithdraw(c) \/ BuildFails(c)
  <2>1. wallet' = MarkSpent(wallet, Shown(c)) /\ UNCHANGED <<disk, inputs, spends>>
    BY <1>4 DEF SubmitTransfer, SubmitWithdraw, BuildFails, spendVars
  <2>2. OthersStay(c)
    BY <1>4 DEF SubmitTransfer, SubmitWithdraw, BuildFails, Send, OthersStay
  <2> QED
    BY <2>1, <2>2, MarkSpentCarries DEF LocksNothing, Marks
<1>5. CASE Fetched(c) \/ FetchedFaulty(c)
  <2>1. PICK entries, known : Continue(c, wallet, entries, known)
    BY <1>5 DEF Fetched, FetchedFaulty, Receive
  <2>2. Carries(wallet, wallet', {})
    BY <2>1, ContinueCarries, CarriesSame
  <2>3. HoldersStay
    BY <1>5, <2>1 DEF Fetched, FetchedFaulty, Continue, Holding, HoldersStay
  <2> QED
    BY <1>5, <2>2, <2>3 DEF Fetched, FetchedFaulty, spendVars, LocksNothing, Rests
<1>6. CASE Decrypted(c)
  <2> DEFINE w == IF body[c][1].to = Key
                  THEN WithNote(wallet, Discovered(wallet, body[c][1])) ELSE wallet
  <2>1. PICK entries, known : Continue(c, w, entries, known)
    BY <1>6 DEF Decrypted, Decoded
  <2>2. IsWallet(w) /\ Carries(wallet, w, {})
    BY WithNoteCarries, CarriesSame DEF Discovered
  <2> HIDE DEF w
  <2>3. Carries(wallet, wallet', {})
    BY <2>1, <2>2, ContinueCarries
  <2>4. HoldersStay
    BY <1>6, <2>1 DEF Decrypted, Continue, Holding, HoldersStay
  <2> QED
    BY <1>6, <2>3, <2>4 DEF Decrypted, spendVars, LocksNothing, Rests
<1> QED
  BY <1>1, <1>2, <1>3, <1>4, <1>5, <1>6 DEF Proceed

\* The pairs of a position and its commitment, when nothing is selected.
LEMMA SpendsCarry ==
    ASSUME LockInv, CoinInv', LocksNothing
    PROVE  /\ DOMAIN spends' = Calls
           /\ \A c \in Calls : \A k \in DOMAIN inputs'[c] :
                /\ k \in DOMAIN spends'[c]
                /\ spends'[c][k] = Commitment(wallet'.notes[inputs'[c][k]])
  BY DEF LockInv, CoinInv, LocksNothing, Carries, Positions

LEMMA RestKeeps ==
    ASSUME LockInv, CoinInv', Rests
    PROVE  LockInv'
<1>1. ASSUME NEW i \in DOMAIN wallet'.notes, wallet'.notes[i].pending
      PROVE  \/ \E c \in Calls : i \in Positions(inputs'[c]) /\ step'[c] \in Holding
             \/ i \in DOMAIN disk'.notes /\ disk'.notes[i].pending
  <2>1. i \in DOMAIN wallet.notes /\ wallet.notes[i].pending
    BY <1>1 DEF Rests, LocksNothing, Carries
  <2>2. CASE \E c \in Calls : i \in Positions(inputs[c]) /\ step[c] \in Holding
    BY <2>2 DEF Rests, LocksNothing, HoldersStay
  <2>3. CASE i \in DOMAIN disk.notes /\ disk.notes[i].pending
    BY <2>1, <2>3 DEF Rests, LocksNothing
  <2> QED
    BY <2>1, <2>2, <2>3 DEF LockInv, LocksExplained, Holding
<1> QED
  BY <1>1, SpendsCarry DEF Rests, HoldersStay, LockInv, LocksExplained, Holding

LEMMA MarksKeep ==
    ASSUME LockInv, CoinInv', NEW c \in Calls, Marks(c)
    PROVE  LockInv'
<1>1. ASSUME NEW i \in DOMAIN wallet'.notes, wallet'.notes[i].pending
      PROVE  \/ \E d \in Calls : i \in Positions(inputs'[d]) /\ step'[d] \in Holding
             \/ i \in DOMAIN disk'.notes /\ disk'.notes[i].pending
  <2>1. i \in DOMAIN wallet.notes /\ wallet.notes[i].pending
    BY <1>1 DEF Marks, LocksNothing, Carries
  <2>2. i \notin Positions(inputs[c])
    BY <1>1, <2>1 DEF Marks, Positions, Shown, LockInv
  <2>3. CASE i \in DOMAIN disk.notes /\ disk.notes[i].pending
    BY <2>3 DEF Marks
  <2>4. ASSUME NEW d \in Calls, i \in Positions(inputs[d]), step[d] \in Holding
        PROVE  i \in Positions(inputs'[d]) /\ step'[d] \in Holding
    BY <2>2, <2>4 DEF Marks, LocksNothing, OthersStay
  <2> QED
    BY <2>1, <2>3, <2>4 DEF LockInv, LocksExplained, Holding
<1> QED
  BY <1>1, SpendsCarry DEF Marks, OthersStay, LockInv, LocksExplained, Holding

LEMMA LocksKeep ==
    ASSUME LockInv, CoinInv', NEW c \in Calls, NEW selected, Locks(c, selected)
    PROVE  LockInv'
<1>1. ASSUME NEW i \in DOMAIN wallet'.notes, wallet'.notes[i].pending
      PROVE  \/ \E d \in Calls : i \in Positions(inputs'[d]) /\ step'[d] \in Holding
             \/ i \in DOMAIN disk'.notes /\ disk'.notes[i].pending
  <2>1. CASE i \in Positions(selected)
    BY <2>1 DEF Locks, LockInv, CoinInv
  <2>2. CASE i \notin Positions(selected)
    <3>1. i \in DOMAIN wallet.notes /\ wallet.notes[i].pending
      BY <1>1, <2>2 DEF Locks, Carries
    <3>2. CASE i \in DOMAIN disk.notes /\ disk.notes[i].pending
      BY <3>2 DEF Locks
    <3>3. ASSUME NEW d \in Calls, i \in Positions(inputs[d]), step[d] \in Holding
          PROVE  i \in Positions(inputs'[d]) /\ step'[d] \in Holding
      <4>1. d # c
        BY <3>3 DEF Locks, Holding
      <4> QED
        BY <3>3, <4>1 DEF Locks, OthersStay, LockInv, CoinInv
    <3> QED
      BY <3>1, <3>2, <3>3 DEF LockInv, LocksExplained, Holding
  <2> QED
    BY <2>1, <2>2
<1>2. ASSUME NEW d \in Calls, NEW k \in DOMAIN inputs'[d]
      PROVE  /\ k \in DOMAIN spends'[d]
             /\ spends'[d][k] = Commitment(wallet'.notes[inputs'[d][k]])
  <2>1. CASE d = c
    BY <1>2, <2>1 DEF Locks, LockInv, CoinInv, Carries, Positions
  <2>2. CASE d # c
    BY <1>2, <2>2 DEF Locks, LockInv, CoinInv, Carries, Positions
  <2> QED
    BY <2>1, <2>2
<1>3. DOMAIN spends' = Calls /\ DOMAIN step' = Calls
  BY DEF Locks, OthersStay, LockInv
<1> QED
  BY <1>1, <1>2, <1>3 DEF LockInv, LocksExplained, Holding

LEMMA RestartUnlocks ==
    ASSUME LockInv, CoinInv', Restart
    PROVE  LockInv'
  BY DEF Restart, LockInv, LocksExplained

LEMMA LocksStayExplained ==
    ASSUME LockInv, [Next]_vars
    PROVE  LockInv'
<1>1. CoinInv'
  BY CoinsKeep DEF LockInv
<1>2. CASE \E c \in Calls : Call(c) \/ Proceed(c)
  BY <1>1, <1>2, CallsAndLocks, AwaitsAndLocks, RestKeeps, MarksKeep, LocksKeep
<1>3. CASE Restart
  BY <1>1, <1>3, RestartUnlocks
<1>4. CASE Save \/ Environment \/ UNCHANGED vars
  <2>1. UNCHANGED <<wallet, inputs, spends, step>> /\ disk' \in {disk, wallet}
    BY <1>4, EnvironmentAndCoins DEF Save, vars, walletVars, spendVars
  <2>2. Rests
    BY <2>1, CarriesSame DEF LockInv, LocksNothing, HoldersStay, Rests
  <2> QED
    BY <1>1, <2>2, RestKeeps
<1> QED
  BY <1>2, <1>3, <1>4 DEF Next

\* LocksExplained: a lock in the wallet is that of a call that is still preparing, or
\* one that a call left for good whose proof failed (client.ts transfer, withdraw: no
\* catch unlocks), or it came from the file.  A call that got as far as marking its
\* notes, a sync or another call never leaves one.
THEOREM ClientLocksExplained == Spec => []LocksExplained
<1>1. Init => CoinInv
  BY FirstCoins
<1>2. Init => LockInv
  <2> SUFFICES ASSUME Init PROVE LockInv
    OBVIOUS
  <2>1. \A c \in Calls : DOMAIN inputs[c] = {}
    BY DEF Init
  <2> QED
    BY <1>1, <2>1 DEF Init, LockInv, LocksExplained
<1>3. LockInv /\ [Next]_vars => LockInv'
  BY LocksStayExplained
<1>4. LockInv => LocksExplained
  BY DEF LockInv
<1> QED
  BY <1>2, <1>3, <1>4, PTL DEF Spec

-----------------------------------------------------------------------------
(* Order.  The library's theorem on least elements of well-founded sets    *)
(* stands in for the induction that the provers do not have.               *)

LEMMA LeastElement ==
    ASSUME NEW T, T \subseteq Nat, T # {}
    PROVE  \E x \in T : \A y \in T : x <= y
<1> DEFINE R == {p \in Nat \X Nat : p[1] < p[2]}
<1>1. IsWellFoundedOn(R, Nat)
  BY NatLessThanWellFounded DEF OpToRel
<1> HIDE DEF R
<1>2. PICK x \in T : \A y \in T : <<y, x>> \notin R
  BY <1>1, WFMin
<1>3. ASSUME NEW y \in T PROVE x <= y
  <2>1. x \in Nat /\ y \in Nat
    OBVIOUS
  <2>2. <<y, x>> \in R <=> y < x
    BY <2>1 DEF R
  <2> QED
    BY <1>2, <2>1, <2>2
<1> QED
  BY <1>3

\* B is a strict order of S, in which any two elements are comparable.
Orders(B, S) ==
    /\ \A e \in S : <<e, e>> \notin B
    /\ \A e, f, g \in S : <<e, f>> \in B /\ <<f, g>> \in B => <<e, g>> \in B
    /\ \A e, f \in S : e # f => <<e, f>> \in B \/ <<f, e>> \in B

Below(B, S, e) == {f \in S : <<f, e>> \in B}
Rank(B, S, e) == Cardinality(Below(B, S, e))

LEMMA RankOrders ==
    ASSUME NEW S, IsFiniteSet(S), NEW B, Orders(B, S), NEW e \in S, NEW f \in S
    PROVE  /\ Rank(B, S, e) \in Nat /\ Rank(B, S, e) < Cardinality(S)
           /\ <<e, f>> \in B <=> Rank(B, S, e) < Rank(B, S, f)
<1>1. ASSUME NEW a \in S, NEW b, IsFiniteSet(b), b \subseteq S, Below(B, S, a) \subseteq b \ {a}, a \in b
      PROVE  Rank(B, S, a) \in Nat /\ Cardinality(b) \in Nat /\ Rank(B, S, a) < Cardinality(b)
  <2>1. /\ IsFiniteSet(b \ {a}) /\ Cardinality(b \ {a}) = Cardinality(b) - 1
    BY <1>1, FS_RemoveElement
  <2>2. /\ IsFiniteSet(Below(B, S, a))
        /\ Cardinality(Below(B, S, a)) <= Cardinality(b \ {a})
    BY <1>1, <2>1, FS_Subset
  <2>3. Cardinality(Below(B, S, a)) \in Nat /\ Cardinality(b) \in Nat
    BY <1>1, <2>2, FS_CardinalityType
  <2> QED
    BY <2>1, <2>2, <2>3 DEF Rank
<1>2. \A a \in S : Below(B, S, a) \subseteq S \ {a} /\ IsFiniteSet(Below(B, S, a))
  <2>1. \A a \in S : Below(B, S, a) \subseteq S \ {a}
    BY DEF Below, Orders
  <2>2. \A a \in S : Below(B, S, a) \subseteq S
    BY DEF Below
  <2> QED
    BY <2>1, <2>2, FS_Subset
<1>3. \A a, b \in S : <<a, b>> \in B =>
        Below(B, S, a) \subseteq Below(B, S, b) \ {a} /\ a \in Below(B, S, b)
  BY DEF Below, Orders
<1>4. ASSUME NEW a \in S, NEW b \in S, <<a, b>> \in B
      PROVE  /\ Rank(B, S, a) \in Nat /\ Rank(B, S, b) \in Nat
             /\ Rank(B, S, a) < Rank(B, S, b)
  <2>1. Below(B, S, b) \subseteq S
    BY DEF Below
  <2> QED
    BY <1>1, <1>2, <1>3, <1>4, <2>1 DEF Rank
<1>5. Rank(B, S, e) \in Nat /\ Cardinality(S) \in Nat /\ Rank(B, S, e) < Cardinality(S)
  BY <1>1, <1>2
<1>6. Rank(B, S, f) \in Nat
  BY <1>1, <1>2
<1>7. ASSUME Rank(B, S, e) < Rank(B, S, f) PROVE <<e, f>> \in B
  <2>1. e # f
    BY <1>5, <1>7
  <2>2. <<f, e>> \notin B
    BY <1>4, <1>5, <1>6, <1>7
  <2> QED
    BY <2>1, <2>2 DEF Orders
<1> QED
  BY <1>4, <1>5, <1>7

LEMMA RankInjective ==
    ASSUME NEW S, IsFiniteSet(S), NEW B, Orders(B, S), NEW X \in SUBSET S, NEW k \in Nat,
           \A e \in X : Rank(B, S, e) < k
    PROVE  Cardinality(X) <= k
<1> SUFFICES ASSUME ~(Cardinality(X) <= k) PROVE FALSE
  OBVIOUS
<1>1. IsFiniteSet(X) /\ Cardinality(X) \in Nat
  BY FS_Subset, FS_CardinalityType
<1>2. IsFiniteSet(0 .. k - 1) /\ Cardinality(0 .. k - 1) = k
  BY FS_Interval
<1> DEFINE r == [e \in X |-> Rank(B, S, e)]
<1>3. r \in [X -> 0 .. k - 1]
  <2>1. \A e \in X : Rank(B, S, e) \in Nat
    BY RankOrders
  <2>2. \A e \in X : Rank(B, S, e) \in 0 .. k - 1
    BY <2>1
  <2> QED
    BY <2>2
<1>4. PICK e, f \in X : e # f /\ r[e] = r[f]
  <2> HIDE DEF r
  <2>1. Cardinality(0 .. k - 1) < Cardinality(X)
    BY <1>1, <1>2
  <2> QED
    BY <1>1, <1>2, <1>3, <2>1, FS_PigeonHole
<1>5. Rank(B, S, e) = Rank(B, S, f) /\ Rank(B, S, e) \in Nat
  BY <1>4, RankOrders
<1>6. <<e, f>> \in B \/ <<f, e>> \in B
  BY <1>4 DEF Orders
<1> QED
  BY <1>5, <1>6, RankOrders

\* Every place has its element.
LEMMA RankReached ==
    ASSUME NEW S, IsFiniteSet(S), NEW B, Orders(B, S), NEW k \in Nat, k < Cardinality(S)
    PROVE  \E e \in S : Rank(B, S, e) = k
<1> SUFFICES ASSUME \A e \in S : Rank(B, S, e) # k PROVE FALSE
  OBVIOUS
<1>1. \A e \in S : Rank(B, S, e) \in Nat
  BY RankOrders
<1>2. Cardinality(S) \in Nat
  BY FS_CardinalityType
<1> DEFINE U == {e \in S : Rank(B, S, e) > k}
           R == {Rank(B, S, e) : e \in U}
<1>3. U # {}
  <2> SUFFICES ASSUME U = {} PROVE FALSE
    OBVIOUS
  <2>1. \A e \in S : Rank(B, S, e) < k
    BY <1>1
  <2>2. Cardinality(S) <= k
    BY <2>1, RankInjective
  <2> QED
    BY <1>2, <2>2
<1>4. R \subseteq Nat /\ R # {}
  BY <1>1, <1>3
<1>5. PICK u \in U : \A e \in U : Rank(B, S, u) <= Rank(B, S, e)
  <2>1. PICK m \in R : \A n \in R : m <= n
    <3> HIDE DEF R
    <3> QED
      BY <1>4, LeastElement
  <2> QED
    BY <2>1
<1>6. ASSUME NEW e \in Below(B, S, u) PROVE e \in S /\ Rank(B, S, e) < k
  <2>1. e \in S /\ <<e, u>> \in B
    BY DEF Below
  <2>2. Rank(B, S, e) < Rank(B, S, u)
    BY <2>1, RankOrders
  <2> QED
    BY <1>1, <1>5, <2>1, <2>2
<1>7. Cardinality(Below(B, S, u)) <= k
  BY <1>6, RankInjective
<1> QED
  BY <1>1, <1>7 DEF Rank

\* The sequence that Sorted() chooses exists.
LEMMA SortedExists ==
    ASSUME NEW S, IsFiniteSet(S), NEW B, Orders(B, S)
    PROVE  \E s \in [1 .. Cardinality(S) -> S] :
              \A i, j \in 1 .. Cardinality(S) : i < j => <<s[i], s[j]>> \in B
<1> DEFINE s == [k \in 1 .. Cardinality(S) |-> CHOOSE e \in S : Rank(B, S, e) = k - 1]
<1>1. Cardinality(S) \in Nat
  BY FS_CardinalityType
<1>2. ASSUME NEW k \in 1 .. Cardinality(S)
      PROVE  s[k] \in S /\ Rank(B, S, s[k]) = k - 1
  <2>1. k - 1 \in Nat /\ k - 1 < Cardinality(S)
    BY <1>1
  <2>2. \E e \in S : Rank(B, S, e) = k - 1
    BY <2>1, RankReached
  <2> QED
    BY <2>2
<1> HIDE DEF s
<1>3. ASSUME NEW i \in 1 .. Cardinality(S), NEW j \in 1 .. Cardinality(S), i < j
      PROVE  <<s[i], s[j]>> \in B
  BY <1>1, <1>2, <1>3, RankOrders
<1>4. s \in [1 .. Cardinality(S) -> S]
  BY <1>2 DEF s
<1> QED
  BY <1>3, <1>4

\* exec() has a first endpoint to try, and after it only endpoints.
LEMMA CandidatesTyped ==
    ASSUME cooling \in [Endpoints -> Nat]
    PROVE  Candidates \in Seq(Endpoints) /\ Candidates # <<>>
<1> DEFINE P == {p \in Endpoints \X Endpoints : Preferred(p[1], p[2])}
           C == {p \in Endpoints \X Endpoints : CoolsSooner(p[1], p[2])}
<1>1. /\ Endpoints \subseteq Nat /\ Endpoints # {} /\ IsFiniteSet(Endpoints)
      /\ \A e \in Endpoints : Weight[e] \in Nat /\ cooling[e] \in Nat
  BY FailoverAssumption
<1>2. /\ \A e, f \in Endpoints : <<e, f>> \in P <=> Preferred(e, f)
      /\ \A e, f \in Endpoints : <<e, f>> \in C <=> CoolsSooner(e, f)
  OBVIOUS
<1> HIDE DEF P, C
<1>3. Orders(P, Endpoints)
  BY <1>1, <1>2 DEF Orders, Preferred
<1>4. Orders(C, Endpoints)
  BY <1>1, <1>2 DEF Orders, CoolsSooner
<1>5. ASSUME NEW S, S \subseteq Endpoints, S # {}
      PROVE  /\ IsFiniteSet(S) /\ Cardinality(S) \in Nat /\ Cardinality(S) > 0
             /\ Orders(P, S) /\ Orders(C, S)
             /\ \A s \in [1 .. Cardinality(S) -> S] : s \in Seq(Endpoints) /\ s # <<>>
  <2>1. IsFiniteSet(S) /\ Cardinality(S) \in Nat /\ Cardinality(S) # 0
    BY <1>1, <1>5, FS_Subset, FS_CardinalityType, FS_EmptySet
  <2>2. Orders(P, S) /\ Orders(C, S)
    BY <1>3, <1>4, <1>5 DEF Orders
  <2>3. ASSUME NEW n \in Nat, n # 0, NEW s \in [1 .. n -> S]
        PROVE  s \in Seq(Endpoints) /\ s # <<>>
    <3>1. s \in [1 .. n -> Endpoints] /\ 1 \in DOMAIN s
      BY <1>5, <2>3
    <3> QED
      BY <3>1
  <2> QED
    BY SMTT(20), <2>1, <2>2, <2>3
<1>6. CASE \E e \in Endpoints : Healthy(e)
  <2> DEFINE S == {e \in Endpoints : Healthy(e)}
  <2>1. S # {} /\ S \subseteq Endpoints
    BY <1>6
  <2>2. Candidates = CHOOSE s \in [1 .. Cardinality(S) -> S] :
           \A i, j \in 1 .. Cardinality(S) : i < j => Preferred(s[i], s[j])
    BY <1>6 DEF Candidates, Sorted
  <2> HIDE DEF S
  <2>3. \E s \in [1 .. Cardinality(S) -> S] :
           \A i, j \in 1 .. Cardinality(S) : i < j => <<s[i], s[j]>> \in P
    BY <1>5, <2>1, SortedExists
  <2>4. \E s \in [1 .. Cardinality(S) -> S] :
           \A i, j \in 1 .. Cardinality(S) : i < j => Preferred(s[i], s[j])
    BY <1>2, <2>1, <2>3
  <2>5. Candidates \in [1 .. Cardinality(S) -> S]
    BY <2>2, <2>4
  <2> QED
    BY <1>5, <2>1, <2>5
<1>7. CASE ~ \E e \in Endpoints : Healthy(e)
  <2>1. Candidates = CHOOSE s \in [1 .. Cardinality(Endpoints) -> Endpoints] :
           \A i, j \in 1 .. Cardinality(Endpoints) : i < j => CoolsSooner(s[i], s[j])
    BY <1>7 DEF Candidates, Sorted
  <2>2. \E s \in [1 .. Cardinality(Endpoints) -> Endpoints] :
           \A i, j \in 1 .. Cardinality(Endpoints) : i < j => <<s[i], s[j]>> \in C
    BY <1>1, <1>4, SortedExists
  <2>3. \E s \in [1 .. Cardinality(Endpoints) -> Endpoints] :
           \A i, j \in 1 .. Cardinality(Endpoints) : i < j => CoolsSooner(s[i], s[j])
    BY <1>2, <2>2
  <2>4. Candidates \in [1 .. Cardinality(Endpoints) -> Endpoints]
    BY <2>1, <2>3
  <2> QED
    BY <1>1, <1>5, <2>4
<1> QED
  BY <1>6, <1>7

\* getNotesAfter(): notes from the leaf on, and below each of them no other one than
\* those that come before it.
LEMMA NotesAfterSorted ==
    ASSUME NEW notes, notes \subseteq Nat, IsFiniteSet(notes), NEW leaf \in Int
    PROVE  LET r == NotesAfter(notes, leaf)
           IN  /\ r \in Seq(notes)
               /\ \A k \in DOMAIN r : r[k] >= leaf
               /\ \A k \in DOMAIN r : \A i \in notes :
                    leaf <= i /\ i < r[k] => \E m \in 1 .. k - 1 : r[m] = i
<1> DEFINE found == {i \in notes : i >= leaf}
           B == {p \in found \X found : p[1] < p[2]}
           sorted == [k \in 1 .. Cardinality(found) |->
                        CHOOSE i \in found : Cardinality({j \in found : j < i}) = k - 1]
           n == IF Cardinality(found) < ReadLimit THEN Cardinality(found) ELSE ReadLimit
           r == NotesAfter(notes, leaf)
<1>1. r = SubSeq(sorted, 1, n)
  BY DEF NotesAfter
<1>2. /\ found \subseteq notes /\ found \subseteq Nat
      /\ \A i \in found : i >= leaf
      /\ \A i \in notes : i >= leaf => i \in found
  OBVIOUS
<1>3. IsFiniteSet(found) /\ Cardinality(found) \in Nat
  BY <1>2, FS_Subset, FS_CardinalityType
<1>4. \A i, j \in found : <<i, j>> \in B <=> i < j
  OBVIOUS
<1>5. \A i \in found : Cardinality({j \in found : j < i}) = Rank(B, found, i)
  <2>1. ASSUME NEW i \in found PROVE {j \in found : j < i} = Below(B, found, i)
    BY <1>4 DEF Below
  <2> QED
    BY <2>1 DEF Rank
<1>6. n \in Nat /\ n <= Cardinality(found)
  BY <1>3, StoreAssumption
<1>7. \A k \in 1 .. Cardinality(found) :
         sorted[k] = CHOOSE i \in found : Cardinality({j \in found : j < i}) = k - 1
  OBVIOUS
<1> HIDE DEF found, B, r, n
<1>8. Orders(B, found)
  BY <1>2, <1>4 DEF Orders
<1>9. ASSUME NEW k \in 1 .. Cardinality(found)
      PROVE  sorted[k] \in found /\ Rank(B, found, sorted[k]) = k - 1
  <2>1. k - 1 \in Nat /\ k - 1 < Cardinality(found)
    BY <1>3
  <2>2. PICK i \in found : Rank(B, found, i) = k - 1
    BY <1>3, <1>8, <2>1, RankReached
  <2>3. \E j \in found : Cardinality({m \in found : m < j}) = k - 1
    BY <1>5, <2>2
  <2>4. sorted[k] \in found /\ Cardinality({m \in found : m < sorted[k]}) = k - 1
    BY <1>7, <2>3
  <2> QED
    BY <1>5, <2>4
<1>10. sorted \in [1 .. Cardinality(found) -> found]
  BY <1>9
<1> HIDE DEF sorted
<1>11. /\ DOMAIN r = 1 .. n
       /\ \A k \in 1 .. n : r[k] = sorted[k]
  <2>1. sorted \in Seq(found) /\ Len(sorted) = Cardinality(found)
    BY <1>3, <1>10
  <2> QED
    BY <1>1, <1>6, <2>1
<1>12. \A k \in 1 .. n : k \in 1 .. Cardinality(found)
  BY <1>3, <1>6
<1>13. \A k \in DOMAIN r : r[k] \in found /\ Rank(B, found, r[k]) = k - 1
  BY <1>9, <1>11, <1>12
<1>14. r \in Seq(notes)
  <2>1. r = [k \in 1 .. n |-> r[k]]
    <3>1. sorted \in Seq(found) /\ Len(sorted) = Cardinality(found)
      BY <1>3, <1>10
    <3>2. r \in Seq(found)
      BY <1>1, <1>6, <3>1
    <3> QED
      BY <1>11, <3>2
  <2>2. \A k \in 1 .. n : r[k] \in notes
    BY <1>2, <1>11, <1>13
  <2> QED
    BY <1>6, <2>1, <2>2
<1>15. ASSUME NEW k \in DOMAIN r, NEW i \in notes, leaf <= i, i < r[k]
       PROVE  \E m \in 1 .. k - 1 : r[m] = i
  <2>1. i \in found /\ i \in Nat /\ k \in 1 .. n /\ r[k] \in found
    BY <1>2, <1>11, <1>13, <1>15
  <2> DEFINE m == Rank(B, found, i) + 1
  <2>2. Rank(B, found, i) \in Nat /\ Rank(B, found, i) < k - 1
    <3>1. <<i, r[k]>> \in B /\ Rank(B, found, r[k]) = k - 1
      BY <1>4, <1>13, <1>15, <2>1
    <3>2. Rank(B, found, i) \in Nat /\ Rank(B, found, i) < Rank(B, found, r[k])
      BY <1>3, <1>8, <2>1, <3>1, RankOrders
    <3> QED
      BY <3>1, <3>2
  <2>3. m \in 1 .. k - 1 /\ m \in DOMAIN r
    BY <1>6, <1>11, <2>1, <2>2
  <2>4. r[m] \in found /\ Rank(B, found, r[m]) = Rank(B, found, i)
    BY <1>13, <2>2, <2>3
  <2>5. r[m] = i
    <3>1. ~(Rank(B, found, i) < Rank(B, found, r[m])) /\ ~(Rank(B, found, r[m]) < Rank(B, found, i))
      BY <2>2, <2>4
    <3>2. <<i, r[m]>> \notin B /\ <<r[m], i>> \notin B
      BY <1>3, <1>8, <2>1, <2>4, <3>1, RankOrders
    <3> HIDE DEF m
    <3> QED
      BY <1>8, <2>1, <2>4, <3>2 DEF Orders
  <2> QED
    BY <2>3, <2>5
<1>16. \A k \in DOMAIN r : r[k] >= leaf
  BY <1>2, <1>13
<1> QED
  BY <1>14, <1>15, <1>16 DEF r

\* The loop of a sync stops at an entry to decrypt, and passes none before it.
LEMMA FirstToDecryptIsFirst ==
    ASSUME NEW S, NEW entries \in Seq(S), NEW known
    PROVE  LET k == FirstToDecrypt(entries, known)
           IN  /\ k \in 1 .. Len(entries) + 1
               /\ k \in DOMAIN entries => NeedsDecryption(entries[k], known)
               /\ \A j \in DOMAIN entries : j < k => ~NeedsDecryption(entries[j], known)
<1> DEFINE todo == {k \in DOMAIN entries : NeedsDecryption(entries[k], known)}
           k == FirstToDecrypt(entries, known)
<1>1. DOMAIN entries = 1 .. Len(entries) /\ Len(entries) \in Nat
  OBVIOUS
<1>2. /\ todo \subseteq DOMAIN entries
      /\ \A j \in DOMAIN entries : j \in todo <=> NeedsDecryption(entries[j], known)
  OBVIOUS
<1>3. k = IF todo = {} THEN Len(entries) + 1
          ELSE CHOOSE j \in todo : \A m \in todo : j <= m
  BY DEF FirstToDecrypt
<1> HIDE DEF todo, k
<1>4. CASE todo = {}
  BY <1>1, <1>2, <1>3, <1>4 DEF k
<1>5. CASE todo # {}
  <2>1. todo \subseteq Nat
    BY <1>1, <1>2
  <2>2. k \in todo /\ \A m \in todo : k <= m
    BY <1>3, <1>5, <2>1, LeastElement
  <2>3. k \in 1 .. Len(entries)
    BY <1>1, <1>2, <2>2
  <2>4. \A j \in DOMAIN entries : j < k => j \notin todo
    BY <1>1, <2>2, <2>3
  <2> QED
    BY <1>1, <1>2, <2>2, <2>3, <2>4 DEF k
<1> QED
  BY <1>4, <1>5

-----------------------------------------------------------------------------
(* Typed wallets.                                                          *)

LEMMA WalletFields ==
    ASSUME NEW w \in Wallets
    PROVE  /\ w.key = Key /\ w.notes \in Seq(WalletNotes)
           /\ w.nextBlinding \in Nat /\ w.lastSyncedLeaf \in Int
           /\ DOMAIN w.notes = 1 .. Len(w.notes) /\ Len(w.notes) \in Nat
           /\ \A i \in DOMAIN w.notes : w.notes[i] \in WalletNotes
<1>1. w.key = Key /\ w.notes \in Seq(WalletNotes) /\ w.nextBlinding \in Nat
      /\ w.lastSyncedLeaf \in Int
  BY DEF Wallets, WalletNotes
<1> QED
  BY <1>1

LEMMA NoteFields ==
    ASSUME NEW n \in WalletNotes
    PROVE  /\ n.owner = Key /\ n.value \in Nat /\ n.blinding \in Blindings
           /\ Commitment(n) = <<Key, n.value, n.blinding>>
           /\ Commitment(n) \in NoteCommitments
  BY DEF WalletNotes, Commitment, NoteCommitments, Owners

LEMMA CommitmentsTyped ==
    ASSUME NEW w \in Wallets
    PROVE  Commitments(w) \subseteq NoteCommitments /\ Taken(w) \subseteq Commitments(w)
  BY WalletFields, NoteFields DEF Commitments, Taken

LEMMA NextBlindingTyped ==
    ASSUME NEW w \in Wallets
    PROVE  Blinding(w) = <<Key, w.nextBlinding>> /\ Blinding(w) \in Blindings
  BY WalletFields DEF Blinding, Blindings, Owners

\* v is w with flags set, blindings taken, and perhaps more notes and leaves seen.
Extends(w, v) ==
    /\ v \in Wallets
    /\ v.nextBlinding >= w.nextBlinding /\ v.lastSyncedLeaf >= w.lastSyncedLeaf
    /\ \A i \in DOMAIN w.notes :
         /\ i \in DOMAIN v.notes
         /\ Commitment(v.notes[i]) = Commitment(w.notes[i])
         /\ IsTaken(w.notes[i]) => IsTaken(v.notes[i])

\* The same without the notes and leaves.
Keeps(w, v) ==
    /\ Extends(w, v)
    /\ v.lastSyncedLeaf = w.lastSyncedLeaf /\ DOMAIN v.notes = DOMAIN w.notes

LEMMA KeepsItself ==
    ASSUME NEW w \in Wallets
    PROVE  Keeps(w, w)
  BY WalletFields DEF Keeps, Extends

LEMMA KeepsThen ==
    ASSUME NEW u \in Wallets, NEW v, NEW w, Keeps(u, v), Keeps(v, w)
    PROVE  Keeps(u, w)
<1>1. \A x \in {u, v, w} : x.nextBlinding \in Nat /\ x.lastSyncedLeaf \in Int
  BY WalletFields DEF Keeps, Extends
<1> QED
  BY <1>1 DEF Keeps, Extends

LEMMA BlindingTakenKeeps ==
    ASSUME NEW w \in Wallets
    PROVE  /\ Keeps(w, BlindingTaken(w))
           /\ BlindingTaken(w).nextBlinding = w.nextBlinding + 1
           /\ BlindingTaken(w).notes = w.notes
<1> DEFINE v == BlindingTaken(w)
<1>1. /\ v \in Wallets /\ v.notes = w.notes /\ v.lastSyncedLeaf = w.lastSyncedLeaf
      /\ v.nextBlinding = w.nextBlinding + 1
  BY DEF BlindingTaken, Wallets
<1>2. w.nextBlinding \in Nat /\ w.lastSyncedLeaf \in Int
  BY WalletFields
<1> HIDE DEF v
<1>3. Keeps(w, v)
  BY <1>1, <1>2 DEF Keeps, Extends
<1> QED
  BY <1>1, <1>3 DEF v

\* The same notes but for their flags.
LEMMA FlagsKeep ==
    ASSUME NEW w \in Wallets, NEW f, NEW v, v = [w EXCEPT !.notes = f],
           f = [i \in DOMAIN w.notes |-> f[i]],
           \A i \in DOMAIN w.notes :
             /\ f[i] \in WalletNotes /\ Commitment(f[i]) = Commitment(w.notes[i])
             /\ IsTaken(w.notes[i]) => IsTaken(f[i])
    PROVE  Keeps(w, v) /\ v.notes = f /\ v.nextBlinding = w.nextBlinding
<1>1. /\ DOMAIN w.notes = 1 .. Len(w.notes) /\ Len(w.notes) \in Nat
      /\ w.nextBlinding \in Nat /\ w.lastSyncedLeaf \in Int
  BY WalletFields
<1>2. f \in [1 .. Len(w.notes) -> WalletNotes]
  BY <1>1
<1>3. f \in Seq(WalletNotes)
  BY <1>1, <1>2
<1>4. /\ v \in Wallets /\ v.notes = f /\ v.lastSyncedLeaf = w.lastSyncedLeaf
      /\ v.nextBlinding = w.nextBlinding
  BY <1>3 DEF Wallets, WalletNotes
<1>5. DOMAIN f = DOMAIN w.notes
  BY <1>1, <1>2
<1> QED
  BY <1>1, <1>4, <1>5 DEF Keeps, Extends

LEMMA FlagsTyped ==
    ASSUME NEW n \in WalletNotes
    PROVE  LET l == [n EXCEPT !.pending = TRUE]
               m == [n EXCEPT !.spent = TRUE, !.pending = FALSE]
           IN  /\ l \in WalletNotes /\ Commitment(l) = Commitment(n) /\ IsTaken(l)
               /\ m \in WalletNotes /\ Commitment(m) = Commitment(n) /\ IsTaken(m)
  BY DEF WalletNotes, Commitment, IsTaken

LEMMA LockKeeps ==
    ASSUME NEW w \in Wallets, NEW selected
    PROVE  /\ Keeps(w, Lock(w, selected))
           /\ Lock(w, selected).nextBlinding = w.nextBlinding
           /\ \A i \in Positions(selected) \cap DOMAIN w.notes :
                IsTaken(Lock(w, selected).notes[i])
<1> DEFINE f == [i \in DOMAIN w.notes |->
                   IF i \in Positions(selected) THEN [w.notes[i] EXCEPT !.pending = TRUE]
                   ELSE w.notes[i]]
<1>1. Lock(w, selected) = [w EXCEPT !.notes = f]
  BY DEF Lock
<1>2. ASSUME NEW i \in DOMAIN w.notes
      PROVE  /\ f[i] \in WalletNotes /\ Commitment(f[i]) = Commitment(w.notes[i])
             /\ IsTaken(w.notes[i]) => IsTaken(f[i])
             /\ i \in Positions(selected) => IsTaken(f[i])
  <2>1. w.notes[i] \in WalletNotes
    BY WalletFields
  <2>2. CASE i \in Positions(selected)
    <3>1. f[i] = [w.notes[i] EXCEPT !.pending = TRUE]
      BY <2>2
    <3> HIDE DEF f
    <3> QED
      BY <2>1, <3>1, FlagsTyped
  <2>3. CASE i \notin Positions(selected)
    BY <2>1, <2>3
  <2> QED
    BY <2>2, <2>3
<1>3. f = [i \in DOMAIN w.notes |-> f[i]]
  OBVIOUS
<1> HIDE DEF f
<1>4. /\ Keeps(w, Lock(w, selected)) /\ Lock(w, selected).notes = f
      /\ Lock(w, selected).nextBlinding = w.nextBlinding
  BY <1>1, <1>2, <1>3, FlagsKeep
<1> QED
  BY <1>2, <1>4

LEMMA MarkSpentKeeps ==
    ASSUME NEW w \in Wallets, NEW M
    PROVE  Keeps(w, MarkSpent(w, M))
<1> DEFINE f == [i \in DOMAIN w.notes |->
                   IF Commitment(w.notes[i]) \in M
                   THEN [w.notes[i] EXCEPT !.spent = TRUE, !.pending = FALSE]
                   ELSE w.notes[i]]
<1>1. MarkSpent(w, M) = [w EXCEPT !.notes = f]
  BY DEF MarkSpent
<1>2. ASSUME NEW i \in DOMAIN w.notes
      PROVE  /\ f[i] \in WalletNotes /\ Commitment(f[i]) = Commitment(w.notes[i])
             /\ IsTaken(w.notes[i]) => IsTaken(f[i])
  <2>1. w.notes[i] \in WalletNotes
    BY WalletFields
  <2>2. CASE Commitment(w.notes[i]) \in M
    <3>1. f[i] = [w.notes[i] EXCEPT !.spent = TRUE, !.pending = FALSE]
      BY <2>2
    <3> HIDE DEF f
    <3> QED
      BY <2>1, <3>1, FlagsTyped
  <2>3. CASE Commitment(w.notes[i]) \notin M
    BY <2>1, <2>3
  <2> QED
    BY <2>2, <2>3
<1>3. f = [i \in DOMAIN w.notes |-> f[i]]
  OBVIOUS
<1> HIDE DEF f
<1> QED
  BY <1>1, <1>2, <1>3, FlagsKeep

LEMMA OwnNoteTyped ==
    ASSUME NEW w \in Wallets, NEW value \in Nat, NEW blinding \in Blindings
    PROVE  LET n == OwnNote(w, value, blinding)
           IN  /\ n \in WalletNotes /\ n.blinding = blinding
               /\ Commitment(n) = <<Key, value, blinding>>
  BY WalletFields DEF OwnNote, WalletNotes, Commitment

LEMMA WithNoteTyped ==
    ASSUME NEW w \in Wallets, NEW n \in WalletNotes
    PROVE  LET v == WithNote(w, n)
           IN  /\ v \in Wallets
               /\ v.nextBlinding = w.nextBlinding /\ v.lastSyncedLeaf = w.lastSyncedLeaf
               /\ DOMAIN v.notes = DOMAIN w.notes \cup {Len(w.notes) + 1}
               /\ Len(w.notes) + 1 \notin DOMAIN w.notes
               /\ \A i \in DOMAIN w.notes : v.notes[i] = w.notes[i]
               /\ v.notes[Len(w.notes) + 1] = n
<1> DEFINE f == Append(w.notes, n)
           v == WithNote(w, n)
<1>1. /\ w.notes \in Seq(WalletNotes) /\ DOMAIN w.notes = 1 .. Len(w.notes)
      /\ Len(w.notes) \in Nat
  BY WalletFields
<1>2. /\ f \in Seq(WalletNotes) /\ Len(f) = Len(w.notes) + 1
      /\ \A i \in 1 .. Len(w.notes) : f[i] = w.notes[i]
      /\ f[Len(w.notes) + 1] = n
  BY <1>1, AppendProperties
<1>3. v = [w EXCEPT !.notes = f]
  BY DEF WithNote
<1>4. DOMAIN f = 1 .. Len(w.notes) + 1
  BY <1>1, <1>2
<1> HIDE DEF f, v
<1>5. /\ v \in Wallets /\ v.notes = f /\ v.nextBlinding = w.nextBlinding
      /\ v.lastSyncedLeaf = w.lastSyncedLeaf
  BY <1>2, <1>3 DEF Wallets, WalletNotes
<1>6. 1 .. Len(w.notes) + 1 = DOMAIN w.notes \cup {Len(w.notes) + 1}
      /\ Len(w.notes) + 1 \notin DOMAIN w.notes
  BY <1>1
<1> QED
  BY <1>1, <1>2, <1>4, <1>5, <1>6 DEF v

LEMMA WithNoteExtends ==
    ASSUME NEW w \in Wallets, NEW n \in WalletNotes
    PROVE  Extends(w, WithNote(w, n))
<1> DEFINE v == WithNote(w, n)
<1>1. /\ v \in Wallets
      /\ v.nextBlinding = w.nextBlinding /\ v.lastSyncedLeaf = w.lastSyncedLeaf
      /\ \A i \in DOMAIN w.notes : i \in DOMAIN v.notes /\ v.notes[i] = w.notes[i]
  BY WithNoteTyped
<1>2. w.nextBlinding \in Nat /\ w.lastSyncedLeaf \in Int
  BY WalletFields
<1> HIDE DEF v
<1>3. Extends(w, v)
  BY <1>1, <1>2 DEF Extends
<1> QED
  BY <1>3 DEF v

LEMMA WatermarkedTyped ==
    ASSUME NEW w \in Wallets, NEW entries \in Seq(Entries), NEW k \in 0 .. Len(entries)
    PROVE  LET v == Watermarked(w, entries, k)
               leaf == IF k = 0 THEN -1 ELSE entries[k].leafIndex
           IN  /\ v \in Wallets /\ v.notes = w.notes /\ v.nextBlinding = w.nextBlinding
               /\ v.lastSyncedLeaf = IF leaf > w.lastSyncedLeaf THEN leaf
                                     ELSE w.lastSyncedLeaf
<1> DEFINE leaf == IF k = 0 THEN -1 ELSE entries[k].leafIndex
           v == Watermarked(w, entries, k)
<1>1. leaf \in Int
  <2>1. CASE k = 0
    BY <2>1
  <2>2. CASE k # 0
    <3>1. entries[k] \in Entries
      BY <2>2
    <3> QED
      BY <2>2, <3>1 DEF Entries
  <2> QED
    BY <2>1, <2>2
<1>2. v = [w EXCEPT !.lastSyncedLeaf = IF leaf > @ THEN leaf ELSE @]
  BY DEF Watermarked
<1> HIDE DEF leaf, v
<1>3. /\ v \in Wallets /\ v.notes = w.notes /\ v.nextBlinding = w.nextBlinding
      /\ v.lastSyncedLeaf = IF leaf > w.lastSyncedLeaf THEN leaf ELSE w.lastSyncedLeaf
  BY <1>1, <1>2 DEF Wallets
<1> QED
  BY <1>3 DEF leaf, v

\* What selectNotes() returns: one or two notes that are neither spent nor locked.
LEMMA SelectionTyped ==
    ASSUME NEW w \in Wallets, NEW a, NEW s \in Selections(w, a)
    PROVE  /\ s \in Seq(Nat) /\ Len(s) \in {1, 2} /\ s # <<>>
           /\ \A k \in DOMAIN s : s[k] \in DOMAIN w.notes
<1>1. \/ \E i \in Unspent(w) : s = <<i>>
      \/ \E i, j \in Unspent(w) : s = <<i, j>>
  BY DEF Selections
<1>2. Unspent(w) \subseteq DOMAIN w.notes /\ DOMAIN w.notes \subseteq Nat
  BY WalletFields DEF Unspent
<1>3. CASE \E i \in Unspent(w) : s = <<i>>
  BY <1>2, <1>3
<1>4. CASE \E i, j \in Unspent(w) : s = <<i, j>>
  <2>1. PICK i \in Unspent(w), j \in Unspent(w) : s = <<i, j>>
    BY <1>4
  <2>2. i \in Nat /\ j \in Nat /\ i \in DOMAIN w.notes /\ j \in DOMAIN w.notes
    BY <1>2
  <2>3. s \in Seq(Nat) /\ Len(s) = 2 /\ s[1] = i /\ s[2] = j
    BY <2>1, <2>2
  <2>4. \A k \in DOMAIN s : k = 1 \/ k = 2
    BY <2>3
  <2> QED
    BY <2>2, <2>3, <2>4
<1> QED
  BY <1>1, <1>3, <1>4

LEMMA ChangeTyped ==
    ASSUME NEW w \in Wallets, NEW s \in Seq(Nat), Len(s) \in {1, 2}, NEW a \in Nat,
           \A k \in DOMAIN s : s[k] \in DOMAIN w.notes
    PROVE  /\ Change(w, s, a) \in Int
           /\ \A v : Extends(w, v) => Change(v, s, a) = Change(w, s, a)
<1>1. 1 \in DOMAIN s /\ (Len(s) = 2 => 2 \in DOMAIN s)
  OBVIOUS
<1>2. \A i \in DOMAIN w.notes : w.notes[i].value \in Nat
  BY WalletFields, NoteFields
<1>3. Change(w, s, a) \in Int
  BY SMTT(20), <1>1, <1>2 DEF Change
<1>4. ASSUME NEW v, Extends(w, v)
      PROVE  \A i \in DOMAIN w.notes : v.notes[i].value = w.notes[i].value
  BY <1>4, WalletFields, NoteFields DEF Extends, Commitment
<1>5. ASSUME NEW v, Extends(w, v) PROVE Change(v, s, a) = Change(w, s, a)
  BY <1>1, <1>4, <1>5 DEF Change
<1> QED
  BY <1>3, <1>5

-----------------------------------------------------------------------------
(* Types, and what a call that stands somewhere has made so far.           *)

CallShape(c) ==
    /\ step[c] = "idle" => kind[c] = "none"
    /\ step[c] = "deriving" =>
         kind[c] = "deposit" /\ outputs[c] = <<<<Key, total[c], outputs[c][1][3]>>>>
    /\ step[c] = "hashing" => kind[c] = "deposit"
    /\ step[c] \in {"preparing", "proving"} => kind[c] \in Spends
    /\ step[c] = "preparing" =>
         Len(inputs[c]) \in {1, 2} /\ Change(wallet, inputs[c], total[c]) > 0
    /\ step[c] = "sending" => candidates[c] # <<>>
    /\ step[c] \in {"fetching", "decrypting"} => kind[c] = "sync"
    /\ step[c] = "decrypting" => body[c] # <<>>

CallInv ==
    /\ \A c \in Calls : CallShape(c)
    /\ \A s \in sent : step[s[1]] \notin {"idle", "preparing"}

\* Ciphertexts are by others, who know no blinding of the wallet's own.
LeavesInv ==
    \A i \in DOMAIN leaves : leaves[i].to # "none" =>
        leaves[i].opens[1] = leaves[i].to /\ leaves[i].opens[3][1] = "sender"

\* The indexer has the log up to a point, and replicas have parts of that.
IndexInv ==
    /\ \E n \in 0 .. Len(leaves) : primary = 0 .. n - 1
    /\ \A i \in ReplicaIds : replica[i] \subseteq primary

TypedInv == TypeOK /\ CoinInv /\ StoreInv /\ CallInv /\ LeavesInv /\ IndexInv

CallTypes ==
    /\ kind \in [Calls -> Methods \cup {"none"}] /\ step \in [Calls -> Steps]
    /\ total \in [Calls -> Nat] /\ inputs \in [Calls -> Seq(Nat)]
    /\ spends \in [Calls -> Seq(NoteCommitments)]
    /\ outputs \in [Calls -> Seq(NoteCommitments)]
    /\ candidates \in [Calls -> Seq(Endpoints)]
    /\ after \in [Calls -> Int] /\ body \in [Calls -> Seq(Entries)]
    /\ existing \in [Calls -> SUBSET NoteCommitments]

\* A step of c leaves the other calls where they are.
Alone(c) ==
    \A d \in Calls \ {c} :
        /\ kind'[d] = kind[d] /\ step'[d] = step[d] /\ total'[d] = total[d]
        /\ inputs'[d] = inputs[d] /\ spends'[d] = spends[d] /\ outputs'[d] = outputs[d]
        /\ candidates'[d] = candidates[d] /\ after'[d] = after[d]
        /\ body'[d] = body[d] /\ existing'[d] = existing[d]

LEMMA CallsAlone ==
    ASSUME TypeOK, NEW c \in Calls, Call(c) \/ Proceed(c)
    PROVE  Alone(c)
<1>1. CallTypes
  BY DEF TypeOK, CallTypes
<1>2. CASE GetPoolStatus(c) \/ FetchIncomingNotes(c)
  BY <1>1, <1>2 DEF CallTypes, GetPoolStatus, FetchIncomingNotes, Begin, spendVars,
                    syncVars, Alone
<1>3. ASSUME NEW a \in Amounts, Deposit(c, a) \/ Insufficient(c, a)
      PROVE  Alone(c)
  BY <1>1, <1>3 DEF CallTypes, Deposit, Insufficient, Begin, spendVars, syncVars, Alone
<1>4. ASSUME NEW a \in Amounts, NEW s \in Selections(wallet, a),
             Withdraw(c, a, s) \/ \E r \in Others : Transfer(c, a, r, s)
      PROVE  Alone(c)
  BY SMTT(20), <1>1, <1>4 DEF CallTypes, Withdraw, Transfer, Select, Begin, syncVars, Alone
<1>5. CASE DepositNote(c) \/ SendDeposit(c) \/ PrepareChange(c) \/ ProofFails(c)
  BY <1>1, <1>5 DEF CallTypes, DepositNote, SendDeposit, PrepareChange, ProofFails, Send,
                    spendVars, syncVars, Alone
<1>6. CASE SubmitTransfer(c) \/ SubmitWithdraw(c) \/ BuildFails(c)
  BY <1>1, <1>6 DEF CallTypes, SubmitTransfer, SubmitWithdraw, BuildFails, Send,
                    spendVars, syncVars, Alone
<1>7. CASE Answer(c) \/ Refusal(c) \/ FetchFails(c)
  BY <1>1, <1>7 DEF CallTypes, Answer, Refusal, FetchFails, Send, spendVars, syncVars, Alone
<1>8. CASE Fetched(c) \/ FetchedFaulty(c) \/ Decrypted(c)
  <2>1. \E w, entries, known : Continue(c, w, entries, known)
    BY <1>8 DEF Fetched, FetchedFaulty, Receive, Decrypted
  <2>2. UNCHANGED <<kind, spendVars, after>>
    BY <1>8 DEF Fetched, FetchedFaulty, Decrypted
  <2> QED
    BY SMTT(20), <1>1, <2>1, <2>2 DEF CallTypes, Continue, spendVars, Alone
<1> QED
  BY <1>2, <1>3, <1>4, <1>5, <1>6, <1>7, <1>8 DEF Call, Proceed

\* A call keeps its shape while others move.
LEMMA OthersShape ==
    ASSUME TypedInv, NEW c \in Calls, Alone(c), Extends(wallet, wallet'),
           NEW d \in Calls, d # c
    PROVE  CallShape(d)'
<1>1. CallShape(d)
  BY DEF TypedInv, CallInv
<1>2. ASSUME step[d] = "preparing"
      PROVE  Change(wallet', inputs[d], total[d]) = Change(wallet, inputs[d], total[d])
  <2>1. /\ inputs[d] \in Seq(Nat) /\ total[d] \in Nat /\ wallet \in Wallets
        /\ Len(inputs[d]) \in {1, 2}
    BY <1>1, <1>2 DEF TypedInv, TypeOK, CallShape
  <2>2. \A k \in DOMAIN inputs[d] : inputs[d][k] \in DOMAIN wallet.notes
    BY DEF TypedInv, CoinInv, Positions
  <2> QED
    BY <2>1, <2>2, ChangeTyped
<1> QED
  BY <1>1, <1>2 DEF Alone, CallShape

\* What a step of c does, as far as the types go.
Effect(c) ==
    /\ CallTypes' /\ CallShape(c)'
    /\ Extends(wallet, wallet')
    /\ step'[c] # "idle" /\ (step'[c] = "preparing" => step[c] = "idle")
    /\ sent \subseteq sent' /\ sent' \subseteq sent \cup ({c} \X Endpoints)
    /\ sent' = sent \/ step'[c] = "sending"
    /\ UNCHANGED <<disk, landed, leaves, nullifiers, forgotten>>

LEMMA TypedFacts ==
    ASSUME TypedInv, NEW c \in Calls
    PROVE  /\ CallTypes /\ CallShape(c) /\ wallet \in Wallets
           /\ cooling \in [Endpoints -> Nat]
           /\ \A k \in DOMAIN inputs[c] : inputs[c][k] \in DOMAIN wallet.notes
           /\ Keeps(wallet, wallet) /\ Extends(wallet, wallet)
<1>1. CallTypes /\ CallShape(c) /\ wallet \in Wallets
  BY DEF TypedInv, TypeOK, CallTypes, CallInv
<1>2. \A k \in DOMAIN inputs[c] : inputs[c][k] \in DOMAIN wallet.notes
  BY DEF TypedInv, CoinInv, Positions
<1>3. cooling \in [Endpoints -> Nat]
  <2>1. Cooldown \in Nat /\ cooling \in [Endpoints -> 0 .. Cooldown]
    BY FailoverAssumption DEF TypedInv, TypeOK
  <2>2. 0 .. Cooldown \subseteq Nat
    BY <2>1
  <2> QED
    BY <2>1, <2>2
<1> QED
  BY <1>1, <1>2, <1>3, KeepsItself DEF Keeps

LEMMA SendEffect ==
    ASSUME TypedInv, NEW c \in Calls, NEW q \in Seq(Endpoints), q # <<>>, Send(c, q),
           Extends(wallet, wallet'),
           UNCHANGED <<disk, kind, total, inputs, spends, outputs, syncVars, landed, leaves,
                       nullifiers, forgotten>>
    PROVE  Effect(c)
<1>1. CallTypes /\ q[1] \in Endpoints
  BY TypedFacts
<1>2. CallTypes' /\ step'[c] = "sending" /\ candidates'[c] = q
  BY <1>1 DEF CallTypes, Send, syncVars, Steps
<1>3. CallShape(c)'
  BY <1>2 DEF CallShape, Ended
<1>4. sent' = sent \/ sent' = sent \cup {<<c, q[1]>>}
  BY DEF Send
<1> QED
  BY <1>1, <1>2, <1>3, <1>4 DEF Effect

LEMMA ReadsEffect ==
    ASSUME TypedInv, NEW c \in Calls, GetPoolStatus(c) \/ FetchIncomingNotes(c)
    PROVE  Effect(c) /\ Keeps(wallet, wallet')
<1>1. /\ CallTypes /\ wallet \in Wallets /\ Keeps(wallet, wallet)
      /\ Candidates \in Seq(Endpoints) /\ Candidates # <<>>
  BY TypedFacts, CandidatesTyped
<1>2. wallet.lastSyncedLeaf \in Int
  BY <1>1, WalletFields
<1>3. UNCHANGED <<wallet, disk, sent, landed, leaves, nullifiers, forgotten>>
  BY DEF GetPoolStatus, FetchIncomingNotes, walletVars, chainVars, historyVars
<1>4. CASE GetPoolStatus(c)
  <2>1. CallTypes' /\ step'[c] = "sending" /\ candidates'[c] = Candidates
    BY <1>1, <1>4 DEF CallTypes, GetPoolStatus, Begin, syncVars, Steps, Methods
  <2> QED
    BY <1>1, <1>3, <2>1 DEF Effect, CallShape, Keeps
<1>5. CASE FetchIncomingNotes(c)
  <2>1. CallTypes' /\ step'[c] = "fetching" /\ kind'[c] = "sync"
    BY <1>1, <1>2, <1>5
       DEF CallTypes, FetchIncomingNotes, Begin, spendVars, Steps, Methods
  <2> QED
    BY <1>1, <1>3, <2>1 DEF Effect, CallShape, Keeps
<1> QED
  BY <1>4, <1>5

LEMMA KeyTyped ==
    /\ Key \in Owners /\ \A r \in Others : r \in Owners
    /\ \A o \in Owners, v \in Nat, b \in Blindings : <<o, v, b>> \in NoteCommitments
    /\ \A n \in NoteCommitments : <<n>> \in Seq(NoteCommitments)
    /\ \A a \in Amounts : a \in Nat
<1>1. /\ Key \in Owners /\ \A r \in Others : r \in Owners
      /\ \A o \in Owners, v \in Nat, b \in Blindings : <<o, v, b>> \in NoteCommitments
  BY DEF Owners, NoteCommitments
<1>2. \A n \in NoteCommitments : <<n>> \in Seq(NoteCommitments)
  OBVIOUS
<1>3. \A a \in Amounts : a \in Nat
  BY ClientAssumption
<1> QED
  BY <1>1, <1>2, <1>3

LEMMA DepositEffect ==
    ASSUME TypedInv, NEW c \in Calls, NEW a \in Amounts, Deposit(c, a)
    PROVE  Effect(c) /\ Keeps(wallet, wallet')
<1> DEFINE o == <<Key, a, Blinding(wallet)>>
<1>1. CallTypes /\ wallet \in Wallets /\ a \in Nat
  BY TypedFacts, KeyTyped
<1>2. o \in NoteCommitments /\ <<o>> \in Seq(NoteCommitments)
  BY <1>1, NextBlindingTyped, KeyTyped
<1>3. Keeps(wallet, wallet')
  BY <1>1, BlindingTakenKeeps DEF Deposit
<1>4. UNCHANGED <<disk, sent, landed, leaves, nullifiers, forgotten>>
  BY DEF Deposit, chainVars, historyVars
<1>5. o = <<Key, a, o[3]>>
  OBVIOUS
<1>6. /\ outputs' = [outputs EXCEPT ![c] = <<o>>] /\ total' = [total EXCEPT ![c] = a]
      /\ kind' = [kind EXCEPT ![c] = "deposit"] /\ step' = [step EXCEPT ![c] = "deriving"]
      /\ UNCHANGED <<inputs, spends, candidates, syncVars>>
  BY DEF Deposit, Begin
<1> HIDE DEF o
<1>7. CallTypes'
  BY <1>1, <1>2, <1>6 DEF CallTypes, syncVars, Steps, Methods
<1>8. /\ step'[c] = "deriving" /\ kind'[c] = "deposit"
      /\ outputs'[c] = <<<<Key, total'[c], outputs'[c][1][3]>>>>
  BY <1>1, <1>5, <1>6 DEF CallTypes
<1> QED
  BY <1>3, <1>4, <1>7, <1>8 DEF Effect, CallShape, Keeps

LEMMA SelectEffect ==
    ASSUME TypedInv, NEW c \in Calls, NEW a \in Amounts,
           NEW s \in Selections(wallet, a), Select(c, a, s),
           wallet' \in {Lock(wallet, s), BlindingTaken(Lock(wallet, s))},
           NEW m \in Spends, NEW next \in {"preparing", "proving"}, Begin(c, m, next),
           next = "preparing" => Change(wallet, s, a) > 0,
           NEW o \in Seq(NoteCommitments), outputs' = [outputs EXCEPT ![c] = o]
    PROVE  /\ Effect(c) /\ Keeps(wallet, wallet')
           /\ \A k \in DOMAIN s : IsTaken(wallet'.notes[s[k]])
<1>1. CallTypes /\ wallet \in Wallets /\ a \in Nat
  BY TypedFacts, KeyTyped
<1>2. /\ s \in Seq(Nat) /\ Len(s) \in {1, 2}
      /\ \A k \in DOMAIN s : s[k] \in DOMAIN wallet.notes
  BY <1>1, SelectionTyped
<1> DEFINE w == Lock(wallet, s)
           p == [k \in DOMAIN s |-> Commitment(wallet.notes[s[k]])]
<1>3. /\ Keeps(wallet, w)
      /\ \A k \in DOMAIN s : IsTaken(w.notes[s[k]])
  BY <1>1, <1>2, LockKeeps DEF Positions
<1>4. p \in Seq(NoteCommitments)
  <2>1. \A k \in DOMAIN s : Commitment(wallet.notes[s[k]]) \in NoteCommitments
    BY <1>1, <1>2, WalletFields, NoteFields
  <2>2. DOMAIN s = 1 .. Len(s) /\ Len(s) \in Nat
    BY <1>2
  <2> QED
    BY <2>1, <2>2
<1> HIDE DEF w, p
<1>5. Keeps(wallet, wallet') /\ wallet'.notes = w.notes
  <2>1. w \in Wallets
    BY <1>3 DEF Keeps, Extends
  <2>2. wallet' \in {w, BlindingTaken(w)}
    BY DEF w
  <2>3. Keeps(w, wallet') /\ wallet'.notes = w.notes
    BY <2>1, <2>2, BlindingTakenKeeps, KeepsItself
  <2> QED
    BY <1>1, <1>3, <2>3, KeepsThen
<1>6. /\ total' = [total EXCEPT ![c] = a] /\ inputs' = [inputs EXCEPT ![c] = s]
      /\ spends' = [spends EXCEPT ![c] = p]
      /\ UNCHANGED <<disk, candidates, syncVars, sent, landed, leaves, nullifiers, forgotten>>
  BY DEF Select, p, chainVars, historyVars
<1>7. kind' = [kind EXCEPT ![c] = m] /\ step' = [step EXCEPT ![c] = next] /\ step[c] = "idle"
  BY DEF Begin
<1>8. CallTypes'
  <2>1. m \in Methods /\ next \in Steps
    BY DEF Spends, Methods, Steps
  <2> QED
    BY <1>1, <1>2, <1>4, <1>6, <1>7, <2>1 DEF CallTypes, syncVars
<1>9. /\ step'[c] = next /\ kind'[c] = m /\ inputs'[c] = s /\ total'[c] = a
  BY <1>1, <1>6, <1>7 DEF CallTypes
<1>10. Change(wallet', s, a) = Change(wallet, s, a)
  BY <1>1, <1>2, <1>5, ChangeTyped DEF Keeps
<1>11. CallShape(c)'
  BY <1>2, <1>9, <1>10 DEF CallShape
<1> QED
  BY <1>3, <1>5, <1>6, <1>7, <1>8, <1>9, <1>11 DEF Effect, Keeps

LEMMA SpendEffect ==
    ASSUME TypedInv, NEW c \in Calls, NEW a \in Amounts, NEW s \in Selections(wallet, a),
           Withdraw(c, a, s) \/ \E r \in Others : Transfer(c, a, r, s)
    PROVE  /\ Effect(c) /\ Keeps(wallet, wallet')
           /\ Select(c, a, s) /\ \A k \in DOMAIN s : IsTaken(wallet'.notes[s[k]])
<1> DEFINE change == Change(wallet, s, a)
<1>1. wallet \in Wallets /\ a \in Nat
  BY TypedFacts, KeyTyped
<1>2. change \in Int
  BY <1>1, SelectionTyped, ChangeTyped
<1> HIDE DEF change
<1>3. CASE Withdraw(c, a, s)
  <2> DEFINE o == IF change > 0 THEN <<<<Key, change, Blinding(wallet)>>>> ELSE <<>>
  <2>1. o \in Seq(NoteCommitments)
    <3>1. CASE change > 0
      <4>1. <<Key, change, Blinding(wallet)>> \in NoteCommitments
        BY <1>1, <1>2, <3>1, NextBlindingTyped, KeyTyped
      <4> QED
        BY <3>1, <4>1, KeyTyped
    <3>2. CASE ~(change > 0)
      BY <3>2
    <3> QED
      BY <3>1, <3>2
  <2>2. /\ outputs' = [outputs EXCEPT ![c] = o] /\ Begin(c, "withdraw", "proving")
        /\ Select(c, a, s)
        /\ wallet' \in {Lock(wallet, s), BlindingTaken(Lock(wallet, s))}
    BY <1>3 DEF Withdraw, PrepareWithdraw, change
  <2>3. "withdraw" \in Spends /\ "proving" \in {"preparing", "proving"}
    BY DEF Spends
  <2> HIDE DEF o
  <2> QED
    BY <2>1, <2>2, <2>3, SelectEffect
<1>4. ASSUME NEW r \in Others, Transfer(c, a, r, s)
      PROVE  /\ Effect(c) /\ Keeps(wallet, wallet')
             /\ Select(c, a, s) /\ \A k \in DOMAIN s : IsTaken(wallet'.notes[s[k]])
  <2> DEFINE o == <<<<r, a, Blinding(wallet)>>>>
             next == IF change > 0 THEN "preparing" ELSE "proving"
  <2>1. o \in Seq(NoteCommitments)
    BY <1>1, NextBlindingTyped, KeyTyped
  <2>2. /\ outputs' = [outputs EXCEPT ![c] = o] /\ Begin(c, "transfer", next)
        /\ Select(c, a, s)
        /\ wallet' \in {Lock(wallet, s), BlindingTaken(Lock(wallet, s))}
    BY <1>4 DEF Transfer, PrepareTransfer, change
  <2>3. /\ "transfer" \in Spends /\ next \in {"preparing", "proving"}
        /\ next = "preparing" => Change(wallet, s, a) > 0
    BY DEF Spends, change
  <2> HIDE DEF o, next
  <2> QED
    BY <2>1, <2>2, <2>3, SelectEffect
<1> QED
  BY <1>3, <1>4

LEMMA InsufficientEffect ==
    ASSUME TypedInv, NEW c \in Calls, NEW a \in Amounts, Insufficient(c, a)
    PROVE  Effect(c) /\ Keeps(wallet, wallet')
<1>1. CallTypes /\ Keeps(wallet, wallet) /\ Extends(wallet, wallet)
  BY TypedFacts
<1>2. UNCHANGED <<wallet, disk, sent, landed, leaves, nullifiers, forgotten>>
  BY DEF Insufficient, walletVars, chainVars, historyVars
<1>3. PICK m \in Spends : Begin(c, m, "failed")
  BY DEF Insufficient
<1>4. CallTypes' /\ step'[c] = "failed"
  BY <1>1, <1>3 DEF CallTypes, Insufficient, Begin, spendVars, syncVars, Spends, Methods, Steps
<1> QED
  BY <1>1, <1>2, <1>4 DEF Effect, CallShape

LEMMA DepositNoteEffect ==
    ASSUME TypedInv, NEW c \in Calls, DepositNote(c)
    PROVE  /\ Effect(c)
           /\ LET n == OwnNote(wallet, total[c], outputs[c][1][3])
              IN  n \in WalletNotes /\ Commitment(n) = outputs[c][1]
                  /\ n.blinding = outputs[c][1][3] /\ wallet' = WithNote(wallet, n)
<1> DEFINE n == OwnNote(wallet, total[c], outputs[c][1][3])
<1>1. CallTypes /\ wallet \in Wallets /\ CallShape(c) /\ step[c] = "deriving"
  BY TypedFacts DEF DepositNote
<1>2. /\ outputs[c] \in Seq(NoteCommitments) /\ total[c] \in Nat
      /\ outputs[c] = <<<<Key, total[c], outputs[c][1][3]>>>>
  BY <1>1 DEF CallShape, CallTypes
<1>3. outputs[c][1] \in NoteCommitments /\ outputs[c][1] = <<Key, total[c], outputs[c][1][3]>>
  BY <1>2
<1>4. outputs[c][1][3] \in Blindings
  BY <1>3 DEF NoteCommitments
<1>5. n \in WalletNotes /\ Commitment(n) = outputs[c][1] /\ n.blinding = outputs[c][1][3]
  BY <1>1, <1>2, <1>3, <1>4, OwnNoteTyped
<1>6. wallet' = WithNote(wallet, n)
  BY DEF DepositNote
<1> HIDE DEF n
<1>7. Extends(wallet, wallet')
  BY <1>1, <1>5, <1>6, WithNoteExtends
<1>8. UNCHANGED <<disk, sent, landed, leaves, nullifiers, forgotten>>
  BY DEF DepositNote, chainVars, historyVars
<1>9. CallTypes' /\ step'[c] = "hashing" /\ kind'[c] = "deposit"
  BY <1>1 DEF CallTypes, CallShape, DepositNote, spendVars, syncVars, Steps
<1>10. Effect(c)
  BY <1>7, <1>8, <1>9 DEF Effect, CallShape
<1> QED
  BY <1>5, <1>6, <1>10 DEF n

LEMMA PrepareChangeEffect ==
    ASSUME TypedInv, NEW c \in Calls, PrepareChange(c)
    PROVE  Effect(c) /\ Keeps(wallet, wallet')
<1> DEFINE change == Change(wallet, inputs[c], total[c])
           n == <<Key, change, Blinding(wallet)>>
<1>1. /\ CallTypes /\ wallet \in Wallets /\ CallShape(c) /\ step[c] = "preparing"
      /\ \A k \in DOMAIN inputs[c] : inputs[c][k] \in DOMAIN wallet.notes
  BY TypedFacts DEF PrepareChange
<1>2. /\ outputs[c] \in Seq(NoteCommitments) /\ total[c] \in Nat /\ inputs[c] \in Seq(Nat)
      /\ Len(inputs[c]) \in {1, 2} /\ change > 0
  BY <1>1 DEF CallShape, CallTypes
<1>3. change \in Int
  BY <1>1, <1>2, ChangeTyped
<1> HIDE DEF change
<1>4. n \in NoteCommitments
  <2>1. change \in Nat
    BY <1>2, <1>3
  <2> QED
    BY <1>1, <2>1, NextBlindingTyped, KeyTyped
<1>5. /\ outputs' = [outputs EXCEPT ![c] = Append(outputs[c], n)]
      /\ step' = [step EXCEPT ![c] = "proving"]
      /\ wallet' = BlindingTaken(wallet)
      /\ UNCHANGED <<disk, kind, total, inputs, spends, candidates, syncVars, sent, landed,
                     leaves, nullifiers, forgotten>>
  BY DEF PrepareChange, change, chainVars, historyVars
<1> HIDE DEF n
<1>6. Append(outputs[c], n) \in Seq(NoteCommitments)
  BY <1>2, <1>4
<1>7. CallTypes' /\ step'[c] = "proving" /\ kind'[c] \in Spends
  BY <1>1, <1>5, <1>6 DEF CallTypes, CallShape, syncVars, Steps
<1>8. Keeps(wallet, wallet')
  BY <1>1, <1>5, BlindingTakenKeeps
<1> QED
  BY <1>5, <1>7, <1>8 DEF Effect, CallShape, Keeps

LEMMA SubmitEffect ==
    ASSUME TypedInv, NEW c \in Calls,
           SendDeposit(c) \/ SubmitTransfer(c) \/ SubmitWithdraw(c) \/ BuildFails(c)
    PROVE  Effect(c) /\ Keeps(wallet, wallet')
<1>1. /\ CallTypes /\ wallet \in Wallets /\ Keeps(wallet, wallet)
      /\ Candidates \in Seq(Endpoints) /\ Candidates # <<>>
  BY TypedFacts, CandidatesTyped
<1>2. wallet' = wallet \/ wallet' = MarkSpent(wallet, Shown(c))
  BY DEF SendDeposit, SubmitTransfer, SubmitWithdraw, BuildFails, walletVars
<1>3. Keeps(wallet, wallet')
  BY <1>1, <1>2, MarkSpentKeeps
<1>4. UNCHANGED <<disk, kind, total, inputs, spends, outputs, syncVars, landed, leaves,
                  nullifiers, forgotten>>
  BY DEF SendDeposit, SubmitTransfer, SubmitWithdraw, BuildFails, walletVars, spendVars,
         chainVars, historyVars
<1>5. CASE SendDeposit(c) \/ SubmitTransfer(c) \/ SubmitWithdraw(c)
  <2>1. Send(c, Candidates)
    BY <1>5 DEF SendDeposit, SubmitTransfer, SubmitWithdraw
  <2> QED
    BY <1>1, <1>3, <1>4, <2>1, SendEffect DEF Keeps
<1>6. CASE BuildFails(c)
  <2>1. CallTypes' /\ step'[c] = "failed" /\ sent' = sent
    BY <1>1, <1>6 DEF CallTypes, BuildFails, spendVars, syncVars, chainVars, Steps
  <2> QED
    BY <1>3, <1>4, <2>1 DEF Effect, CallShape, Keeps
<1> QED
  BY <1>5, <1>6

LEMMA TailNotEmpty ==
    ASSUME NEW S, NEW q \in Seq(S), Len(q) > 1
    PROVE  Tail(q) \in Seq(S) /\ Tail(q) # <<>>
<1>1. q # <<>> /\ Len(q) \in Nat
  OBVIOUS
<1>2. Tail(q) \in Seq(S) /\ Len(Tail(q)) = Len(q) - 1
  BY <1>1, HeadTailProperties
<1> DEFINE t == Tail(q)
<1> HIDE DEF t
<1>3. t # <<>>
  <2>1. SUFFICES ASSUME t = <<>> PROVE FALSE
    OBVIOUS
  <2>2. Len(t) = 0
    BY <2>1
  <2>3. \A n \in Nat : n > 1 => n - 1 # 0
    OBVIOUS
  <2>4. Len(q) - 1 # 0
    BY <1>1, <2>3, Zenon
  <2> QED
    BY <1>2, <2>2, <2>4, Zenon DEF t
<1> QED
  BY <1>2, <1>3 DEF t

LEMMA EndsEffect ==
    ASSUME TypedInv, NEW c \in Calls,
           ProofFails(c) \/ Answer(c) \/ Refusal(c) \/ FetchFails(c)
    PROVE  Effect(c) /\ Keeps(wallet, wallet')
<1>1. CallTypes /\ CallShape(c) /\ Keeps(wallet, wallet)
  BY TypedFacts
<1>2. UNCHANGED <<wallet, disk, kind, total, inputs, spends, outputs, syncVars, landed,
                  leaves, nullifiers, forgotten>>
  BY DEF ProofFails, Answer, Refusal, FetchFails, walletVars, spendVars, chainVars,
         historyVars
<1>3. Keeps(wallet, wallet') /\ Extends(wallet, wallet')
  BY <1>1, <1>2 DEF Keeps
<1>4. CASE ProofFails(c) \/ FetchFails(c)
  <2>1. CallTypes' /\ step'[c] = "failed" /\ sent' = sent
    BY <1>1, <1>4 DEF CallTypes, ProofFails, FetchFails, spendVars, syncVars, chainVars, Steps
  <2> QED
    BY <1>2, <1>3, <2>1 DEF Effect, CallShape
<1>5. CASE Answer(c)
  <2>1. /\ step' = [step EXCEPT ![c] = "done"] /\ candidates' = [candidates EXCEPT ![c] = <<>>]
        /\ sent' = sent
    BY <1>5 DEF Answer, chainVars
  <2>2. CallTypes' /\ step'[c] = "done"
    <3>1. <<>> \in Seq(Endpoints)
      OBVIOUS
    <3> QED
      BY <1>1, <1>2, <2>1, <3>1 DEF CallTypes, syncVars, Steps
  <2> QED
    BY <1>2, <1>3, <2>1, <2>2 DEF Effect, CallShape
<1>6. CASE Refusal(c) /\ Len(candidates[c]) > 1
  <2>1. candidates[c] \in Seq(Endpoints) /\ Len(candidates[c]) > 1
    BY <1>1, <1>6 DEF CallTypes
  <2>2. Tail(candidates[c]) \in Seq(Endpoints) /\ Tail(candidates[c]) # <<>>
    BY <2>1, TailNotEmpty
  <2>3. Send(c, Tail(candidates[c]))
    BY <1>6 DEF Refusal
  <2> QED
    BY <1>2, <1>3, <2>2, <2>3, SendEffect
<1>7. CASE Refusal(c) /\ ~(Len(candidates[c]) > 1)
  <2>1. /\ step' = [step EXCEPT ![c] = "failed"]
        /\ candidates' = [candidates EXCEPT ![c] = <<>>] /\ sent' = sent
    BY <1>7 DEF Refusal
  <2>2. CallTypes' /\ step'[c] = "failed"
    <3>1. <<>> \in Seq(Endpoints)
      OBVIOUS
    <3> QED
      BY <1>1, <1>2, <2>1, <3>1 DEF CallTypes, syncVars, Steps
  <2> QED
    BY <1>2, <1>3, <2>1, <2>2 DEF Effect, CallShape
<1> QED
  BY <1>4, <1>5, <1>6, <1>7

LEMMA ExtendsThen ==
    ASSUME NEW u \in Wallets, NEW v, NEW w, Extends(u, v), Extends(v, w)
    PROVE  Extends(u, w)
<1>1. \A x \in {u, v, w} : x.nextBlinding \in Nat /\ x.lastSyncedLeaf \in Int
  BY WalletFields DEF Extends
<1> QED
  BY <1>1 DEF Extends

LEMMA WatermarkedExtends ==
    ASSUME NEW w \in Wallets, NEW entries \in Seq(Entries), NEW k \in 0 .. Len(entries)
    PROVE  Extends(w, Watermarked(w, entries, k))
<1> DEFINE v == Watermarked(w, entries, k)
           leaf == IF k = 0 THEN -1 ELSE entries[k].leafIndex
<1>1. /\ v \in Wallets /\ v.notes = w.notes /\ v.nextBlinding = w.nextBlinding
      /\ v.lastSyncedLeaf = IF leaf > w.lastSyncedLeaf THEN leaf ELSE w.lastSyncedLeaf
  BY WatermarkedTyped
<1> HIDE DEF v, leaf
<1>2. /\ w.nextBlinding \in Nat /\ w.lastSyncedLeaf \in Int
      /\ v.nextBlinding \in Nat /\ v.lastSyncedLeaf \in Int
  BY <1>1, WalletFields
<1>3. v.lastSyncedLeaf >= w.lastSyncedLeaf
  <2>1. CASE leaf > w.lastSyncedLeaf
    <3>1. leaf = v.lastSyncedLeaf
      BY <1>1, <2>1
    <3> QED
      BY <1>2, <2>1, <3>1
  <2>2. CASE ~(leaf > w.lastSyncedLeaf)
    BY <1>1, <1>2, <2>2
  <2> QED
    BY <2>1, <2>2
<1>4. Extends(w, v)
  BY <1>1, <1>2, <1>3 DEF Extends
<1> QED
  BY <1>4 DEF v

\* What is left of a sequence from its k-th element on.
LEMMA RestTyped ==
    ASSUME NEW S, NEW q \in Seq(S), NEW k \in 1 .. Len(q)
    PROVE  LET r == SubSeq(q, k, Len(q))
           IN  /\ r \in Seq(S) /\ r # <<>> /\ Len(r) = Len(q) - k + 1
               /\ \A j \in DOMAIN r :
                    k + j - 1 \in DOMAIN q /\ r[j] = q[k + j - 1]
<1> DEFINE r == SubSeq(q, k, Len(q))
<1>1. /\ r \in Seq(S) /\ Len(r) = Len(q) - k + 1
      /\ \A j \in 1 .. Len(q) - k + 1 : r[j] = q[k + j - 1]
  BY SubSeqProperties
<1>2. Len(q) \in Nat /\ k \in Nat /\ k >= 1 /\ k <= Len(q)
  OBVIOUS
<1> HIDE DEF r
<1>3. DOMAIN r = 1 .. Len(q) - k + 1 /\ DOMAIN q = 1 .. Len(q)
  BY <1>1
<1>4. \A j \in 1 .. Len(q) - k + 1 : k + j - 1 \in 1 .. Len(q)
  BY <1>2
<1>5. r # <<>>
  BY <1>1, <1>2
<1> QED
  BY <1>1, <1>3, <1>4, <1>5 DEF r

-----------------------------------------------------------------------------
(* The loop of a sync.                                                     *)

\* The loop of c, over entries from wallet w, is at the k-th or at the end.
Looped(c, w, entries, known) ==
    \E k \in 0 .. Len(entries) :
        /\ wallet' = Watermarked(w, entries, k)
        /\ \A j \in DOMAIN entries : j < k => ~NeedsDecryption(entries[j], known)
        /\ \/ step'[c] = "done"
           \/ /\ k > 0 /\ step'[c] = "decrypting" /\ existing'[c] = known
              /\ body'[c] = SubSeq(entries, k, Len(entries))
              /\ NeedsDecryption(entries[k], known)

LEMMA ContinueEffect ==
    ASSUME TypedInv, NEW c \in Calls, step[c] \in {"fetching", "decrypting"},
           NEW w \in Wallets, Extends(wallet, w), NEW entries \in Seq(Entries),
           NEW known \in SUBSET NoteCommitments, Continue(c, w, entries, known),
           UNCHANGED <<disk, kind, spendVars, after, chainVars, forgotten>>
    PROVE  Effect(c) /\ Looped(c, w, entries, known)
<1> DEFINE k == FirstToDecrypt(entries, known)
           rest == SubSeq(entries, k, Len(entries))
<1>1. CallTypes /\ CallShape(c) /\ wallet \in Wallets /\ Len(entries) \in Nat
  BY TypedFacts
<1>2. /\ k \in 1 .. Len(entries) + 1
      /\ k \in DOMAIN entries => NeedsDecryption(entries[k], known)
      /\ \A j \in DOMAIN entries : j < k => ~NeedsDecryption(entries[j], known)
  BY FirstToDecryptIsFirst
<1>3. \/ /\ k > Len(entries) /\ wallet' = Watermarked(w, entries, Len(entries))
         /\ step' = [step EXCEPT ![c] = "done"] /\ body' = [body EXCEPT ![c] = <<>>]
         /\ existing' = [existing EXCEPT ![c] = {}]
      \/ /\ ~(k > Len(entries)) /\ wallet' = Watermarked(w, entries, k)
         /\ step' = [step EXCEPT ![c] = "decrypting"]
         /\ body' = [body EXCEPT ![c] = rest]
         /\ existing' = [existing EXCEPT ![c] = known]
  BY DEF Continue
<1> HIDE DEF k, rest
<1>4. kind[c] = "sync" /\ <<>> \in Seq(Entries) /\ {} \in SUBSET NoteCommitments
  BY <1>1 DEF CallShape
<1>5. UNCHANGED <<disk, sent, landed, leaves, nullifiers, forgotten, kind, total, inputs,
                  spends, outputs, candidates, after>>
  BY DEF spendVars, chainVars
<1>6. ASSUME NEW m \in 0 .. Len(entries), wallet' = Watermarked(w, entries, m)
      PROVE  Extends(wallet, wallet')
  <2>1. Extends(w, Watermarked(w, entries, m))
    BY WatermarkedExtends
  <2> QED
    BY <1>1, <1>6, <2>1, ExtendsThen
<1>7. CASE k > Len(entries)
  <2>1. /\ wallet' = Watermarked(w, entries, Len(entries))
        /\ step' = [step EXCEPT ![c] = "done"] /\ body' = [body EXCEPT ![c] = <<>>]
        /\ existing' = [existing EXCEPT ![c] = {}]
    BY <1>3, <1>7
  <2>2. Len(entries) \in 0 .. Len(entries)
    BY <1>1
  <2>3. CallTypes' /\ step'[c] = "done"
    BY <1>1, <1>4, <1>5, <2>1 DEF CallTypes, Steps
  <2>4. Effect(c)
    BY <1>5, <1>6, <2>1, <2>2, <2>3 DEF Effect, CallShape
  <2>5. \A j \in DOMAIN entries : j < Len(entries) => ~NeedsDecryption(entries[j], known)
    BY <1>1, <1>2, <1>7
  <2> QED
    BY <2>1, <2>2, <2>3, <2>4, <2>5 DEF Looped
<1>8. CASE ~(k > Len(entries))
  <2>1. /\ wallet' = Watermarked(w, entries, k)
        /\ step' = [step EXCEPT ![c] = "decrypting"] /\ body' = [body EXCEPT ![c] = rest]
        /\ existing' = [existing EXCEPT ![c] = known]
    BY <1>3, <1>8
  <2>2. k \in 1 .. Len(entries) /\ k \in 0 .. Len(entries) /\ k > 0 /\ k \in DOMAIN entries
    BY <1>1, <1>2, <1>8
  <2>3. rest \in Seq(Entries) /\ rest # <<>>
    BY <2>2, RestTyped DEF rest
  <2>4. /\ CallTypes' /\ step'[c] = "decrypting" /\ body'[c] = rest /\ existing'[c] = known
        /\ kind'[c] = "sync"
    BY <1>1, <1>4, <1>5, <2>1, <2>3 DEF CallTypes, Steps
  <2>5. Effect(c)
    BY <1>5, <1>6, <2>1, <2>2, <2>3, <2>4 DEF Effect, CallShape
  <2> QED
    BY <1>2, <2>1, <2>2, <2>4, <2>5 DEF Looped, rest
<1> QED
  BY <1>7, <1>8

\* What the indexer answers from a store that holds notes.
Reply(notes, leaf) ==
    LET found == NotesAfter(notes, leaf)
    IN  [k \in DOMAIN found |-> Entry(found[k])]

LEMMA ReplyTyped ==
    ASSUME TypedInv, NEW notes, notes \subseteq primary, NEW leaf \in Int
    PROVE  LET found == NotesAfter(notes, leaf)
               q == Reply(notes, leaf)
           IN  /\ q \in Seq(Entries) /\ DOMAIN q = DOMAIN found
               /\ \A k \in DOMAIN q :
                    /\ q[k] = Entry(found[k]) /\ found[k] \in 0 .. Len(leaves) - 1
                    /\ found[k] \in notes
               /\ \A k \in DOMAIN q : \A i \in notes :
                    leaf <= i /\ i < found[k] => \E m \in 1 .. k - 1 : found[m] = i
<1> DEFINE found == NotesAfter(notes, leaf)
           q == Reply(notes, leaf)
<1>1. PICK n \in 0 .. Len(leaves) : primary = 0 .. n - 1
  BY DEF TypedInv, IndexInv
<1>2. leaves \in Seq(Leaves)
  BY DEF TypedInv, TypeOK
<1>3. Len(leaves) \in Nat /\ n \in Nat /\ n <= Len(leaves)
  BY <1>1, <1>2
<1>4. notes \subseteq Nat /\ notes \subseteq 0 .. Len(leaves) - 1 /\ IsFiniteSet(notes)
  <2>1. notes \subseteq 0 .. n - 1
    BY <1>1
  <2>2. IsFiniteSet(0 .. n - 1)
    BY <1>3, FS_Interval
  <2>3. IsFiniteSet(notes)
    BY <2>1, <2>2, FS_Subset
  <2> QED
    BY <1>3, <2>1, <2>3
<1>5. /\ found \in Seq(notes)
      /\ \A k \in DOMAIN found : \A i \in notes :
           leaf <= i /\ i < found[k] => \E m \in 1 .. k - 1 : found[m] = i
  BY <1>4, NotesAfterSorted
<1>6. q = [k \in DOMAIN found |-> Entry(found[k])]
  BY DEF Reply
<1> HIDE DEF found, q
<1>7. DOMAIN found = 1 .. Len(found) /\ Len(found) \in Nat
  BY <1>5
<1>8. \A k \in DOMAIN found : found[k] \in notes /\ found[k] \in 0 .. Len(leaves) - 1
  <2>1. found \in Seq(notes)
    BY <1>5
  <2>2. \A k \in DOMAIN found : found[k] \in notes
    BY <2>1
  <2> QED
    BY <1>4, <2>2
<1>9. ASSUME NEW i \in 0 .. Len(leaves) - 1 PROVE Entry(i) \in Entries
  <2>1. i + 1 \in 1 .. Len(leaves) /\ i \in Nat
    BY <1>3
  <2>2. leaves[i + 1] \in Leaves
    BY <1>2, <2>1
  <2> QED
    BY <2>1, <2>2 DEF Leaves, Entry, Entries
<1>10. q \in [1 .. Len(found) -> Entries]
  BY <1>6, <1>7, <1>8, <1>9
<1>11. q \in Seq(Entries)
  BY <1>7, <1>10
<1>12. DOMAIN q = DOMAIN found /\ \A k \in DOMAIN q : q[k] = Entry(found[k])
  BY <1>6
<1> QED
  BY <1>5, <1>8, <1>11, <1>12 DEF found, q

\* A store that a sync reads lacks nothing of the primary that was not overlooked.
LEMMA FetchedEffect ==
    ASSUME TypedInv, NEW c \in Calls, Fetched(c) \/ FetchedFaulty(c)
    PROVE  /\ Effect(c) /\ step[c] = "fetching"
           /\ \E notes : /\ notes \subseteq primary /\ primary \ notes \subseteq overlooked
                         /\ Looped(c, wallet, Reply(notes, after[c]), Commitments(wallet))
<1>1. \/ \E k \in ReplicaIds : /\ ReadFromReplica(k) /\ Receive(c, replica[InTurn(k)])
      \/ Receive(c, primary)
  BY DEF Fetched, FetchedFaulty
<1>2. ASSUME NEW k \in ReplicaIds PROVE InTurn(k) \in ReplicaIds
  <2>1. Replicas \in Nat /\ nextReplica \in Nat
    BY StoreAssumption DEF TypedInv, TypeOK
  <2>2. k \in Nat /\ Replicas > 0
    BY <2>1 DEF ReplicaIds
  <2> QED
    BY <2>1, <2>2 DEF ReplicaIds, InTurn
<1>3. PICK notes : /\ notes \subseteq primary /\ primary \ notes \subseteq overlooked
                   /\ Receive(c, notes)
  <2>1. CASE Receive(c, primary)
    BY <2>1
  <2>2. ASSUME NEW k \in ReplicaIds, ReadFromReplica(k), Receive(c, replica[InTurn(k)])
        PROVE  \E notes : /\ notes \subseteq primary /\ primary \ notes \subseteq overlooked
                          /\ Receive(c, notes)
    <3>1. InTurn(k) \in ReplicaIds /\ replicaHealthy[InTurn(k)]
      BY <1>2, <2>2 DEF ReadFromReplica
    <3>2. /\ replica[InTurn(k)] \subseteq primary
          /\ primary \ replica[InTurn(k)] \subseteq overlooked
      BY <3>1 DEF TypedInv, IndexInv, StoreInv, HealthyReplicasCurrent
    <3> QED
      BY <2>2, <3>2
  <2> QED
    BY <1>1, <2>1, <2>2
<1>4. Continue(c, wallet, Reply(notes, after[c]), Commitments(wallet))
  BY <1>3 DEF Receive, Reply
<1>5. wallet \in Wallets /\ after[c] \in Int /\ Extends(wallet, wallet)
  BY TypedFacts DEF CallTypes
<1>6. Reply(notes, after[c]) \in Seq(Entries) /\ Commitments(wallet) \in SUBSET NoteCommitments
  BY <1>3, <1>5, ReplyTyped, CommitmentsTyped
<1>7. /\ step[c] = "fetching"
      /\ UNCHANGED <<disk, kind, spendVars, after, chainVars, forgotten>>
  BY DEF Fetched, FetchedFaulty, historyVars
<1> QED
  BY <1>3, <1>4, <1>5, <1>6, <1>7, ContinueEffect

LEMMA DiscoveredTyped ==
    ASSUME NEW w \in Wallets, NEW entry \in Entries
    PROVE  LET n == Discovered(w, entry)
           IN  /\ n \in WalletNotes /\ n.blinding = entry.opens[3]
               /\ entry.opens[1] = Key => Commitment(n) = entry.opens
               /\ Extends(w, Decoded(w, entry))
<1> DEFINE n == Discovered(w, entry)
<1>1. entry.opens \in NoteCommitments
  BY DEF Entries
<1>2. /\ entry.opens = <<entry.opens[1], entry.opens[2], entry.opens[3]>>
      /\ entry.opens[2] \in Nat /\ entry.opens[3] \in Blindings
  BY <1>1 DEF NoteCommitments
<1>3. /\ n \in WalletNotes /\ n.blinding = entry.opens[3]
      /\ Commitment(n) = <<Key, entry.opens[2], entry.opens[3]>>
  BY <1>2, OwnNoteTyped DEF Discovered
<1> HIDE DEF n
<1>4. Extends(w, w) /\ Extends(w, WithNote(w, n))
  BY <1>3, KeepsItself, WithNoteExtends DEF Keeps
<1>5. Extends(w, Decoded(w, entry))
  BY <1>4 DEF Decoded, n
<1> QED
  BY <1>2, <1>3, <1>5 DEF n

LEMMA DecryptedEffect ==
    ASSUME TypedInv, NEW c \in Calls, Decrypted(c)
    PROVE  /\ Effect(c) /\ step[c] = "decrypting"
           /\ body[c] \in Seq(Entries) /\ body[c] # <<>> /\ body[c][1] \in Entries
           /\ Looped(c, Decoded(wallet, body[c][1]), Tail(body[c]),
                     Learnt(existing[c], body[c][1]))
<1>1. /\ step[c] = "decrypting"
      /\ UNCHANGED <<disk, kind, spendVars, after, chainVars, forgotten>>
      /\ Continue(c, Decoded(wallet, body[c][1]), Tail(body[c]),
                  Learnt(existing[c], body[c][1]))
  BY DEF Decrypted, historyVars
<1>2. /\ wallet \in Wallets /\ body[c] \in Seq(Entries) /\ body[c] # <<>>
      /\ existing[c] \subseteq NoteCommitments
  BY <1>1, TypedFacts DEF CallTypes, CallShape
<1>3. body[c][1] \in Entries /\ Tail(body[c]) \in Seq(Entries)
  <2>1. 1 \in DOMAIN body[c]
    BY <1>2, EmptySeq
  <2> QED
    BY <1>2, <2>1, HeadTailProperties
<1>4. Learnt(existing[c], body[c][1]) \in SUBSET NoteCommitments
  <2>1. Discovered(wallet, body[c][1]) \in WalletNotes
    BY <1>2, <1>3, DiscoveredTyped
  <2>2. Commitment(Discovered(wallet, body[c][1])) \in NoteCommitments
    BY <2>1, NoteFields
  <2> QED
    BY <1>2, <2>2 DEF Learnt
<1>5. /\ Extends(wallet, Decoded(wallet, body[c][1]))
      /\ Decoded(wallet, body[c][1]) \in Wallets
  BY <1>2, <1>3, DiscoveredTyped DEF Extends
<1> QED
  BY <1>1, <1>2, <1>3, <1>4, <1>5, ContinueEffect

-----------------------------------------------------------------------------
(* Every step keeps the types.                                             *)

LEMMA CallsEffect ==
    ASSUME TypedInv, NEW c \in Calls, Call(c) \/ Proceed(c)
    PROVE  /\ Effect(c) /\ Alone(c)
           /\ \/ Keeps(wallet, wallet')
              \/ DepositNote(c) \/ Fetched(c) \/ FetchedFaulty(c) \/ Decrypted(c)
<1>1. Alone(c)
  BY CallsAlone DEF TypedInv
<1>2. CASE Call(c)
  <2>1. CASE GetPoolStatus(c) \/ FetchIncomingNotes(c)
    BY <1>1, <2>1, ReadsEffect
  <2>2. ASSUME NEW a \in Amounts, Deposit(c, a) PROVE Effect(c) /\ Keeps(wallet, wallet')
    BY <2>2, DepositEffect
  <2>3. ASSUME NEW a \in Amounts, Insufficient(c, a)
        PROVE  Effect(c) /\ Keeps(wallet, wallet')
    BY <2>3, InsufficientEffect
  <2>4. ASSUME NEW a \in Amounts, NEW s \in Selections(wallet, a),
               Withdraw(c, a, s) \/ \E r \in Others : Transfer(c, a, r, s)
        PROVE  Effect(c) /\ Keeps(wallet, wallet')
    BY <2>4, SpendEffect
  <2> QED
    BY <1>1, <1>2, <2>1, <2>2, <2>3, <2>4 DEF Call
<1>3. CASE DepositNote(c)
  BY <1>1, <1>3, DepositNoteEffect
<1>4. CASE PrepareChange(c)
  BY <1>1, <1>4, PrepareChangeEffect
<1>5. CASE SendDeposit(c) \/ SubmitTransfer(c) \/ SubmitWithdraw(c) \/ BuildFails(c)
  BY <1>1, <1>5, SubmitEffect
<1>6. CASE ProofFails(c) \/ Answer(c) \/ Refusal(c) \/ FetchFails(c)
  BY <1>1, <1>6, EndsEffect
<1>7. CASE Fetched(c) \/ FetchedFaulty(c)
  BY <1>1, <1>7, FetchedEffect
<1>8. CASE Decrypted(c)
  BY <1>1, <1>8, DecryptedEffect
<1> QED
  BY <1>2, <1>3, <1>4, <1>5, <1>6, <1>7, <1>8 DEF Proceed

LEMMA EffectKeepsCalls ==
    ASSUME TypedInv, NEW c \in Calls, Effect(c), Alone(c)
    PROVE  CallTypes' /\ CallInv' /\ (wallet \in Wallets)' /\ (sent \subseteq Calls \X Endpoints)'
<1>1. CallTypes' /\ CallShape(c)' /\ wallet' \in Wallets /\ Extends(wallet, wallet')
  BY DEF Effect, Extends
<1>2. ASSUME NEW d \in Calls PROVE CallShape(d)'
  BY <1>1, OthersShape
<1>3. sent \subseteq Calls \X Endpoints /\ sent' \subseteq Calls \X Endpoints
  BY DEF TypedInv, TypeOK, Effect
<1>4. ASSUME NEW s \in sent' PROVE step'[s[1]] \notin {"idle", "preparing"}
  <2>1. CASE s \in sent /\ s[1] # c
    BY <1>3, <2>1 DEF TypedInv, CallInv, Alone
  <2>2. CASE s \in sent /\ s[1] = c
    BY <2>2 DEF TypedInv, CallInv, Effect
  <2>3. CASE s \notin sent
    BY <1>4, <2>3 DEF Effect
  <2> QED
    BY <2>1, <2>2, <2>3
<1> QED
  BY <1>1, <1>2, <1>3, <1>4 DEF CallInv

LEMMA BreakersTyped ==
    ASSUME TypedInv, Breakers
    PROVE  (failures \in [Endpoints -> Nat])' /\ (cooling \in [Endpoints -> 0 .. Cooldown])'
<1>1. /\ failures \in [Endpoints -> Nat] /\ cooling \in [Endpoints -> 0 .. Cooldown]
      /\ Cooldown \in Nat /\ 0 \in 0 .. Cooldown /\ Cooldown \in 0 .. Cooldown
  BY FailoverAssumption DEF TypedInv, TypeOK
<1>2. \A n \in 0 .. Cooldown : n \in Nat /\ (n > 0 => n - 1 \in 0 .. Cooldown)
  BY <1>1
<1>3. CASE UNCHANGED failoverVars
  BY <1>1, <1>3 DEF failoverVars
<1>4. ASSUME NEW e, Answered(e) \/ Failed(e)
      PROVE  failures' \in [Endpoints -> Nat] /\ cooling' \in [Endpoints -> 0 .. Cooldown]
  BY <1>1, <1>4 DEF Answered, Failed
<1>5. CASE Tick
  BY <1>1, <1>2, <1>5 DEF Tick
<1>6. ASSUME failures' = [e \in Endpoints |-> 0], cooling' = [e \in Endpoints |-> 0]
      PROVE  failures' \in [Endpoints -> Nat] /\ cooling' \in [Endpoints -> 0 .. Cooldown]
  BY <1>1, <1>6
<1> QED
  BY <1>3, <1>4, <1>5, <1>6 DEF Breakers

LEMMA CallsSurroundings ==
    ASSUME TypedInv, NEW c \in Calls, Call(c) \/ Proceed(c)
    PROVE  /\ (nextReplica \in Nat)' /\ UNCHANGED <<primary, replica, overlooked>>
           /\ (incidents \in 0 .. MaxIncidents)' /\ (syncsMet \in BOOLEAN)'
           /\ syncsMet => syncsMet'
<1>1. UNCHANGED <<primary, replica, overlooked>>
  BY CallsAndStores DEF TypedInv, Reads
<1>2. /\ nextReplica \in Nat /\ incidents \in 0 .. MaxIncidents /\ syncsMet \in BOOLEAN
      /\ MaxIncidents \in Nat
  BY ClientAssumption DEF TypedInv, TypeOK
<1>3. CASE Call(c) /\ ~FetchIncomingNotes(c)
  BY <1>1, <1>2, <1>3
     DEF Call, GetPoolStatus, Deposit, Insufficient, Withdraw, Transfer, Select, storeVars,
         historyVars
<1>4. CASE FetchIncomingNotes(c)
  BY <1>1, <1>2, <1>4 DEF FetchIncomingNotes, storeVars
<1>5. CASE Proceed(c) /\ ~Fetched(c) /\ ~FetchedFaulty(c)
  BY <1>1, <1>2, <1>5
     DEF Proceed, DepositNote, SendDeposit, PrepareChange, ProofFails, SubmitTransfer,
         SubmitWithdraw, BuildFails, Answer, Refusal, FetchFails, Decrypted, storeVars,
         historyVars
<1>6. CASE Fetched(c) \/ FetchedFaulty(c)
  <2>1. nextReplica' = nextReplica \/ \E k \in ReplicaIds : nextReplica' = (InTurn(k) + 1) % Replicas
    BY <1>6 DEF Fetched, FetchedFaulty, ReadFromReplica, ReadFromPrimary
  <2>2. ASSUME NEW k \in ReplicaIds PROVE (InTurn(k) + 1) % Replicas \in Nat
    <3>1. k \in Nat /\ Replicas \in Nat /\ Replicas > 0
      BY StoreAssumption DEF ReplicaIds
    <3>2. InTurn(k) \in Nat
      BY <1>2, <3>1 DEF InTurn
    <3> QED
      BY <3>1, <3>2
  <2>3. nextReplica' \in Nat
    BY <1>2, <2>1, <2>2
  <2>4. UNCHANGED syncsMet /\ (incidents' = incidents \/ Incident)
    BY <1>6 DEF Fetched, FetchedFaulty, historyVars
  <2> QED
    BY <1>1, <1>2, <2>3, <2>4 DEF Incident
<1> QED
  BY <1>3, <1>4, <1>5, <1>6

-----------------------------------------------------------------------------
(* The log only grows.                                                     *)

Explained(leaf) ==
    leaf.to # "none" => leaf.opens[1] = leaf.to /\ leaf.opens[3][1] = "sender"

Grew(log, longer) ==
    /\ longer \in Seq(Leaves) /\ Len(longer) >= Len(log)
    /\ \A i \in DOMAIN log : i \in DOMAIN longer /\ longer[i] = log[i]
    /\ \A i \in DOMAIN longer : i \in DOMAIN log \/ (i > Len(log) /\ Explained(longer[i]))

LEMMA LogGrows ==
    ASSUME NEW log \in Seq(Leaves), NEW more \in Seq(Leaves),
           \A k \in DOMAIN more : Explained(more[k])
    PROVE  /\ Grew(log, log) /\ Grew(log, log \o more)
           /\ \A k \in DOMAIN more : \E i \in DOMAIN (log \o more) : (log \o more)[i] = more[k]
<1> DEFINE l == log \o more
<1>1. /\ l \in Seq(Leaves) /\ Len(l) = Len(log) + Len(more)
      /\ \A i \in 1 .. Len(log) + Len(more) :
           l[i] = IF i <= Len(log) THEN log[i] ELSE more[i - Len(log)]
  BY ConcatProperties, Zenon
<1>2. /\ Len(log) \in Nat /\ Len(more) \in Nat
      /\ DOMAIN log = 1 .. Len(log) /\ DOMAIN more = 1 .. Len(more)
  OBVIOUS
<1> HIDE DEF l
<1>3. DOMAIN l = 1 .. Len(log) + Len(more)
  BY <1>1
<1>4. ASSUME NEW i \in DOMAIN log PROVE i \in DOMAIN l /\ l[i] = log[i]
  BY <1>1, <1>2, <1>3
<1>5. ASSUME NEW i \in DOMAIN l
      PROVE  i \in DOMAIN log \/ (i > Len(log) /\ Explained(l[i]))
  <2>1. CASE i <= Len(log)
    BY <1>2, <1>3, <2>1
  <2>2. CASE ~(i <= Len(log))
    <3>1. i - Len(log) \in DOMAIN more /\ l[i] = more[i - Len(log)] /\ i > Len(log)
      BY <1>1, <1>2, <1>3, <2>2
    <3> QED
      BY <3>1
  <2> QED
    BY <2>1, <2>2
<1>6. ASSUME NEW k \in DOMAIN more PROVE \E i \in DOMAIN l : l[i] = more[k]
  <2>1. /\ Len(log) + k \in DOMAIN l /\ ~(Len(log) + k <= Len(log))
        /\ (Len(log) + k) - Len(log) = k
    BY <1>2, <1>3
  <2>2. l[Len(log) + k] = more[(Len(log) + k) - Len(log)]
    BY <1>1, <1>3, <2>1
  <2> QED
    BY <2>1, <2>2
<1>7. Len(l) >= Len(log) /\ Len(log) >= Len(log)
  BY <1>1, <1>2
<1>8. Grew(log, log)
  BY <1>7 DEF Grew
<1>9. Grew(log, l)
  BY <1>1, <1>4, <1>5, <1>7 DEF Grew
<1> QED
  BY <1>6, <1>8, <1>9 DEF l

LEMMA LeavesTyped ==
    ASSUME TypedInv
    PROVE  leaves \in Seq(Leaves) /\ Grew(leaves, leaves)
<1>1. leaves \in Seq(Leaves)
  BY DEF TypedInv, TypeOK, Leaves
<1>2. <<>> \in Seq(Leaves) /\ DOMAIN <<>> = {}
  OBVIOUS
<1> QED
  BY <1>1, <1>2, LogGrows

\* A transaction that lands adds the outputs of its call.
LEMMA LandEffect ==
    ASSUME TypedInv, NEW c \in Calls, NEW e \in Endpoints, Land(c, e)
    PROVE  /\ Grew(leaves, leaves')
           /\ \A k \in DOMAIN outputs[c] : outputs[c][k] \in OnChain'
           /\ nullifiers' = nullifiers \cup Shown(c) /\ Shown(c) \subseteq NoteCommitments
           /\ landed' = landed \cup {<<c, e>>} /\ <<c, e>> \in sent
<1> DEFINE more == [k \in DOMAIN outputs[c] |->
                      [commitment |-> outputs[c][k], to |-> "none", opens |-> outputs[c][k]]]
<1>1. CallTypes /\ leaves \in Seq(Leaves)
  BY TypedFacts, LeavesTyped
<1>2. /\ outputs[c] \in Seq(NoteCommitments) /\ spends[c] \in Seq(NoteCommitments)
      /\ DOMAIN outputs[c] = 1 .. Len(outputs[c]) /\ Len(outputs[c]) \in Nat
  BY <1>1 DEF CallTypes
<1>3. \A k \in DOMAIN outputs[c] : outputs[c][k] \in NoteCommitments
  BY <1>2
<1>4. more \in [1 .. Len(outputs[c]) -> Leaves]
  BY <1>2, <1>3 DEF Leaves
<1>5. more \in Seq(Leaves)
  BY <1>2, <1>4
<1>6. /\ DOMAIN more = DOMAIN outputs[c]
      /\ \A k \in DOMAIN more : Explained(more[k]) /\ more[k].commitment = outputs[c][k]
  BY DEF Explained
<1>7. leaves' = leaves \o more
  BY DEF Land
<1> HIDE DEF more
<1>8. /\ Grew(leaves, leaves')
      /\ \A k \in DOMAIN more : \E i \in DOMAIN leaves' : leaves'[i] = more[k]
  BY <1>1, <1>5, <1>6, <1>7, LogGrows
<1>9. \A k \in DOMAIN outputs[c] : outputs[c][k] \in OnChain'
  BY <1>6, <1>8 DEF OnChain
<1>10. Shown(c) \subseteq NoteCommitments
  BY <1>2 DEF Shown
<1> QED
  BY <1>8, <1>9, <1>10 DEF Land

LEMMA ArriveEffect ==
    ASSUME TypedInv, NEW leaf \in Leaves, Explained(leaf), Arrive(leaf)
    PROVE  Grew(leaves, leaves')
<1>1. leaves \in Seq(Leaves)
  BY LeavesTyped
<1>2. leaves' = Append(leaves, leaf)
  BY DEF Arrive
<1>3. <<leaf>> \in Seq(Leaves) /\ \A k \in DOMAIN <<leaf>> : Explained(<<leaf>>[k])
  OBVIOUS
<1>4. Append(leaves, leaf) = leaves \o <<leaf>>
  BY <1>1, AppendIsConcat
<1> QED
  BY <1>1, <1>2, <1>3, <1>4, LogGrows

LEMMA PaymentTyped ==
    ASSUME TypedInv, NEW o \in Owners, NEW a \in Amounts
    PROVE  Payment(o, a, NextPayment) \in NoteCommitments
<1> DEFINE paid == {i \in DOMAIN leaves : leaves[i].to # "none"}
<1>1. Cardinality(paid) \in Nat
  <2>1. DOMAIN leaves = 1 .. Len(leaves) /\ Len(leaves) \in Nat
    BY LeavesTyped
  <2>2. IsFiniteSet(1 .. Len(leaves)) /\ paid \subseteq 1 .. Len(leaves)
    BY <2>1, FS_Interval
  <2> QED
    BY <2>2, FS_Subset, FS_CardinalityType
<1>2. NextPayment = Cardinality(paid) + 1
  BY DEF NextPayment
<1> HIDE DEF paid
<1>3. <<"sender", NextPayment>> \in Blindings
  BY <1>1, <1>2 DEF Blindings
<1> QED
  BY <1>3, KeyTyped DEF Payment

LEMMA PaysEffect ==
    ASSUME TypedInv, NEW a \in Amounts,
           \/ \E o \in Owners : Pay(o, a)
           \/ \E o \in Others, n \in Openings(a) : PayMislabelled(o, a, n)
    PROVE  \E leaf : Arrive(leaf) /\ Grew(leaves, leaves')
<1>1. ASSUME NEW o \in Owners, Pay(o, a) PROVE \E leaf : Arrive(leaf) /\ Grew(leaves, leaves')
  <2> DEFINE leaf == PaymentLeaf(o, a, NextPayment)
  <2>1. Payment(o, a, NextPayment) \in NoteCommitments
    BY PaymentTyped
  <2>2. leaf \in Leaves
    BY <2>1 DEF PaymentLeaf, Leaves
  <2>3. Explained(leaf)
    BY DEF PaymentLeaf, Payment, Explained
  <2>4. Arrive(leaf)
    BY <1>1 DEF Pay
  <2> HIDE DEF leaf
  <2> QED
    BY <2>2, <2>3, <2>4, ArriveEffect
<1>2. ASSUME NEW o \in Others, NEW n \in Openings(a), PayMislabelled(o, a, n)
      PROVE  \E leaf : Arrive(leaf) /\ Grew(leaves, leaves')
  <2> DEFINE leaf == [commitment |-> Payment(o, a, NextPayment), to |-> Key, opens |-> n]
  <2>1. Payment(o, a, NextPayment) \in NoteCommitments
    BY KeyTyped, PaymentTyped
  <2>2. n \in NoteCommitments /\ n[1] = Key /\ n[3][1] = "sender"
    <3>1. CASE n = Payment(Key, a, 0)
      <4>1. <<"sender", 0>> \in Blindings
        BY DEF Blindings
      <4> QED
        BY <3>1, <4>1, KeyTyped DEF Payment
    <3>2. ASSUME NEW i \in DOMAIN leaves, leaves[i].to = Key, n = leaves[i].opens
          PROVE  n \in NoteCommitments /\ n[1] = Key /\ n[3][1] = "sender"
      <4>1. leaves[i] \in Leaves /\ Key # "none"
        BY LeavesTyped, ClientAssumption
      <4> QED
        BY <3>2, <4>1 DEF Leaves, TypedInv, LeavesInv
    <3> QED
      BY <3>1, <3>2 DEF Openings
  <2>3. leaf \in Leaves
    BY <2>1, <2>2, KeyTyped DEF Leaves
  <2>4. Explained(leaf)
    BY <2>2 DEF Explained
  <2>5. Arrive(leaf)
    BY <1>2 DEF PayMislabelled
  <2> HIDE DEF leaf
  <2> QED
    BY <2>3, <2>4, <2>5, ArriveEffect
<1> QED
  BY <1>1, <1>2

\* The stores: what they hold is a part of the log.
StoreTypes ==
    /\ IndexInv /\ primary \subseteq Nat /\ replica \in [ReplicaIds -> SUBSET Nat]
    /\ nextReplica \in Nat /\ overlooked \subseteq Nat

LEMMA HoldingsTyped ==
    ASSUME TypedInv, Grew(leaves, leaves'), UNCHANGED <<primary, replica>>
    PROVE  (IndexInv /\ primary \subseteq Nat /\ replica \in [ReplicaIds -> SUBSET Nat])'
<1>1. \A n : n \in 0 .. Len(leaves) => n \in 0 .. Len(leaves')
  <2>1. Len(leaves) \in Nat /\ Len(leaves') \in Nat /\ Len(leaves') >= Len(leaves)
    BY LeavesTyped DEF Grew
  <2> QED
    BY <2>1
<1>2. (\E n \in 0 .. Len(leaves) : primary = 0 .. n - 1)'
  BY <1>1 DEF TypedInv, IndexInv
<1> QED
  BY <1>2 DEF TypedInv, TypeOK, IndexInv

LEMMA InsertTyped ==
    ASSUME TypedInv, NEW failing, InsertNote(Cardinality(primary), failing),
           Cardinality(primary) < Len(leaves), UNCHANGED <<leaves, overlooked>>
    PROVE  StoreTypes'
<1>1. PICK n \in 0 .. Len(leaves) : primary = 0 .. n - 1
  BY DEF TypedInv, IndexInv
<1>2. n \in Nat /\ Len(leaves) \in Nat /\ n - 1 \in Int
  BY <1>1, LeavesTyped
<1>3. Cardinality(primary) = n
  <2>1. Cardinality(0 .. n - 1) = IF 0 > n - 1 THEN 0 ELSE (n - 1) - 0 + 1
    BY <1>2, FS_Interval
  <2> QED
    BY <1>1, <1>2, <2>1
<1>4. primary' = primary \cup {n} /\ n < Len(leaves) /\ UNCHANGED nextReplica
  BY <1>3 DEF InsertNote
<1>5. primary' = 0 .. (n + 1) - 1
  BY <1>1, <1>2, <1>4
<1>6. n + 1 \in 0 .. Len(leaves)
  BY <1>2, <1>4
<1>7. primary' \subseteq Nat
  BY <1>2, <1>5
<1>8. \A i \in ReplicaIds : replica'[i] = replica[i] \/ replica'[i] = replica[i] \cup {n}
  BY <1>3 DEF InsertNote
<1>9. \A i \in ReplicaIds : replica'[i] \subseteq primary'
  BY <1>4, <1>8 DEF TypedInv, IndexInv
<1>10. replica' \in [ReplicaIds -> SUBSET Nat]
  <2>1. DOMAIN replica' = ReplicaIds /\ replica' = [i \in ReplicaIds |-> replica'[i]]
    BY DEF InsertNote
  <2> QED
    BY <1>7, <1>9, <2>1
<1>11. IndexInv'
  BY <1>5, <1>6, <1>9 DEF IndexInv
<1> QED
  BY <1>4, <1>7, <1>10, <1>11 DEF StoreTypes, TypedInv, TypeOK

LEMMA ResyncTyped ==
    ASSUME TypedInv, NEW i \in ReplicaIds, NEW failing, ResyncReplica(i, failing),
           overlooked' = overlooked \cup (primary \ replica'[i]), UNCHANGED leaves
    PROVE  StoreTypes'
<1>1. /\ replica' = [replica EXCEPT ![i] = replica[i] \cup (primary \ failing)]
      /\ UNCHANGED <<primary, nextReplica>>
  BY DEF ResyncReplica
<1>2. replica \in [ReplicaIds -> SUBSET Nat] /\ primary \subseteq Nat
  BY DEF TypedInv, TypeOK
<1>3. \A j \in ReplicaIds : replica'[j] \subseteq primary
  BY <1>1, <1>2 DEF TypedInv, IndexInv
<1>4. replica' \in [ReplicaIds -> SUBSET Nat]
  BY <1>1, <1>2
<1>5. IndexInv'
  BY <1>1, <1>3 DEF TypedInv, IndexInv
<1> QED
  BY <1>1, <1>2, <1>4, <1>5 DEF StoreTypes, TypedInv, TypeOK

\* A step of the chain, the indexer or the clock.
Outside ==
    /\ UNCHANGED <<walletVars, kind, step, spendVars, syncVars, sent, forgotten, syncsMet>>
    /\ Grew(leaves, leaves') /\ overlooked \subseteq overlooked'
    /\ \/ UNCHANGED <<landed, nullifiers>>
       \/ \E c \in Calls, e \in Endpoints : Land(c, e)

LEMMA EnvironmentEffect ==
    ASSUME TypedInv, Environment
    PROVE  Outside /\ StoreTypes' /\ (incidents \in 0 .. MaxIncidents)'
<1>1. /\ Grew(leaves, leaves) /\ StoreTypes /\ incidents \in 0 .. MaxIncidents
      /\ MaxIncidents \in Nat /\ primary \subseteq Nat
  BY LeavesTyped, ClientAssumption DEF TypedInv, TypeOK, StoreTypes
<1>2. incidents' \in 0 .. MaxIncidents
  <2>1. UNCHANGED incidents \/ Incident
    BY DEF Environment, Land, Pay, PayMislabelled, Arrive, Index, IndexFaulty, Resync,
           ReopenStore, Clock, historyVars
  <2> QED
    BY <1>1, <2>1 DEF Incident
<1>3. ASSUME NEW c \in Calls, NEW e \in Endpoints, Land(c, e)
      PROVE  Outside /\ StoreTypes'
  <2>1. Grew(leaves, leaves')
    BY <1>3, LandEffect
  <2>2. /\ UNCHANGED <<walletVars, kind, step, spendVars, syncVars, sent, forgotten, syncsMet>>
        /\ UNCHANGED <<primary, replica, nextReplica, overlooked>>
    BY <1>3 DEF Land, historyVars, storeVars
  <2> QED
    BY <1>1, <1>3, <2>1, <2>2, HoldingsTyped DEF Outside, StoreTypes
<1>4. ASSUME NEW a \in Amounts,
             \/ \E o \in Owners : Pay(o, a)
             \/ \E o \in Others, n \in Openings(a) : PayMislabelled(o, a, n)
      PROVE  Outside /\ StoreTypes'
  <2>1. Grew(leaves, leaves') /\ \E leaf : Arrive(leaf)
    BY <1>4, PaysEffect
  <2>2. /\ UNCHANGED <<walletVars, kind, step, spendVars, syncVars, sent, forgotten, syncsMet>>
        /\ UNCHANGED <<primary, replica, nextReplica, overlooked, landed, nullifiers>>
    BY <2>1 DEF Arrive, storeVars
  <2> QED
    BY <1>1, <2>1, <2>2, HoldingsTyped DEF Outside, StoreTypes
<1>5. ASSUME NEW failing, InsertNote(Cardinality(primary), failing),
             Cardinality(primary) < Len(leaves),
             UNCHANGED <<walletVars, kind, step, spendVars, syncVars, chainVars, overlooked,
                         forgotten, syncsMet>>
      PROVE  Outside /\ StoreTypes'
  <2>1. UNCHANGED <<sent, landed, leaves, nullifiers, overlooked>>
    BY <1>5 DEF chainVars
  <2>2. StoreTypes'
    BY <1>5, <2>1, InsertTyped
  <2>3. Outside
    BY <1>1, <1>5, <2>1 DEF Outside
  <2> QED
    BY <2>2, <2>3
<1>6. CASE Index
  <2>1. /\ InsertNote(Cardinality(primary), {}) /\ Cardinality(primary) < Len(leaves)
        /\ UNCHANGED <<walletVars, kind, step, spendVars, syncVars, chainVars, overlooked,
                       forgotten, syncsMet>>
    BY <1>6 DEF Index, historyVars
  <2> QED
    BY <1>2, <1>5, <2>1
<1>7. ASSUME NEW i \in ReplicaIds, IndexFaulty(i) PROVE Outside /\ StoreTypes'
  BY <1>5, <1>7 DEF IndexFaulty
<1>8. ASSUME NEW i \in ReplicaIds, NEW failing, Resync(i, failing)
      PROVE  Outside /\ StoreTypes'
  <2>1. /\ ResyncReplica(i, failing) /\ overlooked' = overlooked \cup (primary \ replica'[i])
        /\ UNCHANGED <<walletVars, kind, step, spendVars, syncVars, chainVars, forgotten,
                       syncsMet>>
    BY <1>8 DEF Resync
  <2> QED
    BY <1>1, <2>1, ResyncTyped DEF chainVars, Outside
<1>9. CASE ReopenStore
  <2>1. /\ UNCHANGED <<walletVars, kind, step, spendVars, syncVars, chainVars, forgotten,
                       syncsMet>>
        /\ UNCHANGED <<primary, replica>> /\ nextReplica' = 0
        /\ overlooked' = overlooked \cup UNION {primary \ replica[i] : i \in ReplicaIds}
    BY <1>9 DEF ReopenStore, Reopen
  <2>2. UNCHANGED <<sent, landed, leaves, nullifiers>>
    BY <2>1 DEF chainVars
  <2>3. overlooked \subseteq overlooked' /\ (overlooked \subseteq Nat)'
    BY <1>1, <2>1 DEF StoreTypes
  <2>4. Outside
    BY <1>1, <2>1, <2>2, <2>3 DEF Outside
  <2>5. StoreTypes'
    BY <1>1, <2>1, <2>2, <2>3, HoldingsTyped DEF StoreTypes
  <2> QED
    BY <1>2, <2>4, <2>5
<1>10. CASE Clock
  BY <1>1, <1>2, <1>10, HoldingsTyped
     DEF Clock, chainVars, storeVars, historyVars, Outside, StoreTypes
<1> QED
  BY <1>2, <1>3, <1>4, <1>6, <1>7, <1>8, <1>9, <1>10 DEF Environment

LEMMA CallsKeepTypes ==
    ASSUME TypedInv, NEW c \in Calls, Call(c) \/ Proceed(c), StoreInv', CoinInv',
           (failures \in [Endpoints -> Nat])', (cooling \in [Endpoints -> 0 .. Cooldown])'
    PROVE  TypedInv'
<1>1. /\ CallTypes' /\ CallInv' /\ wallet' \in Wallets /\ sent' \subseteq Calls \X Endpoints
      /\ sent \subseteq sent' /\ UNCHANGED <<disk, landed, leaves, nullifiers, forgotten>>
  BY CallsEffect, EffectKeepsCalls DEF Effect
<1>2. /\ nextReplica' \in Nat /\ UNCHANGED <<primary, replica, overlooked>>
      /\ incidents' \in 0 .. MaxIncidents /\ syncsMet' \in BOOLEAN
  BY CallsSurroundings
<1>3. LeavesInv' /\ IndexInv'
  BY <1>1, <1>2 DEF TypedInv, LeavesInv, IndexInv
<1>4. TypeOK'
  BY <1>1, <1>2 DEF TypedInv, TypeOK, CallTypes, StoreInv
<1> QED
  BY <1>1, <1>3, <1>4 DEF TypedInv

LEMMA RestartKeepsTypes ==
    ASSUME TypedInv, Restart, StoreInv', CoinInv',
           (failures \in [Endpoints -> Nat])', (cooling \in [Endpoints -> 0 .. Cooldown])'
    PROVE  TypedInv'
<1>1. TypeOK /\ wallet \in Wallets /\ disk \in Wallets /\ LeavesInv /\ IndexInv
  BY DEF TypedInv, TypeOK
<1>2. /\ wallet' = disk
      /\ step' = [c \in Calls |-> IF step[c] \in Ended THEN step[c] ELSE "lost"]
      /\ inputs' = [c \in Calls |-> <<>>] /\ candidates' = [c \in Calls |-> <<>>]
      /\ body' = [c \in Calls |-> <<>>] /\ existing' = [c \in Calls |-> {}]
      /\ UNCHANGED <<disk, primary, replica, replicaHealthy, nextReplica, kind, total, spends,
                     outputs, after, sent, landed, leaves, nullifiers, overlooked, syncsMet>>
  BY DEF Restart, storeVars, chainVars
<1>3. incidents' \in 0 .. MaxIncidents
  BY <1>1, ClientAssumption DEF TypeOK, Restart, Incident
<1>4. forgotten' \subseteq NoteCommitments \cup Blindings
  <2>1. Taken(wallet) \subseteq NoteCommitments
    BY <1>1, CommitmentsTyped
  <2>2. disk.nextBlinding \in Nat /\ wallet.nextBlinding \in Nat
    BY <1>1, WalletFields
  <2>3. \A k \in disk.nextBlinding .. wallet.nextBlinding - 1 : <<Key, k>> \in Blindings
    BY <2>2 DEF Blindings, Owners
  <2>4. forgotten \subseteq NoteCommitments \cup Blindings
    BY <1>1 DEF TypeOK
  <2> QED
    BY <2>1, <2>3, <2>4 DEF Restart
<1>5. \A c \in Calls : step'[c] \in Ended /\ (step'[c] = "idle" => step[c] = "idle")
  BY <1>2 DEF Ended
<1>6. step' \in [Calls -> Steps]
  BY <1>2, <1>5 DEF Ended, Steps
<1>7. CallTypes'
  <2>1. <<>> \in Seq(Nat) /\ <<>> \in Seq(Endpoints) /\ <<>> \in Seq(Entries)
    OBVIOUS
  <2> QED
    BY <1>1, <1>2, <1>6, <2>1 DEF TypeOK, CallTypes
<1>8. CallInv'
  <2>1. \A c \in Calls : CallShape(c)'
    BY <1>2, <1>5 DEF TypedInv, CallInv, CallShape, Ended
  <2>2. ASSUME NEW s \in sent PROVE step'[s[1]] \notin {"idle", "preparing"}
    <3>1. s[1] \in Calls /\ step[s[1]] \notin {"idle", "preparing"}
      BY <1>1 DEF TypedInv, CallInv, TypeOK
    <3> QED
      BY <1>5, <3>1 DEF Ended
  <2> QED
    BY <1>2, <2>1, <2>2 DEF CallInv
<1>9. LeavesInv' /\ IndexInv'
  BY <1>1, <1>2 DEF LeavesInv, IndexInv
<1>10. TypeOK'
  BY <1>1, <1>2, <1>3, <1>4, <1>7 DEF TypeOK, CallTypes
<1> QED
  BY <1>8, <1>9, <1>10 DEF TypedInv

LEMMA OutsideKeepsTypes ==
    ASSUME TypedInv, Environment, StoreInv', CoinInv',
           (failures \in [Endpoints -> Nat])', (cooling \in [Endpoints -> 0 .. Cooldown])'
    PROVE  TypedInv'
<1>1. Outside /\ StoreTypes' /\ incidents' \in 0 .. MaxIncidents
  BY EnvironmentEffect
<1>2. UNCHANGED <<wallet, disk, kind, step, total, inputs, spends, outputs, candidates, after,
                  body, existing, sent, forgotten, syncsMet>>
  BY <1>1 DEF Outside, walletVars, spendVars, syncVars
<1>3. landed' \subseteq sent /\ nullifiers' \subseteq NoteCommitments
  <2>1. landed \subseteq sent /\ nullifiers \subseteq NoteCommitments
    BY DEF TypedInv, TypeOK
  <2>2. ASSUME NEW c \in Calls, NEW e \in Endpoints, Land(c, e)
        PROVE  landed' \subseteq sent /\ nullifiers' \subseteq NoteCommitments
    BY <2>1, <2>2, LandEffect
  <2> QED
    BY <1>1, <2>1, <2>2 DEF Outside
<1>4. /\ leaves' \in Seq(Leaves)
      /\ \A i \in DOMAIN leaves' : Explained(leaves'[i])
  <2>1. Grew(leaves, leaves')
    BY <1>1 DEF Outside
  <2>2. \A i \in DOMAIN leaves : Explained(leaves[i])
    BY DEF TypedInv, LeavesInv, Explained
  <2> QED
    BY <2>1, <2>2 DEF Grew
<1>5. LeavesInv'
  BY <1>4 DEF LeavesInv, Explained
<1>6. CallInv'
  BY <1>2 DEF TypedInv, CallInv, CallShape
<1>7. TypeOK'
  BY <1>1, <1>2, <1>3, <1>4 DEF TypedInv, TypeOK, StoreTypes, StoreInv, Leaves
<1> QED
  BY <1>1, <1>5, <1>6, <1>7 DEF TypedInv, StoreTypes

LEMMA TypesKeep ==
    ASSUME TypedInv, [Next]_vars
    PROVE  TypedInv'
<1>1. StoreInv' /\ CoinInv'
  BY StepsAndStores, StoresKeep, CoinsKeep DEF TypedInv
<1>2. failures' \in [Endpoints -> Nat] /\ cooling' \in [Endpoints -> 0 .. Cooldown]
  BY StepsAndBreakers, BreakersTyped
<1>3. CASE \E c \in Calls : Call(c) \/ Proceed(c)
  BY <1>1, <1>2, <1>3, CallsKeepTypes
<1>4. CASE Restart
  BY <1>1, <1>2, <1>4, RestartKeepsTypes
<1>5. CASE Environment
  BY <1>1, <1>2, <1>5, OutsideKeepsTypes
<1>6. CASE Save \/ UNCHANGED vars
  <2>1. /\ disk' \in {disk, wallet} /\ UNCHANGED <<wallet, failoverVars, storeVars, kind, step,
                              spendVars, syncVars, chainVars, historyVars>>
    BY <1>6 DEF Save, vars, walletVars
  <2>2. UNCHANGED <<primary, replica, replicaHealthy, nextReplica, kind, step, total, inputs,
                    spends, outputs, candidates, after, body, existing, sent, landed, leaves,
                    nullifiers, overlooked, forgotten, syncsMet, incidents>>
    BY <2>1 DEF storeVars, spendVars, syncVars, chainVars, historyVars
  <2>3. TypeOK'
    BY <1>2, <2>1, <2>2 DEF TypedInv, TypeOK
  <2>4. CallInv' /\ LeavesInv' /\ IndexInv'
    BY <2>1, <2>2 DEF TypedInv, CallInv, CallShape, LeavesInv, IndexInv
  <2> QED
    BY <1>1, <2>3, <2>4 DEF TypedInv
<1> QED
  BY <1>3, <1>4, <1>5, <1>6 DEF Next

LEMMA FirstPayments ==
    /\ Len(FirstLeaves) \in Nat /\ DOMAIN FirstLeaves = 1 .. Len(FirstLeaves)
    /\ Synced \in Nat /\ Synced <= Len(FirstLeaves)
    /\ \A k \in 1 .. Len(FirstLeaves) :
         /\ FirstLeaves[k].value \in Nat /\ FirstLeaves[k].to \in Owners
         /\ <<"sender", k>> \in Blindings
         /\ Payment(FirstLeaves[k].to, FirstLeaves[k].value, k) \in NoteCommitments
<1> DEFINE R == [value : Nat \ {0}, to : Others \cup {Key}]
<1>1. FirstLeaves \in Seq(R) /\ Synced \in 0 .. Len(FirstLeaves)
  BY ClientAssumption
<1> HIDE DEF R
<1>2. Len(FirstLeaves) \in Nat /\ DOMAIN FirstLeaves = 1 .. Len(FirstLeaves)
  BY <1>1
<1>3. ASSUME NEW k \in 1 .. Len(FirstLeaves)
      PROVE  /\ FirstLeaves[k].value \in Nat /\ FirstLeaves[k].to \in Owners
             /\ <<"sender", k>> \in Blindings
             /\ Payment(FirstLeaves[k].to, FirstLeaves[k].value, k) \in NoteCommitments
  <2>1. FirstLeaves[k] \in R /\ k \in Nat
    BY <1>1, <1>2
  <2>2. FirstLeaves[k].value \in Nat /\ FirstLeaves[k].to \in Owners
    BY <2>1 DEF R, Owners
  <2>3. <<"sender", k>> \in Blindings
    BY <2>1 DEF Blindings
  <2> QED
    BY <2>2, <2>3, KeyTyped DEF Payment
<1> QED
  BY <1>1, <1>2, <1>3

LEMMA FirstWalletTyped ==
    /\ FirstWallet \in Wallets /\ DOMAIN FirstWallet.notes = 1 .. Synced
    /\ FirstWallet.nextBlinding = 0 /\ FirstWallet.lastSyncedLeaf = Synced - 1
    /\ \A k \in 1 .. Synced :
         /\ Commitment(FirstWallet.notes[k]) = Payment(Key, FirstLeaves[k].value, k)
         /\ FirstWallet.notes[k].blinding = <<"sender", k>>
<1> DEFINE w == NewWallet(Key)
           f == [k \in 1 .. Synced |-> OwnNote(w, FirstLeaves[k].value, <<"sender", k>>)]
<1>1. w \in Wallets
  <2>1. <<>> \in Seq(WalletNotes)
    OBVIOUS
  <2> QED
    BY <2>1 DEF NewWallet, Wallets
<1>2. w = [key |-> Key, notes |-> <<>>, nextBlinding |-> 0, lastSyncedLeaf |-> -1]
  BY DEF NewWallet
<1>3. FirstWallet = [w EXCEPT !.notes = f, !.lastSyncedLeaf = Synced - 1]
  BY DEF FirstWallet
<1> HIDE DEF w
<1>4. ASSUME NEW k \in 1 .. Synced
      PROVE  /\ f[k] \in WalletNotes /\ f[k].blinding = <<"sender", k>>
             /\ Commitment(f[k]) = Payment(Key, FirstLeaves[k].value, k)
  <2>1. FirstLeaves[k].value \in Nat /\ <<"sender", k>> \in Blindings
    BY FirstPayments
  <2>2. f[k] = OwnNote(w, FirstLeaves[k].value, <<"sender", k>>)
    OBVIOUS
  <2> HIDE DEF f
  <2> QED
    BY <1>1, <2>1, <2>2, OwnNoteTyped DEF Payment
<1>5. DOMAIN f = 1 .. Synced /\ f = [k \in 1 .. Synced |-> f[k]]
  OBVIOUS
<1> HIDE DEF f
<1>6. f \in Seq(WalletNotes)
  BY <1>4, <1>5, FirstPayments
<1>7. /\ FirstWallet \in Wallets /\ FirstWallet.notes = f
      /\ FirstWallet.nextBlinding = 0 /\ FirstWallet.lastSyncedLeaf = Synced - 1
  <2>1. FirstWallet = [key |-> Key, notes |-> f, nextBlinding |-> 0,
                       lastSyncedLeaf |-> Synced - 1]
    BY <1>2, <1>3
  <2>2. Synced - 1 \in Int /\ 0 \in Nat
    BY FirstPayments
  <2> QED
    BY <1>6, <2>1, <2>2 DEF Wallets
<1> QED
  BY <1>4, <1>5, <1>7

LEMMA FirstLog ==
    ASSUME Init
    PROVE  /\ leaves \in Seq(Leaves) /\ Len(leaves) = Len(FirstLeaves)
           /\ \A k \in DOMAIN leaves :
                /\ k \in 1 .. Len(FirstLeaves) /\ leaves[k].to = FirstLeaves[k].to
                /\ leaves[k].commitment =
                     Payment(FirstLeaves[k].to, FirstLeaves[k].value, k)
                /\ leaves[k].opens = leaves[k].commitment
<1>1. leaves = [k \in 1 .. Len(FirstLeaves) |->
                  PaymentLeaf(FirstLeaves[k].to, FirstLeaves[k].value, k)]
  BY FirstPayments DEF Init
<1>2. \A k \in 1 .. Len(FirstLeaves) : leaves[k] \in Leaves
  BY <1>1, FirstPayments DEF Leaves, PaymentLeaf
<1>3. leaves \in [1 .. Len(FirstLeaves) -> Leaves] /\ DOMAIN leaves = 1 .. Len(FirstLeaves)
  BY <1>1, <1>2
<1>4. leaves \in Seq(Leaves) /\ Len(leaves) = Len(FirstLeaves)
  BY <1>3, FirstPayments
<1> QED
  BY <1>1, <1>3, <1>4 DEF PaymentLeaf

LEMMA FirstTypes == Init => TypedInv
<1> SUFFICES ASSUME Init PROVE TypedInv
  OBVIOUS
<1>1. wallet \in Wallets /\ disk \in Wallets /\ CoinInv /\ StoreInv
  BY FirstWalletTyped, FirstCoins, FirstStores DEF Init
<1>2. failures \in [Endpoints -> Nat] /\ cooling \in [Endpoints -> 0 .. Cooldown]
  BY FailoverAssumption DEF Init, InitFailover
<1>3. /\ primary = 0 .. Len(FirstLeaves) - 1 /\ primary \subseteq Nat /\ nextReplica = 0
      /\ \A i \in ReplicaIds : replica[i] \subseteq primary
  <2>1. primary = 0 .. Len(FirstLeaves) - 1 /\ primary \subseteq Nat /\ nextReplica = 0
    BY FirstPayments DEF Init, InitReplicas
  <2>2. \A i \in ReplicaIds : replica[i] \subseteq primary
    BY DEF Init, InitReplicas
  <2> QED
    BY <2>1, <2>2
<1>4. replica \in [ReplicaIds -> SUBSET Nat] /\ replicaHealthy \in [ReplicaIds -> BOOLEAN]
  BY <1>1, <1>3 DEF StoreInv
<1>5. IndexInv
  <2>1. Len(FirstLeaves) \in 0 .. Len(leaves)
    BY FirstLog, FirstPayments
  <2> QED
    BY <1>3, <2>1 DEF IndexInv
<1>6. LeavesInv
  BY FirstLog DEF LeavesInv, Payment
<1>7. CallTypes /\ CallInv
  <2>1. /\ <<>> \in Seq(Nat) /\ <<>> \in Seq(Endpoints) /\ <<>> \in Seq(Entries)
        /\ <<>> \in Seq(NoteCommitments)
    OBVIOUS
  <2>2. CallTypes
    BY <2>1 DEF Init, CallTypes, Steps
  <2>3. CallInv
    BY DEF Init, CallInv, CallShape
  <2> QED
    BY <2>2, <2>3
<1>8. TypeOK
  <2>1. leaves \in Seq(Leaves) /\ incidents \in 0 .. MaxIncidents
    <3>1. leaves \in Seq(Leaves)
      BY FirstLog
    <3>2. incidents = 0 /\ MaxIncidents \in Nat
      BY ClientAssumption DEF Init
    <3> QED
      BY <3>1, <3>2
  <2>2. /\ sent \subseteq Calls \X Endpoints /\ landed \subseteq sent
        /\ nullifiers \subseteq NoteCommitments /\ overlooked \subseteq Nat
        /\ forgotten \subseteq NoteCommitments \cup Blindings /\ syncsMet \in BOOLEAN
    BY DEF Init
  <2> QED
    BY <1>1, <1>2, <1>3, <1>4, <1>7, <2>1, <2>2 DEF TypeOK, CallTypes, Leaves
<1> QED
  BY <1>1, <1>5, <1>6, <1>7, <1>8 DEF TypedInv

-----------------------------------------------------------------------------
(* What is true of the notes of a wallet, or of its file.                  *)

\* The blindings that the counter of w has given out.
Derived(w) == {<<Key, n>> : n \in 0 .. w.nextBlinding - 1}

BlindingsOf(w) == {w.notes[i].blinding : i \in DOMAIN w.notes}

\* Misopened, of a log.
MisopenedIn(log) ==
    {log[i].opens : i \in {k \in DOMAIN log : log[k].opens # log[k].commitment}}

EachOnce(w, met, log) ==
    \A i, j \in DOMAIN w.notes :
        i # j => \/ Commitment(w.notes[i]) # Commitment(w.notes[j])
                 \/ met \/ Commitment(w.notes[i]) \in MisopenedIn(log)

\* The payments in the first n leaves of the log are in w, but for the missed ones.
Reached(w, n, log, missed) ==
    \A i \in DOMAIN log : PaidTo(log[i]) /\ i - 1 < n =>
        log[i].commitment \in Commitments(w) \/ i - 1 \in missed

\* Notes of w have blindings of senders or of its counter; each is there once,
\* unless two syncs met or a ciphertext misled; each is on the chain or in a deposit under way; and
\* payments up to the watermark are there.
Sound(w, found, log, missed, met) ==
    /\ \A b \in BlindingsOf(w) : b[1] = "sender" \/ b \in Derived(w)
    /\ EachOnce(w, met, log)
    /\ Commitments(w) \subseteq found
    /\ w.lastSyncedLeaf < Len(log)
    /\ Reached(w, w.lastSyncedLeaf, log, missed)

LEMMA ExtendsKeepsSets ==
    ASSUME NEW w \in Wallets, NEW v, Extends(w, v)
    PROVE  /\ Commitments(w) \subseteq Commitments(v) /\ Taken(w) \subseteq Taken(v)
           /\ BlindingsOf(w) \subseteq BlindingsOf(v) /\ Derived(w) \subseteq Derived(v)
           /\ \A i \in DOMAIN w.notes : v.notes[i].blinding = w.notes[i].blinding
<1>1. v \in Wallets /\ \A i \in DOMAIN w.notes : i \in DOMAIN v.notes
  BY DEF Extends
<1>2. \A i \in DOMAIN w.notes : w.notes[i] \in WalletNotes /\ v.notes[i] \in WalletNotes
  BY <1>1, WalletFields
<1>3. \A i \in DOMAIN w.notes : v.notes[i].blinding = w.notes[i].blinding
  BY <1>2, NoteFields DEF Extends
<1>4. Commitments(w) \subseteq Commitments(v)
  BY <1>1 DEF Extends, Commitments
<1>5. Taken(w) \subseteq Taken(v)
  BY <1>1 DEF Extends, Taken, IsTaken
<1>6. BlindingsOf(w) \subseteq BlindingsOf(v)
  BY <1>1, <1>3 DEF BlindingsOf
<1>7. Derived(w) \subseteq Derived(v)
  <2>1. w.nextBlinding \in Nat /\ v.nextBlinding \in Nat /\ v.nextBlinding >= w.nextBlinding
    BY <1>1, WalletFields DEF Extends
  <2>2. \A n \in 0 .. w.nextBlinding - 1 : n \in 0 .. v.nextBlinding - 1
    BY <2>1
  <2> QED
    BY <2>2 DEF Derived
<1> QED
  BY <1>3, <1>4, <1>5, <1>6, <1>7

LEMMA KeepsKeepsSets ==
    ASSUME NEW w \in Wallets, NEW v, Keeps(w, v)
    PROVE  Commitments(v) = Commitments(w) /\ BlindingsOf(v) = BlindingsOf(w)
<1>1. /\ Extends(w, v) /\ DOMAIN v.notes = DOMAIN w.notes
      /\ \A i \in DOMAIN w.notes : v.notes[i].blinding = w.notes[i].blinding
  BY ExtendsKeepsSets DEF Keeps
<1>2. Commitments(v) = Commitments(w)
  BY <1>1 DEF Extends, Commitments
<1>3. BlindingsOf(v) = BlindingsOf(w)
  BY <1>1 DEF BlindingsOf
<1> QED
  BY <1>2, <1>3

LEMMA WithNoteSets ==
    ASSUME NEW w \in Wallets, NEW n \in WalletNotes
    PROVE  LET v == WithNote(w, n)
           IN  /\ Commitments(v) = Commitments(w) \cup {Commitment(n)}
               /\ BlindingsOf(v) = BlindingsOf(w) \cup {n.blinding}
               /\ Derived(v) = Derived(w)
<1> DEFINE v == WithNote(w, n)
<1>1. /\ v.nextBlinding = w.nextBlinding
      /\ DOMAIN v.notes = DOMAIN w.notes \cup {Len(w.notes) + 1}
      /\ Len(w.notes) + 1 \notin DOMAIN w.notes
      /\ \A i \in DOMAIN w.notes : v.notes[i] = w.notes[i]
      /\ v.notes[Len(w.notes) + 1] = n
  BY WithNoteTyped
<1> HIDE DEF v
<1>2. Commitments(v) = Commitments(w) \cup {Commitment(n)}
  BY <1>1 DEF Commitments
<1>3. BlindingsOf(v) = BlindingsOf(w) \cup {n.blinding}
  BY <1>1 DEF BlindingsOf
<1> QED
  BY <1>1, <1>2, <1>3 DEF v, Derived

LEMMA SoundKeeps ==
    ASSUME NEW w \in Wallets, NEW v, Keeps(w, v), NEW found, NEW log, NEW missed, NEW met,
           Sound(w, found, log, missed, met)
    PROVE  Sound(v, found, log, missed, met)
<1>1. /\ Commitments(v) = Commitments(w) /\ BlindingsOf(v) = BlindingsOf(w)
      /\ Derived(w) \subseteq Derived(v)
      /\ v.lastSyncedLeaf = w.lastSyncedLeaf /\ DOMAIN v.notes = DOMAIN w.notes
      /\ \A i \in DOMAIN w.notes : Commitment(v.notes[i]) = Commitment(w.notes[i])
  BY KeepsKeepsSets, ExtendsKeepsSets DEF Keeps, Extends
<1>2. EachOnce(v, met, log)
  BY <1>1 DEF Sound, EachOnce
<1>3. Reached(v, v.lastSyncedLeaf, log, missed)
  BY <1>1 DEF Sound, Reached
<1> QED
  BY <1>1, <1>2, <1>3 DEF Sound

LEMMA SoundWithNote ==
    ASSUME NEW w \in Wallets, NEW n \in WalletNotes, NEW found, NEW log, NEW missed, NEW met,
           Sound(w, found, log, missed, met), Commitment(n) \in found,
           n.blinding[1] = "sender" \/ n.blinding \in Derived(w),
           \/ met \/ Commitment(n) \in MisopenedIn(log)
           \/ Commitment(n) \notin Commitments(w)
    PROVE  Sound(WithNote(w, n), found, log, missed, met)
<1> DEFINE v == WithNote(w, n)
           last == Len(w.notes) + 1
<1>1. /\ v.lastSyncedLeaf = w.lastSyncedLeaf
      /\ DOMAIN v.notes = DOMAIN w.notes \cup {last}
      /\ \A i \in DOMAIN w.notes : v.notes[i] = w.notes[i]
      /\ v.notes[last] = n
  BY WithNoteTyped
<1>2. /\ Commitments(v) = Commitments(w) \cup {Commitment(n)}
      /\ BlindingsOf(v) = BlindingsOf(w) \cup {n.blinding}
      /\ Derived(v) = Derived(w)
  BY WithNoteSets
<1> HIDE DEF v, last
<1>3. ASSUME NEW i \in DOMAIN v.notes, NEW j \in DOMAIN v.notes, i # j
      PROVE  \/ Commitment(v.notes[i]) # Commitment(v.notes[j])
             \/ met \/ Commitment(v.notes[i]) \in MisopenedIn(log)
  <2>1. CASE i \in DOMAIN w.notes /\ j \in DOMAIN w.notes
    BY <1>1, <1>3, <2>1 DEF Sound, EachOnce
  <2>2. CASE i = last /\ j \in DOMAIN w.notes
    BY <1>1, <2>2 DEF Commitments
  <2>3. CASE j = last /\ i \in DOMAIN w.notes
    BY <1>1, <2>3 DEF Commitments
  <2> QED
    BY <1>1, <1>3, <2>1, <2>2, <2>3
<1>4. EachOnce(v, met, log)
  BY <1>3 DEF EachOnce
<1>5. Reached(v, v.lastSyncedLeaf, log, missed)
  BY <1>1, <1>2 DEF Sound, Reached
<1>6. Sound(v, found, log, missed, met)
  BY <1>1, <1>2, <1>4, <1>5 DEF Sound
<1> QED
  BY <1>6 DEF v

LEMMA MisopenedLater ==
    ASSUME NEW log \in Seq(Leaves), NEW log2, Grew(log, log2)
    PROVE  MisopenedIn(log) \subseteq MisopenedIn(log2)
<1>1. ASSUME NEW i \in DOMAIN log, log[i].opens # log[i].commitment
      PROVE  log[i].opens \in MisopenedIn(log2)
  <2>1. i \in DOMAIN log2 /\ log2[i] = log[i]
    BY DEF Grew
  <2> QED
    BY <1>1, <2>1 DEF MisopenedIn
<1> QED
  BY <1>1 DEF MisopenedIn

LEMMA SoundLater ==
    ASSUME NEW w \in Wallets, NEW found, NEW log \in Seq(Leaves), NEW missed, NEW met,
           Sound(w, found, log, missed, met), NEW found2, NEW log2, NEW missed2, NEW met2,
           found \subseteq found2, Grew(log, log2), missed \subseteq missed2, met => met2
    PROVE  Sound(w, found2, log2, missed2, met2)
<1>1. /\ Len(log) \in Nat /\ Len(log2) \in Nat /\ Len(log2) >= Len(log)
      /\ w.lastSyncedLeaf \in Int /\ w.lastSyncedLeaf < Len(log) /\ DOMAIN log2 = 1 .. Len(log2)
  BY WalletFields DEF Grew, Sound
<1>2. ASSUME NEW i \in DOMAIN log2, PaidTo(log2[i]), i - 1 < w.lastSyncedLeaf
      PROVE  log2[i].commitment \in Commitments(w) \/ i - 1 \in missed2
  <2>1. ~(i > Len(log))
    BY <1>1, <1>2
  <2>2. i \in DOMAIN log /\ log2[i] = log[i]
    BY <2>1 DEF Grew
  <2> QED
    BY <1>2, <2>2 DEF Sound, Reached
<1>3. Reached(w, w.lastSyncedLeaf, log2, missed2)
  BY <1>2 DEF Reached
<1>4. EachOnce(w, met2, log2)
  BY MisopenedLater DEF Sound, EachOnce
<1>5. w.lastSyncedLeaf < Len(log2)
  BY <1>1
<1> QED
  BY <1>3, <1>4, <1>5 DEF Sound

-----------------------------------------------------------------------------
(* A sync: its response, and its snapshot of the wallet's commitments.     *)

EntryOf(log, i) ==
    [leafIndex |-> i, commitment |-> log[i + 1].commitment, to |-> log[i + 1].to,
     opens |-> log[i + 1].opens]

\* Entries of the log; the payments before each of them are in w, or missed, or
\* are entries before it.
Response(entries, w, log, missed) ==
    \A k \in DOMAIN entries :
        /\ entries[k].leafIndex \in 0 .. Len(log) - 1
        /\ entries[k] = EntryOf(log, entries[k].leafIndex)
        /\ \A i \in DOMAIN log : PaidTo(log[i]) /\ i - 1 < entries[k].leafIndex =>
             \/ log[i].commitment \in Commitments(w) \/ i - 1 \in missed
             \/ \E m \in 1 .. k - 1 : entries[m].leafIndex = i - 1

\* The snapshot has nothing but what the wallet holds, and every payment in that.
Snapshot(known, held, met) ==
    /\ known \subseteq held
    /\ \A x \in held : x[3][1] = "sender" => x \in known \/ met

\* A payment to the wallet that the loop passed over is in it.
LEMMA PassedOver ==
    ASSUME NEW w \in Wallets, NEW entries \in Seq(Entries), NEW log, NEW missed,
           Response(entries, w, log, missed), NEW known, known \subseteq Commitments(w),
           NEW m \in DOMAIN entries, ~NeedsDecryption(entries[m], known),
           NEW i \in DOMAIN log, PaidTo(log[i]), i \in Nat, entries[m].leafIndex = i - 1
    PROVE  log[i].commitment \in Commitments(w)
<1>1. entries[m] = EntryOf(log, i - 1) /\ (i - 1) + 1 = i
  BY DEF Response
<1>2. entries[m].to = Key /\ entries[m].commitment = log[i].commitment
  BY <1>1 DEF EntryOf, PaidTo
<1>3. Key # "none"
  BY ClientAssumption
<1> QED
  BY <1>2, <1>3 DEF NeedsDecryption

\* The watermark passes what is in the wallet only.
LEMMA SoundWatermarked ==
    ASSUME NEW w \in Wallets, NEW found, NEW log \in Seq(Leaves), NEW missed, NEW met,
           Sound(w, found, log, missed, met), NEW entries \in Seq(Entries),
           Response(entries, w, log, missed), NEW known, known \subseteq Commitments(w),
           NEW k \in 0 .. Len(entries),
           \A j \in DOMAIN entries : j < k => ~NeedsDecryption(entries[j], known)
    PROVE  Sound(Watermarked(w, entries, k), found, log, missed, met)
<1> DEFINE v == Watermarked(w, entries, k)
           leaf == IF k = 0 THEN -1 ELSE entries[k].leafIndex
<1>1. /\ v.notes = w.notes /\ v.nextBlinding = w.nextBlinding
      /\ v.lastSyncedLeaf = IF leaf > w.lastSyncedLeaf THEN leaf ELSE w.lastSyncedLeaf
  BY WatermarkedTyped
<1>2. /\ Len(log) \in Nat /\ w.lastSyncedLeaf \in Int /\ DOMAIN log = 1 .. Len(log)
      /\ w.lastSyncedLeaf < Len(log) /\ DOMAIN entries = 1 .. Len(entries)
      /\ Len(entries) \in Nat
  BY WalletFields DEF Sound
<1>3. leaf \in Int /\ leaf < Len(log)
  <2>1. CASE k = 0
    BY <1>2, <2>1
  <2>2. CASE k # 0
    <3>1. k \in DOMAIN entries /\ leaf = entries[k].leafIndex
      BY <1>2, <2>2
    <3> HIDE DEF leaf
    <3>2. leaf \in 0 .. Len(log) - 1
      BY <3>1 DEF Response
    <3> QED
      BY <1>2, <3>2
  <2> QED
    BY <2>1, <2>2
<1>4. ASSUME NEW i \in DOMAIN log, PaidTo(log[i]), i - 1 < v.lastSyncedLeaf
      PROVE  log[i].commitment \in Commitments(w) \/ i - 1 \in missed
  <2>1. i \in Nat /\ i - 1 \in Int /\ i - 1 >= 0
    BY <1>2
  <2>2. CASE i - 1 < w.lastSyncedLeaf
    BY <1>4, <2>2 DEF Sound, Reached
  <2>3. CASE ~(i - 1 < w.lastSyncedLeaf)
    <3>1. i - 1 < leaf
      BY <1>1, <1>4, <2>3
    <3>2. k # 0
      BY <2>1, <3>1
    <3>3. k \in DOMAIN entries /\ i - 1 < entries[k].leafIndex
      BY <1>2, <3>1, <3>2
    <3>4. ASSUME NEW m \in 1 .. k - 1, entries[m].leafIndex = i - 1
          PROVE  log[i].commitment \in Commitments(w)
      <4>1. m \in DOMAIN entries /\ m < k
        BY <1>2
      <4> QED
        BY <1>4, <2>1, <3>4, <4>1, PassedOver
    <3> QED
      BY <1>4, <3>3, <3>4 DEF Response
  <2> QED
    BY <2>2, <2>3
<1> HIDE DEF v, leaf
<1>5. Commitments(v) = Commitments(w) /\ BlindingsOf(v) = BlindingsOf(w) /\ Derived(v) = Derived(w)
  BY <1>1 DEF Commitments, BlindingsOf, Derived
<1>6. EachOnce(v, met, log)
  BY <1>1 DEF Sound, EachOnce
<1>7. Reached(v, v.lastSyncedLeaf, log, missed)
  BY <1>4, <1>5 DEF Reached
<1>8. v.lastSyncedLeaf < Len(log)
  BY <1>1, <1>2, <1>3
<1>9. Sound(v, found, log, missed, met)
  BY <1>5, <1>6, <1>7, <1>8 DEF Sound
<1> QED
  BY <1>9 DEF v

\* A payment to the wallet in the part of the loop already done needs no more.
LEMMA RestResponds ==
    ASSUME NEW w \in Wallets, NEW entries \in Seq(Entries), NEW log \in Seq(Leaves), NEW missed,
           Response(entries, w, log, missed), NEW known, known \subseteq Commitments(w),
           NEW k \in 1 .. Len(entries),
           \A j \in DOMAIN entries : j < k => ~NeedsDecryption(entries[j], known)
    PROVE  Response(SubSeq(entries, k, Len(entries)), w, log, missed)
<1> DEFINE r == SubSeq(entries, k, Len(entries))
<1>1. \A j \in DOMAIN r : k + j - 1 \in DOMAIN entries /\ r[j] = entries[k + j - 1]
  BY RestTyped
<1>2. DOMAIN r = 1 .. Len(entries) - k + 1
  <2>1. r \in Seq(Entries) /\ Len(r) = Len(entries) - k + 1
    BY RestTyped
  <2> QED
    BY <2>1
<1>3. /\ DOMAIN entries = 1 .. Len(entries) /\ Len(entries) \in Nat /\ k \in Nat
      /\ DOMAIN log = 1 .. Len(log) /\ Len(log) \in Nat
  OBVIOUS
<1> HIDE DEF r
<1>4. ASSUME NEW j \in DOMAIN r, NEW i \in DOMAIN log, PaidTo(log[i]),
             i - 1 < r[j].leafIndex
      PROVE  \/ log[i].commitment \in Commitments(w) \/ i - 1 \in missed
             \/ \E m \in 1 .. j - 1 : r[m].leafIndex = i - 1
  <2>1. k + j - 1 \in DOMAIN entries /\ i - 1 < entries[k + j - 1].leafIndex
    BY <1>1, <1>4
  <2>2. \/ log[i].commitment \in Commitments(w) \/ i - 1 \in missed
        \/ \E m \in 1 .. (k + j - 1) - 1 : entries[m].leafIndex = i - 1
    <3>1. PICK p : p = k + j - 1
      OBVIOUS
    <3>2. p \in DOMAIN entries /\ i - 1 < entries[p].leafIndex
      BY <2>1, <3>1
    <3>3. \/ log[i].commitment \in Commitments(w) \/ i - 1 \in missed
          \/ \E m \in 1 .. p - 1 : entries[m].leafIndex = i - 1
      BY <1>4, <3>2 DEF Response
    <3> QED
      BY <3>1, <3>3, Zenon
  <2>3. ASSUME NEW m \in 1 .. (k + j - 1) - 1, entries[m].leafIndex = i - 1
        PROVE  \/ log[i].commitment \in Commitments(w)
               \/ \E n \in 1 .. j - 1 : r[n].leafIndex = i - 1
    <3>1. CASE m < k
      <4>1. m \in DOMAIN entries /\ i \in Nat
        BY <1>3, <3>1
      <4> QED
        BY <1>4, <2>3, <3>1, <4>1, PassedOver
    <3>2. CASE ~(m < k)
      <4> DEFINE n == m - k + 1
      <4>1. n \in 1 .. j - 1 /\ n \in DOMAIN r /\ k + n - 1 = m
        BY <1>2, <1>3, <3>2
      <4> HIDE DEF n
      <4>2. r[n].leafIndex = i - 1
        BY <1>1, <2>3, <4>1
      <4> QED
        BY <4>1, <4>2
    <3> QED
      BY <3>1, <3>2
  <2> QED
    BY <2>2, <2>3
<1>5. \A j \in DOMAIN r : /\ r[j].leafIndex \in 0 .. Len(log) - 1
                          /\ r[j] = EntryOf(log, r[j].leafIndex)
  BY <1>1 DEF Response
<1>6. Response(r, w, log, missed)
  BY <1>4, <1>5 DEF Response
<1> QED
  BY <1>6 DEF r

\* The first entry of the response is in the wallet once it was decrypted.
LEMMA TailResponds ==
    ASSUME NEW w, NEW v, Commitments(w) \subseteq Commitments(v),
           NEW entries \in Seq(Entries), entries # <<>>, NEW log \in Seq(Leaves), NEW missed,
           Response(entries, w, log, missed),
           PaidTo(entries[1]) => entries[1].commitment \in Commitments(v)
    PROVE  Response(Tail(entries), v, log, missed)
<1> DEFINE r == Tail(entries)
<1>1. /\ r \in Seq(Entries) /\ Len(r) = Len(entries) - 1
      /\ \A j \in 1 .. Len(r) : r[j] = entries[j + 1]
  BY HeadTailProperties
<1>2. /\ DOMAIN entries = 1 .. Len(entries) /\ Len(entries) \in Nat
      /\ DOMAIN log = 1 .. Len(log) /\ Len(log) \in Nat
  OBVIOUS
<1> HIDE DEF r
<1>3. DOMAIN r = 1 .. Len(entries) - 1 /\ \A j \in DOMAIN r : j + 1 \in DOMAIN entries
  <2>1. DOMAIN r = 1 .. Len(r)
    BY <1>1
  <2> QED
    BY <1>1, <1>2, <2>1
<1>4. ASSUME NEW j \in DOMAIN r, NEW i \in DOMAIN log, PaidTo(log[i]),
             i - 1 < r[j].leafIndex
      PROVE  \/ log[i].commitment \in Commitments(v) \/ i - 1 \in missed
             \/ \E m \in 1 .. j - 1 : r[m].leafIndex = i - 1
  <2>1. j + 1 \in DOMAIN entries /\ i - 1 < entries[j + 1].leafIndex /\ j \in Nat /\ i \in Nat
    BY <1>1, <1>2, <1>3, <1>4
  <2>2. \/ log[i].commitment \in Commitments(w) \/ i - 1 \in missed
        \/ \E m \in 1 .. j + 1 - 1 : entries[m].leafIndex = i - 1
    BY <1>4, <2>1 DEF Response
  <2>3. ASSUME NEW m \in 1 .. j + 1 - 1, entries[m].leafIndex = i - 1
        PROVE  \/ log[i].commitment \in Commitments(v)
               \/ \E n \in 1 .. j - 1 : r[n].leafIndex = i - 1
    <3>1. CASE m = 1
      <4>1. 1 \in DOMAIN entries /\ (i - 1) + 1 = i
        BY <1>2, <2>1
      <4>2. entries[1] = EntryOf(log, i - 1)
        BY <2>3, <3>1, <4>1 DEF Response
      <4>3. PaidTo(entries[1]) /\ entries[1].commitment = log[i].commitment
        BY <1>4, <4>1, <4>2 DEF EntryOf, PaidTo
      <4> QED
        BY <4>3
    <3>2. CASE m # 1
      <4>1. m - 1 \in 1 .. j - 1 /\ m - 1 \in DOMAIN r /\ (m - 1) + 1 = m
        BY <1>2, <1>3, <2>1, <3>2
      <4>2. r[m - 1] = entries[(m - 1) + 1]
        BY <1>1, <4>1
      <4> QED
        BY <2>3, <4>1, <4>2
    <3> QED
      BY <3>1, <3>2
  <2> QED
    BY <2>2, <2>3
<1>5. ASSUME NEW j \in DOMAIN r
      PROVE  r[j].leafIndex \in 0 .. Len(log) - 1 /\ r[j] = EntryOf(log, r[j].leafIndex)
  <2>1. r[j] = entries[j + 1] /\ j + 1 \in DOMAIN entries
    BY <1>1, <1>3
  <2> QED
    BY <2>1 DEF Response
<1>6. Response(r, v, log, missed)
  BY <1>4, <1>5 DEF Response
<1> QED
  BY <1>6 DEF r

LEMMA ResponseLater ==
    ASSUME NEW entries \in Seq(Entries), NEW log \in Seq(Leaves), NEW missed, NEW w,
           Response(entries, w, log, missed), NEW v, NEW log2, NEW missed2,
           Commitments(w) \subseteq Commitments(v), Grew(log, log2), missed \subseteq missed2
    PROVE  Response(entries, v, log2, missed2)
<1>1. /\ Len(log) \in Nat /\ Len(log2) \in Nat /\ Len(log2) >= Len(log)
      /\ DOMAIN log = 1 .. Len(log) /\ DOMAIN log2 = 1 .. Len(log2)
  BY DEF Grew
<1>2. ASSUME NEW k \in DOMAIN entries
      PROVE  /\ entries[k].leafIndex \in 0 .. Len(log2) - 1
             /\ entries[k] = EntryOf(log2, entries[k].leafIndex)
  <2>1. entries[k].leafIndex \in 0 .. Len(log) - 1
    BY DEF Response
  <2>2. /\ entries[k].leafIndex \in 0 .. Len(log2) - 1
        /\ entries[k].leafIndex + 1 \in DOMAIN log
    BY <1>1, <2>1
  <2>3. log2[entries[k].leafIndex + 1] = log[entries[k].leafIndex + 1]
    BY <2>2 DEF Grew
  <2>4. entries[k] = EntryOf(log, entries[k].leafIndex)
    BY DEF Response
  <2> QED
    BY <2>2, <2>3, <2>4 DEF EntryOf
<1>3. ASSUME NEW k \in DOMAIN entries, NEW i \in DOMAIN log2, PaidTo(log2[i]),
             i - 1 < entries[k].leafIndex
      PROVE  \/ log2[i].commitment \in Commitments(v) \/ i - 1 \in missed2
             \/ \E m \in 1 .. k - 1 : entries[m].leafIndex = i - 1
  <2>1. entries[k].leafIndex \in 0 .. Len(log) - 1
    BY DEF Response
  <2>2. ~(i > Len(log))
    BY <1>1, <1>3, <2>1
  <2>3. i \in DOMAIN log /\ log2[i] = log[i]
    BY <2>2 DEF Grew
  <2>4. \/ log[i].commitment \in Commitments(w) \/ i - 1 \in missed
        \/ \E m \in 1 .. k - 1 : entries[m].leafIndex = i - 1
    BY <1>3, <2>3 DEF Response
  <2> QED
    BY <2>3, <2>4
<1> QED
  BY <1>2, <1>3 DEF Response

\* What a store lacks was overlooked, so the reply tells of every payment.
LEMMA ReplyResponds ==
    ASSUME TypedInv, NEW notes, notes \subseteq primary, primary \ notes \subseteq overlooked,
           NEW leaf \in Int, leaf <= wallet.lastSyncedLeaf,
           Reached(wallet, wallet.lastSyncedLeaf, leaves, overlooked)
    PROVE  Response(Reply(notes, leaf), wallet, leaves, overlooked)
<1> DEFINE found == NotesAfter(notes, leaf)
           q == Reply(notes, leaf)
<1>1. /\ DOMAIN q = DOMAIN found
      /\ \A k \in DOMAIN q :
           /\ q[k] = Entry(found[k]) /\ found[k] \in 0 .. Len(leaves) - 1
           /\ found[k] \in notes
      /\ \A k \in DOMAIN q : \A i \in notes :
           leaf <= i /\ i < found[k] => \E m \in 1 .. k - 1 : found[m] = i
      /\ q \in Seq(Entries)
  BY ReplyTyped
<1>2. PICK n \in 0 .. Len(leaves) : primary = 0 .. n - 1
  BY DEF TypedInv, IndexInv
<1>3. /\ Len(leaves) \in Nat /\ DOMAIN leaves = 1 .. Len(leaves) /\ wallet.lastSyncedLeaf \in Int
      /\ n \in Nat
  BY <1>2, LeavesTyped, WalletFields DEF TypedInv, TypeOK
<1> HIDE DEF found, q
<1>4. \A k \in DOMAIN q : q[k].leafIndex = found[k] /\ q[k] = EntryOf(leaves, found[k])
  BY <1>1 DEF Entry, EntryOf
<1>5. \A k \in DOMAIN q : k \in Nat /\ \A m \in 1 .. k - 1 : m \in DOMAIN q
  <2>1. DOMAIN q = 1 .. Len(q) /\ Len(q) \in Nat
    BY <1>1
  <2> QED
    BY <2>1
<1>6. ASSUME NEW k \in DOMAIN q, NEW i \in DOMAIN leaves, PaidTo(leaves[i]),
             i - 1 < q[k].leafIndex
      PROVE  \/ leaves[i].commitment \in Commitments(wallet) \/ i - 1 \in overlooked
             \/ \E m \in 1 .. k - 1 : q[m].leafIndex = i - 1
  <2>1. i \in Nat /\ i >= 1 /\ found[k] \in primary /\ i - 1 < found[k] /\ found[k] \in Nat
    BY <1>1, <1>3, <1>4, <1>6
  <2>2. i - 1 \in primary
    BY <1>2, <1>3, <2>1
  <2>3. CASE i - 1 < leaf
    <3>1. i - 1 < wallet.lastSyncedLeaf
      BY <1>3, <2>1, <2>3
    <3> QED
      BY <1>6, <3>1 DEF Reached
  <2>4. CASE ~(i - 1 < leaf) /\ i - 1 \in notes
    <3>1. leaf <= i - 1
      BY <2>1, <2>4
    <3>2. PICK m \in 1 .. k - 1 : found[m] = i - 1
      BY <1>1, <2>1, <2>4, <3>1
    <3> QED
      BY <1>4, <1>5, <3>2
  <2>5. CASE i - 1 \notin notes
    BY <2>2, <2>5
  <2> QED
    BY <2>3, <2>4, <2>5
<1>7. Response(q, wallet, leaves, overlooked)
  BY <1>1, <1>4, <1>6 DEF Response
<1> QED
  BY <1>7 DEF q

\* What the loop of a sync leaves behind.
LEMMA LoopLeaves ==
    ASSUME TypedInv, NEW c \in Calls, NEW w \in Wallets, NEW entries \in Seq(Entries),
           NEW known, Looped(c, w, entries, known), NEW found,
           Sound(w, found, leaves, overlooked, syncsMet),
           Response(entries, w, leaves, overlooked),
           Snapshot(known, Commitments(w), syncsMet)
    PROVE  /\ Sound(wallet', found, leaves, overlooked, syncsMet)
           /\ Commitments(wallet') = Commitments(w) /\ BlindingsOf(wallet') = BlindingsOf(w)
           /\ step'[c] = "decrypting" =>
                /\ NeedsDecryption(body'[c][1], existing'[c])
                /\ Snapshot(existing'[c], Commitments(wallet'), syncsMet)
                /\ Response(body'[c], wallet', leaves, overlooked)
<1>1. PICK k \in 0 .. Len(entries) :
        /\ wallet' = Watermarked(w, entries, k)
        /\ \A j \in DOMAIN entries : j < k => ~NeedsDecryption(entries[j], known)
        /\ \/ step'[c] = "done"
           \/ /\ k > 0 /\ step'[c] = "decrypting" /\ existing'[c] = known
              /\ body'[c] = SubSeq(entries, k, Len(entries))
              /\ NeedsDecryption(entries[k], known)
  BY DEF Looped
<1>2. leaves \in Seq(Leaves) /\ known \subseteq Commitments(w)
  BY LeavesTyped DEF Snapshot
<1>3. Sound(wallet', found, leaves, overlooked, syncsMet)
  <2>1. Sound(Watermarked(w, entries, k), found, leaves, overlooked, syncsMet)
    BY <1>1, <1>2, SoundWatermarked
  <2> QED
    BY <1>1, <2>1
<1>4. Commitments(wallet') = Commitments(w) /\ BlindingsOf(wallet') = BlindingsOf(w)
  <2>1. wallet'.notes = w.notes
    BY <1>1, WatermarkedTyped
  <2> QED
    BY <2>1 DEF Commitments, BlindingsOf
<1>5. ASSUME step'[c] = "decrypting"
      PROVE  /\ NeedsDecryption(body'[c][1], existing'[c])
             /\ Snapshot(existing'[c], Commitments(wallet'), syncsMet)
             /\ Response(body'[c], wallet', leaves, overlooked)
  <2>1. /\ existing'[c] = known /\ body'[c] = SubSeq(entries, k, Len(entries))
        /\ NeedsDecryption(entries[k], known) /\ k \in 1 .. Len(entries)
    BY <1>1, <1>5
  <2>2. body'[c] \in Seq(Entries) /\ body'[c] # <<>>
        /\ \A j \in DOMAIN body'[c] : body'[c][j] = entries[k + j - 1]
    BY <2>1, RestTyped
  <2>3. body'[c][1] = entries[k]
    <3>1. 1 \in DOMAIN body'[c] /\ k + 1 - 1 = k
      BY <2>1, <2>2, EmptySeq
    <3> QED
      BY <2>2, <3>1
  <2>4. Response(SubSeq(entries, k, Len(entries)), w, leaves, overlooked)
    BY <1>1, <1>2, <2>1, RestResponds
  <2>5. Response(body'[c], wallet', leaves, overlooked)
    BY <1>4, <2>1, <2>4 DEF Response
  <2> QED
    BY <1>4, <2>1, <2>3, <2>5
<1> QED
  BY <1>3, <1>4, <1>5

-----------------------------------------------------------------------------
(* The wallet among the calls, the chain and the indexer.                  *)

Awaited(c) == outputs[c][1][3]

\* The blinding that a deposit waits for was given out and is not in the wallet yet.
AwaitedInv ==
    \A c \in Calls : step[c] = "deriving" =>
        /\ Awaited(c) \in Derived(wallet) /\ Awaited(c) \notin BlindingsOf(wallet)
        /\ \A d \in Calls \ {c} : step[d] = "deriving" => Awaited(d) # Awaited(c)

\* A note that a call shows, or that the chain has as spent, is marked or locked.
ShownInv ==
    \A n \in nullifiers \cup UNION {Shown(c) : c \in Calls} :
        syncsMet \/ n \in forgotten \/ n \in Taken(wallet)

LandedInv ==
    \A l \in landed : \A k \in DOMAIN outputs[l[1]] : outputs[l[1]][k] \in OnChain

SyncShape(c) ==
    /\ step[c] = "fetching" => after[c] <= wallet.lastSyncedLeaf
    /\ step[c] = "decrypting" =>
         /\ NeedsDecryption(body[c][1], existing[c])
         /\ Snapshot(existing[c], Commitments(wallet), syncsMet)
         /\ Response(body[c], wallet, leaves, overlooked)

SyncInv ==
    /\ \A c \in Calls : SyncShape(c)
    /\ \A c, d \in Calls : c # d /\ Syncing(c) /\ Syncing(d) => syncsMet

\* What the wallet's notes may rest on: leaves, misleading ciphertexts, and deposits
\* that are not done.
Pending == {c \in Calls : /\ kind[c] = "deposit" /\ step[c] # "done"
                          /\ outputs[c] = <<outputs[c][1]>>}

Foundations == OnChain \cup Misopened \cup {outputs[c][1] : c \in Pending}

WholeInv ==
    /\ TypedInv
    /\ Sound(wallet, Foundations, leaves, overlooked, syncsMet)
    /\ Sound(disk, Foundations, leaves, overlooked, syncsMet)
    /\ AwaitedInv /\ ShownInv /\ LandedInv /\ SyncInv
    /\ NullifierShownOnce

\* Which steps take a call to where it is.
LEMMA CallsProgress ==
    ASSUME TypedInv, NEW c \in Calls, Call(c) \/ Proceed(c)
    PROVE  /\ step[c] # "idle" => kind'[c] = kind[c]
           /\ step[c] \notin {"idle", "preparing"} => outputs'[c] = outputs[c]
           /\ step'[c] = "done" =>
                kind[c] \in {"read", "sync"} \/ \E e \in Endpoints : <<c, e>> \in landed
           /\ step'[c] = "deriving" => \E a \in Amounts : Deposit(c, a)
           /\ step'[c] = "fetching" => FetchIncomingNotes(c)
           /\ step'[c] = "decrypting" => Fetched(c) \/ FetchedFaulty(c) \/ Decrypted(c)
           /\ Syncing(c)' => Syncing(c) \/ FetchIncomingNotes(c)
           /\ FetchIncomingNotes(c) \/ UNCHANGED syncsMet
           /\ \/ spends'[c] = spends[c]
              \/ \E a \in Amounts : \E s \in Selections(wallet, a) :
                   Select(c, a, s) /\ \A k \in DOMAIN s : IsTaken(wallet'.notes[s[k]])
<1>1. CallTypes /\ CallShape(c)
  BY TypedFacts
<1>2. CASE GetPoolStatus(c) \/ FetchIncomingNotes(c)
  BY <1>1, <1>2 DEF GetPoolStatus, FetchIncomingNotes, Begin, spendVars, historyVars, CallTypes,
                    Syncing
<1>3. ASSUME NEW a \in Amounts, Deposit(c, a) \/ Insufficient(c, a)
      PROVE  /\ step[c] = "idle" /\ UNCHANGED <<syncsMet, spends>>
             /\ step'[c] = "failed" \/ (step'[c] = "deriving" /\ Deposit(c, a))
             /\ kind'[c] # "sync"
  BY <1>1, <1>3 DEF Deposit, Insufficient, Begin, spendVars, historyVars, CallTypes, Spends
<1>4. ASSUME NEW a \in Amounts, NEW s \in Selections(wallet, a),
             Withdraw(c, a, s) \/ \E r \in Others : Transfer(c, a, r, s)
      PROVE  /\ step[c] = "idle" /\ UNCHANGED syncsMet
             /\ step'[c] \in {"preparing", "proving"} /\ kind'[c] # "sync"
             /\ Select(c, a, s) /\ \A k \in DOMAIN s : IsTaken(wallet'.notes[s[k]])
  <2>1. Select(c, a, s) /\ \A k \in DOMAIN s : IsTaken(wallet'.notes[s[k]])
    BY <1>4, SpendEffect
  <2>2. \/ Begin(c, "withdraw", "proving")
        \/ Begin(c, "transfer", "proving") \/ Begin(c, "transfer", "preparing")
    BY <1>4 DEF Withdraw, Transfer
  <2> QED
    BY <1>1, <2>1, <2>2 DEF Begin, Select, historyVars, CallTypes
<1>5. CASE Call(c)
  BY <1>2, <1>3, <1>4, <1>5 DEF Call, Syncing
<1>6. CASE DepositNote(c) \/ SendDeposit(c) \/ PrepareChange(c) \/ ProofFails(c)
  BY <1>1, <1>6 DEF DepositNote, SendDeposit, PrepareChange, ProofFails, Send, spendVars,
                    historyVars, CallTypes, CallShape, Syncing, Ended, Spends
<1>7. CASE SubmitTransfer(c) \/ SubmitWithdraw(c) \/ BuildFails(c)
  BY <1>1, <1>7 DEF SubmitTransfer, SubmitWithdraw, BuildFails, Send, spendVars,
                    historyVars, CallTypes, CallShape, Syncing, Ended, Spends
<1>8. CASE Answer(c)
  <2>1. /\ step[c] = "sending" /\ step'[c] = "done"
        /\ UNCHANGED <<kind, outputs, spends, syncsMet>>
        /\ kind[c] # "read" => <<c, candidates[c][1]>> \in landed
    BY <1>1, <1>8 DEF Answer, historyVars, CallTypes
  <2>2. landed \subseteq Calls \X Endpoints
    BY DEF TypedInv, TypeOK
  <2>3. kind[c] = "read" \/ \E e \in Endpoints : <<c, e>> \in landed
    BY <2>1, <2>2
  <2> QED
    BY <2>1, <2>3 DEF Syncing, Ended
<1>9. CASE Refusal(c) \/ FetchFails(c)
  <2>1. /\ step[c] \in {"sending", "fetching"}
        /\ UNCHANGED <<kind, outputs, spends, syncsMet>>
    BY <1>9 DEF Refusal, FetchFails, spendVars, historyVars
  <2>2. step'[c] \in {"sending", "failed"}
    BY <1>1, <1>9 DEF Refusal, FetchFails, Send, CallTypes
  <2> QED
    BY <2>1, <2>2 DEF Syncing, Ended
<1>10. CASE Fetched(c) \/ FetchedFaulty(c) \/ Decrypted(c)
  <2>1. /\ step[c] \in {"fetching", "decrypting"}
        /\ UNCHANGED <<kind, outputs, spends, syncsMet>>
    BY <1>10 DEF Fetched, FetchedFaulty, Decrypted, spendVars, historyVars
  <2>2. step'[c] \in {"done", "decrypting"}
    <3>1. \E w, entries, known : Looped(c, w, entries, known)
      BY <1>10, FetchedEffect, DecryptedEffect
    <3> QED
      BY <3>1 DEF Looped
  <2>3. kind[c] = "sync"
    BY <1>1, <2>1 DEF CallShape
  <2> QED
    BY <1>10, <2>1, <2>2, <2>3 DEF Syncing, Ended
<1> QED
  BY <1>5, <1>6, <1>7, <1>8, <1>9, <1>10 DEF Proceed

LEMMA WholeFacts ==
    ASSUME WholeInv
    PROVE  /\ TypedInv /\ wallet \in Wallets /\ disk \in Wallets /\ leaves \in Seq(Leaves)
           /\ Reached(wallet, wallet.lastSyncedLeaf, leaves, overlooked)
           /\ Grew(leaves, leaves)
  BY LeavesTyped DEF WholeInv, TypedInv, TypeOK, Sound

\* A sync receives its response.
LEMMA FetchedSound ==
    ASSUME WholeInv, NEW c \in Calls, Fetched(c) \/ FetchedFaulty(c)
    PROVE  /\ Sound(wallet', Foundations, leaves, overlooked, syncsMet)
           /\ Commitments(wallet') = Commitments(wallet)
           /\ BlindingsOf(wallet') = BlindingsOf(wallet)
           /\ step'[c] = "decrypting" =>
                /\ NeedsDecryption(body'[c][1], existing'[c])
                /\ Snapshot(existing'[c], Commitments(wallet'), syncsMet)
                /\ Response(body'[c], wallet', leaves, overlooked)
<1>1. TypedInv /\ wallet \in Wallets /\ Reached(wallet, wallet.lastSyncedLeaf, leaves, overlooked)
  BY WholeFacts
<1>2. PICK notes : /\ notes \subseteq primary /\ primary \ notes \subseteq overlooked
                   /\ Looped(c, wallet, Reply(notes, after[c]), Commitments(wallet))
  BY <1>1, FetchedEffect
<1>3. step[c] = "fetching" /\ after[c] \in Int /\ after[c] <= wallet.lastSyncedLeaf
  BY <1>1, FetchedEffect, TypedFacts DEF CallTypes, WholeInv, SyncInv, SyncShape
<1>4. /\ Reply(notes, after[c]) \in Seq(Entries)
      /\ Response(Reply(notes, after[c]), wallet, leaves, overlooked)
  BY <1>1, <1>2, <1>3, ReplyTyped, ReplyResponds
<1>5. Snapshot(Commitments(wallet), Commitments(wallet), syncsMet)
  BY DEF Snapshot
<1>6. Sound(wallet, Foundations, leaves, overlooked, syncsMet)
  BY DEF WholeInv
<1> QED
  BY <1>1, <1>2, <1>4, <1>5, <1>6, LoopLeaves

\* decryptNote() returns; the note is new to the wallet, or two syncs met.
LEMMA DecodedSound ==
    ASSUME WholeInv, NEW c \in Calls, Decrypted(c)
    PROVE  LET entry == body[c][1]
               w == Decoded(wallet, entry)
           IN  /\ w \in Wallets /\ Sound(w, Foundations, leaves, overlooked, syncsMet)
               /\ Commitments(wallet) \subseteq Commitments(w)
               /\ Snapshot(Learnt(existing[c], entry), Commitments(w), syncsMet)
               /\ Response(Tail(body[c]), w, leaves, overlooked)
               /\ \A b \in BlindingsOf(w) : b \in BlindingsOf(wallet) \/ b[1] = "sender"
<1> DEFINE entry == body[c][1]
           w == Decoded(wallet, entry)
           n == Discovered(wallet, entry)
<1>1. /\ TypedInv /\ wallet \in Wallets /\ leaves \in Seq(Leaves)
      /\ step[c] = "decrypting" /\ body[c] \in Seq(Entries) /\ body[c] # <<>>
      /\ entry \in Entries /\ 1 \in DOMAIN body[c]
  BY WholeFacts, DecryptedEffect, EmptySeq
<1>2. /\ NeedsDecryption(entry, existing[c])
      /\ Snapshot(existing[c], Commitments(wallet), syncsMet)
      /\ Response(body[c], wallet, leaves, overlooked)
      /\ Sound(wallet, Foundations, leaves, overlooked, syncsMet)
  BY <1>1 DEF WholeInv, SyncInv, SyncShape
<1> HIDE DEF entry, n
<1>3. CASE entry.to # Key
  <2>1. w = wallet /\ Learnt(existing[c], entry) = existing[c]
    BY <1>3 DEF Decoded, Learnt
  <2>2. Response(Tail(body[c]), wallet, leaves, overlooked)
    BY <1>1, <1>2, <1>3, TailResponds DEF entry, PaidTo
  <2> QED
    BY <1>1, <1>2, <2>1, <2>2 DEF entry
<1>4. CASE entry.to = Key
  <2>1. /\ w = WithNote(wallet, n)
        /\ Learnt(existing[c], entry) = existing[c] \cup {Commitment(n)}
    BY <1>4 DEF Decoded, Learnt, n
  <2>2. PICK i \in DOMAIN leaves :
          /\ entry.commitment = leaves[i].commitment /\ entry.opens = leaves[i].opens
          /\ leaves[i].to = Key
    <3>1. /\ entry.leafIndex \in 0 .. Len(leaves) - 1
          /\ entry = EntryOf(leaves, entry.leafIndex)
      BY <1>1, <1>2 DEF Response, entry
    <3>2. entry.leafIndex + 1 \in DOMAIN leaves
      BY <1>1, <3>1
    <3> QED
      BY <1>4, <3>1, <3>2 DEF EntryOf
  <2>3. entry.opens[1] = Key /\ entry.opens[3][1] = "sender"
    <3>1. Key # "none"
      BY ClientAssumption
    <3> QED
      BY <1>1, <2>2, <3>1 DEF TypedInv, LeavesInv
  <2>4. /\ n \in WalletNotes /\ n.blinding = entry.opens[3] /\ Commitment(n) = entry.opens
    BY <1>1, <2>3, DiscoveredTyped DEF n
  <2>5. /\ Commitment(n) \in Foundations
        /\ \/ syncsMet \/ Commitment(n) \in MisopenedIn(leaves)
           \/ Commitment(n) \notin Commitments(wallet)
    <3>1. CASE entry.opens = entry.commitment
      <4>1. entry.commitment \in OnChain /\ entry.commitment \notin existing[c]
        BY <1>2, <2>2 DEF OnChain, NeedsDecryption
      <4>2. syncsMet \/ entry.commitment \notin Commitments(wallet)
        BY <1>2, <2>3, <3>1, <4>1 DEF Snapshot
      <4> QED
        BY <2>4, <3>1, <4>1, <4>2 DEF Foundations
    <3>2. CASE entry.opens # entry.commitment
      BY <2>2, <2>4, <3>2 DEF Misopened, MisopenedIn, Foundations
    <3> QED
      BY <3>1, <3>2
  <2>6. Sound(w, Foundations, leaves, overlooked, syncsMet)
    BY <1>1, <1>2, <2>1, <2>3, <2>4, <2>5, SoundWithNote
  <2>7. /\ w \in Wallets /\ Commitments(w) = Commitments(wallet) \cup {Commitment(n)}
        /\ BlindingsOf(w) = BlindingsOf(wallet) \cup {n.blinding}
    BY <1>1, <2>1, <2>4, WithNoteTyped, WithNoteSets
  <2> HIDE DEF w
  <2>8. Snapshot(Learnt(existing[c], entry), Commitments(w), syncsMet)
    BY <1>2, <2>1, <2>7 DEF Snapshot
  <2>9. PaidTo(entry) => entry.commitment \in Commitments(w)
    BY <2>4, <2>7 DEF PaidTo
  <2>10. Response(Tail(body[c]), w, leaves, overlooked)
    BY <1>1, <1>2, <2>7, <2>9, TailResponds DEF entry
  <2> QED
    BY <2>3, <2>4, <2>6, <2>7, <2>8, <2>10 DEF w, entry
<1> QED
  BY <1>3, <1>4

LEMMA DecryptedSound ==
    ASSUME WholeInv, NEW c \in Calls, Decrypted(c)
    PROVE  /\ Sound(wallet', Foundations, leaves, overlooked, syncsMet)
           /\ \A b \in BlindingsOf(wallet') : b \in BlindingsOf(wallet) \/ b[1] = "sender"
           /\ step'[c] = "decrypting" =>
                /\ NeedsDecryption(body'[c][1], existing'[c])
                /\ Snapshot(existing'[c], Commitments(wallet'), syncsMet)
                /\ Response(body'[c], wallet', leaves, overlooked)
<1> DEFINE w == Decoded(wallet, body[c][1])
           known == Learnt(existing[c], body[c][1])
<1>1. /\ TypedInv /\ Looped(c, w, Tail(body[c]), known)
      /\ body[c] \in Seq(Entries) /\ body[c] # <<>>
  BY WholeFacts, DecryptedEffect
<1>2. /\ w \in Wallets /\ Sound(w, Foundations, leaves, overlooked, syncsMet)
      /\ Snapshot(known, Commitments(w), syncsMet)
      /\ Response(Tail(body[c]), w, leaves, overlooked)
      /\ \A b \in BlindingsOf(w) : b \in BlindingsOf(wallet) \/ b[1] = "sender"
  BY DecodedSound
<1>3. Tail(body[c]) \in Seq(Entries)
  BY <1>1, HeadTailProperties
<1> HIDE DEF w, known
<1>4. /\ Sound(wallet', Foundations, leaves, overlooked, syncsMet)
      /\ BlindingsOf(wallet') = BlindingsOf(w)
      /\ step'[c] = "decrypting" =>
           /\ NeedsDecryption(body'[c][1], existing'[c])
           /\ Snapshot(existing'[c], Commitments(wallet'), syncsMet)
           /\ Response(body'[c], wallet', leaves, overlooked)
  BY <1>1, <1>2, <1>3, LoopLeaves
<1> QED
  BY <1>2, <1>4

\* createDepositNote() adds a note whose blinding the wallet does not have.
LEMMA DepositNoteSound ==
    ASSUME WholeInv, NEW c \in Calls, DepositNote(c)
    PROVE  /\ Sound(wallet', Foundations, leaves, overlooked, syncsMet)
           /\ Commitments(wallet') = Commitments(wallet) \cup {outputs[c][1]}
           /\ BlindingsOf(wallet') = BlindingsOf(wallet) \cup {Awaited(c)}
           /\ Awaited(c)[1] # "sender"
<1> DEFINE n == OwnNote(wallet, total[c], outputs[c][1][3])
<1>1. /\ TypedInv /\ wallet \in Wallets /\ CallShape(c) /\ step[c] = "deriving"
      /\ Sound(wallet, Foundations, leaves, overlooked, syncsMet)
  BY WholeFacts, TypedFacts DEF DepositNote, WholeInv
<1>2. /\ n \in WalletNotes /\ Commitment(n) = outputs[c][1]
      /\ n.blinding = Awaited(c) /\ wallet' = WithNote(wallet, n)
  BY <1>1, DepositNoteEffect DEF Awaited
<1> HIDE DEF n
<1>3. Awaited(c) \in Derived(wallet) /\ Awaited(c) \notin BlindingsOf(wallet)
  BY <1>1 DEF WholeInv, AwaitedInv
<1>4. Commitment(n) \in Foundations
  BY <1>1, <1>2 DEF CallShape, Foundations, Pending
<1>5. Commitment(n) \notin Commitments(wallet)
  <2>1. ASSUME NEW i \in DOMAIN wallet.notes, Commitment(wallet.notes[i]) = Commitment(n)
        PROVE  FALSE
    <3>1. wallet.notes[i].blinding = n.blinding
      BY <1>1, <1>2, <2>1, WalletFields, NoteFields
    <3> QED
      BY <1>2, <1>3, <3>1 DEF BlindingsOf
  <2> QED
    BY <2>1 DEF Commitments
<1>6. Sound(WithNote(wallet, n), Foundations, leaves, overlooked, syncsMet)
  BY <1>1, <1>2, <1>3, <1>4, <1>5, SoundWithNote
<1>7. /\ Commitments(WithNote(wallet, n)) = Commitments(wallet) \cup {Commitment(n)}
      /\ BlindingsOf(WithNote(wallet, n)) = BlindingsOf(wallet) \cup {n.blinding}
  BY <1>1, <1>2, WithNoteSets
<1>8. Awaited(c)[1] # "sender"
  BY <1>3, ClientAssumption DEF Derived
<1> QED
  BY <1>2, <1>6, <1>7, <1>8

\* What a step of a call makes of the wallet, and of the call's own sync.
LEMMA CallsSound ==
    ASSUME WholeInv, NEW c \in Calls, Call(c) \/ Proceed(c)
    PROVE  /\ Sound(wallet', Foundations, leaves, overlooked, syncsMet)
           /\ \/ Syncing(c)
              \/ \A x \in Commitments(wallet') :
                   x \in Commitments(wallet) \/ x[3][1] # "sender"
           /\ \A b \in BlindingsOf(wallet') :
                \/ b \in BlindingsOf(wallet) \/ b[1] = "sender"
                \/ step[c] = "deriving" /\ step'[c] # "deriving" /\ b = Awaited(c)
           /\ SyncShape(c)'
<1>1. /\ TypedInv /\ wallet \in Wallets /\ CallTypes /\ CallShape(c)
      /\ Sound(wallet, Foundations, leaves, overlooked, syncsMet)
      /\ UNCHANGED <<leaves, overlooked>>
  BY WholeFacts, TypedFacts, CallsEffect, CallsSurroundings DEF Effect, WholeInv
<1>2. CASE Fetched(c) \/ FetchedFaulty(c) \/ Decrypted(c)
  <2>1. step[c] \in {"fetching", "decrypting"} /\ step'[c] # "fetching" /\ UNCHANGED syncsMet
    <3>1. \E w, entries, known : Looped(c, w, entries, known)
      BY <1>1, <1>2, FetchedEffect, DecryptedEffect
    <3>2. step'[c] \in {"done", "decrypting"}
      BY <3>1 DEF Looped
    <3> QED
      BY <1>2, <3>2 DEF Fetched, FetchedFaulty, Decrypted, historyVars
  <2>2. Syncing(c)
    BY <1>1, <2>1 DEF CallShape, Syncing, Ended
  <2>3. /\ Sound(wallet', Foundations, leaves, overlooked, syncsMet)
        /\ \A b \in BlindingsOf(wallet') : b \in BlindingsOf(wallet) \/ b[1] = "sender"
        /\ step'[c] = "decrypting" =>
             /\ NeedsDecryption(body'[c][1], existing'[c])
             /\ Snapshot(existing'[c], Commitments(wallet'), syncsMet)
             /\ Response(body'[c], wallet', leaves, overlooked)
    BY <1>2, FetchedSound, DecryptedSound
  <2>4. SyncShape(c)'
    BY <1>1, <2>1, <2>3 DEF SyncShape
  <2> QED
    BY <2>2, <2>3, <2>4
<1>3. CASE ~(Fetched(c) \/ FetchedFaulty(c) \/ Decrypted(c))
  <2>1. step'[c] # "decrypting"
    BY <1>1, <1>3, CallsProgress
  <2>2. SyncShape(c)'
    <3>1. CASE step'[c] = "fetching"
      <4>1. FetchIncomingNotes(c)
        BY <1>1, <3>1, CallsProgress
      <4>2. after'[c] = wallet.lastSyncedLeaf /\ wallet' = wallet
        BY <1>1, <4>1 DEF FetchIncomingNotes, CallTypes, walletVars
      <4>3. wallet.lastSyncedLeaf \in Int
        BY <1>1, WalletFields
      <4> QED
        BY <2>1, <4>2, <4>3 DEF SyncShape
    <3> QED
      BY <2>1, <3>1 DEF SyncShape
  <2>3. CASE Keeps(wallet, wallet')
    <3>1. Commitments(wallet') = Commitments(wallet) /\ BlindingsOf(wallet') = BlindingsOf(wallet)
      BY <1>1, <2>3, KeepsKeepsSets
    <3>2. Sound(wallet', Foundations, leaves, overlooked, syncsMet)
      BY <1>1, <2>3, SoundKeeps
    <3> QED
      BY <2>2, <3>1, <3>2
  <2>4. CASE DepositNote(c)
    <3>1. /\ Sound(wallet', Foundations, leaves, overlooked, syncsMet)
          /\ Commitments(wallet') = Commitments(wallet) \cup {outputs[c][1]}
          /\ BlindingsOf(wallet') = BlindingsOf(wallet) \cup {Awaited(c)}
          /\ Awaited(c)[1] # "sender"
      BY <2>4, DepositNoteSound
    <3>2. step[c] = "deriving" /\ step'[c] # "deriving"
      BY <1>1, <2>4 DEF DepositNote, CallTypes
    <3> QED
      BY <2>2, <3>1, <3>2 DEF Awaited
  <2> QED
    BY <1>1, <1>3, <2>3, <2>4, CallsEffect
<1> QED
  BY <1>2, <1>3

\* A sync that waits is not disturbed by others, unless they sync too.
LEMMA OthersSync ==
    ASSUME TypedInv, NEW d \in Calls, SyncShape(d), Extends(wallet, wallet'),
           Grew(leaves, leaves'), overlooked \subseteq overlooked', syncsMet => syncsMet',
           step'[d] = step[d], after'[d] = after[d], body'[d] = body[d],
           existing'[d] = existing[d],
           \/ syncsMet' \/ step[d] # "decrypting"
           \/ \A x \in Commitments(wallet') : x \in Commitments(wallet) \/ x[3][1] # "sender"
    PROVE  SyncShape(d)'
<1>1. /\ wallet \in Wallets /\ wallet' \in Wallets /\ CallTypes /\ leaves \in Seq(Leaves)
      /\ Commitments(wallet) \subseteq Commitments(wallet')
  BY TypedFacts, LeavesTyped, ExtendsKeepsSets DEF Extends
<1>2. step'[d] = "fetching" => after'[d] <= wallet'.lastSyncedLeaf
  <2>1. /\ wallet.lastSyncedLeaf \in Int /\ wallet'.lastSyncedLeaf \in Int /\ after[d] \in Int
        /\ wallet'.lastSyncedLeaf >= wallet.lastSyncedLeaf
    BY <1>1, WalletFields DEF Extends, CallTypes
  <2> QED
    BY <2>1 DEF SyncShape
<1>3. ASSUME step[d] = "decrypting"
      PROVE  /\ NeedsDecryption(body'[d][1], existing'[d])
             /\ Snapshot(existing'[d], Commitments(wallet'), syncsMet')
             /\ Response(body'[d], wallet', leaves', overlooked')
  <2>1. /\ NeedsDecryption(body[d][1], existing[d])
        /\ Snapshot(existing[d], Commitments(wallet), syncsMet)
        /\ Response(body[d], wallet, leaves, overlooked)
    BY <1>3 DEF SyncShape
  <2>2. Snapshot(existing[d], Commitments(wallet'), syncsMet')
    BY <1>1, <1>3, <2>1 DEF Snapshot
  <2>3. body[d] \in Seq(Entries)
    BY <1>1 DEF CallTypes
  <2>4. Response(body[d], wallet', leaves', overlooked')
    BY <1>1, <2>1, <2>3, ResponseLater
  <2> QED
    BY <2>1, <2>2, <2>4
<1> QED
  BY <1>2, <1>3 DEF SyncShape

-----------------------------------------------------------------------------
(* Every step keeps the whole of it: first the steps of the calls.         *)

\* Leaves stay, and a deposit that ends well has its note among them.
LEMMA CallsKeepFoundations ==
    ASSUME WholeInv, NEW c \in Calls, Call(c) \/ Proceed(c)
    PROVE  Foundations \subseteq Foundations'
<1>1. /\ TypedInv /\ CallShape(c) /\ Alone(c) /\ UNCHANGED <<leaves, landed>>
      /\ landed \subseteq sent
  BY TypedFacts, CallsEffect DEF WholeInv, Effect, TypedInv, TypeOK
<1>2. OnChain' = OnChain /\ Misopened' = Misopened
  BY <1>1 DEF OnChain, Misopened
<1>3. ASSUME NEW d \in Pending PROVE outputs[d][1] \in Foundations'
  <2>1. d \in Calls /\ kind[d] = "deposit" /\ outputs[d] = <<outputs[d][1]>>
    BY DEF Pending
  <2>2. CASE d # c
    <3>1. /\ kind'[d] = kind[d] /\ step'[d] = step[d] /\ outputs'[d] = outputs[d]
      BY <1>1, <2>1, <2>2 DEF Alone
    <3>2. d \in Pending'
      BY <3>1 DEF Pending
    <3> QED
      BY <3>1, <3>2 DEF Foundations
  <2>3. CASE d = c
    <3>1. step[c] \notin {"idle", "preparing"}
      BY <1>1, <2>1, <2>3 DEF CallShape, Spends
    <3>2. /\ kind'[c] = kind[c] /\ outputs'[c] = outputs[c]
          /\ step'[c] = "done" => \E e \in Endpoints : <<c, e>> \in landed
      BY <1>1, <2>1, <2>3, <3>1, CallsProgress
    <3>3. CASE step'[c] # "done"
      <4>1. c \in Pending'
        BY <2>1, <2>3, <3>2, <3>3 DEF Pending
      <4> QED
        BY <2>3, <3>2, <4>1 DEF Foundations
    <3>4. CASE step'[c] = "done"
      <4>1. PICK e \in Endpoints : <<c, e>> \in landed
        BY <3>2, <3>4
      <4>2. 1 \in DOMAIN outputs[c]
        BY <2>1, <2>3
      <4>3. outputs[c][1] \in OnChain
        BY <4>1, <4>2 DEF WholeInv, LandedInv
      <4> QED
        BY <1>2, <2>3, <4>3 DEF Foundations
    <3> QED
      BY <3>3, <3>4
  <2> QED
    BY <2>2, <2>3
<1> QED
  BY <1>2, <1>3 DEF Foundations

\* The wallet, as the call leaves it, and the file.
LEMMA CallsKeepSound ==
    ASSUME WholeInv, NEW c \in Calls, Call(c) \/ Proceed(c)
    PROVE  /\ Sound(wallet, Foundations, leaves, overlooked, syncsMet)'
           /\ Sound(disk, Foundations, leaves, overlooked, syncsMet)'
<1>1. /\ TypedInv /\ disk \in Wallets /\ leaves \in Seq(Leaves) /\ Grew(leaves, leaves)
      /\ Sound(disk, Foundations, leaves, overlooked, syncsMet)
  BY WholeFacts DEF WholeInv
<1>2. /\ disk' = disk /\ leaves' = leaves /\ overlooked' = overlooked
      /\ (syncsMet => syncsMet') /\ wallet' \in Wallets
      /\ overlooked \subseteq overlooked
  BY <1>1, CallsEffect, CallsSurroundings DEF Effect, Extends
<1>3. Foundations \subseteq Foundations'
  BY CallsKeepFoundations
<1>4. Sound(wallet', Foundations, leaves, overlooked, syncsMet)
  BY CallsSound
<1>5. Sound(wallet', Foundations', leaves, overlooked, syncsMet')
  BY <1>1, <1>2, <1>3, <1>4, SoundLater
<1>6. Sound(disk, Foundations', leaves, overlooked, syncsMet')
  BY <1>1, <1>2, <1>3, SoundLater
<1> QED
  BY <1>2, <1>5, <1>6, Zenon

LEMMA DerivedByKey ==
    ASSUME NEW w, NEW n, <<Key, n>> \in Derived(w)
    PROVE  n \in 0 .. w.nextBlinding - 1
  BY DEF Derived

\* A deposit takes a blinding that nothing has; others that wait keep theirs.
LEMMA CallsKeepAwaited ==
    ASSUME WholeInv, NEW c \in Calls, Call(c) \/ Proceed(c)
    PROVE  AwaitedInv'
<1>1. /\ TypedInv /\ wallet \in Wallets /\ CallTypes /\ Alone(c)
      /\ Extends(wallet, wallet') /\ AwaitedInv
      /\ Sound(wallet, Foundations, leaves, overlooked, syncsMet)
  BY TypedFacts, CallsEffect DEF WholeInv, Effect
<1>2. Derived(wallet) \subseteq Derived(wallet')
  BY <1>1, ExtendsKeepsSets
<1>3. ASSUME NEW d \in Calls, d # c, step'[d] = "deriving"
      PROVE  /\ step[d] = "deriving" /\ Awaited(d)' = Awaited(d)
             /\ Awaited(d) \in Derived(wallet) /\ Awaited(d) \in Derived(wallet')
             /\ Awaited(d) \notin BlindingsOf(wallet')
  <2>1. step[d] = "deriving" /\ Awaited(d)' = Awaited(d)
    BY <1>1, <1>3 DEF Alone, Awaited
  <2>2. Awaited(d) \in Derived(wallet) /\ Awaited(d) \notin BlindingsOf(wallet)
    BY <1>1, <2>1 DEF AwaitedInv
  <2>3. Awaited(d)[1] # "sender"
    BY <2>2, ClientAssumption DEF Derived
  <2>4. step[c] = "deriving" => Awaited(d) # Awaited(c)
    BY <1>1, <1>3, <2>1 DEF AwaitedInv
  <2>5. \A b \in BlindingsOf(wallet') :
          \/ b \in BlindingsOf(wallet) \/ b[1] = "sender"
          \/ step[c] = "deriving" /\ step'[c] # "deriving" /\ b = Awaited(c)
    BY CallsSound
  <2> QED
    BY <1>2, <2>1, <2>2, <2>3, <2>4, <2>5
<1>4. ASSUME step'[c] = "deriving"
      PROVE  /\ Awaited(c)' = <<Key, wallet.nextBlinding>>
             /\ Awaited(c)' \in Derived(wallet') /\ Awaited(c)' \notin BlindingsOf(wallet')
             /\ Awaited(c)' \notin Derived(wallet)
  <2>1. PICK a \in Amounts : Deposit(c, a)
    BY <1>1, <1>4, CallsProgress
  <2>2. outputs'[c] = <<<<Key, a, Blinding(wallet)>>>> /\ wallet' = BlindingTaken(wallet)
    BY <1>1, <2>1 DEF Deposit, CallTypes
  <2>3. Awaited(c)' = <<Key, wallet.nextBlinding>>
    BY <1>1, <2>2, NextBlindingTyped DEF Awaited
  <2>4. /\ wallet'.nextBlinding = wallet.nextBlinding + 1 /\ wallet.nextBlinding \in Nat
        /\ BlindingsOf(wallet') = BlindingsOf(wallet)
    BY <1>1, <2>2, BlindingTakenKeeps, KeepsKeepsSets, WalletFields
  <2>5. wallet.nextBlinding \in 0 .. wallet'.nextBlinding - 1
    BY <2>4
  <2>6. wallet.nextBlinding \notin 0 .. wallet.nextBlinding - 1
    BY <2>4
  <2>7. <<Key, wallet.nextBlinding>> \in Derived(wallet')
    BY <2>5 DEF Derived
  <2>8. <<Key, wallet.nextBlinding>> \notin Derived(wallet)
    BY <2>6, DerivedByKey
  <2>9. <<Key, wallet.nextBlinding>> \notin BlindingsOf(wallet)
    BY <1>1, <2>8, ClientAssumption DEF Sound
  <2> QED
    BY <2>3, <2>4, <2>7, <2>8, <2>9
<1>5. ASSUME NEW d \in Calls, step'[d] = "deriving"
      PROVE  Awaited(d)' \in Derived(wallet') /\ Awaited(d)' \notin BlindingsOf(wallet')
  BY <1>3, <1>4, <1>5
<1>6. ASSUME NEW d \in Calls, NEW e \in Calls \ {d}, step'[d] = "deriving",
             step'[e] = "deriving"
      PROVE  Awaited(e)' # Awaited(d)'
  <2>1. CASE d # c /\ e # c
    <3>1. /\ step[d] = "deriving" /\ step[e] = "deriving"
          /\ Awaited(d)' = Awaited(d) /\ Awaited(e)' = Awaited(e)
      BY <1>3, <1>6, <2>1
    <3> QED
      BY <1>1, <1>6, <3>1 DEF AwaitedInv
  <2>2. CASE d = c
    BY <1>3, <1>4, <1>6, <2>2
  <2>3. CASE e = c
    BY <1>3, <1>4, <1>6, <2>3
  <2> QED
    BY <2>1, <2>2, <2>3
<1> QED
  BY <1>5, <1>6 DEF AwaitedInv

\* What the call that selects notes shows is new, and locked in the same step.
LEMMA SelectionShown ==
    ASSUME WholeInv, NEW c \in Calls, Call(c) \/ Proceed(c), spends'[c] # spends[c]
    PROVE  /\ UNCHANGED syncsMet
           /\ \A n \in Shown(c)' :
                /\ n \in Taken(wallet') /\ n \in NoteCommitments
                /\ \A d \in Calls \ {c} :
                     n \in Shown(d) => syncsMet \/ n \in forgotten \cup Misopened
<1>1. /\ TypedInv /\ wallet \in Wallets /\ CallTypes /\ Extends(wallet, wallet')
      /\ Sound(wallet, Foundations, leaves, overlooked, syncsMet) /\ ShownInv
  BY TypedFacts, CallsEffect DEF WholeInv, Effect
<1>0. PICK a \in Amounts : \E s \in Selections(wallet, a) :
        Select(c, a, s) /\ \A k \in DOMAIN s : IsTaken(wallet'.notes[s[k]])
  BY <1>1, CallsProgress
<1>2. PICK s \in Selections(wallet, a) :
        Select(c, a, s) /\ \A k \in DOMAIN s : IsTaken(wallet'.notes[s[k]])
  BY <1>0
<1>3. UNCHANGED syncsMet
  BY <1>2 DEF Select, historyVars
<1>4. \A k \in DOMAIN s : s[k] \in Unspent(wallet) /\ s[k] \in DOMAIN wallet.notes
  BY SelectionsUnspent DEF Positions, Unspent
<1>5. spends'[c] = [k \in DOMAIN s |-> Commitment(wallet.notes[s[k]])]
  BY <1>1, <1>2 DEF Select, CallTypes
<1>6. ASSUME NEW n \in Shown(c)'
      PROVE  /\ n \in Taken(wallet') /\ n \in NoteCommitments
             /\ \A d \in Calls \ {c} :
                  n \in Shown(d) => syncsMet \/ n \in forgotten \cup Misopened
  <2>1. PICK k \in DOMAIN s : n = Commitment(wallet.notes[s[k]])
    BY <1>5, <1>6 DEF Shown
  <2> DEFINE i == s[k]
  <2>2. i \in Unspent(wallet) /\ i \in DOMAIN wallet.notes /\ n = Commitment(wallet.notes[i])
    BY <1>4, <2>1
  <2>3. IsTaken(wallet'.notes[i])
    BY <1>2
  <2> HIDE DEF i
  <2>4. n \in NoteCommitments
    BY <1>1, <2>2, WalletFields, NoteFields
  <2>5. n \in Taken(wallet')
    <3>1. i \in DOMAIN wallet'.notes /\ Commitment(wallet'.notes[i]) = n
      BY <1>1, <2>2 DEF Extends
    <3> QED
      BY <2>3, <3>1 DEF Taken, IsTaken
  <2>6. ASSUME NEW d \in Calls, n \in Shown(d), ~syncsMet, n \notin forgotten,
               n \notin Misopened
        PROVE  FALSE
    <3>1. n \in Taken(wallet)
      BY <1>1, <2>6 DEF ShownInv
    <3>2. PICK j \in DOMAIN wallet.notes :
            IsTaken(wallet.notes[j]) /\ Commitment(wallet.notes[j]) = n
      BY <3>1 DEF Taken, IsTaken
    <3>3. i # j
      BY <2>2, <3>2 DEF Unspent, IsTaken
    <3> QED
      BY <1>1, <2>2, <2>6, <3>2, <3>3 DEF Sound, EachOnce, Misopened, MisopenedIn
  <2> QED
    BY <2>4, <2>5, <2>6
<1> QED
  BY <1>3, <1>6

LEMMA CallsKeepShown ==
    ASSUME WholeInv, NEW c \in Calls, Call(c) \/ Proceed(c)
    PROVE  ShownInv'
<1>1. /\ TypedInv /\ wallet \in Wallets /\ Alone(c) /\ Extends(wallet, wallet') /\ ShownInv
      /\ nullifiers' = nullifiers /\ forgotten' = forgotten
  BY TypedFacts, CallsEffect DEF WholeInv, Effect
<1>2. Taken(wallet) \subseteq Taken(wallet')
  BY <1>1, ExtendsKeepsSets
<1>3. syncsMet => syncsMet'
  BY <1>1, CallsSurroundings
<1>4. ASSUME NEW n \in nullifiers' \cup UNION {Shown(d)' : d \in Calls}
      PROVE  syncsMet' \/ n \in forgotten' \/ n \in Taken(wallet')
  <2>1. CASE n \in nullifiers \/ \E d \in Calls : n \in Shown(d)
    BY <1>1, <1>2, <1>3, <2>1 DEF ShownInv
  <2>2. ASSUME NEW d \in Calls, n \in Shown(d)', n \notin Shown(d)
        PROVE  n \in Taken(wallet')
    <3>1. spends'[d] # spends[d]
      BY <2>2 DEF Shown
    <3>2. d = c
      BY <1>1, <3>1 DEF Alone
    <3> QED
      BY <2>2, <3>1, <3>2, SelectionShown
  <2> QED
    BY <1>1, <1>4, <2>1, <2>2
<1> QED
  BY <1>4 DEF ShownInv

LEMMA CallsKeepShownOnce ==
    ASSUME WholeInv, NEW c \in Calls, Call(c) \/ Proceed(c)
    PROVE  NullifierShownOnce'
<1>1. /\ TypedInv /\ Alone(c) /\ forgotten' = forgotten /\ Misopened' = Misopened
      /\ NullifierShownOnce
  <2>1. TypedInv /\ Alone(c) /\ forgotten' = forgotten /\ leaves' = leaves /\ NullifierShownOnce
    BY CallsEffect DEF WholeInv, Effect
  <2> QED
    BY <2>1 DEF Misopened
<1>2. syncsMet => syncsMet'
  BY <1>1, CallsSurroundings
<1>3. ASSUME NEW d \in Calls, spends[d] = spends'[d] PROVE Shown(d)' = Shown(d)
  BY <1>3 DEF Shown
<1>4. \A d \in Calls \ {c} : Shown(d)' = Shown(d)
  BY <1>1, <1>3 DEF Alone
<1>5. ASSUME NEW d \in Calls, NEW e \in Calls, d # e, NEW n \in Shown(d)' \cap Shown(e)',
             spends'[c] # spends[c], d = c \/ e = c
      PROVE  n \in NoteCommitments /\ (syncsMet' \/ n \in forgotten' \cup Misopened')
  <2>1. n \in Shown(c)' /\ \E f \in Calls \ {c} : n \in Shown(f)
    BY <1>4, <1>5
  <2> QED
    BY <1>1, <1>2, <1>5, <2>1, SelectionShown
<1>6. ASSUME NEW d \in Calls, NEW e \in Calls, d # e,
             (d # c /\ e # c) \/ spends'[c] = spends[c]
      PROVE  Shown(d)' \cap Shown(e)' \subseteq
                 (IF syncsMet' THEN NoteCommitments ELSE forgotten' \cup Misopened')
  <2>1. Shown(d)' = Shown(d) /\ Shown(e)' = Shown(e)
    BY <1>3, <1>4, <1>6
  <2>2. Shown(d) \subseteq NoteCommitments
    <3>1. spends[d] \in Seq(NoteCommitments)
      BY <1>1 DEF TypedInv, TypeOK
    <3> QED
      BY <3>1 DEF Shown
  <2> QED
    BY <1>1, <1>2, <1>6, <2>1, <2>2 DEF NullifierShownOnce
<1>7. ASSUME NEW d \in Calls, NEW e \in Calls, d # e
      PROVE  Shown(d)' \cap Shown(e)' \subseteq
                 (IF syncsMet' THEN NoteCommitments ELSE forgotten' \cup Misopened')
  BY <1>5, <1>6, <1>7
<1> QED
  BY <1>7 DEF NullifierShownOnce

LEMMA CallsKeepLanded ==
    ASSUME WholeInv, NEW c \in Calls, Call(c) \/ Proceed(c)
    PROVE  LandedInv'
<1>1. /\ TypedInv /\ Alone(c) /\ landed' = landed /\ leaves' = leaves /\ LandedInv
      /\ landed \subseteq sent /\ sent \subseteq Calls \X Endpoints
  BY CallsEffect DEF WholeInv, Effect, TypedInv, TypeOK
<1>2. OnChain' = OnChain
  BY <1>1 DEF OnChain
<1>3. ASSUME NEW l \in landed PROVE outputs'[l[1]] = outputs[l[1]]
  <2>1. l[1] \in Calls /\ step[l[1]] \notin {"idle", "preparing"}
    BY <1>1 DEF TypedInv, CallInv
  <2>2. CASE l[1] = c
    BY <1>1, <2>1, <2>2, CallsProgress
  <2>3. CASE l[1] # c
    BY <1>1, <2>1, <2>3 DEF Alone
  <2> QED
    BY <2>2, <2>3
<1> QED
  BY <1>1, <1>2, <1>3 DEF LandedInv

LEMMA CallsKeepSyncs ==
    ASSUME WholeInv, NEW c \in Calls, Call(c) \/ Proceed(c)
    PROVE  SyncInv'
<1>1. /\ TypedInv /\ wallet \in Wallets /\ Alone(c) /\ Extends(wallet, wallet')
      /\ UNCHANGED <<leaves, overlooked>> /\ Grew(leaves, leaves) /\ SyncInv
  BY TypedFacts, WholeFacts, CallsEffect, CallsSurroundings DEF WholeInv, Effect
<1>2. syncsMet => syncsMet'
  BY <1>1, CallsSurroundings
<1>3. SyncShape(c)'
  BY CallsSound
<1>4. \A d \in Calls \ {c} : Syncing(d)' = Syncing(d)
  BY <1>1 DEF Alone, Syncing
<1>5. \/ syncsMet' \/ ~Syncing(c)' \/ \A d \in Calls \ {c} : ~Syncing(d)
  <2>1. CASE Syncing(c)
    BY <1>1, <1>2, <2>1 DEF SyncInv
  <2>2. CASE FetchIncomingNotes(c)
    BY <2>2 DEF FetchIncomingNotes
  <2> QED
    BY <1>1, <2>1, <2>2, CallsProgress
<1>6. ASSUME NEW d \in Calls, d # c PROVE SyncShape(d)'
  <2>1. /\ SyncShape(d) /\ step'[d] = step[d] /\ after'[d] = after[d]
        /\ body'[d] = body[d] /\ existing'[d] = existing[d]
    BY <1>1, <1>6 DEF SyncInv, Alone
  <2>2. \/ syncsMet' \/ step[d] # "decrypting"
        \/ \A x \in Commitments(wallet') : x \in Commitments(wallet) \/ x[3][1] # "sender"
    <3>1. step[d] = "decrypting" => Syncing(d)
      BY <1>1, TypedFacts DEF CallShape, Syncing, Ended
    <3>2. Syncing(c) /\ Syncing(d) => syncsMet
      BY <1>1, <1>6 DEF SyncInv
    <3>3. \/ Syncing(c)
          \/ \A x \in Commitments(wallet') : x \in Commitments(wallet) \/ x[3][1] # "sender"
      BY CallsSound
    <3> QED
      BY <1>2, <3>1, <3>2, <3>3
  <2>3. Grew(leaves, leaves') /\ overlooked \subseteq overlooked'
    BY <1>1
  <2> QED
    BY <1>1, <1>2, <2>1, <2>2, <2>3, OthersSync
<1>7. ASSUME NEW d \in Calls, NEW e \in Calls, d # e, Syncing(d)', Syncing(e)'
      PROVE  syncsMet'
  <2>1. CASE d # c /\ e # c
    BY <1>1, <1>2, <1>4, <1>7, <2>1 DEF SyncInv
  <2>2. CASE d = c \/ e = c
    BY <1>4, <1>5, <1>7, <2>2
  <2> QED
    BY <2>1, <2>2
<1> QED
  BY <1>3, <1>6, <1>7 DEF SyncInv

-----------------------------------------------------------------------------
(* The steps of the chain and the indexer, of the file, and restarts.      *)

LEMMA OutsideKeepsWhole ==
    ASSUME WholeInv, TypedInv', Outside
    PROVE  WholeInv'
<1>1. /\ TypedInv /\ wallet \in Wallets /\ disk \in Wallets /\ leaves \in Seq(Leaves)
      /\ Grew(leaves, leaves') /\ overlooked \subseteq overlooked'
      /\ Sound(wallet, Foundations, leaves, overlooked, syncsMet)
      /\ Sound(disk, Foundations, leaves, overlooked, syncsMet)
      /\ Extends(wallet, wallet)
  BY WholeFacts, KeepsItself DEF WholeInv, Outside, Keeps
<1>2. /\ wallet' = wallet /\ disk' = disk /\ kind' = kind /\ step' = step
      /\ spends' = spends /\ outputs' = outputs /\ after' = after /\ body' = body
      /\ existing' = existing /\ forgotten' = forgotten
  BY DEF Outside, walletVars, spendVars, syncVars
<1>3. syncsMet' = syncsMet
  BY DEF Outside
<1>4. OnChain \subseteq OnChain'
  BY <1>1 DEF OnChain, Grew
<1>5. Misopened \subseteq Misopened'
  BY <1>1, MisopenedLater DEF Misopened, MisopenedIn
<1>6. Foundations \subseteq Foundations'
  BY <1>2, <1>4, <1>5 DEF Foundations, Pending
<1>7. /\ Sound(wallet, Foundations', leaves', overlooked', syncsMet')
      /\ Sound(disk, Foundations', leaves', overlooked', syncsMet')
  <2>1. syncsMet => syncsMet'
    BY <1>3
  <2> QED
    BY <1>1, <1>6, <2>1, SoundLater
<1>8. AwaitedInv'
  BY <1>2 DEF WholeInv, AwaitedInv, Awaited
<1>9. ShownInv'
  <2>1. nullifiers' \subseteq nullifiers \cup UNION {Shown(c) : c \in Calls}
    <3>1. ASSUME NEW c \in Calls, NEW e \in Endpoints, Land(c, e)
          PROVE  nullifiers' \subseteq nullifiers \cup UNION {Shown(d) : d \in Calls}
      BY <3>1 DEF Land
    <3> QED
      BY <3>1 DEF Outside
  <2>2. UNION {Shown(c) : c \in Calls}' = UNION {Shown(c) : c \in Calls}
    BY <1>2 DEF Shown
  <2>3. \A n \in nullifiers \cup UNION {Shown(c) : c \in Calls} :
          syncsMet \/ n \in forgotten \/ n \in Taken(wallet)
    BY DEF WholeInv, ShownInv
  <2> QED
    BY <1>2, <1>3, <2>1, <2>2, <2>3 DEF ShownInv
<1>10. LandedInv'
  <2>1. \A l \in landed : \A k \in DOMAIN outputs[l[1]] : outputs[l[1]][k] \in OnChain'
    BY <1>4 DEF WholeInv, LandedInv
  <2>2. ASSUME NEW c \in Calls, NEW e \in Endpoints, Land(c, e)
        PROVE  \A l \in landed' : \A k \in DOMAIN outputs[l[1]] : outputs[l[1]][k] \in OnChain'
    <3>1. /\ landed' = landed \cup {<<c, e>>}
          /\ \A k \in DOMAIN outputs[c] : outputs[c][k] \in OnChain'
      BY <1>1, <2>2, LandEffect
    <3>2. ASSUME NEW l \in landed'
          PROVE  \A k \in DOMAIN outputs[l[1]] : outputs[l[1]][k] \in OnChain'
      <4>1. l \in landed \/ l[1] = c
        BY <3>1
      <4> QED
        BY <2>1, <3>1, <4>1
    <3> QED
      BY <3>2
  <2>3. \A l \in landed' : \A k \in DOMAIN outputs[l[1]] : outputs[l[1]][k] \in OnChain'
    BY <2>1, <2>2 DEF Outside
  <2> QED
    BY <1>2, <2>3 DEF LandedInv
<1>11. SyncInv'
  <2>1. ASSUME NEW d \in Calls PROVE SyncShape(d)'
    <3>1. /\ SyncShape(d) /\ Extends(wallet, wallet') /\ (syncsMet => syncsMet')
          /\ \A x \in Commitments(wallet') : x \in Commitments(wallet)
      BY <1>1, <1>2, <1>3 DEF WholeInv, SyncInv
    <3>2. /\ step'[d] = step[d] /\ after'[d] = after[d] /\ body'[d] = body[d]
          /\ existing'[d] = existing[d]
      BY <1>2
    <3> QED
      BY <1>1, <3>1, <3>2, OthersSync
  <2>2. \A c, d \in Calls : c # d /\ Syncing(c)' /\ Syncing(d)' => syncsMet'
    BY <1>2, <1>3 DEF WholeInv, SyncInv, Syncing
  <2> QED
    BY <2>1, <2>2 DEF SyncInv
<1>12. NullifierShownOnce'
  BY <1>2, <1>3, <1>5 DEF WholeInv, NullifierShownOnce, Shown
<1> QED
  BY <1>2, <1>7, <1>8, <1>9, <1>10, <1>11, <1>12 DEF WholeInv

\* save(), and steps that change nothing.
LEMMA SaveKeepsWhole ==
    ASSUME WholeInv, TypedInv', Save \/ UNCHANGED vars
    PROVE  WholeInv'
<1>1. /\ disk' \in {disk, wallet} /\ UNCHANGED <<wallet, kind, step, spendVars, syncVars, chainVars,
                                                 historyVars>>
  BY DEF Save, vars, walletVars
<1>2. /\ wallet' = wallet /\ kind' = kind /\ step' = step /\ spends' = spends
      /\ outputs' = outputs /\ after' = after /\ body' = body /\ existing' = existing
      /\ landed' = landed /\ leaves' = leaves /\ nullifiers' = nullifiers
      /\ overlooked' = overlooked /\ forgotten' = forgotten
  BY <1>1 DEF spendVars, syncVars, chainVars, historyVars
<1>3. syncsMet' = syncsMet
  BY <1>1 DEF historyVars
<1>4. Foundations' = Foundations /\ OnChain' = OnChain /\ Misopened' = Misopened
  BY <1>2 DEF Foundations, Pending, OnChain, Misopened
<1>5. /\ Sound(wallet, Foundations, leaves, overlooked, syncsMet)'
      /\ Sound(disk, Foundations, leaves, overlooked, syncsMet)'
  <2>1. \A w \in {wallet, disk} : Sound(w, Foundations, leaves, overlooked, syncsMet)
    BY DEF WholeInv
  <2>2. \A w \in {wallet, disk} : Sound(w, Foundations', leaves', overlooked', syncsMet')
    BY <1>2, <1>3, <1>4, <2>1
  <2> QED
    BY <1>1, <1>2, <2>2
<1>6. AwaitedInv' /\ ShownInv' /\ LandedInv'
  BY <1>2, <1>3, <1>4 DEF WholeInv, AwaitedInv, Awaited, ShownInv, Shown, LandedInv
<1>7. SyncInv'
  BY <1>2, <1>3 DEF WholeInv, SyncInv, SyncShape, Syncing
<1>8. NullifierShownOnce'
  BY <1>2, <1>3, <1>4 DEF WholeInv, NullifierShownOnce, Shown
<1> QED
  BY <1>5, <1>6, <1>7, <1>8 DEF WholeInv

\* The wallet is the file's again; what it no longer knows is remembered as such.
LEMMA RestartKeepsWhole ==
    ASSUME WholeInv, TypedInv', Restart
    PROVE  WholeInv'
<1>1. /\ wallet' = disk /\ disk' = disk
      /\ forgotten \subseteq forgotten'
      /\ Taken(wallet) \ Taken(disk) \subseteq forgotten'
      /\ step' = [c \in Calls |-> IF step[c] \in Ended THEN step[c] ELSE "lost"]
  BY DEF Restart
<1>2. /\ kind' = kind /\ spends' = spends /\ outputs' = outputs /\ landed' = landed
      /\ leaves' = leaves /\ nullifiers' = nullifiers /\ overlooked' = overlooked
  BY DEF Restart, chainVars
<1>3. syncsMet' = syncsMet
  BY DEF Restart
<1>4. \A c \in Calls : step'[c] \in Ended /\ (step'[c] = "done" => step[c] = "done")
  BY <1>1 DEF Ended
<1>5. /\ OnChain' = OnChain /\ Misopened' = Misopened
      /\ Foundations \subseteq Foundations'
  <2>1. OnChain' = OnChain /\ Misopened' = Misopened
    BY <1>2 DEF OnChain, Misopened
  <2>2. \A c \in Pending : c \in Pending'
    BY <1>2, <1>4 DEF Pending
  <2> QED
    BY <1>2, <2>1, <2>2 DEF Foundations
<1>6. Sound(disk, Foundations', leaves', overlooked', syncsMet')
  <2>1. /\ disk \in Wallets /\ leaves \in Seq(Leaves) /\ Grew(leaves, leaves)
        /\ Sound(disk, Foundations, leaves, overlooked, syncsMet)
    BY WholeFacts DEF WholeInv
  <2>2. /\ Grew(leaves, leaves') /\ overlooked \subseteq overlooked'
        /\ (syncsMet => syncsMet')
    BY <1>2, <1>3, <2>1
  <2> QED
    BY <1>5, <2>1, <2>2, SoundLater
<1>7. AwaitedInv'
  BY <1>4 DEF AwaitedInv, Ended
<1>8. ShownInv'
  <2>1. \A n \in nullifiers \cup UNION {Shown(c) : c \in Calls} :
          syncsMet \/ n \in forgotten \/ n \in Taken(wallet)
    BY DEF WholeInv, ShownInv
  <2>2. UNION {Shown(c) : c \in Calls}' = UNION {Shown(c) : c \in Calls}
    BY <1>2 DEF Shown
  <2>3. \A n \in nullifiers' \cup UNION {Shown(c) : c \in Calls}' :
          syncsMet' \/ n \in forgotten' \/ n \in Taken(wallet')
    BY <1>1, <1>2, <1>3, <2>1, <2>2
  <2> QED
    BY <2>3 DEF ShownInv
<1>9. LandedInv'
  BY <1>2, <1>5 DEF WholeInv, LandedInv
<1>10. SyncInv'
  BY <1>4 DEF SyncInv, SyncShape, Syncing, Ended
<1>11. NullifierShownOnce'
  BY <1>1, <1>2, <1>3, <1>5 DEF WholeInv, NullifierShownOnce, Shown
<1> QED
  BY <1>1, <1>6, <1>7, <1>8, <1>9, <1>10, <1>11 DEF WholeInv

LEMMA WholeKeeps ==
    ASSUME WholeInv, [Next]_vars
    PROVE  WholeInv'
<1>1. TypedInv'
  BY TypesKeep DEF WholeInv
<1>2. ASSUME NEW c \in Calls, Call(c) \/ Proceed(c) PROVE WholeInv'
  <2>1. /\ Sound(wallet, Foundations, leaves, overlooked, syncsMet)'
        /\ Sound(disk, Foundations, leaves, overlooked, syncsMet)'
    BY <1>2, CallsKeepSound
  <2>2. AwaitedInv' /\ ShownInv' /\ LandedInv' /\ SyncInv' /\ NullifierShownOnce'
    BY <1>2, CallsKeepAwaited, CallsKeepShown, CallsKeepLanded, CallsKeepSyncs,
       CallsKeepShownOnce
  <2> QED
    BY <1>1, <2>1, <2>2 DEF WholeInv
<1>3. CASE Environment
  <2>1. Outside
    BY <1>3, EnvironmentEffect DEF WholeInv
  <2> QED
    BY <1>1, <2>1, OutsideKeepsWhole
<1>4. CASE Save \/ UNCHANGED vars
  BY <1>1, <1>4, SaveKeepsWhole
<1>5. CASE Restart
  BY <1>1, <1>5, RestartKeepsWhole
<1> QED
  BY <1>2, <1>3, <1>4, <1>5 DEF Next

-----------------------------------------------------------------------------
(* The first wallet: the payments up to its watermark, each of them once.  *)

LEMMA FirstSound ==
    ASSUME Init
    PROVE  Sound(FirstWallet, Foundations, leaves, overlooked, syncsMet)
<1> DEFINE w == FirstWallet
<1>1. /\ w \in Wallets /\ DOMAIN w.notes = 1 .. Synced /\ w.lastSyncedLeaf = Synced - 1
      /\ \A k \in 1 .. Synced :
           /\ Commitment(w.notes[k]) = Payment(Key, FirstLeaves[k].value, k)
           /\ w.notes[k].blinding = <<"sender", k>>
  BY FirstWalletTyped
<1>2. /\ leaves \in Seq(Leaves) /\ Len(leaves) = Len(FirstLeaves)
      /\ DOMAIN leaves = 1 .. Len(leaves)
      /\ \A k \in DOMAIN leaves :
           /\ leaves[k].to = FirstLeaves[k].to
           /\ leaves[k].commitment = Payment(FirstLeaves[k].to, FirstLeaves[k].value, k)
  BY FirstLog
<1>3. /\ Synced \in Nat /\ Len(leaves) \in Nat /\ Synced <= Len(leaves)
      /\ \A k \in 1 .. Synced : k \in DOMAIN leaves /\ FirstLeaves[k].to = Key
  <2>1. Synced \in Nat /\ Len(leaves) \in Nat /\ Synced <= Len(leaves)
    BY <1>2, FirstPayments
  <2>2. \A k \in 1 .. Synced : k \in DOMAIN leaves
    BY <1>2, <2>1
  <2> QED
    BY <2>1, <2>2, ClientAssumption
<1> HIDE DEF w
<1>4. \A b \in BlindingsOf(w) : b[1] = "sender"
  BY <1>1 DEF BlindingsOf
<1>5. ASSUME NEW i \in 1 .. Synced, NEW j \in 1 .. Synced, i # j
      PROVE  Commitment(w.notes[i]) # Commitment(w.notes[j])
  BY <1>1, <1>5 DEF Payment
<1>6. EachOnce(w, syncsMet, leaves)
  BY <1>1, <1>5 DEF EachOnce
<1>7. \A k \in 1 .. Synced : leaves[k].commitment = Commitment(w.notes[k])
  BY <1>1, <1>2, <1>3
<1>8. Commitments(w) \subseteq Foundations
  BY <1>1, <1>3, <1>7 DEF Commitments, Foundations, OnChain
<1>9. ASSUME NEW i \in DOMAIN leaves, i - 1 < Synced - 1
      PROVE  leaves[i].commitment \in Commitments(w)
  <2>1. i \in 1 .. Synced
    BY <1>2, <1>3, <1>9
  <2> QED
    BY <1>1, <1>7, <2>1 DEF Commitments
<1>10. Reached(w, w.lastSyncedLeaf, leaves, overlooked)
  BY <1>1, <1>9 DEF Reached
<1>11. w.lastSyncedLeaf < Len(leaves)
  BY <1>1, <1>3
<1>12. Sound(w, Foundations, leaves, overlooked, syncsMet)
  BY <1>4, <1>6, <1>8, <1>10, <1>11 DEF Sound
<1> QED
  BY <1>12 DEF w

LEMMA FirstWhole == Init => WholeInv
<1> SUFFICES ASSUME Init PROVE WholeInv
  OBVIOUS
<1>1. /\ TypedInv /\ wallet = FirstWallet /\ disk = FirstWallet
      /\ Sound(FirstWallet, Foundations, leaves, overlooked, syncsMet)
  BY FirstTypes, FirstSound DEF Init
<1>2. \A c \in Calls : step[c] = "idle" /\ Shown(c) = {}
  BY DEF Init, Shown
<1>3. AwaitedInv /\ ShownInv /\ LandedInv /\ SyncInv /\ NullifierShownOnce
  <2>1. nullifiers = {} /\ landed = {}
    BY DEF Init
  <2> QED
    BY <1>2, <2>1 DEF AwaitedInv, ShownInv, LandedInv, SyncInv, SyncShape, Syncing, Ended,
                      NullifierShownOnce
<1> QED
  BY <1>1, <1>3 DEF WholeInv

\* WalletInv: a call shows a nullifier that another showed, or the wallet has two
\* objects for a note, only when syncs ran at the same time or the ciphertext of
\* another's leaf opens to that very note (or, of the former, the wallet was restored
\* from an older file); and a note that is not on the chain is that of a deposit that
\* did not end well, or one of such a ciphertext (wallet.ts prepareTransfer, markSpent,
\* fetchIncomingNotes; client.ts deposit).
THEOREM ClientWallet == Spec => []WalletInv
<1>1. WholeInv => WalletInv
  <2> SUFFICES ASSUME WholeInv PROVE WalletInv
    OBVIOUS
  <2>1. TypeOK /\ NullifierShownOnce
    BY DEF WholeInv, TypedInv
  <2>2. HeldOnce
    BY DEF WholeInv, Sound, EachOnce, HeldOnce, Misopened, MisopenedIn
  <2>3. PhantomsAreDeposits
    <3>1. ASSUME NEW i \in DOMAIN wallet.notes,
                 Commitment(wallet.notes[i]) \notin OnChain \cup Misopened
          PROVE  \E c \in Calls : /\ kind[c] = "deposit" /\ step[c] # "done"
                                  /\ outputs[c] = <<Commitment(wallet.notes[i])>>
      <4>1. Commitment(wallet.notes[i]) \in Foundations
        BY DEF WholeInv, Sound, Commitments
      <4> QED
        BY <3>1, <4>1 DEF Foundations, Pending
    <3> QED
      BY <3>1 DEF PhantomsAreDeposits
  <2> QED
    BY <2>1, <2>2, <2>3 DEF WalletInv
<1> QED
  BY <1>1, FirstWhole, WholeKeeps, PTL DEF Spec

\* SpentNotOffered: a note whose nullifier the chain holds is marked in the wallet,
\* so that selectNotes() does not offer it, but for what restarts and two syncs at
\* the same time lost and for notes that the ciphertext of another's leaf brought
\* again (wallet.ts unspentNotes, markSpent, fetchIncomingNotes).
THEOREM ClientSpentNotOffered == Spec => []SpentNotOffered
<1>1. WholeInv => SpentNotOffered
  <2> SUFFICES ASSUME WholeInv, NEW i \in Unspent(wallet),
                      Commitment(wallet.notes[i]) \in nullifiers, ~syncsMet,
                      Commitment(wallet.notes[i]) \notin forgotten \cup Misopened
               PROVE  FALSE
    BY DEF SpentNotOffered
  <2>1. Commitment(wallet.notes[i]) \in Taken(wallet)
    BY DEF WholeInv, ShownInv
  <2>2. PICK j \in DOMAIN wallet.notes :
          /\ wallet.notes[j].spent \/ wallet.notes[j].pending
          /\ Commitment(wallet.notes[j]) = Commitment(wallet.notes[i])
    BY <2>1 DEF Taken
  <2>3. i \in DOMAIN wallet.notes /\ i # j
    BY <2>2 DEF Unspent
  <2> QED
    BY <2>2, <2>3 DEF WholeInv, Sound, EachOnce, Misopened, MisopenedIn
<1> QED
  BY <1>1, FirstWhole, WholeKeeps, PTL DEF Spec

\* WatermarkCovers: the watermark passes no payment to the wallet that the wallet, or
\* its file, does not hold, but for leaves that a replica was taken back without, in
\* whatever order leaves are indexed, responses arrive and notes are decrypted
\* (client.ts fetchIncomingNotes, store.ts getNotesAfter).
THEOREM ClientWatermarkCovers == Spec => []WatermarkCovers
<1>1. WholeInv => WatermarkCovers
  BY DEF WholeInv, Sound, Reached, WatermarkCovers
<1> QED
  BY <1>1, FirstWhole, WholeKeeps, PTL DEF Spec

=============================================================================
