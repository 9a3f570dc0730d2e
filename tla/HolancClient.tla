---------------------------- MODULE HolancClient ----------------------------
(***************************************************************************)
(* A program that uses the TypeScript SDK: one wallet, one HolancClient on *)
(* a failover connection, and calls of both that run concurrently.  Each   *)
(* call is a coroutine; step[c] is the await it stands at.  Around it are  *)
(* the chain, which applies a transaction at any time after it was sent or *)
(* never, the indexer with its replicated store, and restarts.             *)
(***************************************************************************)
EXTENDS HolancWallet, FailoverConnection, ReplicatedNoteStore

CONSTANTS
    Key,          \* the wallet's spending key
    Others,       \* keys of others
    Calls,        \* calls of the client's methods, each made once
    Kinds,        \* the methods each may be of
    Amounts,      \* amounts (fee included) that calls ask for
    FirstLeaves,  \* the payments so far: value and recipient, leaf by leaf
    Synced,       \* how many of them the wallet has; the indexer has all
    Replayed,     \* bound: leaves whose ciphertexts may be sent again
    MaxIncidents  \* bound: payments from others, faults of the replicas
                  \* and restarts, taken together

Methods == {"deposit", "transfer", "withdraw", "read", "sync"}

ASSUME ClientAssumption ==
    /\ Key \notin Others /\ {"none", "sender"} \cap (Others \cup {Key}) = {}
    /\ Kinds \in [Calls -> SUBSET Methods]
    /\ Amounts \subseteq Nat \ {0}
    /\ FirstLeaves \in Seq([value : Nat \ {0}, to : Others \cup {Key}])
    /\ Synced \in 0 .. Len(FirstLeaves)
    /\ \A k \in 1 .. Synced : FirstLeaves[k].to = Key
    /\ MaxIncidents \in Nat

VARIABLES
    wallet,
    disk,        \* the snapshot in the wallet's file
    kind, step,  \* of each call
    total,       \* the amount a call asks for
    inputs,      \* positions of the notes it selected
    spends,      \* their commitments, whose nullifiers the transaction shows
    outputs,     \* commitments of the notes it created
    candidates,  \* endpoints that exec() has not tried yet, the current first
    after,       \* the leaf that a sync asked the indexer for
    body,        \* entries of the response that the sync has to deal with
    existing,    \* existingCommitments
    sent,        \* transactions, by call and endpoint, that may yet land
    landed,      \* those that took effect
    leaves,      \* the pool's leaves: commitment, reader of the ciphertext and
                 \* what the ciphertext opens to
    nullifiers,  \* commitments whose nullifier the chain holds
    overlooked,  \* leaves that a replica lacked when it was taken back
    forgotten,   \* what the restarts forgot: notes taken, blindings used
    syncsMet,    \* two syncs ran at the same time
    incidents

walletVars == <<wallet, disk>>
syncVars == <<after, body, existing>>
spendVars == <<total, inputs, spends, outputs, candidates>>
chainVars == <<sent, landed, leaves, nullifiers>>
historyVars == <<overlooked, forgotten, syncsMet, incidents>>
vars == <<walletVars, failoverVars, storeVars, kind, step, spendVars, syncVars,
          chainVars, historyVars>>

Steps == {"idle", "deriving", "hashing", "preparing", "proving", "sending", "fetching",
          "decrypting", "done", "failed", "lost"}
Ended == {"idle", "done", "failed", "lost"}
Spends == {"transfer", "withdraw"}

Syncing(c) == kind[c] = "sync" /\ step[c] \notin Ended

\* The k-th payment by somebody else.
Payment(to, value, k) == <<to, value, <<"sender", k>>>>

PaymentLeaf(to, value, k) ==
    [commitment |-> Payment(to, value, k), to |-> to, opens |-> Payment(to, value, k)]

FirstWallet ==
    [NewWallet(Key) EXCEPT
        !.notes = [k \in 1 .. Synced |->
            OwnNote(NewWallet(Key), FirstLeaves[k].value, <<"sender", k>>)],
        !.lastSyncedLeaf = Synced - 1]

Init ==
    /\ wallet = FirstWallet
    /\ disk = FirstWallet
    /\ InitFailover
    /\ leaves = [k \in DOMAIN FirstLeaves |->
                    PaymentLeaf(FirstLeaves[k].to, FirstLeaves[k].value, k)]
    /\ primary = 0 .. Len(FirstLeaves) - 1
    /\ InitReplicas
    /\ kind = [c \in Calls |-> "none"]
    /\ step = [c \in Calls |-> "idle"]
    /\ total = [c \in Calls |-> 0]
    /\ inputs = [c \in Calls |-> <<>>]
    /\ spends = [c \in Calls |-> <<>>]
    /\ outputs = [c \in Calls |-> <<>>]
    /\ candidates = [c \in Calls |-> <<>>]
    /\ after = [c \in Calls |-> 0]
    /\ body = [c \in Calls |-> <<>>]
    /\ existing = [c \in Calls |-> {}]
    /\ sent = {}
    /\ landed = {}
    /\ nullifiers = {}
    /\ overlooked = {}
    /\ forgotten = {}
    /\ syncsMet = FALSE
    /\ incidents = 0

\* The method m is called, and gives its first await back.
Begin(c, m, next) ==
    /\ step[c] = "idle"
    /\ m \in Kinds[c]
    /\ kind' = [kind EXCEPT ![c] = m]
    /\ step' = [step EXCEPT ![c] = next]

Incident == incidents < MaxIncidents /\ incidents' = incidents + 1

-----------------------------------------------------------------------------
(* exec(): the endpoints are chosen once, then tried one after the other.  *)

\* The call's transaction, or its read, goes to the first candidate.
Send(c, tried) ==
    /\ candidates' = [candidates EXCEPT ![c] = tried]
    /\ step' = [step EXCEPT ![c] = "sending"]
    /\ sent' = IF kind[c] = "read" THEN sent ELSE sent \cup {<<c, tried[1]>>}

\* The endpoint confirms the transaction, or answers the read.
Answer(c) ==
    LET e == candidates[c][1]
    IN  /\ step[c] = "sending"
        /\ kind[c] # "read" => <<c, e>> \in landed
        /\ Answered(e)
        /\ step' = [step EXCEPT ![c] = "done"]
        /\ candidates' = [candidates EXCEPT ![c] = <<>>]
        /\ UNCHANGED <<walletVars, storeVars, kind, total, inputs, spends, outputs,
                       syncVars, chainVars, historyVars>>

\* It fails or times out, whatever became of the transaction: the next one is
\* tried with the transaction signed again, or the call throws.
Refusal(c) ==
    /\ step[c] = "sending"
    /\ Failed(candidates[c][1])
    /\ IF Len(candidates[c]) > 1
       THEN Send(c, Tail(candidates[c]))
       ELSE /\ step' = [step EXCEPT ![c] = "failed"]
            /\ candidates' = [candidates EXCEPT ![c] = <<>>]
            /\ UNCHANGED sent
    /\ UNCHANGED <<walletVars, storeVars, kind, total, inputs, spends, outputs,
                   syncVars, landed, leaves, nullifiers, historyVars>>

\* getPoolStatus()
GetPoolStatus(c) ==
    /\ Begin(c, "read", "sending")
    /\ candidates' = [candidates EXCEPT ![c] = Candidates]
    /\ UNCHANGED <<walletVars, failoverVars, storeVars, total, inputs, spends,
                   outputs, syncVars, chainVars, historyVars>>

-----------------------------------------------------------------------------
(* deposit()                                                               *)

Deposit(c, amount) ==
    /\ Begin(c, "deposit", "deriving")
    /\ total' = [total EXCEPT ![c] = amount]
    /\ outputs' = [outputs EXCEPT ![c] = <<<<Key, amount, Blinding(wallet)>>>>]
    /\ wallet' = BlindingTaken(wallet)
    /\ UNCHANGED <<disk, failoverVars, storeVars, inputs, spends, candidates,
                   syncVars, chainVars, historyVars>>

\* createDepositNote() returns; the client computes the commitment again.
DepositNote(c) ==
    /\ step[c] = "deriving"
    /\ step' = [step EXCEPT ![c] = "hashing"]
    /\ wallet' = WithNote(wallet, OwnNote(wallet, total[c], outputs[c][1][3]))
    /\ UNCHANGED <<disk, failoverVars, storeVars, kind, spendVars, syncVars,
                   chainVars, historyVars>>

SendDeposit(c) ==
    /\ step[c] = "hashing"
    /\ Send(c, Candidates)
    /\ UNCHANGED <<walletVars, failoverVars, storeVars, kind, total, inputs, spends,
                   outputs, syncVars, landed, leaves, nullifiers, historyVars>>

-----------------------------------------------------------------------------
(* transfer() and withdraw()                                               *)

\* What the two have in common up to the first await.
Select(c, amount, selected) ==
    /\ selected \in Selections(wallet, amount)
    /\ total' = [total EXCEPT ![c] = amount]
    /\ inputs' = [inputs EXCEPT ![c] = selected]
    /\ spends' = [spends EXCEPT ![c] =
                    [k \in DOMAIN selected |-> Commitment(wallet.notes[selected[k]])]]
    /\ UNCHANGED <<disk, failoverVars, storeVars, candidates, syncVars, chainVars,
                   historyVars>>

\* prepareTransfer() derives the recipient's blinding, awaits it, and then the
\* change's.
Transfer(c, amount, recipient, selected) ==
    /\ Select(c, amount, selected)
    /\ Begin(c, "transfer",
             IF Change(wallet, selected, amount) > 0 THEN "preparing" ELSE "proving")
    /\ outputs' = [outputs EXCEPT ![c] = <<<<recipient, amount, Blinding(wallet)>>>>]
    /\ wallet' = PrepareTransfer(wallet, selected)

PrepareChange(c) ==
    LET change == Change(wallet, inputs[c], total[c])
    IN  /\ step[c] = "preparing"
        /\ step' = [step EXCEPT ![c] = "proving"]
        /\ outputs' = [outputs EXCEPT ![c] =
                         Append(@, <<Key, change, Blinding(wallet)>>)]
        /\ wallet' = BlindingTaken(wallet)
        /\ UNCHANGED <<disk, failoverVars, storeVars, kind, total, inputs, spends,
                       candidates, syncVars, chainVars, historyVars>>

\* prepareWithdraw() has at most one output, the change.
Withdraw(c, amount, selected) ==
    LET change == Change(wallet, selected, amount)
    IN  /\ Select(c, amount, selected)
        /\ Begin(c, "withdraw", "proving")
        /\ outputs' = [outputs EXCEPT ![c] =
                         IF change > 0 THEN <<<<Key, change, Blinding(wallet)>>>> ELSE <<>>]
        /\ wallet' = PrepareWithdraw(wallet, selected, amount)

\* selectNotes() throws.
Insufficient(c, amount) ==
    /\ Selections(wallet, amount) = {}
    /\ \E m \in Spends : Begin(c, m, "failed")
    /\ UNCHANGED <<walletVars, failoverVars, storeVars, spendVars, syncVars,
                   chainVars, historyVars>>

\* The prover throws: the notes stay locked.
ProofFails(c) ==
    /\ step[c] = "proving"
    /\ step' = [step EXCEPT ![c] = "failed"]
    /\ UNCHANGED <<walletVars, failoverVars, storeVars, kind, spendVars, syncVars,
                   chainVars, historyVars>>

\* The nullifiers that the call's instruction carries, as commitments.
Shown(c) == {spends[c][k] : k \in DOMAIN spends[c]}

\* The inputs are marked before the transaction is built and sent.
SubmitTransfer(c) ==
    /\ step[c] = "proving" /\ kind[c] = "transfer"
    /\ wallet' = MarkSpent(wallet, Shown(c))
    /\ Send(c, Candidates)
    /\ UNCHANGED <<disk, failoverVars, storeVars, kind, total, inputs, spends,
                   outputs, syncVars, landed, leaves, nullifiers, historyVars>>

SubmitWithdraw(c) ==
    /\ step[c] = "proving" /\ kind[c] = "withdraw"
    /\ wallet' = MarkSpent(wallet, Shown(c))
    /\ Send(c, Candidates)
    /\ UNCHANGED <<disk, failoverVars, storeVars, kind, total, inputs, spends,
                   outputs, syncVars, landed, leaves, nullifiers, historyVars>>

\* The caller gave no verification key, or the proof has not the expected form:
\* the call throws with its notes already marked.
BuildFails(c) ==
    /\ step[c] = "proving"
    /\ wallet' = MarkSpent(wallet, Shown(c))
    /\ step' = [step EXCEPT ![c] = "failed"]
    /\ UNCHANGED <<disk, failoverVars, storeVars, kind, spendVars, syncVars,
                   chainVars, historyVars>>

-----------------------------------------------------------------------------
(* fetchIncomingNotes()                                                    *)

FetchIncomingNotes(c) ==
    /\ Begin(c, "sync", "fetching")
    /\ after' = [after EXCEPT ![c] = wallet.lastSyncedLeaf]
    /\ syncsMet' = (syncsMet \/ \E d \in Calls : Syncing(d))
    /\ UNCHANGED <<walletVars, failoverVars, storeVars, spendVars, body, existing,
                   chainVars, overlooked, forgotten, incidents>>

\* The loop goes on, from wallet w, over the entries it has left, up to the next
\* one it has to decrypt.
Continue(c, w, entries, known) ==
    LET k == FirstToDecrypt(entries, known)
    IN  IF k > Len(entries)
        THEN /\ wallet' = Watermarked(w, entries, Len(entries))
             /\ step' = [step EXCEPT ![c] = "done"]
             /\ body' = [body EXCEPT ![c] = <<>>]
             /\ existing' = [existing EXCEPT ![c] = {}]
        ELSE /\ wallet' = Watermarked(w, entries, k)
             /\ step' = [step EXCEPT ![c] = "decrypting"]
             /\ body' = [body EXCEPT ![c] = SubSeq(entries, k, Len(entries))]
             /\ existing' = [existing EXCEPT ![c] = known]

Entry(i) == [leafIndex |-> i, commitment |-> leaves[i + 1].commitment,
             to |-> leaves[i + 1].to, opens |-> leaves[i + 1].opens]

\* The response arrives; what it holds was read from one of the stores.
Receive(c, notes) ==
    LET found == NotesAfter(notes, after[c])
    IN  Continue(c, wallet, [k \in DOMAIN found |-> Entry(found[k])],
                 Commitments(wallet))

Fetched(c) ==
    /\ step[c] = "fetching"
    /\ \/ \E k \in ReplicaIds :
            /\ ReadFromReplica(k)
            /\ \A j \in 0 .. k - 1 : ~replicaHealthy[InTurn(j)]
            /\ Receive(c, replica[InTurn(k)])
       \/ /\ \A i \in ReplicaIds : ~replicaHealthy[i]
          /\ ReadFromPrimary
          /\ Receive(c, primary)
    /\ UNCHANGED <<disk, failoverVars, kind, spendVars, after, chainVars,
                   historyVars>>

\* The same when replicas throw before one answers.
FetchedFaulty(c) ==
    /\ step[c] = "fetching"
    /\ Incident
    /\ \/ \E k \in ReplicaIds :
            /\ ReadFromReplica(k)
            /\ \E j \in 0 .. k - 1 : replicaHealthy[InTurn(j)]
            /\ Receive(c, replica[InTurn(k)])
       \/ /\ \E i \in ReplicaIds : replicaHealthy[i]
          /\ ReadFromPrimary
          /\ Receive(c, primary)
    /\ UNCHANGED <<disk, failoverVars, kind, spendVars, after, chainVars, overlooked,
                   forgotten, syncsMet>>

FetchFails(c) ==
    /\ step[c] = "fetching"
    /\ step' = [step EXCEPT ![c] = "failed"]
    /\ UNCHANGED <<walletVars, failoverVars, storeVars, kind, spendVars, syncVars,
                   chainVars, historyVars>>

\* decryptNote() returns, with the note if it is for this wallet: the commitment of
\* that note, not the leaf's, joins existingCommitments.
Learnt(known, entry) ==
    IF entry.to = Key THEN known \cup {Commitment(Discovered(wallet, entry))} ELSE known

Decoded(w, entry) ==
    IF entry.to = Key THEN WithNote(w, Discovered(w, entry)) ELSE w

\* Mutant: the loop does not go on to the next entry.
DecryptedAgain(c) ==
    LET entry == body[c][1]
    IN  /\ step[c] = "decrypting"
        /\ Continue(c, Decoded(wallet, entry), body[c], Learnt(existing[c], entry))
        /\ UNCHANGED <<disk, failoverVars, storeVars, kind, spendVars, after,
                       chainVars, historyVars>>

Decrypted(c) ==
    LET entry == body[c][1]
    IN  /\ step[c] = "decrypting"
        /\ Continue(c, Decoded(wallet, entry), Tail(body[c]), Learnt(existing[c], entry))
        /\ UNCHANGED <<disk, failoverVars, storeVars, kind, spendVars, after,
                       chainVars, historyVars>>

-----------------------------------------------------------------------------
(* save(), and a restart that loads what was saved.                        *)

Save ==
    /\ wallet # disk
    /\ disk = FirstWallet /\ incidents < MaxIncidents   \* bound: one save
    /\ disk' = wallet
    /\ UNCHANGED <<wallet, failoverVars, storeVars, kind, step, spendVars, syncVars,
                   chainVars, historyVars>>

\* Commitments of the notes that were spent or locked.
Taken(w) == {Commitment(w.notes[i]) :
               i \in {k \in DOMAIN w.notes : w.notes[k].spent \/ w.notes[k].pending}}

Restart ==
    /\ Incident
    /\ wallet' = disk
    /\ forgotten' = forgotten \cup (Taken(wallet) \ Taken(disk))
                      \cup {<<Key, k>> : k \in disk.nextBlinding .. wallet.nextBlinding - 1}
    /\ failures' = [e \in Endpoints |-> 0]
    /\ cooling' = [e \in Endpoints |-> 0]
    /\ step' = [c \in Calls |-> IF step[c] \in Ended THEN step[c] ELSE "lost"]
    /\ inputs' = [c \in Calls |-> <<>>]
    /\ candidates' = [c \in Calls |-> <<>>]
    /\ body' = [c \in Calls |-> <<>>]
    /\ existing' = [c \in Calls |-> {}]
    /\ UNCHANGED <<disk, storeVars, kind, total, spends, outputs, after, chainVars,
                   overlooked, syncsMet>>

-----------------------------------------------------------------------------
(* The chain and the indexer.                                              *)

OnChain == {leaves[i].commitment : i \in DOMAIN leaves}

\* The pool accepts a spend of distinct notes that it holds, each once.
Acceptable(c) ==
    /\ Cardinality(Shown(c)) = Len(spends[c])
    /\ Shown(c) \subseteq OnChain \ nullifiers

Land(c, e) ==
    /\ <<c, e>> \in sent \ landed
    /\ kind[c] \in Spends => Acceptable(c)
    /\ landed' = landed \cup {<<c, e>>}
    /\ nullifiers' = nullifiers \cup Shown(c)
    /\ leaves' = leaves \o [k \in DOMAIN outputs[c] |->
                              [commitment |-> outputs[c][k], to |-> "none",
                               opens |-> outputs[c][k]]]
    /\ UNCHANGED <<walletVars, failoverVars, storeVars, kind, step, spendVars,
                   syncVars, sent, historyVars>>

\* Bound: what the indexer holds changes only while a sync waits to read it.
ToBeRead == \E c \in Calls : step[c] = "fetching"

\* The number of the next payment by somebody else.
NextPayment == Cardinality({i \in DOMAIN leaves : leaves[i].to # "none"}) + 1

\* Somebody else's transaction adds a leaf.
Arrive(leaf) ==
    /\ ToBeRead
    /\ Incident
    /\ leaves' = Append(leaves, leaf)
    /\ UNCHANGED <<walletVars, failoverVars, storeVars, kind, step, spendVars, syncVars,
                   sent, landed, nullifiers, overlooked, forgotten, syncsMet>>

\* A ciphertext for its recipient comes with it.
Pay(recipient, value) == Arrive(PaymentLeaf(recipient, value, NextPayment))

\* What a ciphertext for the wallet may open to: a note that no leaf is of, or that
\* of an earlier ciphertext.
Openings(value) ==
    {Payment(Key, value, 0)}
        \cup {leaves[i].opens :
                 i \in {k \in DOMAIN leaves \cap Replayed : leaves[k].to = Key}}

\* The ciphertext that comes with it is for the wallet, and opens to another note.
PayMislabelled(recipient, value, note) ==
    Arrive([commitment |-> Payment(recipient, value, NextPayment), to |-> Key,
            opens |-> note])

\* The next leaf reaches the store by insertNote().  (The Solana scanner calls
\* insertNotesAtomic() and the EVM one setLastEvmBlock(), which this store lacks.)
Index ==
    LET leaf == Cardinality(primary)
    IN  /\ ToBeRead
        /\ leaf < Len(leaves)
        /\ InsertNote(leaf, {})
        /\ UNCHANGED <<walletVars, failoverVars, kind, step, spendVars, syncVars,
                       chainVars, historyVars>>

IndexFaulty(i) ==
    LET leaf == Cardinality(primary)
    IN  /\ ToBeRead
        /\ leaf < Len(leaves)
        /\ Incident
        /\ InsertNote(leaf, {i})
        /\ UNCHANGED <<walletVars, failoverVars, kind, step, spendVars, syncVars,
                       chainVars, overlooked, forgotten, syncsMet>>

Resync(i, failing) ==
    /\ ToBeRead /\ replica[i] # primary
    /\ Incident
    /\ ResyncReplica(i, failing)
    /\ overlooked' = overlooked \cup (primary \ replica'[i])
    /\ UNCHANGED <<walletVars, failoverVars, kind, step, spendVars, syncVars,
                   chainVars, forgotten, syncsMet>>

ReopenStore ==
    /\ ToBeRead
    /\ Incident
    /\ Reopen
    /\ overlooked' = overlooked \cup UNION {primary \ replica[i] : i \in ReplicaIds}
    /\ UNCHANGED <<walletVars, failoverVars, kind, step, spendVars, syncVars,
                   chainVars, forgotten, syncsMet>>

Clock ==
    /\ Tick
    /\ UNCHANGED <<walletVars, storeVars, kind, step, spendVars, syncVars, chainVars,
                   historyVars>>

-----------------------------------------------------------------------------
Call(c) ==
    \/ GetPoolStatus(c)
    \/ \E a \in Amounts :
         \/ Deposit(c, a)
         \/ Insufficient(c, a)
         \/ \E s \in Selections(wallet, a) :
              \/ Withdraw(c, a, s)
              \/ \E r \in Others : Transfer(c, a, r, s)
    \/ FetchIncomingNotes(c)

Proceed(c) ==
    \/ DepositNote(c) \/ SendDeposit(c) \/ PrepareChange(c)
    \/ ProofFails(c) \/ SubmitTransfer(c) \/ SubmitWithdraw(c) \/ BuildFails(c)
    \/ Answer(c) \/ Refusal(c)
    \/ FetchFails(c) \/ Fetched(c) \/ FetchedFaulty(c) \/ Decrypted(c)

Owners == Others \cup {Key}

Environment ==
    \/ \E c \in Calls, e \in Endpoints : Land(c, e)
    \/ \E a \in Amounts :
         \/ \E r \in Owners : Pay(r, a)
         \/ \E r \in Others, n \in Openings(a) : PayMislabelled(r, a, n)
    \/ Index
    \/ \E i \in ReplicaIds :
         \/ IndexFaulty(i)
         \/ \E failing \in SUBSET (primary \ replica[i]) : Resync(i, failing)
    \/ ReopenStore
    \/ Clock

Next ==
    \/ \E c \in Calls : Call(c) \/ Proceed(c)
    \/ Save \/ Restart
    \/ Environment

Spec == Init /\ [][Next]_vars

\* Every await of a call ends: a node answers, refuses, or its blockhash expires.
FairSpec == Spec /\ \A c \in Calls : WF_vars(Proceed(c))

-----------------------------------------------------------------------------
(* Types.                                                                  *)

Blindings == (Owners \cup {"sender"}) \X Nat
NoteCommitments == Owners \X Nat \X Blindings

WalletNotes == [owner : {Key}, value : Nat, blinding : Blindings,
                spent : BOOLEAN, pending : BOOLEAN]

Wallets == [key : {Key}, notes : Seq(WalletNotes), nextBlinding : Nat,
            lastSyncedLeaf : Int]

Leaves == [commitment : NoteCommitments, to : Owners \cup {"none"},
           opens : NoteCommitments]

Entries == [leafIndex : Nat, commitment : NoteCommitments, to : Owners \cup {"none"},
            opens : NoteCommitments]

\* The types of the client's state, of its calls' and of what surrounds it.
TypeOK ==
    /\ wallet \in Wallets /\ disk \in Wallets
    /\ failures \in [Endpoints -> Nat] /\ cooling \in [Endpoints -> 0 .. Cooldown]
    /\ primary \subseteq Nat /\ replica \in [ReplicaIds -> SUBSET Nat]
    /\ replicaHealthy \in [ReplicaIds -> BOOLEAN] /\ nextReplica \in Nat
    /\ kind \in [Calls -> Methods \cup {"none"}]
    /\ step \in [Calls -> Steps]
    /\ total \in [Calls -> Nat]
    /\ inputs \in [Calls -> Seq(Nat)]
    /\ spends \in [Calls -> Seq(NoteCommitments)]
    /\ outputs \in [Calls -> Seq(NoteCommitments)]
    /\ candidates \in [Calls -> Seq(Endpoints)]
    /\ after \in [Calls -> Int]
    /\ body \in [Calls -> Seq(Entries)]
    /\ existing \in [Calls -> SUBSET NoteCommitments]
    /\ sent \subseteq Calls \X Endpoints /\ landed \subseteq sent
    /\ leaves \in Seq(Leaves)
    /\ nullifiers \subseteq NoteCommitments
    /\ overlooked \subseteq Nat
    /\ forgotten \subseteq NoteCommitments \cup Blindings
    /\ syncsMet \in BOOLEAN
    /\ incidents \in 0 .. MaxIncidents

-----------------------------------------------------------------------------
(* Coins.                                                                  *)

\* The leaf is a payment to the wallet: its ciphertext opens to its commitment.
PaidTo(leaf) == leaf.to = Key /\ leaf.opens = leaf.commitment

\* What the ciphertexts of leaves that are not of the note they describe open to.
Misopened ==
    {leaves[i].opens : i \in {k \in DOMAIN leaves : leaves[k].opens # leaves[k].commitment}}

\* No two calls hold the same note object, whatever became of them: the lock is
\* set in the step that selects and is never given back (wallet.ts prepareTransfer
\* "Lock selected notes to prevent concurrent use in another transaction").
SelectedOnce ==
    \A c, d \in Calls : c # d => Positions(inputs[c]) \cap Positions(inputs[d]) = {}

\* Two calls show the same nullifier only when the wallet lost track of the note:
\* it was restored from a file from before the first of them, or there are two
\* objects for it, from concurrent syncs or a ciphertext at another's leaf.
NullifierShownOnce ==
    \A c, d \in Calls :
        c # d => Shown(c) \cap Shown(d) \subseteq
                     (IF syncsMet THEN NoteCommitments ELSE forgotten \cup Misopened)

\* A note appears twice in the wallet only when two syncs ran at once, each with
\* its own snapshot of the commitments, or when the ciphertext of another's leaf
\* opens to it: what is looked up is the leaf's commitment, not that of the note
\* found (wallet.ts existingCommitments).
HeldOnce ==
    \A i, j \in DOMAIN wallet.notes :
        i # j /\ Commitment(wallet.notes[i]) = Commitment(wallet.notes[j])
            => syncsMet \/ Commitment(wallet.notes[i]) \in Misopened

\* A note whose nullifier is on the chain is not offered for selection again,
\* unless a restart or two concurrent syncs lost its mark, or the ciphertext of
\* another's leaf brought it once more.
SpentNotOffered ==
    \A i \in Unspent(wallet) :
        LET n == Commitment(wallet.notes[i])
        IN  n \in nullifiers => syncsMet \/ n \in forgotten \cup Misopened

\* A locked note is held by a call that is still preparing its transaction or
\* that failed while it did (those locks are never taken back), or was saved so.
LocksExplained ==
    \A i \in DOMAIN wallet.notes : wallet.notes[i].pending =>
        \/ \E c \in Calls : /\ i \in Positions(inputs[c])
                            /\ step[c] \in {"preparing", "proving", "failed"}
        \/ i \in DOMAIN disk.notes /\ disk.notes[i].pending

\* A wallet note that the pool does not hold is that of a deposit which did not
\* end well, as createDepositNote() adds it before anything is sent, or what the
\* ciphertext of another's leaf opens to.
PhantomsAreDeposits ==
    \A i \in DOMAIN wallet.notes :
        \/ Commitment(wallet.notes[i]) \in OnChain \cup Misopened
        \/ \E c \in Calls : /\ kind[c] = "deposit" /\ step[c] # "done"
                            /\ outputs[c] = <<Commitment(wallet.notes[i])>>

\* The wallet's notes are notes of the pool, each once, and the chain sees each of
\* them once, but for what the three facts above except.  One misleading ciphertext
\* excepts the one note that it opens to, and nothing else.
WalletInv == TypeOK /\ NullifierShownOnce /\ HeldOnce /\ PhantomsAreDeposits

\* Two output notes have the same blinding only when the counter was set back by
\* a restart from an older file (wallet.ts deriveBlinding).
BlindingsDistinct ==
    \A c, d \in Calls : \A k \in DOMAIN outputs[c], m \in DOMAIN outputs[d] :
        <<c, k>> # <<d, m>> /\ outputs[c][k][3] = outputs[d][m][3]
            => outputs[c][k][3] \in forgotten

-----------------------------------------------------------------------------
(* Synchronization and the connection.                                     *)

\* Every payment below the watermark, of the wallet or of its file, is in it,
\* whatever the ciphertexts around it open to; the exceptions are leaves that a
\* replica lacked when it was taken for healthy again.  Asking from the watermark's own leaf on is what makes this so for a
\* wallet saved in the middle of a sync (store.ts getNotesAfter, leaf_index >= ?).
WatermarkCovers ==
    \A w \in {wallet, disk} : \A i \in DOMAIN leaves :
        /\ PaidTo(leaves[i])
        /\ i - 1 < w.lastSyncedLeaf
        => leaves[i].commitment \in Commitments(w) \/ i - 1 \in overlooked

\* A replica that is read from lacks a note of the primary only if it was taken
\* back, by a resync or a restart, without it.
HealthyReplicasCurrent ==
    \A i \in ReplicaIds : replicaHealthy[i] => primary \ replica[i] \subseteq overlooked

\* An endpoint is left out only while its last answers were failures, as many as
\* it takes, however the answers of concurrent calls are interleaved.
OpenMeansFailing == \A e \in Endpoints : cooling[e] > 0 => failures[e] >= MaxFailures

\* Every call of the client ends, in a result or an error.
CallsEnd == \A c \in Calls : (step[c] \notin Ended) ~> (step[c] \in Ended)

=============================================================================
