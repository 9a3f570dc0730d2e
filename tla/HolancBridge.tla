---------------------------- MODULE HolancBridge ----------------------------
(***************************************************************************)
(* The bridges of several chains, each of them HolancBridge.sol or the     *)
(* Solana program of the same name.  A chain publishes epoch roots, other  *)
(* chains receive them: late, in any order and more than once.  Wallets    *)
(* lock commitments, and records say that they were unlocked elsewhere.    *)
(*                                                                         *)
(* The bridge asks nobody whether a root is that of a finalized epoch,     *)
(* whether a commitment is in a pool, or whether what it unlocks was ever  *)
(* locked; the properties speak of what is left.                           *)
(***************************************************************************)
EXTENDS Integers, Sequences, FiniteSets

CONSTANTS
    Chains,
    SvmChains,       \* those that run the Solana program
    Words,           \* 32 bytes each: nullifiers, inner nodes of trees, roots
    Under,           \* Under[r]: the words from which a path leads to r.  A
                     \* path may have any length, so r is one of them
    NoRoot,          \* what a mapping's entry or an account reads like that
    NoLock,          \* was never written
    Commitments,
    Wallets,
    MaxEpochs,       \* bound: numbers that callers give as epochs
    MaxMessages,     \* bound: messages published on all chains
    MaxBridged,      \* bound: commitments locked or unlocked
    MaxSwitches      \* bound: calls of setActive()

LockRecords == [to : Chains, locker : Wallets, isUnlocked : BOOLEAN]

ASSUME BridgeAssumption ==
    /\ SvmChains \subseteq Chains
    /\ Under \in [Words -> SUBSET Words]
    /\ \A r \in Words : r \in Under[r]
    /\ NoRoot \notin Words
    /\ NoLock \notin LockRecords
    /\ MaxEpochs \in Nat /\ MaxMessages \in Nat /\ MaxBridged \in Nat
    /\ MaxSwitches \in Nat

VARIABLES
    isActive,
    outboundMessages, \* epochCounter is their number
    foreignRoots,     \* per chain, source chain and epoch
    commitmentLocks,
    lockEvents,       \* the CommitmentLocked events
    unlockRecords,    \* per chain: pairs of source chain and commitment
    published, bridged, switches      \* counted for the bounds

rootVars == <<outboundMessages, foreignRoots, published>>
lockVars == <<commitmentLocks, lockEvents, unlockRecords, bridged>>
vars == <<rootVars, lockVars, isActive, switches>>

-----------------------------------------------------------------------------
Epochs == 0 .. MaxEpochs - 1

Messages == [epoch : Epochs, root : Words]

Init ==
    /\ isActive = [k \in Chains |-> TRUE]
    /\ outboundMessages = [k \in Chains |-> <<>>]
    /\ foreignRoots = [k \in Chains |-> [j \in Chains |->
                                            [e \in Epochs |-> NoRoot]]]
    /\ commitmentLocks = [k \in Chains |-> [c \in Commitments |-> NoLock]]
    /\ lockEvents = {}
    /\ unlockRecords = [k \in Chains |-> {}]
    /\ published = 0 /\ bridged = 0 /\ switches = 0

-----------------------------------------------------------------------------
(* Epoch roots.                                                            *)

\* The owner of an EVM bridge, or any signer of a Solana transaction, publishes
\* any root for any epoch, be it finalized or not, and maybe once more.
PublishEpochRoot(k, e, r) ==
    /\ isActive[k]
    /\ published < MaxMessages
    /\ published' = published + 1
    /\ outboundMessages' =
          [outboundMessages EXCEPT ![k] = Append(@, [epoch |-> e, root |-> r])]
    /\ UNCHANGED <<foreignRoots, lockVars, isActive, switches>>

\* Mutant: the root is filed under the number of the message.
ReceiveUnderSequence(k, source, i) ==
    /\ isActive[k]
    /\ source # k
    /\ i - 1 \in Epochs
    /\ LET m == outboundMessages[source][i]
       IN  /\ k \in SvmChains => foreignRoots[k][source][i - 1] = NoRoot
           /\ foreignRoots' = [foreignRoots EXCEPT ![k][source][i - 1] = m.root]
    /\ UNCHANGED <<outboundMessages, published, lockVars, isActive, switches>>

\* Mutant: the Solana account is initialized only if needed.
ReceiveOverwrites(k, source, i) ==
    /\ isActive[k]
    /\ source # k
    /\ LET m == outboundMessages[source][i]
       IN  foreignRoots' = [foreignRoots EXCEPT ![k][source][m.epoch] = m.root]
    /\ UNCHANGED <<outboundMessages, published, lockVars, isActive, switches>>

\* Message i of the source arrives: the owner of an EVM bridge brings it, on
\* Solana the signatures of the guardians do.  That owner and guardians vouch only
\* for what the source published is theirs, not the bridge's.  The EVM contract overwrites
\* what it has stored for the epoch; the program creates an account and fails if
\* there is one.
ReceiveEpochRoot(k, source, i) ==
    /\ isActive[k]
    /\ source # k
    /\ LET m == outboundMessages[source][i]
       IN  /\ k \in SvmChains => foreignRoots[k][source][m.epoch] = NoRoot
           /\ foreignRoots' = [foreignRoots EXCEPT ![k][source][m.epoch] = m.root]
    /\ UNCHANGED <<outboundMessages, published, lockVars, isActive, switches>>

\* Some path leads from the word to the root that is stored.
VerifyForeignNullifier(k, source, e, word) ==
    /\ foreignRoots[k][source][e] # NoRoot
    /\ word \in Under[foreignRoots[k][source][e]]

-----------------------------------------------------------------------------
(* Locks.                                                                  *)

\* No operation of either bridge sets isUnlocked.
IsCommitmentLocked(k, c) ==
    /\ commitmentLocks[k][c] # NoLock
    /\ ~commitmentLocks[k][c].isUnlocked

Lock(k, c, d, w) ==
    /\ bridged < MaxBridged
    /\ bridged' = bridged + 1
    /\ commitmentLocks' = [commitmentLocks EXCEPT
                             ![k][c] = [to |-> d, locker |-> w,
                                        isUnlocked |-> FALSE]]
    /\ lockEvents' = lockEvents \cup
                        {[commitment |-> c, from |-> k, to |-> d, locker |-> w]}
    /\ UNCHANGED <<rootVars, unlockRecords, isActive, switches>>

\* Mutant: a lock may be taken over.
LockCommitmentAgain(k, c, d, w) ==
    /\ isActive[k]
    /\ d # k
    /\ Lock(k, c, d, w)

\* Anybody locks any commitment, for transfer to chain d, unless it was locked.
LockCommitment(k, c, d, w) ==
    /\ isActive[k]
    /\ d # k
    /\ commitmentLocks[k][c] = NoLock
    /\ Lock(k, c, d, w)

\* The owner of an EVM bridge, or any signer of a Solana transaction, records
\* that a commitment came from another chain.  The contract overwrites its
\* record, the program fails if there is one.
UnlockCommitment(k, source, c) ==
    /\ isActive[k]
    /\ source # k
    /\ k \in SvmChains => <<source, c>> \notin unlockRecords[k]
    /\ bridged < MaxBridged
    /\ bridged' = bridged + 1
    /\ unlockRecords' = [unlockRecords EXCEPT ![k] = @ \cup {<<source, c>>}]
    /\ UNCHANGED <<rootVars, commitmentLocks, lockEvents, isActive, switches>>

SetActive(k) ==
    /\ switches < MaxSwitches
    /\ isActive' = [isActive EXCEPT ![k] = ~@]
    /\ switches' = switches + 1
    /\ UNCHANGED <<rootVars, lockVars>>

-----------------------------------------------------------------------------
Next ==
    \E k \in Chains :
       \/ SetActive(k)
       \/ \E e \in Epochs, r \in Words : PublishEpochRoot(k, e, r)
       \/ \E j \in Chains : \E i \in DOMAIN outboundMessages[j] :
             ReceiveEpochRoot(k, j, i)
       \/ \E c \in Commitments, d \in Chains, w \in Wallets :
             LockCommitment(k, c, d, w)
       \/ \E j \in Chains, c \in Commitments : UnlockCommitment(k, j, c)

Spec == Init /\ [][Next]_vars

-----------------------------------------------------------------------------
\* Types; no event locks a commitment for the chain it is on.
TypeOK ==
    /\ isActive \in [Chains -> BOOLEAN]
    /\ outboundMessages \in [Chains -> Seq(Messages)]
    /\ foreignRoots \in [Chains -> [Chains -> [Epochs -> Words \cup {NoRoot}]]]
    /\ commitmentLocks \in [Chains -> [Commitments -> LockRecords \cup {NoLock}]]
    /\ lockEvents \subseteq [commitment : Commitments, from : Chains,
                             to : Chains, locker : Wallets]
    /\ \A event \in lockEvents : event.from # event.to
    /\ unlockRecords \in [Chains -> SUBSET (Chains \X Commitments)]
    /\ published \in 0 .. MaxMessages
    /\ bridged \in 0 .. MaxBridged
    /\ switches \in 0 .. MaxSwitches

\* The chain has published two different roots for one epoch.
Contradicted(l, e) ==
    \E m1, m2 \in {outboundMessages[l][i] : i \in DOMAIN outboundMessages[l]} :
        m1.epoch = e /\ m2.epoch = e /\ m1.root # m2.root

\* What a chain holds for an epoch of another is a root that the other has
\* published, and has published for that epoch.
HeldWasPublished ==
    \A k, j \in Chains, e \in Epochs :
        foreignRoots[k][j][e] # NoRoot =>
            /\ j # k
            /\ \E i \in DOMAIN outboundMessages[j] :
                  outboundMessages[j][i] =
                      [epoch |-> e, root |-> foreignRoots[k][j][e]]

\* Two chains that hold a root of the same epoch accept the same words, though
\* one keeps the first message that came and the other the last, unless the
\* source has contradicted itself.
PeersAgree ==
    \A j, k, l \in Chains, e \in Epochs :
        \/ foreignRoots[j][l][e] = NoRoot
        \/ foreignRoots[k][l][e] = NoRoot
        \/ foreignRoots[j][l][e] = foreignRoots[k][l][e]
        \/ Contradicted(l, e)

\* What the bridges know of each other, in whatever order messages came: the
\* types, and the two facts above.
RootsInv == TypeOK /\ HeldWasPublished /\ PeersAgree

\* A word that verifies stops verifying only on an EVM chain, which overwrites
\* roots, and only if the source published another root for the same epoch: a
\* late or repeated message alone takes nothing back, nor does a pause.
VerifiedStays ==
    [][\A k, j \in Chains, e \in Epochs, word \in Words :
          VerifyForeignNullifier(k, j, e, word) =>
              \/ VerifyForeignNullifier(k, j, e, word)'
              \/ k \notin SvmChains /\ Contradicted(j, e)]_vars

\* A commitment is locked on a chain once and for good: it is reported as locked
\* exactly if one event announced it, whose wallet and destination are those of
\* the record.  No second wallet takes the lock over, and a commitment that is
\* unlocked elsewhere, brought back and unlocked here is still locked here.
LockedOnce ==
    \A k \in Chains, c \in Commitments :
        LET announced == {x \in lockEvents : x.from = k /\ x.commitment = c}
        IN  /\ IsCommitmentLocked(k, c) <=> announced # {}
            /\ \A x \in announced :
                  commitmentLocks[k][c] =
                      [to |-> x.to, locker |-> x.locker, isUnlocked |-> FALSE]

=============================================================================
