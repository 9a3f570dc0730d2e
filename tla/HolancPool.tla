----------------------------- MODULE HolancPool -----------------------------
(***************************************************************************)
(* The EVM pool contract with the contracts its calls reach: the nullifier *)
(* registry, the ERC-20 token, the verifier and the bridge's lock table.   *)
(* A transaction is atomic and a revert undoes it, so every external call  *)
(* is one action and a revert is an action that is not enabled.  Around    *)
(* the contract run its callers, who deposit and present proofs, and the   *)
(* operator, who reads the chain, rebuilds the Poseidon tree and submits   *)
(* its root in a later transaction.  A proof is accepted for what the      *)
(* circuits constrain and no more: see ProofVerifies.  Tokens reach the    *)
(* pool by deposit() only.                                                 *)
(***************************************************************************)
EXTENDS NoteValues, Sha256Tree, Sequences

CONSTANTS
    Nullifiers,       \* the nullifiers that proofs may show
    NoteOf,           \* NoteOf[nf]: the note whose commitment nf is hashed from
    Slots, SlotOf,    \* the registry's bits, and the bit of each nullifier
    MaxEpoch,         \* bound: nullifier epochs finalized
    RootHistorySize,  \* ROOT_HISTORY_SIZE
    Supply,           \* the token's total supply, all with users at first
    Fees,             \* the relayer fees that callers offer
    BridgedNotes,     \* the notes that callers may lock for a bridge transfer
    MaxLeaves         \* bound: leaves of one behaviour (the code's is 2^64)

ASSUME PoolAssumption ==
    /\ NoteOf \in [Nullifiers -> Notes]
    /\ SlotOf \in [Nullifiers -> Slots]
    /\ MaxEpoch \in Nat
    /\ RootHistorySize \in Nat \ {0}
    /\ Supply \in Nat
    /\ Fees \subseteq Nat
    /\ BridgedNotes \subseteq Notes
    /\ MaxLeaves \in Nat

VARIABLES
    leaves,            \* the notes of DepositEvent and NewCommitment, in order
    lastDeposit,       \* leaf number of the last DepositEvent; 0 before any
    filledSubtrees,    \* filledSubtrees
    sha256Root,        \* sha256Root
    currentRoot,       \* currentRoot
    rootHistory,       \* rootHistory
    rootHistoryIndex,  \* rootHistoryIndex
    totalDeposited,    \* totalDeposited
    isPaused,          \* isPaused
    commitmentLocks,   \* HolancBridge.commitmentLocks that are not unlocked
    userBalance,       \* tokens outside the pool and its fee collector
    vaultBalance,      \* token.balanceOf(pool)
    transferFees,      \* sum of the fees that transfer() has paid
    unbacked,          \* worth that was claimed without a payment or a live note
    recentRoots,       \* the last RootHistorySize roots of RootUpdated
    operator,          \* the operator's reads since its last transaction
    bitmap, totalNullifiers, currentEpoch, epochRecords, registered

\* The registry's only registrar is the pool, which always names page 0.
Registry == INSTANCE HolancNullifier WITH Pages <- {0}

treeVars == <<leaves, lastDeposit, filledSubtrees, sha256Root>>
rootVars == <<currentRoot, rootHistory, rootHistoryIndex, recentRoots>>
moneyVars ==
    <<totalDeposited, userBalance, vaultBalance, transferFees, unbacked>>
registryVars ==
    <<bitmap, totalNullifiers, currentEpoch, epochRecords, registered>>

vars == <<treeVars, rootVars, moneyVars, isPaused, commitmentLocks, operator,
          registryVars>>

-----------------------------------------------------------------------------
(* A Poseidon root is named by the number of leaves it covers; 0 also is   *)
(* the bytes32(0) that fills an unused rootHistory, which proves nothing.  *)

KnownRoots == {currentRoot} \cup {rootHistory[i] : i \in 0 .. RootHistorySize - 1}
LeavesUnder(root) == {leaves[i] : i \in 1 .. root}

nextLeafIndex == Len(leaves)
lastCommitment == IF lastDeposit = 0 THEN ZeroBytes ELSE leaves[lastDeposit]

IsKnownRoot(root) == root \in KnownRoots

\* The words that the contracts key their tables with.
CommitmentWord(n) == <<"commitment", n>>
NullifierWord(nf) == <<"nullifier", nf>>

NotBridgeLocked(word) == word \notin commitmentLocks

\* The notes whose nullifiers a set of nullifiers holds.
NotesOf(nfs) == {NoteOf[nf] : nf \in nfs}

\* The nullifiers that were shown, the notes that they consumed and the notes
\* that were appended and are still to be consumed.
Shown == {nf \in Nullifiers : registered[nf] > 0}
Spent == NotesOf(Shown)
Unspent == LeavesUnder(Len(leaves)) \ Spent

Idle == [stage |-> "idle"]

Init ==
    /\ leaves = <<>>
    /\ lastDeposit = 0
    /\ filledSubtrees = [level \in Levels |-> ZeroBytes]
    /\ sha256Root = ZeroBytes
    /\ currentRoot = 0
    /\ rootHistory = [i \in 0 .. RootHistorySize - 1 |-> 0]
    /\ rootHistoryIndex = 0
    /\ totalDeposited = 0
    /\ isPaused = FALSE
    /\ commitmentLocks = {}
    /\ userBalance = Supply
    /\ vaultBalance = 0
    /\ transferFees = 0
    /\ unbacked = 0
    /\ recentRoots = <<>>
    /\ operator = Idle
    /\ Registry!InitRegistry

-----------------------------------------------------------------------------
(* Callers.                                                                *)

\* _insertLeaf(leafIndex, commitment) for the leaf that is being appended.
InsertLeaf(leafIndex, commitment) ==
    /\ filledSubtrees' = SubtreesAfter(filledSubtrees, leafIndex, commitment)
    /\ sha256Root' = RootAfter(filledSubtrees, leafIndex, commitment)

\* deposit(): nothing ties the amount to what the commitment is worth.
Deposit(n, amount) ==
    /\ ~isPaused
    /\ amount > 0
    /\ userBalance >= amount
    /\ nextLeafIndex < MaxLeaves
    /\ userBalance' = userBalance - amount
    /\ vaultBalance' = vaultBalance + amount
    /\ totalDeposited' = totalDeposited + amount
    /\ unbacked' = unbacked + ValueOf[n] - amount
    /\ leaves' = Append(leaves, n)
    /\ lastDeposit' = nextLeafIndex + 1
    /\ InsertLeaf(nextLeafIndex, n)
    /\ UNCHANGED <<rootVars, transferFees, isPaused, commitmentLocks, operator,
                   registryVars>>

\* Mutant: the circuit conserves value only as an inequality.
ProofVerifiesLoosely(root, nf1, nf2, out1, out2, paid) ==
    /\ root # 0
    /\ ValueOf[NoteOf[nf1]] + ValueOf[NoteOf[nf2]] >=
           ValueOf[out1] + ValueOf[out2] + paid

\* verifyProof for the 2-in-2-out circuits.  They derive each nullifier from
\* the commitment of an input note and any spending key, and `paid`, the public
\* part, balances the values.  An input's owner field is not tied to the key,
\* so a note has as many nullifiers as there are keys; the path indices of the
\* inclusion proof are not tied to bits, so no input is tied to the leaves
\* under the root, which only must be one that was computed.
ProofVerifies(root, nf1, nf2, out1, out2, paid) ==
    /\ root # 0
    /\ ValueOf[NoteOf[nf1]] + ValueOf[NoteOf[nf2]] =
           ValueOf[out1] + ValueOf[out2] + paid

\* What a proof claims with nf beyond a note of its own: the note was never
\* appended, or another nullifier of it is among `others`.
Claimed(nf, others) ==
    IF NoteOf[nf] \in LeavesUnder(Len(leaves)) \ NotesOf(others \ {nf})
    THEN 0
    ELSE ValueOf[NoteOf[nf]]

\* The output commitments become leaves of the event log only: the SHA-256
\* tree is not touched.
AppendOutputs(out1, out2) ==
    /\ leaves' = leaves \o <<out1, out2>>
    /\ UNCHANGED <<lastDeposit, filledSubtrees, sha256Root>>

\* The guards and the registration that transfer() and withdraw() share.
Consume(root, nf1, nf2, out1, out2, paid) ==
    /\ ~isPaused
    /\ nextLeafIndex + 2 <= MaxLeaves
    /\ ProofVerifies(root, nf1, nf2, out1, out2, paid)
    /\ IsKnownRoot(root)
    /\ NotBridgeLocked(NullifierWord(nf1))
    /\ NotBridgeLocked(NullifierWord(nf2))
    /\ Registry!RegisterBoth(0, nf1, nf2)
    /\ AppendOutputs(out1, out2)
    /\ unbacked' = unbacked + Claimed(nf1, Shown) + Claimed(nf2, Shown \cup {nf1})

\* transfer(): the fee leaves the vault, and totalDeposited is left alone.
Transfer(root, nf1, nf2, out1, out2, fee) ==
    /\ Consume(root, nf1, nf2, out1, out2, fee)
    /\ vaultBalance >= fee
    /\ vaultBalance' = vaultBalance - fee
    /\ transferFees' = transferFees + fee
    /\ UNCHANGED <<totalDeposited, userBalance, rootVars, isPaused,
                   commitmentLocks, operator>>

\* Mutant: the fee leaves the vault but not totalDeposited.
WithdrawKeepsFee(root, nf1, nf2, out1, out2, exitAmount, fee) ==
    /\ exitAmount > 0
    /\ Consume(root, nf1, nf2, out1, out2, exitAmount + fee)
    /\ exitAmount + fee <= totalDeposited
    /\ exitAmount + fee <= vaultBalance
    /\ totalDeposited' = totalDeposited - exitAmount
    /\ vaultBalance' = vaultBalance - exitAmount - fee
    /\ userBalance' = userBalance + exitAmount
    /\ UNCHANGED <<transferFees, rootVars, isPaused, commitmentLocks, operator>>

\* withdraw(): the exit amount goes to a user and the fee to the collector.
Withdraw(root, nf1, nf2, out1, out2, exitAmount, fee) ==
    /\ exitAmount > 0
    /\ Consume(root, nf1, nf2, out1, out2, exitAmount + fee)
    /\ exitAmount + fee <= totalDeposited
    /\ exitAmount + fee <= vaultBalance
    /\ totalDeposited' = totalDeposited - exitAmount - fee
    /\ vaultBalance' = vaultBalance - exitAmount - fee
    /\ userBalance' = userBalance + exitAmount
    /\ UNCHANGED <<transferFees, rootVars, isPaused, commitmentLocks, operator>>

\* HolancBridge.lockCommitment(): anyone's call, keyed by the commitment.
LockCommitment(n) ==
    /\ CommitmentWord(n) \notin commitmentLocks
    /\ commitmentLocks' = commitmentLocks \cup {CommitmentWord(n)}
    /\ UNCHANGED <<treeVars, rootVars, moneyVars, isPaused, operator,
                   registryVars>>

-----------------------------------------------------------------------------
(* The owner: pause switch, epochs, and the operator that refreshes roots. *)

SetPaused(paused) ==
    /\ isPaused' = paused
    /\ UNCHANGED <<treeVars, rootVars, moneyVars, commitmentLocks, operator,
                   registryVars>>

FinalizeEpoch ==
    /\ Registry!FinalizeEpoch
    /\ UNCHANGED <<treeVars, rootVars, moneyVars, isPaused, commitmentLocks,
                   operator>>

\* With leaves that no root covers yet, the operator reads sha256Root first.
ReadShaRoot ==
    /\ operator = Idle
    /\ currentRoot # nextLeafIndex
    /\ operator' = [stage |-> "sha", sha |-> sha256Root]
    /\ UNCHANGED <<treeVars, rootVars, moneyVars, isPaused, commitmentLocks,
                   registryVars>>

\* Then it replays the leaves up to the head and computes the Poseidon root.
ReadLeaves ==
    /\ operator.stage = "sha"
    /\ operator' = [stage |-> "ready", sha |-> operator.sha,
                    root |-> nextLeafIndex]
    /\ UNCHANGED <<treeVars, rootVars, moneyVars, isPaused, commitmentLocks,
                   registryVars>>

LastOf(s, k) == IF Len(s) <= k THEN s ELSE SubSeq(s, Len(s) - k + 1, Len(s))

\* Mutant: the write position wraps one entry early.
RecordRootShortRing(newRoot) ==
    /\ currentRoot' = newRoot
    /\ rootHistory' = [rootHistory EXCEPT ![rootHistoryIndex] = newRoot]
    /\ rootHistoryIndex' = (rootHistoryIndex + 1) % (RootHistorySize - 1)
    /\ recentRoots' = LastOf(Append(recentRoots, newRoot), RootHistorySize)

\* Mutant: only the history learns of the new root.
RecordRootHistoryOnly(newRoot) ==
    /\ rootHistory' = [rootHistory EXCEPT ![rootHistoryIndex] = newRoot]
    /\ rootHistoryIndex' = (rootHistoryIndex + 1) % RootHistorySize
    /\ recentRoots' = LastOf(Append(recentRoots, newRoot), RootHistorySize)
    /\ UNCHANGED currentRoot

\* The new root takes the oldest entry's place in the ring buffer.
RecordRoot(newRoot) ==
    /\ currentRoot' = newRoot
    /\ rootHistory' = [rootHistory EXCEPT ![rootHistoryIndex] = newRoot]
    /\ rootHistoryIndex' = (rootHistoryIndex + 1) % RootHistorySize
    /\ recentRoots' = LastOf(Append(recentRoots, newRoot), RootHistorySize)

\* Mutant: the expected SHA-256 root is not compared.
UpdateRootUnchecked ==
    /\ operator.stage = "ready"
    /\ RecordRoot(operator.root)
    /\ operator' = Idle
    /\ UNCHANGED <<treeVars, moneyVars, isPaused, commitmentLocks,
                   registryVars>>

\* updateRoot(newRoot, expectedSha256Root), accepted.
UpdateRoot ==
    /\ operator.stage = "ready"
    /\ sha256Root = operator.sha
    /\ RecordRoot(operator.root)
    /\ operator' = Idle
    /\ UNCHANGED <<treeVars, moneyVars, isPaused, commitmentLocks,
                   registryVars>>

\* updateRoot reverts with RootIntegrityMismatch; the operator starts over.
UpdateRootReverts ==
    /\ operator.stage = "ready"
    /\ sha256Root # operator.sha
    /\ operator' = Idle
    /\ UNCHANGED <<treeVars, rootVars, moneyVars, isPaused, commitmentLocks,
                   registryVars>>

Caller ==
    \/ \E n \in Notes, amount \in 1 .. Supply : Deposit(n, amount)
    \/ \E n \in BridgedNotes : LockCommitment(n)
    \/ \E root \in KnownRoots, nf1, nf2 \in Nullifiers :
          \E out1, out2 \in Notes, fee \in Fees :
             \/ Transfer(root, nf1, nf2, out1, out2, fee)
             \/ \E exitAmount \in 1 .. Supply :
                   Withdraw(root, nf1, nf2, out1, out2, exitAmount, fee)

Operator == ReadShaRoot \/ ReadLeaves \/ UpdateRoot \/ UpdateRootReverts

Owner == FinalizeEpoch \/ \E paused \in BOOLEAN : SetPaused(paused)

Next == Caller \/ Operator \/ Owner

Spec == Init /\ [][Next]_vars

\* Nothing obliges a caller or the owner to act; the operator keeps going.
FairSpec == Spec /\ WF_vars(Operator)

-----------------------------------------------------------------------------
TreeOK ==
    /\ leaves \in Seq(Notes)
    /\ Len(leaves) <= MaxLeaves
    /\ lastDeposit \in 0 .. Len(leaves)
    /\ DOMAIN filledSubtrees = Levels

RootsOK ==
    /\ currentRoot \in 0 .. Len(leaves)
    /\ rootHistory \in [0 .. RootHistorySize - 1 -> 0 .. Len(leaves)]
    /\ rootHistoryIndex \in 0 .. RootHistorySize - 1
    /\ recentRoots \in Seq(Nat)

MoneyOK ==
    /\ totalDeposited \in Nat
    /\ userBalance \in Nat
    /\ vaultBalance \in Nat
    /\ transferFees \in Nat
    /\ unbacked \in Int

SwitchesOK ==
    /\ isPaused \in BOOLEAN
    /\ commitmentLocks \subseteq {CommitmentWord(n) : n \in BridgedNotes}

OperatorOK ==
    \/ operator = Idle
    \/ operator.stage = "sha"
    \/ operator.stage = "ready" /\ operator.root \in 0 .. Len(leaves)

\* Types, with every root that the contract or the operator holds in range.
TypeOK ==
    /\ TreeOK
    /\ RootsOK
    /\ MoneyOK
    /\ SwitchesOK
    /\ OperatorOK
    /\ Registry!TypeOKRegistry

\* Double-spend prevention (docs/architecture.md): although the registry keeps
\* one bit for many nullifiers, pages them and forgets which nullifier set the
\* bit, no nullifier is accepted twice, not even by the two registrations of
\* one transaction or for a commitment that was appended twice.  (A note has more
\* than one nullifier: see ProofVerifies.)
NoDoubleSpend == \A nf \in Nullifiers : registered[nf] <= 1

\* The vault can pay out every unspent note that was ever appended, whatever
\* mix of deposits, transfers and withdrawals came before, but for what was
\* claimed without backing: deposits of less than the commitment is worth, and
\* proofs of notes that are no leaves or show another nullifier already.
Solvency == TotalValue[Unspent] <= vaultBalance + unbacked

\* withdraw()'s balance check reads totalDeposited while tokens leave the
\* vault: the two differ by exactly the fees that transfer() paid out, so the
\* check refuses nothing that the vault can pay, and refuses a withdrawal of
\* unspent notes only for what was claimed without backing.
BooksReconcile ==
    /\ totalDeposited = vaultBalance + transferFees
    /\ TotalValue[Unspent] <= totalDeposited + unbacked

\* The ring buffer holds exactly the last RootHistorySize roots: a proof made
\* against a root stays good for that many updates and no longer.
RootWindow ==
    {rootHistory[i] : i \in 0 .. RootHistorySize - 1} \ {0} =
        {recentRoots[i] : i \in 1 .. Len(recentRoots)}

\* updateRoot()'s SHA-256 comparison: an accepted root covers every deposit
\* made before it, whatever was appended between the operator's reads and its
\* transaction.
UpdateCoversDeposits ==
    [][currentRoot' # currentRoot => currentRoot' >= lastDeposit]_vars

\* isNullifierSpent()'s "True if the nullifier is spent".
SpentExactly ==
    \A nf \in Nullifiers :
        Registry!IsNullifierSpent(0, nf) <=> registered[nf] > 0

\* HolancPool._assertNotBridgeLocked's "Reject if a commitment is locked for
\* bridge transfer": a locked note is not spent on this chain.
LockedStaysUnspent ==
    [][\A nf \in Nullifiers : CommitmentWord(NoteOf[nf]) \in commitmentLocks =>
          registered'[nf] = registered[nf]]_vars

\* Every appended commitment is covered by the current root in the end, so
\* that its owner can prove inclusion: rejected updates are retried and a
\* stale root is superseded.
EveryLeafProvable ==
    \A k \in 1 .. MaxLeaves : Len(leaves) >= k ~> currentRoot >= k

\* The contract implements the ledger: a note is live while it is appended and
\* no nullifier of it is registered.
Ledger == INSTANCE ShieldedLedger WITH
              live <- Unspent,
              spent <- Spent,
              vault <- vaultBalance
ImplementsLedger == Ledger!Spec

=============================================================================
