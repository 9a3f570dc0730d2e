---------------------------- MODULE HolancWallet ----------------------------
(***************************************************************************)
(* The wallet of the TypeScript SDK: what its methods make of its state.   *)
(* A wallet is a record, a note in it an entry of a sequence that only     *)
(* grows, so a position in it is the note object that callers hold.        *)
(*                                                                         *)
(* The methods that await (deriving a blinding, decrypting) are cut at the *)
(* await by the modules that use this one.                                 *)
(***************************************************************************)
EXTENDS Integers, Sequences

\* fromMnemonic(), fromKey(): a wallet without notes.
NewWallet(key) ==
    [key |-> key, notes |-> <<>>, nextBlinding |-> 0, lastSyncedLeaf |-> -1]

\* A note as createDepositNote() or a sync leaves it in the wallet.
OwnNote(w, value, blinding) ==
    [owner |-> w.key, value |-> value, blinding |-> blinding,
     spent |-> FALSE, pending |-> FALSE]

\* Hashes are injective: a commitment is what it is computed from.
Commitment(n) == <<n.owner, n.value, n.blinding>>

Commitments(w) == {Commitment(w.notes[i]) : i \in DOMAIN w.notes}

\* deriveBlinding(): the counter moves before the first await.
Blinding(w) == <<w.key, w.nextBlinding>>
BlindingTaken(w) == [w EXCEPT !.nextBlinding = @ + 1]

WithNote(w, n) == [w EXCEPT !.notes = Append(@, n)]

-----------------------------------------------------------------------------
(* Coin selection and locks.                                               *)

\* Mutant: locked notes are offered too.
UnspentWithPending(w) == {i \in DOMAIN w.notes : ~w.notes[i].spent}

\* unspentNotes()
Unspent(w) == {i \in DOMAIN w.notes : ~w.notes[i].spent /\ ~w.notes[i].pending}

\* selectNotes(): every selection the random choice can make; none if it throws.
Selections(w, amount) ==
    LET singles == {i \in Unspent(w) : w.notes[i].value >= amount}
        pairs == {p \in Unspent(w) \X Unspent(w) :
                    /\ p[1] < p[2]
                    /\ w.notes[p[1]].value + w.notes[p[2]].value >= amount}
    IN  IF singles # {} THEN {<<i>> : i \in singles} ELSE pairs

\* inputSum - total, the value of the change note.
Change(w, inputs, total) ==
    w.notes[inputs[1]].value
        + (IF Len(inputs) = 2 THEN w.notes[inputs[2]].value ELSE 0) - total

Positions(inputs) == {inputs[k] : k \in DOMAIN inputs}

InputCommitments(w, inputs) == {Commitment(w.notes[i]) : i \in Positions(inputs)}

\* The selected note objects are locked.
Lock(w, inputs) ==
    [w EXCEPT !.notes = [i \in DOMAIN w.notes |->
        IF i \in Positions(inputs) THEN [w.notes[i] EXCEPT !.pending = TRUE]
        ELSE w.notes[i]]]

\* Mutant: the counter does not move on.
PrepareTransferKeepsCounter(w, inputs) == Lock(w, inputs)

\* prepareTransfer() up to the await of the recipient's blinding.
PrepareTransfer(w, inputs) == BlindingTaken(Lock(w, inputs))

\* prepareWithdraw(): a blinding is taken for a change note only.
PrepareWithdraw(w, inputs, total) ==
    IF Change(w, inputs, total) > 0
    THEN BlindingTaken(Lock(w, inputs)) ELSE Lock(w, inputs)

\* Mutant: the lock is cleared and the mark forgotten.
MarkSpentUnlocks(w, commitments) ==
    [w EXCEPT !.notes = [i \in DOMAIN w.notes |->
        IF Commitment(w.notes[i]) \in commitments
        THEN [w.notes[i] EXCEPT !.pending = FALSE]
        ELSE w.notes[i]]]

\* Mutant: spent notes keep their lock.
MarkSpentLocked(w, commitments) ==
    [w EXCEPT !.notes = [i \in DOMAIN w.notes |->
        IF Commitment(w.notes[i]) \in commitments
        THEN [w.notes[i] EXCEPT !.spent = TRUE]
        ELSE w.notes[i]]]

\* markSpent(): by commitment, so copies of a note are marked with it.
MarkSpent(w, commitments) ==
    [w EXCEPT !.notes = [i \in DOMAIN w.notes |->
        IF Commitment(w.notes[i]) \in commitments
        THEN [w.notes[i] EXCEPT !.spent = TRUE, !.pending = FALSE]
        ELSE w.notes[i]]]

-----------------------------------------------------------------------------
(* fetchIncomingNotes(): entries of a response carry their leaf index, the *)
(* commitment, the key that their ciphertext is for, "none" if empty, and  *)
(* the commitment of the note that the ciphertext describes.  Who made the *)
(* leaf made the ciphertext: nothing ties the two commitments together.    *)

\* Mutant: notes that the wallet has are decrypted again.
NeedsDecryptionAgain(entry, existing) == entry.to # "none"

NeedsDecryption(entry, existing) ==
    entry.commitment \notin existing /\ entry.to # "none"

\* The position of the first entry of the response that decryptNote() is called
\* for; one past the end if there is none.
FirstToDecrypt(body, existing) ==
    LET todo == {k \in DOMAIN body : NeedsDecryption(body[k], existing)}
    IN  IF todo = {} THEN Len(body) + 1
        ELSE CHOOSE k \in todo : \A j \in todo : k <= j

\* The watermark passes every entry the loop comes to.
Watermarked(w, body, k) ==
    LET leaf == IF k = 0 THEN -1 ELSE body[k].leafIndex
    IN  [w EXCEPT !.lastSyncedLeaf = IF leaf > @ THEN leaf ELSE @]

\* The note that an entry for this wallet decrypts to: value and blinding are the
\* plaintext's, and it is compared with neither the leaf nor the wallet's notes.
Discovered(w, entry) == OwnNote(w, entry.opens[2], entry.opens[3])

=============================================================================
