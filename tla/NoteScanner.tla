---------------------------- MODULE NoteScanner ----------------------------
(***************************************************************************)
(* The indexer's scanner of the Solana pool and the SQLite store it        *)
(* writes.  A poll lists the signatures after the checkpoint, fetches the  *)
(* transactions one by one and commits their notes with the new            *)
(* checkpoint.  Between any two of these steps the chain grows, a fetch    *)
(* fails or the process dies; only the store survives a restart.           *)
(***************************************************************************)
EXTENDS Integers, Sequences

CONSTANTS
    MaxSignatures,    \* the limit of getSignaturesForAddress (100)
    MaxTransactions,  \* bound: transactions of the pool program
    MaxFailures,      \* bound: calls of the node or of SQLite that fail
    MaxCrashes        \* bound: restarts of the process

ASSUME ScannerAssumption ==
    /\ MaxSignatures \in Nat \ {0}
    /\ MaxTransactions \in Nat
    /\ MaxFailures \in Nat
    /\ MaxCrashes \in Nat

VARIABLES
    history,        \* the program's transactions; a signature is an index
    notes,          \* table notes
    checkpoint,     \* metadata.last_signature; 0 when there is none
    phase,          \* "down", "idle" between polls, "scanning" in one
    lastSignature,  \* this.lastSignature
    next, end,      \* ordered: the signatures from next to end are to do
    pendingNotes,   \* pendingNotes
    newLastSignature,  \* newLastSignature; 0 when undefined
    unlucky,        \* signatures that a fetch failed for or a listing cut off
    failures, crashes

pollVars == <<next, end, pendingNotes, newLastSignature>>
storeVars == <<notes, checkpoint>>
vars == <<history, storeVars, phase, lastSignature, pollVars, unlucky, failures,
          crashes>>

-----------------------------------------------------------------------------
(* Transactions, and the events in their logs.  A failed one has no events *)
(* of interest; a deposit emits one, a transfer or a withdrawal two.       *)

Kinds == {"failed", "deposit", "spend"}
LeavesOf(tx) == CASE tx.kind = "failed" -> {}
                  [] tx.kind = "deposit" -> {tx.leaf}
                  [] tx.kind = "spend" -> {tx.leaf, tx.leaf + 1}

Words(tag, leaf, n) == [k \in 1 .. n |-> <<tag, leaf, k>>]

\* What the pool emits, in words of four bytes, as Anchor serializes it: the
\* leaf index is a u64, the note here takes one word.
EventData(kind, leaf) ==
    Words("discriminator", 0, 2) \o Words("pool", 0, 8) \o Words("leaf", leaf, 2)
        \o Words("commitment", leaf, 8)
        \o (IF kind = "deposit" THEN Words("amount", leaf, 2) ELSE <<>>)
        \o Words("length", leaf, 1) \o Words("note", leaf, 1)

\* The note that the words at `start` hold.  A word that is no length is the end
\* of a commitment, and as a length out of 1 .. 256 but for a chance of 2^-24,
\* or the upper half of an amount, and 0.
EncryptedNote(data, start) ==
    IF data[start][1] = "length" THEN SubSeq(data, start + 1, start + 1) ELSE <<>>

\* extractNotes() for one event: it takes the leaf index for a u32.
ExtractNote(kind, leaf, signature) ==
    LET data == EventData(kind, leaf)
    IN  [leafIndex |-> data[11][2],
         commitment |-> SubSeq(data, 12, 19),
         encryptedNote |-> EncryptedNote(data, IF kind = "deposit" THEN 22 ELSE 20),
         txSignature |-> signature]

ExtractNotes(i) ==
    {ExtractNote(history[i].kind, leaf, i) : leaf \in LeavesOf(history[i])}

Succeeded(i) == history[i].kind # "failed"

Init ==
    /\ history = <<>>
    /\ notes = {}
    /\ checkpoint = 0
    /\ phase = "down"
    /\ lastSignature = 0
    /\ next = 0
    /\ end = 0
    /\ pendingNotes = {}
    /\ newLastSignature = 0
    /\ unlucky = {}
    /\ failures = 0
    /\ crashes = 0

-----------------------------------------------------------------------------
(* The chain.                                                              *)

NextLeaf == IF history = <<>> THEN 0
            ELSE LET tx == history[Len(history)]
                 IN  tx.leaf + (CASE tx.kind = "failed" -> 0
                                  [] tx.kind = "deposit" -> 1
                                  [] tx.kind = "spend" -> 2)

Submit(kind) ==
    /\ Len(history) < MaxTransactions
    /\ history' = Append(history, [kind |-> kind, leaf |-> NextLeaf])
    /\ UNCHANGED <<storeVars, phase, lastSignature, pollVars, unlucky, failures,
                   crashes>>

-----------------------------------------------------------------------------
(* The scanner.                                                            *)

\* start(): resume from the last known signature.
Start ==
    /\ phase = "down"
    /\ phase' = "idle"
    /\ lastSignature' = checkpoint
    /\ UNCHANGED <<history, storeVars, pollVars, unlucky, failures, crashes>>

\* poll() lists the newest signatures after the last one, up to the limit.
List ==
    LET oldest == Len(history) - MaxSignatures + 1
    IN  /\ phase = "idle"
        /\ lastSignature < Len(history)
        /\ phase' = "scanning"
        /\ next' = IF oldest > lastSignature THEN oldest ELSE lastSignature + 1
        /\ end' = Len(history)
        /\ pendingNotes' = {}
        /\ newLastSignature' = 0
        /\ unlucky' = unlucky \cup (lastSignature + 1 .. oldest - 1)
        /\ UNCHANGED <<history, storeVars, lastSignature, failures, crashes>>

\* Mutant: a failed transaction ends the loop.
SkipFailedBreaks ==
    /\ phase = "scanning"
    /\ next <= end
    /\ ~Succeeded(next)
    /\ next' = end + 1
    /\ UNCHANGED <<history, storeVars, phase, lastSignature, end, pendingNotes,
                   newLastSignature, unlucky, failures, crashes>>

SkipFailed ==
    /\ phase = "scanning"
    /\ next <= end
    /\ ~Succeeded(next)
    /\ next' = next + 1
    /\ UNCHANGED <<history, storeVars, phase, lastSignature, end, pendingNotes,
                   newLastSignature, unlucky, failures, crashes>>

\* Mutant: the checkpoint is saved as soon as a transaction is fetched.
FetchSavesCheckpoint ==
    /\ phase = "scanning"
    /\ next <= end
    /\ Succeeded(next)
    /\ pendingNotes' = pendingNotes \cup ExtractNotes(next)
    /\ newLastSignature' = next
    /\ next' = next + 1
    /\ checkpoint' = next
    /\ UNCHANGED <<history, notes, phase, lastSignature, end, unlucky, failures,
                   crashes>>

Fetch ==
    /\ phase = "scanning"
    /\ next <= end
    /\ Succeeded(next)
    /\ pendingNotes' = pendingNotes \cup ExtractNotes(next)
    /\ newLastSignature' = next
    /\ next' = next + 1
    /\ UNCHANGED <<history, storeVars, phase, lastSignature, end, unlucky,
                   failures, crashes>>

\* getParsedTransaction throws, or the node does not have the transaction: the
\* loop goes on and the checkpoint will pass it.
FetchFails ==
    /\ phase = "scanning"
    /\ next <= end
    /\ Succeeded(next)
    /\ failures < MaxFailures
    /\ failures' = failures + 1
    /\ unlucky' = unlucky \cup {next}
    /\ newLastSignature' = next
    /\ next' = next + 1
    /\ UNCHANGED <<history, storeVars, phase, lastSignature, end, pendingNotes,
                   crashes>>

HasCommitment(table, commitment) == \E n \in table : n.commitment = commitment

\* INSERT OR IGNORE: column commitment is UNIQUE.
Inserted(table, new) ==
    table \cup {n \in new : ~HasCommitment(table, n.commitment)}

\* Mutant: the checkpoint is the newest signature at the time of the commit.
CommitEnd ==
    /\ phase = "scanning"
    /\ next > end
    /\ newLastSignature # 0
    /\ notes' = Inserted(notes, pendingNotes)
    /\ checkpoint' = Len(history)
    /\ lastSignature' = Len(history)
    /\ phase' = "idle"
    /\ UNCHANGED <<history, pollVars, unlucky, failures, crashes>>

\* insertNotesAtomic(), and the poll is over.
Commit ==
    /\ phase = "scanning"
    /\ next > end
    /\ newLastSignature # 0
    /\ notes' = Inserted(notes, pendingNotes)
    /\ checkpoint' = newLastSignature
    /\ lastSignature' = newLastSignature
    /\ phase' = "idle"
    /\ UNCHANGED <<history, pollVars, unlucky, failures, crashes>>

\* Only failed transactions were listed: the checkpoint stays.
NothingToCommit ==
    /\ phase = "scanning"
    /\ next > end
    /\ newLastSignature = 0
    /\ phase' = "idle"
    /\ UNCHANGED <<history, storeVars, lastSignature, pollVars, unlucky, failures,
                   crashes>>

\* SQLite throws: start() logs the error and polls again.
CommitFails ==
    /\ phase = "scanning"
    /\ next > end
    /\ newLastSignature # 0
    /\ failures < MaxFailures
    /\ failures' = failures + 1
    /\ phase' = "idle"
    /\ UNCHANGED <<history, storeVars, lastSignature, pollVars, unlucky, crashes>>

\* The process dies; what poll() held in memory is gone.
Crash ==
    /\ phase # "down"
    /\ crashes < MaxCrashes
    /\ crashes' = crashes + 1
    /\ phase' = "down"
    /\ lastSignature' = 0
    /\ next' = 0
    /\ end' = 0
    /\ pendingNotes' = {}
    /\ newLastSignature' = 0
    /\ UNCHANGED <<history, storeVars, unlucky, failures>>

Scan ==
    \/ Start
    \/ List
    \/ SkipFailed
    \/ Fetch
    \/ Commit
    \/ NothingToCommit

Next ==
    \/ \E kind \in Kinds : Submit(kind)
    \/ Scan
    \/ FetchFails
    \/ CommitFails
    \/ Crash

Spec == Init /\ [][Next]_vars

\* start() polls until it is stopped, and the process is started again.
FairSpec == Spec /\ WF_vars(Scan)

-----------------------------------------------------------------------------
Signatures == 1 .. Len(history)

\* Types.
TypeOK ==
    /\ history \in Seq([kind : Kinds, leaf : Nat])
    /\ \A n \in notes \cup pendingNotes : n.txSignature \in Signatures
    /\ {checkpoint, lastSignature, newLastSignature} \subseteq 0 .. Len(history)
    /\ phase \in {"down", "idle", "scanning"}
    /\ next \in 0 .. Len(history) + 1
    /\ end \in 0 .. Len(history)
    /\ unlucky \subseteq Signatures
    /\ failures \in 0 .. MaxFailures
    /\ crashes \in 0 .. MaxCrashes

\* insertNotesAtomic()'s "neither the notes nor the checkpoint are committed": no
\* crash, at whatever step of a poll, leaves the store with notes beyond its
\* checkpoint or with a hole below it.  Only a transaction whose fetch failed,
\* or that a full listing cut off, may be missing.
Stored(i) == \A n \in ExtractNotes(i) : HasCommitment(notes, n.commitment)
CheckpointExact ==
    /\ \A n \in notes : n.txSignature <= checkpoint
    /\ \A i \in 1 .. checkpoint : Succeeded(i) => Stored(i) \/ i \in unlucky

\* The checkpoint never moves back: no restart and no order of answers makes
\* the scanner forget what it has stored.
CheckpointAdvances == [][checkpoint' >= checkpoint]_vars

\* Every successful transaction is indexed in the end, whatever crashes and
\* failed transactions come between, if no call was unlucky with it.
Indexed ==
    \A i \in 1 .. MaxTransactions :
        i \in Signatures /\ Succeeded(i) ~>
            i \in Signatures /\ (Stored(i) \/ i \in unlucky)

\* docs/architecture.md: the indexer "persists encrypted note data to SQLite".  A
\* stored note has the ciphertext that the pool emitted.
NotesHaveCiphertext ==
    \A n \in notes : n.encryptedNote = Words("note", n.leafIndex, 1)

=============================================================================
