------------------------- MODULE NoteScannerProofs -------------------------
(***************************************************************************)
(* For every limit, every history and any number of crashes and failures:  *)
(* the store and its checkpoint agree, and the checkpoint only advances.   *)
(***************************************************************************)
EXTENDS NoteScanner, SequenceTheorems, TLAPS

\* Transaction i has been dealt with by the poll in progress.
Collected(i) ==
    \/ i \in unlucky
    \/ \A n \in ExtractNotes(i) : HasCommitment(pendingNotes, n.commitment)

\* A poll starts from the store's checkpoint and holds, up to the signature it
\* stands at, what the store is missing.
PollInv ==
    /\ phase # "down" => lastSignature = checkpoint
    /\ phase = "scanning" =>
         /\ checkpoint < next
         /\ next <= end + 1
         /\ newLastSignature = 0 \/ newLastSignature \in checkpoint + 1 .. next - 1
         /\ \A n \in pendingNotes : n.txSignature <= newLastSignature
         /\ \A i \in checkpoint + 1 .. next - 1 : Succeeded(i) => Collected(i)

ScanInv == TypeOK /\ CheckpointExact /\ PollInv

\* A note knows the transaction it was extracted from.
LEMMA ExtractedFrom ==
    ASSUME NEW i, NEW n \in ExtractNotes(i)
    PROVE  n.txSignature = i
BY DEF ExtractNotes, ExtractNote

\* INSERT OR IGNORE keeps every commitment of the table and of the new notes.
LEMMA InsertedHasAll ==
    ASSUME NEW table, NEW new, NEW c,
           HasCommitment(table, c) \/ HasCommitment(new, c)
    PROVE  HasCommitment(Inserted(table, new), c)
BY DEF HasCommitment, Inserted

LEMMA InsertedFrom ==
    ASSUME NEW table, NEW new, NEW n \in Inserted(table, new)
    PROVE  n \in table \/ n \in new
BY DEF Inserted

LEMMA InitScan == Init => ScanInv
BY ScannerAssumption
   DEF Init, ScanInv, TypeOK, CheckpointExact, PollInv, Signatures

\* The chain only grows.
LEMMA SubmitKeeps ==
    ASSUME ScanInv, NEW kind \in Kinds, Submit(kind)
    PROVE  ScanInv'
<1> USE DEF ScanInv
<1> DEFINE tx == [kind |-> kind, leaf |-> NextLeaf]
<1>1. NextLeaf \in Nat
  <2>1. CASE history = <<>>
    BY <2>1 DEF NextLeaf
  <2>2. CASE history # <<>>
    <3> DEFINE last == history[Len(history)]
    <3>1. last.kind \in Kinds /\ last.leaf \in Nat
      <4>1. history \in Seq([kind : Kinds, leaf : Nat])
        BY DEF TypeOK
      <4>2. Len(history) \in 1 .. Len(history)
        BY <2>2, <4>1, EmptySeq
      <4>3. last \in [kind : Kinds, leaf : Nat]
        BY <4>1, <4>2, ElementOfSeq
      <4> QED BY <4>3
    <3> HIDE DEF last
    <3>2. NextLeaf = last.leaf + (CASE last.kind = "failed" -> 0
                                   [] last.kind = "deposit" -> 1
                                   [] last.kind = "spend" -> 2)
      BY <2>2 DEF NextLeaf, last
    <3> QED
      BY <3>1, <3>2 DEF Kinds
  <2> QED BY <2>1, <2>2
<1>2. /\ history \in Seq([kind : Kinds, leaf : Nat])
      /\ tx \in [kind : Kinds, leaf : Nat]
      /\ history' = Append(history, tx)
  BY <1>1 DEF TypeOK, Submit
<1>3. /\ history' \in Seq([kind : Kinds, leaf : Nat])
      /\ Len(history') = Len(history) + 1
      /\ \A i \in 1 .. Len(history) : history'[i] = history[i]
  <2> HIDE DEF tx
  <2> QED BY <1>2
<1>4. \A i \in 1 .. Len(history) : /\ ExtractNotes(i)' = ExtractNotes(i)
                                   /\ Succeeded(i)' = Succeeded(i)
  BY <1>3 DEF ExtractNotes, Succeeded
<1>5. TypeOK'
  BY <1>3 DEF TypeOK, Submit, storeVars, pollVars, Signatures
<1>6. /\ UNCHANGED <<notes, checkpoint, phase, lastSignature, next, end,
                     pendingNotes, newLastSignature, unlucky>>
      /\ checkpoint \in 0 .. Len(history)
      /\ next \in 0 .. Len(history) + 1
      /\ end \in 0 .. Len(history)
  BY DEF Submit, storeVars, pollVars, TypeOK
<1>7. CheckpointExact'
  BY <1>4, <1>6 DEF CheckpointExact, Stored
<1>8. PollInv'
  <2>1. phase = "scanning" =>
          \A i \in checkpoint + 1 .. next - 1 : Succeeded(i)' => Collected(i)'
    BY <1>4, <1>6 DEF PollInv, Collected
  <2> QED
    BY <1>6, <2>1 DEF PollInv
<1> QED
  BY <1>5, <1>7, <1>8

LEMMA StartKeeps == ScanInv /\ (Start \/ Crash) => ScanInv'
<1> SUFFICES ASSUME ScanInv, Start \/ Crash PROVE ScanInv'
  OBVIOUS
<1> USE ScannerAssumption DEF ScanInv
<1>1. UNCHANGED <<history, notes, checkpoint, unlucky>>
  BY DEF Start, Crash, storeVars
<1>2. /\ pendingNotes' \subseteq pendingNotes
      /\ lastSignature' \in {0, checkpoint}
      /\ newLastSignature' \in {0, newLastSignature}
      /\ phase' \in {"down", "idle"}
      /\ next' \in {0, next} /\ end' \in {0, end}
      /\ failures' = failures /\ crashes' \in 0 .. MaxCrashes
  <2>1. CASE Start
    BY <2>1 DEF Start, pollVars, TypeOK
  <2>2. CASE Crash
    BY <2>2 DEF Crash, TypeOK
  <2> QED
    BY <2>1, <2>2
<1>3. TypeOK'
  <2>1. \A n \in (notes \cup pendingNotes)' : n.txSignature \in Signatures'
    BY <1>1, <1>2 DEF TypeOK, Signatures
  <2>2. /\ Len(history) \in Nat /\ Len(history)' = Len(history)
        /\ checkpoint \in 0 .. Len(history)
        /\ newLastSignature \in 0 .. Len(history)
        /\ next \in 0 .. Len(history) + 1
        /\ end \in 0 .. Len(history)
    BY <1>1 DEF TypeOK
  <2>3. /\ checkpoint' \in 0 .. Len(history)'
        /\ lastSignature' \in 0 .. Len(history)'
        /\ newLastSignature' \in 0 .. Len(history)'
    BY <1>1, <1>2, <2>2
  <2>4. /\ next' \in 0 .. Len(history)' + 1
        /\ end' \in 0 .. Len(history)'
    BY <1>2, <2>2
  <2>5. /\ history' \in Seq([kind : Kinds, leaf : Nat])
        /\ phase' \in {"down", "idle", "scanning"}
        /\ unlucky' \subseteq Signatures'
        /\ failures' \in 0 .. MaxFailures
        /\ crashes' \in 0 .. MaxCrashes
    BY <1>1, <1>2 DEF TypeOK, Signatures
  <2> QED
    BY <2>1, <2>3, <2>4, <2>5 DEF TypeOK
<1>4. CheckpointExact'
  BY <1>1 DEF CheckpointExact, Stored, ExtractNotes, Succeeded
<1>5. PollInv'
  BY <1>1 DEF PollInv, Start, Crash
<1> QED
  BY <1>3, <1>4, <1>5

LEMMA ListKeeps == ScanInv /\ List => ScanInv'
<1> SUFFICES ASSUME ScanInv, List PROVE ScanInv'
  OBVIOUS
<1> USE ScannerAssumption DEF ScanInv
<1> DEFINE oldest == Len(history) - MaxSignatures + 1
<1>1. /\ UNCHANGED <<history, notes, checkpoint, lastSignature>>
      /\ lastSignature = checkpoint
      /\ checkpoint \in Nat /\ Len(history) \in Nat /\ checkpoint < Len(history)
  BY DEF List, storeVars, PollInv, TypeOK
<1>2. /\ next' = IF oldest > checkpoint THEN oldest ELSE checkpoint + 1
      /\ end' = Len(history)
      /\ unlucky' = unlucky \cup (checkpoint + 1 .. oldest - 1)
      /\ oldest \in Int /\ oldest <= Len(history)
      /\ unlucky \subseteq Signatures
      /\ phase' = "scanning" /\ pendingNotes' = {} /\ newLastSignature' = 0
      /\ UNCHANGED <<failures, crashes>>
  BY <1>1 DEF List, TypeOK
<1> HIDE DEF oldest
<1>3. /\ next' \in checkpoint + 1 .. Len(history)
      /\ \A i \in checkpoint + 1 .. next' - 1 : i \in unlucky'
      /\ unlucky \subseteq unlucky'
      /\ unlucky' \subseteq Signatures
  BY <1>1, <1>2 DEF Signatures
<1>4. TypeOK'
  BY <1>1, <1>2, <1>3 DEF TypeOK, Signatures
<1>5. CheckpointExact'
  BY <1>1, <1>3 DEF CheckpointExact, Stored, ExtractNotes, Succeeded
<1>6. PollInv'
  BY <1>1, <1>2, <1>3 DEF PollInv, Collected
<1> QED
  BY <1>4, <1>5, <1>6

\* One transaction of the listing: skipped, fetched or failed to fetch.
LEMMA FetchKeeps == ScanInv /\ (SkipFailed \/ Fetch \/ FetchFails) => ScanInv'
<1> SUFFICES ASSUME ScanInv, SkipFailed \/ Fetch \/ FetchFails PROVE ScanInv'
  OBVIOUS
<1> USE ScannerAssumption DEF ScanInv
<1>1. /\ UNCHANGED <<history, notes, checkpoint, lastSignature, phase, end>>
      /\ phase = "scanning"
      /\ next \in Signatures /\ next <= end /\ next' = next + 1
      /\ checkpoint < next /\ checkpoint \in Nat
  <2>1. /\ UNCHANGED <<history, notes, checkpoint, lastSignature, phase, end>>
        /\ phase = "scanning" /\ next <= end /\ next' = next + 1
    <3>1. CASE SkipFailed
      BY <3>1 DEF SkipFailed, storeVars
    <3>2. CASE Fetch
      BY <3>2 DEF Fetch, storeVars
    <3>3. CASE FetchFails
      BY <3>3 DEF FetchFails, storeVars
    <3> QED
      BY <3>1, <3>2, <3>3
  <2>2. checkpoint \in Nat /\ next \in Nat /\ checkpoint < next
    BY <2>1 DEF TypeOK, PollInv
  <2>3. next \in Signatures
    BY <2>1, <2>2 DEF TypeOK, Signatures
  <2> QED
    BY <2>1, <2>2, <2>3
<1>2. \A i : /\ ExtractNotes(i)' = ExtractNotes(i)
             /\ Succeeded(i)' = Succeeded(i)
  BY <1>1 DEF ExtractNotes, Succeeded
<1>3. /\ pendingNotes' \in {pendingNotes, pendingNotes \cup ExtractNotes(next)}
      /\ unlucky \subseteq unlucky'
      /\ unlucky' \subseteq unlucky \cup {next}
      /\ newLastSignature' \in {newLastSignature, next}
      /\ pendingNotes' # pendingNotes => newLastSignature' = next
      /\ failures' \in 0 .. MaxFailures /\ crashes' = crashes
  BY DEF SkipFailed, Fetch, FetchFails, TypeOK
<1>4. \A i : i = next /\ Succeeded(i) => Collected(i)'
  <2> SUFFICES ASSUME NEW i, i = next, Succeeded(i) PROVE Collected(i)'
    OBVIOUS
  <2>1. CASE SkipFailed
    BY <2>1 DEF SkipFailed
  <2>2. CASE Fetch
    BY <2>2, <1>2 DEF Fetch, Collected, HasCommitment
  <2>3. CASE FetchFails
    BY <2>3 DEF FetchFails, Collected
  <2> QED
    BY <2>1, <2>2, <2>3
<1>5. \A n \in pendingNotes' :
        \/ n \in pendingNotes
        \/ n.txSignature = next /\ newLastSignature' = next
  BY <1>3, ExtractedFrom
<1>6. TypeOK'
  BY <1>1, <1>3, <1>5 DEF TypeOK, Signatures
<1>7. CheckpointExact'
  BY <1>1, <1>2, <1>3 DEF CheckpointExact, Stored
<1>8. \A i \in checkpoint + 1 .. next' - 1 : Succeeded(i)' => Collected(i)'
  <2> SUFFICES ASSUME NEW i \in checkpoint + 1 .. next' - 1, Succeeded(i)'
               PROVE  Collected(i)'
    OBVIOUS
  <2>1. CASE i = next
    BY <2>1, <1>2, <1>4
  <2>2. CASE i \in checkpoint + 1 .. next - 1
    BY <2>2, <1>1, <1>2, <1>3 DEF PollInv, Collected, HasCommitment
  <2> QED
    BY <1>1, <2>1, <2>2 DEF Signatures
<1>9. \A n \in pendingNotes' : n.txSignature <= newLastSignature'
  BY <1>1, <1>3, <1>5 DEF PollInv, TypeOK, Signatures
<1>10. PollInv'
  BY <1>1, <1>3, <1>8, <1>9 DEF PollInv, TypeOK, Signatures
<1> QED
  BY <1>6, <1>7, <1>10

LEMMA CommitKeeps ==
    ScanInv /\ (Commit \/ NothingToCommit \/ CommitFails) => ScanInv'
<1> SUFFICES ASSUME ScanInv, Commit \/ NothingToCommit \/ CommitFails PROVE ScanInv'
  OBVIOUS
<1> USE DEF ScanInv
<1>1. /\ UNCHANGED <<history, next, end, pendingNotes, newLastSignature, unlucky,
                     crashes>>
      /\ phase = "scanning" /\ phase' = "idle"
      /\ failures' \in 0 .. MaxFailures
      /\ checkpoint \in Nat
  <2>1. CASE Commit
    BY <2>1 DEF Commit, pollVars, TypeOK
  <2>2. CASE NothingToCommit
    BY <2>2 DEF NothingToCommit, storeVars, pollVars, TypeOK
  <2>3. CASE CommitFails
    BY <2>3, ScannerAssumption DEF CommitFails, storeVars, pollVars, TypeOK
  <2> QED
    BY <2>1, <2>2, <2>3
<1>2. \A i : /\ ExtractNotes(i)' = ExtractNotes(i)
             /\ Succeeded(i)' = Succeeded(i)
  BY <1>1 DEF ExtractNotes, Succeeded
<1>3. CASE Commit
  <2>1. /\ newLastSignature \in checkpoint + 1 .. next - 1
        /\ newLastSignature \in 0 .. Len(history)
        /\ checkpoint' = newLastSignature /\ lastSignature' = newLastSignature
        /\ notes' = Inserted(notes, pendingNotes)
    BY <1>3 DEF Commit, PollInv, TypeOK
  <2>2. TypeOK'
    BY <1>1, <2>1, InsertedFrom DEF TypeOK, Signatures
  <2>3. \A n \in notes' : n.txSignature <= checkpoint'
    <3> SUFFICES ASSUME NEW n \in notes' PROVE n.txSignature <= checkpoint'
      OBVIOUS
    <3>1. n \in notes \/ n \in pendingNotes
      BY <2>1, InsertedFrom
    <3>2. n.txSignature \in Signatures
      BY <3>1 DEF TypeOK
    <3> QED
      BY <1>1, <2>1, <3>1, <3>2 DEF CheckpointExact, PollInv, Signatures
  <2>4. \A i \in 1 .. checkpoint' : Succeeded(i)' => Stored(i)' \/ i \in unlucky'
    <3> SUFFICES ASSUME NEW i \in 1 .. newLastSignature, Succeeded(i), i \notin unlucky
                 PROVE  Stored(i)'
      BY <1>1, <1>2, <2>1
    <3>1. Stored(i) \/ \A n \in ExtractNotes(i) : HasCommitment(pendingNotes, n.commitment)
      <4>1. CASE i <= checkpoint
        BY <1>1, <4>1 DEF CheckpointExact
      <4>2. CASE i > checkpoint
        BY <1>1, <2>1, <4>2 DEF PollInv, Collected, TypeOK
      <4> QED
        BY <1>1, <2>1, <4>1, <4>2
    <3> QED
      BY <1>2, <2>1, <3>1, InsertedHasAll DEF Stored
  <2>5. CheckpointExact'
    BY <2>3, <2>4 DEF CheckpointExact
  <2>6. PollInv'
    BY <1>1, <2>1 DEF PollInv
  <2> QED
    BY <2>2, <2>5, <2>6
<1>4. CASE NothingToCommit \/ CommitFails
  <2>1. UNCHANGED <<notes, checkpoint, lastSignature>>
    BY <1>4 DEF NothingToCommit, CommitFails, storeVars
  <2>2. TypeOK'
    BY <1>1, <2>1 DEF TypeOK, Signatures
  <2>3. CheckpointExact' /\ PollInv'
    BY <1>1, <1>2, <2>1 DEF CheckpointExact, Stored, PollInv
  <2> QED
    BY <2>2, <2>3
<1> QED
  BY <1>3, <1>4

LEMMA StutterKeepsScan == ScanInv /\ UNCHANGED vars => ScanInv'
BY DEF ScanInv, TypeOK, CheckpointExact, PollInv, Collected, Stored, ExtractNotes,
       Succeeded, HasCommitment, Signatures, vars, storeVars, pollVars

LEMMA ScanInvHolds == Spec => []ScanInv
<1>1. ScanInv /\ [Next]_vars => ScanInv'
  BY SubmitKeeps, StartKeeps, ListKeeps, FetchKeeps, CommitKeeps, StutterKeepsScan
     DEF Next, Scan
<1> QED
  BY InitScan, <1>1, PTL DEF Spec

-----------------------------------------------------------------------------
\* Types: whatever the scanner holds names transactions that exist.
THEOREM ScannerTypes == Spec => []TypeOK
<1>1. ScanInv => TypeOK
  BY DEF ScanInv
<1> QED
  BY ScanInvHolds, <1>1, PTL

\* The atomic commit does what it is for: no crash makes the store and its
\* checkpoint disagree.
THEOREM ScannerCheckpointExact == Spec => []CheckpointExact
<1>1. ScanInv => CheckpointExact
  BY DEF ScanInv
<1> QED
  BY ScanInvHolds, <1>1, PTL

\* The checkpoint only advances, because a poll that has anything to commit
\* stands beyond it.
THEOREM ScannerCheckpointAdvances == Spec => CheckpointAdvances
<1>1. ScanInv /\ [Next]_vars => checkpoint' >= checkpoint
  <2> SUFFICES ASSUME ScanInv, [Next]_vars PROVE checkpoint' >= checkpoint
    OBVIOUS
  <2>1. checkpoint \in Nat
    BY DEF ScanInv, TypeOK
  <2>2. CASE Commit
    BY <2>1, <2>2 DEF Commit, ScanInv, PollInv
  <2>3. Commit \/ UNCHANGED checkpoint
    BY DEF Next, Scan, vars, storeVars, Submit, Start, List, SkipFailed, Fetch,
           NothingToCommit, FetchFails, CommitFails, Crash
  <2> QED
    BY <2>1, <2>2, <2>3
<1> QED
  BY ScanInvHolds, <1>1, PTL DEF Spec, CheckpointAdvances

=============================================================================
