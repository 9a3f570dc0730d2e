--------------------------- MODULE ShieldedLedger ---------------------------
(***************************************************************************)
(* What a Holanc pool keeps to, without roots, proofs, bitmaps or leaves:  *)
(* a set of live notes that a vault pays for.  A note enters with its own  *)
(* value, two notes are consumed together for the notes and the payments   *)
(* they are worth, and a consumed note never lives again.  What a deposit  *)
(* falls short of its note, and what is consumed without being live, goes  *)
(* on the books as unbacked.                                               *)
(***************************************************************************)
EXTENDS NoteValues

VARIABLES
    live,     \* the notes that were created and not consumed
    spent,    \* the notes that have been consumed
    vault,    \* the tokens that the ledger holds
    unbacked  \* what was claimed beyond payments and live notes

vars == <<live, spent, vault, unbacked>>

Init ==
    /\ live = {}
    /\ spent = {}
    /\ vault = 0
    /\ unbacked = 0

\* A depositor pays any amount for the note n; what it falls short of the
\* note's value, or exceeds it by, goes on the books.  A commitment that was
\* consumed before stays dead.
Mint(n) ==
    /\ live' = live \cup ({n} \ spent)
    /\ vault' \in Int /\ vault' >= vault
    /\ unbacked' = unbacked + ValueOf[n] - (vault' - vault)
    /\ UNCHANGED spent

\* What two notes are worth beyond the two that replace them.
Paid(in1, in2, out1, out2) ==
    ValueOf[in1] + ValueOf[in2] - ValueOf[out1] - ValueOf[out2]

\* Two notes become two notes and a payment out of the vault.  Live notes are
\* worth their value once; the rest of the claim is unbacked.
Spend(in1, in2, out1, out2) ==
    /\ Paid(in1, in2, out1, out2) >= 0
    /\ spent' = spent \cup {in1, in2}
    /\ live' = (live \cup {out1, out2}) \ spent'
    /\ vault' = vault - Paid(in1, in2, out1, out2)
    /\ unbacked' = unbacked + ValueOf[in1] + ValueOf[in2]
                            - TotalValue[live \cap {in1, in2}]

Next ==
    \/ \E n \in Notes : Mint(n)
    \/ \E in1, in2, out1, out2 \in Notes : Spend(in1, in2, out1, out2)

Spec == Init /\ [][Next]_vars

-----------------------------------------------------------------------------
TypeOK ==
    /\ live \in SUBSET Notes
    /\ spent \in SUBSET Notes
    /\ vault \in Int
    /\ unbacked \in Int

\* The vault pays every live note at once, but for what was claimed unbacked,
\* and no consumed note is live.
Backed ==
    /\ TotalValue[live] <= vault + unbacked
    /\ live \cap spent = {}

=============================================================================
