----------------------------- MODULE NoteValues -----------------------------
(***************************************************************************)
(* What every ledger of shielded notes is parameterised by.  A note is     *)
(* (owner, value, asset_id, blinding) and its commitment is Poseidon of    *)
(* those four fields.  The hash is taken as injective, so a note and its   *)
(* commitment are one element of Notes.                                    *)
(***************************************************************************)
EXTENDS Integers

CONSTANTS
    Notes,      \* the notes that clients may ever create
    ValueOf,    \* ValueOf[n]: the token amount inside note n
    TotalValue  \* TotalValue[S]: the amount inside the notes of S together

(***************************************************************************)
(* TotalValue is the sum of ValueOf: the two equations fix it on every     *)
(* finite set, and a model evaluates them on its own notes.                *)
(***************************************************************************)
ASSUME NotesAssumption ==
    /\ ValueOf \in [Notes -> Nat]
    /\ TotalValue \in [SUBSET Notes -> Nat]
    /\ TotalValue[{}] = 0
    /\ \A S \in SUBSET Notes : \A n \in Notes \ S :
          TotalValue[S \cup {n}] = TotalValue[S] + ValueOf[n]

=============================================================================
