-------------------------- MODULE HolancNullifier --------------------------
(***************************************************************************)
(* The nullifier registry contract: one bit per slot of a page, where a    *)
(* nullifier's slot is its SHA-256 digest cut to SLOTS_PER_PAGE.  Several  *)
(* nullifiers share a slot.  Only the registrar (the pool) registers.      *)
(***************************************************************************)
EXTENDS Integers, Sequences

CONSTANTS
    Nullifiers,  \* the nullifiers that may be presented
    Slots,       \* 0 .. SLOTS_PER_PAGE - 1
    SlotOf,      \* SlotOf[nf]: the bit of nf inside its page
    Pages,       \* the page indices the registrar uses
    MaxEpoch     \* bound: epochs finalized in one behaviour

VARIABLES
    bitmap,           \* _pages[p].bitmap as the set of bits that are 1
    totalNullifiers,  \* totalNullifiers; equals the sum of the pages' count
    currentEpoch,     \* currentEpoch
    epochRecords,     \* epochRecords[e].nullifierCount of each finalized epoch
    registered        \* how often NullifierRegistered was emitted, by nullifier

registryVars ==
    <<bitmap, totalNullifiers, currentEpoch, epochRecords, registered>>

InitRegistry ==
    /\ bitmap = [p \in Pages |-> {}]
    /\ totalNullifiers = 0
    /\ currentEpoch = 0
    /\ epochRecords = <<>>
    /\ registered = [nf \in Nullifiers |-> 0]

TypeOKRegistry ==
    /\ bitmap \in [Pages -> SUBSET Slots]
    /\ totalNullifiers \in Nat
    /\ currentEpoch \in Nat
    /\ epochRecords \in Seq(Nat)
    /\ registered \in [Nullifiers -> Nat]

IsNullifierSpent(page, nf) == SlotOf[nf] \in bitmap[page]

\* Mutant: the second nullifier's bit is not set.
MarkFirstOnly(page, nf1, nf2) ==
    /\ bitmap' = [bitmap EXCEPT ![page] = @ \cup {SlotOf[nf1]}]
    /\ totalNullifiers' = totalNullifiers + 2
    /\ registered' = [nf \in Nullifiers |->
                         registered[nf] + (IF nf = nf1 THEN 1 ELSE 0)
                                        + (IF nf = nf2 THEN 1 ELSE 0)]
    /\ UNCHANGED <<currentEpoch, epochRecords>>

\* What two registrations leave behind once neither of them reverts.
Mark(page, nf1, nf2) ==
    /\ bitmap' = [bitmap EXCEPT ![page] = @ \cup {SlotOf[nf1], SlotOf[nf2]}]
    /\ totalNullifiers' = totalNullifiers + 2
    /\ registered' = [nf \in Nullifiers |->
                         registered[nf] + (IF nf = nf1 THEN 1 ELSE 0)
                                        + (IF nf = nf2 THEN 1 ELSE 0)]
    /\ UNCHANGED <<currentEpoch, epochRecords>>

\* Mutant: both bits are tested before either is set.
RegisterBothTestedFirst(page, nf1, nf2) ==
    /\ ~IsNullifierSpent(page, nf1)
    /\ ~IsNullifierSpent(page, nf2)
    /\ Mark(page, nf1, nf2)

\* registerNullifier(page, nf1) and then registerNullifier(page, nf2), in one
\* transaction: the second call sees the bit that the first one set.
RegisterBoth(page, nf1, nf2) ==
    /\ ~IsNullifierSpent(page, nf1)
    /\ SlotOf[nf2] \notin bitmap[page] \cup {SlotOf[nf1]}
    /\ Mark(page, nf1, nf2)

\* The owner closes the epoch: the record takes the running total.
FinalizeEpoch ==
    /\ currentEpoch < MaxEpoch
    /\ epochRecords' = Append(epochRecords, totalNullifiers)
    /\ currentEpoch' = currentEpoch + 1
    /\ UNCHANGED <<bitmap, totalNullifiers, registered>>

=============================================================================
