---------------------------- MODULE MCHolancPool ----------------------------
(***************************************************************************)
(* Pools small enough for TLC.  z is a note of zero (the change of an      *)
(* exact spend), c is worth two tokens and every other note one.  A note   *)
(* stands for its first nullifier; a2 is a second one of a.  The           *)
(* nullifiers of b and d share a bit of the registry.  A .cfg picks which  *)
(* of these notes and nullifiers exist.                                    *)
(***************************************************************************)
EXTENDS HolancPool, FiniteSetsExt, TLC

CONSTANTS z, a, b, c, d, a2

MCValueOf == [n \in Notes |-> CASE n = z -> 0 [] n = c -> 2 [] OTHER -> 1]
MCTotalValue ==
    [S \in SUBSET Notes |-> MapThenSumSet(LAMBDA n : MCValueOf[n], S)]

MCNoteOf == [nf \in Nullifiers |-> IF nf = a2 THEN a ELSE nf]
MCSlots == 0 .. 4
MCSlotOf ==
    [nf \in Nullifiers |->
        CASE nf = z -> 0 [] nf = a -> 1 [] nf = c -> 3 [] nf = a2 -> 4
          [] OTHER -> 2]

=============================================================================
