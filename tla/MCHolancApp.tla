---------------------------- MODULE MCHolancApp ----------------------------
(* HolancApp with small constants.                                         *)
EXTENDS HolancApp

CONSTANTS x, y

MCFirstNotes == <<2, 2>>
MCAmounts == [c \in {x, y} |-> IF c = x THEN {3} ELSE {2}]
MCKinds == [c \in {x, y} |->
    IF c = x THEN {"deposit", "transfer", "bridge"}
    ELSE Functions]

=============================================================================
