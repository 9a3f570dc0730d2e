--------------------------- MODULE MCHolancClient ---------------------------
(* HolancClient with small constants.                                      *)
EXTENDS HolancClient

CONSTANTS x, y

MCWeight == [e \in {1, 2} |-> e]
MCFirstLeaves ==
    <<[value |-> 2, to |-> "k"], [value |-> 2, to |-> "k"],
      [value |-> 3, to |-> "k"]>>
MCKinds == [c \in {x, y} |->
    IF c = x THEN {"deposit", "transfer", "sync"}
    ELSE {"withdraw", "read", "sync"}]

=============================================================================
