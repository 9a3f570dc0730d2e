--------------------------- MODULE MCHolancBridge ---------------------------
(* HolancBridge with small constants: a and b are EVM chains, c is not; two *)
(* roots lie over the same leaf.                                            *)
EXTENDS HolancBridge, TLC

CONSTANTS a, b, c, leaf, root1, root2, note, wallet1, wallet2

MCUnder == (leaf :> {leaf}) @@ (root1 :> {root1, leaf}) @@ (root2 :> {root2, leaf})

Symmetric == Permutations({root1, root2}) \cup Permutations({wallet1, wallet2})

=============================================================================
