------------------------- MODULE MCHolancCompliance -------------------------
(* HolancCompliance with small constants.                                  *)
EXTENDS HolancCompliance, TLC

\* No inputs, or Merkle root, threshold and owner commitment.
MCPublicInputs == {<<>>, <<1, 2, 0>>, <<2, 1, 0>>}

Symmetric == Permutations(Provers) \cup Permutations(Oracles)

=============================================================================
