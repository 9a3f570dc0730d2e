--------------------------- MODULE MCRelayerFront ---------------------------
(***************************************************************************)
(* Two addresses: the second request comes from b, the others from a.      *)
(***************************************************************************)
EXTENDS RelayerFront

CONSTANTS a, b

MCClientOf == [r \in 1 .. MaxRequests |-> IF r = 2 THEN b ELSE a]

=============================================================================
