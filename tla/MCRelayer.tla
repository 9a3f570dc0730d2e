----------------------------- MODULE MCRelayer -----------------------------
(***************************************************************************)
(* A relayer with three batched requests and an EVM one: r1 and r2 carry   *)
(* the same transaction, r3 one that cannot be parsed.                     *)
(***************************************************************************)
EXTENDS Relayer, TLC

CONSTANTS r1, r2, r3, e1, t, m, u

MCTxOf ==
    [r \in Requests |-> CASE r = r3 -> m [] r = e1 -> u [] OTHER -> t]

=============================================================================
