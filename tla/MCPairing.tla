----------------------------- MODULE MCPairing ------------------------------
(***************************************************************************)
(* Pairing on a small instance for TLC: one device is paired at first, the *)
(* other may be paired beside it, or after it is revoked.                  *)
(***************************************************************************)
EXTENDS Pairing

CONSTANT d1

MCInit == Init /\ file = {d1}

MCSpec == MCInit /\ [][Next]_vars

=============================================================================
