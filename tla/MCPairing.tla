----------------------------- MODULE MCPairing -----------------------------
(***************************************************************************)
(* Instances of Pairing: two driver slots, so that a second Pair() can run *)
(* into the tail of the first one, and one Unpair() call.                  *)
(***************************************************************************)
EXTENDS Pairing
============================================================================
