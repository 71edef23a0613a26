----------------------------- MODULE MCScanners -----------------------------
(***************************************************************************)
(* Instances of Scanners: one scanner, one call of each kind in flight.    *)
(***************************************************************************)
EXTENDS Scanners
=============================================================================
