----------------------------- MODULE MCDiscovery -----------------------------
(***************************************************************************)
(* Instances of Discovery: two clients that share a session, two backends, *)
(* one of which finds a scanner, at one of two addresses.                  *)
(***************************************************************************)
EXTENDS Discovery

CONSTANTS b1, b2, a1, a2

MCBackendOf == [i \in Ids |-> b1]
MCSites == [i \in Ids |-> {a1, a2}]
=============================================================================
