----------------------------- MODULE MCSightings -----------------------------
(***************************************************************************)
(* Instances of Sightings: three scanners of two backends that move between *)
(* three addresses.                                                        *)
(***************************************************************************)
EXTENDS Sightings

CONSTANTS s1, b1, b2

MCBackendOf == [i \in Ids |-> IF i = s1 THEN b1 ELSE b2]
MCSites == [i \in Ids |-> Addresses]
=============================================================================
