--------------------------- MODULE MCMobileUploads --------------------------
(* A phone with two uploads, of two pages and of one, and one restart. *)
EXTENDS MobileUploads

CONSTANTS u1, u2
TwoAndOne == [u \in Uploads |-> IF u = u1 THEN 2 ELSE 1]
=============================================================================
