------------------------------- MODULE MCPanel -------------------------------
(* Two keys and two addresses of this host; both sets are symmetric. *)
EXTENDS Panel, TLC

Symmetry == Permutations(Keys) \cup Permutations(Hosts)
=============================================================================
