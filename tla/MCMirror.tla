------------------------------ MODULE MCMirror ------------------------------
(* The client up to three signals behind, or four when an object goes with *)
(* its child: enough to read the tree between two signals of one change.   *)
EXTENDS Mirror
=============================================================================
