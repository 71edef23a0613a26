----------------------------- MODULE MCJobWatch -----------------------------
(* Two jobs of one scanner: enough for one to end while the other runs.    *)
EXTENDS JobWatch

TwoJobs == {1, 2}
=============================================================================
