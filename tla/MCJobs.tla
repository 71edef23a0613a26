------------------------------- MODULE MCJobs -------------------------------
(***************************************************************************)
(* Instances of Jobs: a scan and the one that may overlap it.              *)
(***************************************************************************)
EXTENDS Jobs
=============================================================================
