------------------------------ MODULE MCJobsLib ------------------------------
(* Small instances of JobsLib for TLC, with the claims and the invariants.  *)
EXTENDS JobsLibClaims, JobsLibInv
==============================================================================
