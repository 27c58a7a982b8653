----------------------------- MODULE MCJobListing -----------------------------
(* Three jobs in pages of two, one request that deletes, one maintenance       *)
(* worker with two attempts, one client.                                       *)
EXTENDS JobListing
=============================================================================
