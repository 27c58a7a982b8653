-------------------------- MODULE MCEmailEnrichment --------------------------
(* Two jobs that share a queue of one task and two workers.  The first job *)
(* scrapes one place twice.                                                *)
EXTENDS EmailEnrichment

CONSTANTS j1, j2, p1

TwoJobs == {<<j1, p1, 1>>, <<j1, p1, 2>>, <<j2, p1, 1>>}
=============================================================================
