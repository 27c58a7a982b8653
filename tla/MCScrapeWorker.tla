--------------------------- MODULE MCScrapeWorker ---------------------------
(* Two attempts of one job, with up to two places, that overlap with what an *)
(* earlier attempt left behind and with the deletion of the job.             *)
EXTENDS ScrapeWorker
=============================================================================
