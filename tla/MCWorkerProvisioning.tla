----------------------- MODULE MCWorkerProvisioning -----------------------
(* One worker provisioned, health-checked and deleted twice at a time, on   *)
(* the two slots of the maintenance queue.                                  *)
EXTENDS WorkerProvisioning
=============================================================================
