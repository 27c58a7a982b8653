------------------------------ MODULE MCWebRun ------------------------------
(* One job with two requests at a time and one restart: the loop takes it up *)
(* again after every way a run can end.                                      *)
EXTENDS WebRun
=============================================================================
