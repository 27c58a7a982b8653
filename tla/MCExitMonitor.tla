--------------------------- MODULE MCExitMonitor ---------------------------
(* Two seeds that race, three places, up to two contact pages per place.    *)
EXTENDS ExitMonitor
=============================================================================
