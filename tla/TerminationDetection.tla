------------------------ MODULE TerminationDetection ------------------------
(***************************************************************************)
(* What the exit monitor promises to those who start a scrape, without its *)
(* counters, channel and locks: the scrape is declared complete only when   *)
(* no seed and no discovered place is open, and that lasts, since only an   *)
(* open seed discovers places.  A scrape may also be interrupted.           *)
(***************************************************************************)
EXTENDS FiniteSets

CONSTANTS Seeds, Places

VARIABLES
  openSeeds,    \* the seeds that have not been reported
  known,        \* the places discovered
  openPlaces,   \* the discovered places that have not been reported
  ending        \* how the scrape ended

vars == <<openSeeds, known, openPlaces, ending>>

Init ==
  /\ openSeeds = Seeds
  /\ known = {} /\ openPlaces = {}
  /\ ending = "running"

Discover(found) ==
  /\ openSeeds # {}
  /\ found \cap known = {}
  /\ known' = known \cup found
  /\ openPlaces' = openPlaces \cup found
  /\ UNCHANGED <<openSeeds, ending>>

ReportSeed(s) ==
  /\ s \in openSeeds
  /\ openSeeds' = openSeeds \ {s}
  /\ UNCHANGED <<known, openPlaces, ending>>

ReportPlaces(ps) ==
  /\ ps \subseteq openPlaces
  /\ openPlaces' = openPlaces \ ps
  /\ UNCHANGED <<openSeeds, known, ending>>

Complete ==
  /\ ending = "running"
  /\ openSeeds = {} /\ openPlaces = {}
  /\ ending' = "complete"
  /\ UNCHANGED <<openSeeds, known, openPlaces>>

Interrupt ==
  /\ ending = "running"
  /\ ending' = "interrupted"
  /\ UNCHANGED <<openSeeds, known, openPlaces>>

Next ==
  \/ \E found \in SUBSET Places : Discover(found)
  \/ \E s \in Seeds : ReportSeed(s)
  \/ \E ps \in SUBSET Places : ReportPlaces(ps)
  \/ Complete
  \/ Interrupt

Spec == Init /\ [][Next]_vars

=============================================================================
