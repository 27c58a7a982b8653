---------------------------- MODULE ExitMonitor ----------------------------
(***************************************************************************)
(* One scrape: the tree of jobs that grows from its seeds, the exit monitor *)
(* that counts the tree down (exiter/exiter.go) and the result writer that  *)
(* receives its entries.  A seed is a GmapJob or, in fast mode, a           *)
(* SearchJob; a place is one PlaceJob together with the email jobs chained   *)
(* to it, or one entry of a SearchJob.  With writerManaged the writer, not   *)
(* the job, reports a place as completed (WriterManagedCompletion).          *)
(***************************************************************************)
EXTENDS Integers, FiniteSets

CONSTANTS
  Seeds,        \* the seed jobs of the scrape
  Places,       \* the place jobs that may be discovered
  MaxSubpages   \* maxEmailSubpages: contact pages visited per place

ASSUME SeedsAssumption == IsFiniteSet(Seeds) /\ Seeds # {}
ASSUME PlacesAssumption == IsFiniteSet(Places)
ASSUME SubpagesAssumption == MaxSubpages \in Nat \ {0}

VARIABLES
  fastMode,         \* the seeds are SearchJobs
  writerManaged,    \* WriterManagedCompletion of every job of the tree
  seed,             \* progress of each seed's Process
  children,         \* the places each seed discovered
  place,            \* progress of each place
  remaining,        \* RemainingURLs of the place's email chain
  seedCompleted,    \* exiter.seedCompleted
  placesFound,      \* exiter.placesFound
  placesCompleted,  \* exiter.placesCompleted
  sends,            \* calls between their unlock and their send on doneCh
  doneCh,           \* doneCh (capacity 1) holds a token
  run,              \* exiter.Run
  saved             \* entries the writer held when cancelFunc was called

modes == <<fastMode, writerManaged>>
tree == <<seed, children, place, remaining>>
counters == <<seedCompleted, placesFound, placesCompleted, sends>>
monitor == <<doneCh, run, saved>>
vars == <<modes, tree, counters, monitor>>

SeedCount == Cardinality(Seeds)

SeedStates == {"queued", "found", "counting", "returning", "done"}
SeedsCounted == {"counting", "returning", "done"}
PlaceStates == {"new", "found", "queued", "email", "subpage", "counted",
                "emitted", "added", "written", "failed"}
\* The places a tree has reported to the exit monitor.
PlacesCounted ==
  IF writerManaged THEN {"written", "failed"}
  ELSE {"counted", "emitted", "added", "written", "failed"}

Put(f, S, v) == [x \in DOMAIN f |-> IF x \in S THEN v ELSE f[x]]

----------------------------------------------------------------------------
(* exiter.go: every increment of a completion counter re-evaluates the      *)
(* condition under the mutex and signals after the unlock.                  *)

\* Mutant: only the places are compared.
DonePlacesOnly == placesCompleted' >= placesFound'

\* The condition of both increments, over the counters they leave.
IsDone == seedCompleted' >= SeedCount /\ placesCompleted' >= placesFound'

Signals == sends' = IF IsDone THEN sends + 1 ELSE sends

IncrSeedCompleted(n) ==
  /\ seedCompleted' = seedCompleted + n
  /\ UNCHANGED <<placesFound, placesCompleted>>
  /\ Signals

IncrPlacesCompleted(n) ==
  /\ placesCompleted' = placesCompleted + n
  /\ UNCHANGED <<seedCompleted, placesFound>>
  /\ Signals

IncrPlacesFound(n) ==
  /\ placesFound' = placesFound + n
  /\ UNCHANGED <<seedCompleted, placesCompleted, sends>>

\* The non-blocking send: a token already in the channel absorbs this one.
SendDone ==
  /\ sends > 0
  /\ sends' = sends - 1
  /\ doneCh' = TRUE
  /\ UNCHANGED <<modes, tree, seedCompleted, placesFound, placesCompleted, run, saved>>

\* Run receives the token...
RunReceive ==
  /\ run = "waiting"
  /\ doneCh
  /\ doneCh' = FALSE
  /\ run' = "received"
  /\ UNCHANGED <<modes, tree, counters, saved>>

\* ... and calls cancelFunc, which ends the scrape with what the writer holds.
RunCancel ==
  /\ run = "received"
  /\ run' = "cancelled"
  /\ saved' = {p \in Places : place[p] \in {"added", "written"}}
  /\ UNCHANGED <<modes, tree, counters, doneCh>>

\* The context of Run ends first (timeout or shutdown of the scrape).
RunCtxDone ==
  /\ run = "waiting"
  /\ run' = "stopped"
  /\ UNCHANGED <<modes, tree, counters, doneCh, saved>>

----------------------------------------------------------------------------
(* Seeds: GmapJob.Process and SearchJob.Process.                            *)

\* Fetch error, missing document, empty or unparsable body.
SeedFails(s) ==
  /\ seed[s] = "queued"
  /\ seed' = [seed EXCEPT ![s] = "done"]
  /\ IncrSeedCompleted(1)
  /\ UNCHANGED <<modes, children, place, remaining, monitor>>

\* The page is parsed and its new places are reported as found.
SeedFinds(s, found) ==
  /\ seed[s] = "queued"
  /\ seed' = [seed EXCEPT ![s] = "found"]
  /\ children' = [children EXCEPT ![s] = found]
  /\ place' = Put(place, found, "found")
  /\ IncrPlacesFound(Cardinality(found))
  /\ UNCHANGED <<modes, remaining, monitor>>

SeedCompletes(s) ==
  /\ seed[s] = "found"
  /\ seed' = [seed EXCEPT ![s] = IF fastMode /\ ~writerManaged THEN "counting" ELSE "returning"]
  /\ IncrSeedCompleted(1)
  /\ UNCHANGED <<modes, children, place, remaining, monitor>>

\* A SearchJob whose writer does not manage completion counts its own entries.
SearchCounts(s) ==
  /\ seed[s] = "counting"
  /\ seed' = [seed EXCEPT ![s] = "returning"]
  /\ place' = Put(place, children[s], "counted")
  /\ IncrPlacesCompleted(Cardinality(children[s]))
  /\ UNCHANGED <<modes, children, remaining, monitor>>

\* Process returns: entries go to the results channel, child jobs are pushed.
SeedReturns(s) ==
  /\ seed[s] = "returning"
  /\ seed' = [seed EXCEPT ![s] = "done"]
  /\ place' = Put(place, children[s], IF fastMode THEN "emitted" ELSE "queued")
  /\ UNCHANGED <<modes, children, remaining, counters, monitor>>

----------------------------------------------------------------------------
(* Places: PlaceJob.Process and the email jobs chained to it.               *)

PlaceFails(p) ==
  /\ place[p] = "queued"
  /\ place' = [place EXCEPT ![p] = "failed"]
  /\ IncrPlacesCompleted(1)
  /\ UNCHANGED <<modes, seed, children, remaining, monitor>>

\* Mutant: WriterManagedCompletion is ignored, the job reports in any case.
FinalizeAlwaysCounts(p) ==
  /\ place' = [place EXCEPT ![p] = IF writerManaged THEN "emitted" ELSE "counted"]
  /\ IncrPlacesCompleted(1)

\* Mutant: the job leaves the report to the writer in any case.
FinalizeNeverCounts(p) ==
  /\ place' = [place EXCEPT ![p] = IF writerManaged THEN "emitted" ELSE "counted"]
  /\ UNCHANGED counters

\* finalizeEmailPlace, and the end of PlaceJob.Process.
Finalize(p) ==
  IF writerManaged
    THEN place' = [place EXCEPT ![p] = "emitted"] /\ UNCHANGED counters
    ELSE place' = [place EXCEPT ![p] = "counted"] /\ IncrPlacesCompleted(1)

PlaceSucceeds(p) ==
  /\ place[p] = "queued"
  /\ Finalize(p)
  /\ UNCHANGED <<modes, seed, children, remaining, monitor>>

\* Emails are wanted and the website is usable: an EmailExtractJob follows.
PlaceChainsEmail(p) ==
  /\ place[p] = "queued"
  /\ place' = [place EXCEPT ![p] = "email"]
  /\ UNCHANGED <<modes, seed, children, remaining, counters, monitor>>

\* EmailExtractJob without a document or without contact pages.
EmailFinalizes(p) ==
  /\ place[p] = "email"
  /\ Finalize(p)
  /\ UNCHANGED <<modes, seed, children, remaining, monitor>>

\* EmailExtractJob with urls contact pages: the first one is visited next.
EmailChainsSubpage(p, urls) ==
  /\ place[p] = "email"
  /\ place' = [place EXCEPT ![p] = "subpage"]
  /\ remaining' = [remaining EXCEPT ![p] = urls - 1]
  /\ UNCHANGED <<modes, seed, children, counters, monitor>>

\* EmailSubpageJob.advanceEmailChain with pages left.
SubpageAdvances(p) ==
  /\ place[p] = "subpage"
  /\ remaining[p] > 0
  /\ remaining' = [remaining EXCEPT ![p] = @ - 1]
  /\ UNCHANGED <<modes, seed, children, place, counters, monitor>>

SubpageFinalizes(p) ==
  /\ place[p] = "subpage"
  /\ remaining[p] = 0
  /\ Finalize(p)
  /\ UNCHANGED <<modes, seed, children, remaining, monitor>>

\* Process, which has already reported, returns its entry.
PlaceReturns(p) ==
  /\ ~fastMode
  /\ place[p] = "counted"
  /\ place' = [place EXCEPT ![p] = "emitted"]
  /\ UNCHANGED <<modes, seed, children, remaining, counters, monitor>>

----------------------------------------------------------------------------
(* The result writer: a single goroutine handles one result at a time.      *)

\* A result is one entry, or all the entries of a SearchJob.
Results ==
  {r \in IF fastMode THEN {children[s] : s \in Seeds} ELSE {{p} : p \in Places} :
     r # {} /\ \A p \in r : place[p] = "emitted"}

Idle == \A p \in Places : place[p] # "added"

WriterAdds(r) ==
  /\ Idle
  /\ place' = Put(place, r, "added")
  /\ UNCHANGED <<modes, seed, children, remaining, counters, monitor>>

\* markCompletedFromResult
WriterCounts ==
  LET r == {p \in Places : place[p] = "added"}
  IN  /\ r # {}
      /\ place' = Put(place, r, "written")
      /\ IF writerManaged THEN IncrPlacesCompleted(Cardinality(r)) ELSE UNCHANGED counters
      /\ UNCHANGED <<modes, seed, children, remaining, monitor>>

----------------------------------------------------------------------------
Init ==
  /\ fastMode \in BOOLEAN
  /\ writerManaged \in BOOLEAN
  /\ seed = [s \in Seeds |-> "queued"]
  /\ children = [s \in Seeds |-> {}]
  /\ place = [p \in Places |-> "new"]
  /\ remaining = [p \in Places |-> 0]
  /\ seedCompleted = 0 /\ placesFound = 0 /\ placesCompleted = 0
  /\ sends = 0
  /\ doneCh = FALSE
  /\ run = "waiting"
  /\ saved = {}

SeedStep(s) ==
  \/ SeedFails(s)
  \/ \E found \in SUBSET {p \in Places : place[p] = "new"} : SeedFinds(s, found)
  \/ SeedCompletes(s)
  \/ SearchCounts(s)
  \/ SeedReturns(s)

PlaceStep(p) ==
  \/ PlaceFails(p)
  \/ PlaceSucceeds(p)
  \/ PlaceChainsEmail(p)
  \/ EmailFinalizes(p)
  \/ \E urls \in 1..MaxSubpages : EmailChainsSubpage(p, urls)
  \/ SubpageAdvances(p)
  \/ SubpageFinalizes(p)
  \/ PlaceReturns(p)

WriterStep ==
  \/ \E r \in Results : WriterAdds(r)
  \/ WriterCounts

Next ==
  \/ \E s \in Seeds : SeedStep(s)
  \/ \E p \in Places : PlaceStep(p)
  \/ WriterStep
  \/ SendDone
  \/ RunReceive
  \/ RunCancel
  \/ RunCtxDone

\* The scraper's workers, the writer and the monitor's goroutine all run; the
\* context of Run need not end.
Fairness ==
  /\ \A s \in Seeds : WF_vars(SeedStep(s))
  /\ \A p \in Places : WF_vars(PlaceStep(p))
  /\ WF_vars(WriterStep)
  /\ WF_vars(SendDone)
  /\ WF_vars(RunReceive)
  /\ WF_vars(RunCancel)

Spec == Init /\ [][Next]_vars /\ Fairness

----------------------------------------------------------------------------
\* Type invariant.
TypeOK ==
  /\ fastMode \in BOOLEAN
  /\ writerManaged \in BOOLEAN
  /\ seed \in [Seeds -> SeedStates]
  /\ children \in [Seeds -> SUBSET Places]
  /\ place \in [Places -> PlaceStates]
  /\ remaining \in [Places -> 0 .. MaxSubpages - 1]
  /\ seedCompleted \in Nat /\ placesFound \in Nat /\ placesCompleted \in Nat
  /\ sends \in Nat
  /\ doneCh \in BOOLEAN
  /\ run \in {"waiting", "received", "cancelled", "stopped"}
  /\ saved \in SUBSET Places

\* Every seed has been reported and so has every place found so far.
Finished ==
  /\ \A s \in Seeds : seed[s] \in SeedsCounted
  /\ \A p \in Places : place[p] # "new" => place[p] \in PlacesCounted

\* The exit monitor never ends a scrape that has work left: cancelFunc is
\* called only when every seed and every discovered place has been reported,
\* although the condition is evaluated by concurrent jobs and the token is
\* sent after the mutex is released.
CancelOnlyWhenFinished == run \in {"received", "cancelled"} => Finished

\* Under WriterManagedCompletion the flush that cancelFunc triggers holds the
\* entry of every place that was found and did not fail: none is still in a
\* job, in the results channel or in the writer's hands.
FlushIsComplete ==
  run = "cancelled" /\ writerManaged =>
    saved = {p \in Places : place[p] \notin {"new", "failed"}}

\* The abstract monitor, over what has been reported.
Detection == INSTANCE TerminationDetection WITH
  openSeeds <- {s \in Seeds : seed[s] \notin SeedsCounted},
  known <- {p \in Places : place[p] # "new"},
  openPlaces <- {p \in Places : place[p] \notin PlacesCounted \cup {"new"}},
  ending <- CASE run \in {"received", "cancelled"} -> "complete"
              [] run = "stopped" -> "interrupted"
              [] OTHER -> "running"

\* With counters, a mutex that is released before the signal and a channel of
\* one token, the exit monitor does what the abstract one does: nothing is
\* discovered or left open after the end of a scrape is declared.
DetectsTermination == Detection!Spec

\* The exit condition as the counters show it.
CountersDone == seedCompleted >= SeedCount /\ placesCompleted >= placesFound

\* Once the counters say "done" no later step makes them say "not done": the
\* token, sent after the mutex is released, is never stale when Run takes it.
DoneIsStable == [][CountersDone => CountersDone']_vars

\* Every scrape whose context lives is ended by its exit monitor.
EventuallyEnds == <>(run \in {"cancelled", "stopped"})

=============================================================================
