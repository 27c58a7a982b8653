------------------------- MODULE ExitMonitorProofs -------------------------
(***************************************************************************)
(* Safety of the exit monitor for any finite sets of seeds and places.  The *)
(* counters are the cardinalities of the seeds and places that were         *)
(* reported, so the exit condition means that all of them were, and it       *)
(* stays true: a token is never stale.                                      *)
(***************************************************************************)
EXTENDS ExitMonitor, FiniteSetTheorems, TLAPS

SeedsReported == {s \in Seeds : seed[s] \in SeedsCounted}
PlacesKnown == {p \in Places : place[p] # "new"}
PlacesReported == {p \in Places : place[p] \in PlacesCounted}

\* Where the places a seed discovered stand while its Process is running.
TreeInv ==
  /\ \A s, t \in Seeds : s # t => children[s] \cap children[t] = {}
  /\ \A s \in Seeds : seed[s] = "queued" => children[s] = {}
  /\ \A s \in Seeds : children[s] \subseteq PlacesKnown
  /\ \A s \in Seeds : seed[s] = "counting" => fastMode /\ ~writerManaged
  /\ \A s \in Seeds : seed[s] \in {"found", "counting"} =>
       \A p \in children[s] : place[p] = "found"
  /\ \A s \in Seeds : seed[s] = "returning" =>
       \A p \in children[s] :
         place[p] = IF fastMode /\ ~writerManaged THEN "counted" ELSE "found"

\* The counters count what they are meant to count.
CountInv ==
  /\ seedCompleted = Cardinality(SeedsReported)
  /\ placesFound = Cardinality(PlacesKnown)
  /\ placesCompleted = Cardinality(PlacesReported)

\* A signal on its way, in the channel or received means that all is reported.
SignalInv == sends > 0 \/ doneCh \/ run \in {"received", "cancelled"} => Finished

IInv == TypeOK /\ TreeInv /\ CountInv /\ SignalInv /\ FlushIsComplete

----------------------------------------------------------------------------
\* The cardinality of a set grows by that of the disjoint set joined to it.
LEMMA CardDisjointUnion ==
  ASSUME NEW S, NEW T, IsFiniteSet(S), IsFiniteSet(T), S \cap T = {}
  PROVE  /\ Cardinality(S \cup T) = Cardinality(S) + Cardinality(T)
         /\ Cardinality(S \cup T) \in Nat /\ Cardinality(S) \in Nat /\ Cardinality(T) \in Nat
<1>1. Cardinality(S \cap T) = 0
  BY FS_EmptySet
<1>2. Cardinality(S) \in Nat /\ Cardinality(T) \in Nat
  BY FS_CardinalityType
<1>3. Cardinality(S \cup T) = Cardinality(S) + Cardinality(T) - Cardinality(S \cap T)
  BY FS_Union
<1> QED BY <1>1, <1>2, <1>3

\* A subset as large as its finite set is the whole set.
LEMMA FullSubset ==
  ASSUME NEW S, IsFiniteSet(S), NEW T \in SUBSET S, Cardinality(T) >= Cardinality(S)
  PROVE  T = S
<1>1. IsFiniteSet(T) /\ Cardinality(T) <= Cardinality(S)
  BY FS_Subset
<1>2. Cardinality(T) \in Nat /\ Cardinality(S) \in Nat
  BY <1>1, FS_CardinalityType
<1>3. Cardinality(S) = Cardinality(T)
  BY <1>1, <1>2
<1> QED BY <1>3, FS_Subset

\* The exit condition over exact counters means that everything is reported.
LEMMA DoneMeansFinished == TypeOK /\ CountInv /\ CountersDone => Finished
<1> SUFFICES ASSUME TypeOK, CountInv, CountersDone PROVE Finished
  OBVIOUS
<1>1. SeedsReported = Seeds
  <2>1. SeedsReported \in SUBSET Seeds
    BY DEF SeedsReported
  <2> QED BY <2>1, FullSubset, SeedsAssumption DEF CountInv, CountersDone, SeedCount
<1>2. PlacesReported = PlacesKnown
  <2>1. PlacesReported \in SUBSET PlacesKnown
    BY DEF PlacesReported, PlacesKnown, PlacesCounted, TypeOK
  <2>2. IsFiniteSet(PlacesKnown)
    BY FS_Subset, PlacesAssumption DEF PlacesKnown
  <2> QED BY <2>1, <2>2, FullSubset DEF CountInv, CountersDone
<1> QED BY <1>1, <1>2 DEF Finished, SeedsReported, PlacesReported, PlacesKnown

----------------------------------------------------------------------------
\* The type invariant is inductive.
LEMMA TypeStep == TypeOK /\ [Next]_vars => TypeOK'
<1> SUFFICES ASSUME TypeOK, [Next]_vars PROVE TypeOK'
  OBVIOUS
<1> USE DEF TypeOK, SeedStates, PlaceStates
<1>1. ASSUME NEW n \in Nat
      PROVE  /\ IncrSeedCompleted(n) => seedCompleted' \in Nat /\ placesFound' \in Nat
                                          /\ placesCompleted' \in Nat /\ sends' \in Nat
             /\ IncrPlacesCompleted(n) => seedCompleted' \in Nat /\ placesFound' \in Nat
                                          /\ placesCompleted' \in Nat /\ sends' \in Nat
             /\ IncrPlacesFound(n) => seedCompleted' \in Nat /\ placesFound' \in Nat
                                          /\ placesCompleted' \in Nat /\ sends' \in Nat
  BY DEF IncrSeedCompleted, IncrPlacesCompleted, IncrPlacesFound, Signals
<1>2. \A S \in SUBSET Places : Cardinality(S) \in Nat
  BY FS_Subset, FS_CardinalityType, PlacesAssumption
<1>3. \A S \in SUBSET Places, v \in PlaceStates : Put(place, S, v) \in [Places -> PlaceStates]
  BY DEF Put
<1>4. ASSUME NEW s \in Seeds, SeedStep(s) PROVE TypeOK'
  <2>1. CASE SeedFails(s)
    BY <2>1, <1>1 DEF SeedFails, modes, monitor
  <2>2. ASSUME NEW found \in SUBSET {p \in Places : place[p] = "new"}, SeedFinds(s, found)
        PROVE  TypeOK'
    <3>1. found \in SUBSET Places
      OBVIOUS
    <3>2. Cardinality(found) \in Nat
      BY <3>1, <1>2
    <3>3. place' \in [Places -> PlaceStates]
      BY <2>2, <3>1, <1>3 DEF SeedFinds
    <3> QED BY <2>2, <1>1, <3>1, <3>2, <3>3 DEF SeedFinds, modes, monitor
  <2>3. CASE SeedCompletes(s)
    BY <2>3, <1>1 DEF SeedCompletes, modes, monitor
  <2>4. CASE SearchCounts(s)
    <3>1. Cardinality(children[s]) \in Nat
      BY <1>2
    <3>2. place' \in [Places -> PlaceStates]
      BY <2>4, <1>3 DEF SearchCounts
    <3> QED BY <2>4, <1>1, <3>1, <3>2 DEF SearchCounts, modes, monitor
  <2>5. CASE SeedReturns(s)
    <3>1. place' \in [Places -> PlaceStates]
      BY <2>5, <1>3 DEF SeedReturns
    <3> QED BY <2>5, <3>1 DEF SeedReturns, modes, monitor, counters
  <2> QED BY <1>4, <2>1, <2>2, <2>3, <2>4, <2>5 DEF SeedStep
<1>5. ASSUME NEW p \in Places, PlaceStep(p) PROVE TypeOK'
  <2>1. CASE PlaceFails(p)
    BY <2>1, <1>1 DEF PlaceFails, modes, monitor
  <2>2. CASE PlaceSucceeds(p)
    BY <2>2, <1>1 DEF PlaceSucceeds, Finalize, modes, monitor, counters
  <2>3. CASE PlaceChainsEmail(p)
    BY <2>3 DEF PlaceChainsEmail, modes, monitor, counters
  <2>4. CASE EmailFinalizes(p)
    BY <2>4, <1>1 DEF EmailFinalizes, Finalize, modes, monitor, counters
  <2>5. CASE \E urls \in 1..MaxSubpages : EmailChainsSubpage(p, urls)
    BY <2>5, SubpagesAssumption DEF EmailChainsSubpage, modes, monitor, counters
  <2>6. CASE SubpageAdvances(p)
    BY <2>6, SubpagesAssumption DEF SubpageAdvances, modes, monitor, counters
  <2>7. CASE SubpageFinalizes(p)
    BY <2>7, <1>1 DEF SubpageFinalizes, Finalize, modes, monitor, counters
  <2>8. CASE PlaceReturns(p)
    BY <2>8 DEF PlaceReturns, modes, monitor, counters
  <2> QED BY <1>5, <2>1, <2>2, <2>3, <2>4, <2>5, <2>6, <2>7, <2>8 DEF PlaceStep
<1>6. ASSUME NEW r \in Results, WriterAdds(r) PROVE TypeOK'
  <2>1. r \in SUBSET Places
    BY <1>6 DEF Results
  <2>2. place' \in [Places -> PlaceStates]
    BY <1>6, <2>1, <1>3 DEF WriterAdds
  <2> QED BY <1>6, <2>2 DEF WriterAdds, modes, monitor, counters
<1>7. CASE WriterCounts
  <2> DEFINE r == {p \in Places : place[p] = "added"}
  <2>1. Cardinality(r) \in Nat /\ Put(place, r, "written") \in [Places -> PlaceStates]
    BY <1>2, <1>3
  <2>2. place' \in [Places -> PlaceStates]
    BY <1>7, <2>1 DEF WriterCounts
  <2> QED BY <1>7, <1>1, <2>1, <2>2 DEF WriterCounts, modes, monitor, counters
<1>8. CASE SendDone
  BY <1>8 DEF SendDone, modes, tree
<1>9. CASE RunReceive
  BY <1>9 DEF RunReceive, modes, tree, counters
<1>10. CASE RunCancel
  BY <1>10 DEF RunCancel, modes, tree, counters
<1>11. CASE RunCtxDone
  BY <1>11 DEF RunCtxDone, modes, tree, counters
<1>12. CASE UNCHANGED vars
  BY <1>12 DEF vars, modes, tree, counters, monitor
<1> QED BY <1>4, <1>5, <1>6, <1>7, <1>8, <1>9, <1>10, <1>11, <1>12 DEF Next, WriterStep

----------------------------------------------------------------------------
\* Where the discovered places stand is preserved by every step.
LEMMA TreeStep == TypeOK /\ TreeInv /\ [Next]_vars => TreeInv'
<1> SUFFICES ASSUME TypeOK, TreeInv, [Next]_vars PROVE TreeInv'
  OBVIOUS
<1> USE DEF TypeOK, TreeInv, PlacesKnown
<1>1. ASSUME NEW s \in Seeds, SeedStep(s) PROVE TreeInv'
  <2>1. CASE SeedFails(s)
    BY <2>1 DEF SeedFails, modes, monitor, SeedStates
  <2>2. ASSUME NEW found \in SUBSET {p \in Places : place[p] = "new"}, SeedFinds(s, found)
        PROVE  TreeInv'
    BY <2>2 DEF SeedFinds, Put, modes, monitor, SeedStates
  <2>3. CASE SeedCompletes(s)
    BY <2>3 DEF SeedCompletes, modes, monitor, SeedStates
  <2>4. CASE SearchCounts(s)
    BY <2>4 DEF SearchCounts, Put, modes, monitor, SeedStates
  <2>5. CASE SeedReturns(s)
    BY <2>5 DEF SeedReturns, Put, modes, monitor, counters, SeedStates
  <2> QED BY <1>1, <2>1, <2>2, <2>3, <2>4, <2>5 DEF SeedStep
<1>2. ASSUME NEW p \in Places, PlaceStep(p) PROVE TreeInv'
  <2>1. /\ UNCHANGED <<modes, seed, children>>
        /\ place' \in [Places -> PlaceStates]
        /\ \A q \in Places : q # p => place'[q] = place[q]
        /\ place[p] # "new" /\ place[p] # "found" /\ place'[p] # "new"
        /\ fastMode => place[p] # "counted"
    BY <1>2, TypeStep DEF Next, PlaceStep, PlaceFails, PlaceSucceeds, PlaceChainsEmail, EmailFinalizes,
       EmailChainsSubpage, SubpageAdvances, SubpageFinalizes, PlaceReturns, Finalize,
       PlaceStates
  <2> QED BY <2>1 DEF modes
<1>3. ASSUME NEW r \in Results, WriterAdds(r) PROVE TreeInv'
  BY <1>3 DEF WriterAdds, Results, Put, modes, monitor, counters
<1>4. CASE WriterCounts
  BY <1>4 DEF WriterCounts, Put, modes, monitor, counters
<1>5. CASE UNCHANGED <<modes, seed, children, place>>
  BY <1>5 DEF modes
<1> QED BY <1>1, <1>2, <1>3, <1>4, <1>5
        DEF Next, WriterStep, SendDone, RunReceive, RunCancel, RunCtxDone, vars, modes, tree

----------------------------------------------------------------------------
\* A step that reports one more seed keeps the counters exact.
LEMMA SeedReported ==
  ASSUME TypeOK, CountInv, NEW s \in Seeds, s \notin SeedsReported,
         SeedsReported' = SeedsReported \cup {s}, IncrSeedCompleted(1),
         PlacesKnown' = PlacesKnown, PlacesReported' = PlacesReported
  PROVE  CountInv'
<1>1. IsFiniteSet(SeedsReported)
  BY FS_Subset, SeedsAssumption DEF SeedsReported
<1>2. Cardinality(SeedsReported') = Cardinality(SeedsReported) + 1
  BY <1>1, FS_AddElement
<1> QED BY <1>2 DEF CountInv, IncrSeedCompleted

\* A step that reports a set of places keeps the counters exact.
LEMMA PlaceReported ==
  ASSUME TypeOK, CountInv, NEW r \in SUBSET Places, r \cap PlacesReported = {},
         PlacesReported' = PlacesReported \cup r, IncrPlacesCompleted(Cardinality(r)),
         SeedsReported' = SeedsReported, PlacesKnown' = PlacesKnown
  PROVE  CountInv'
<1>1. IsFiniteSet(PlacesReported) /\ IsFiniteSet(r)
  BY FS_Subset, PlacesAssumption DEF PlacesReported
<1>2. Cardinality(PlacesReported \cup r) = Cardinality(PlacesReported) + Cardinality(r)
  BY <1>1, CardDisjointUnion
<1> QED BY <1>2 DEF CountInv, IncrPlacesCompleted

\* The counters stay exact.
LEMMA CountStep == TypeOK /\ TreeInv /\ CountInv /\ [Next]_vars => CountInv'
<1> SUFFICES ASSUME TypeOK, TreeInv, CountInv, [Next]_vars PROVE CountInv'
  OBVIOUS
<1> USE DEF SeedsReported, PlacesKnown, PlacesReported, SeedsCounted
<1>0. TypeOK'
  BY TypeStep
<1>1. ASSUME NEW s \in Seeds, SeedStep(s) PROVE CountInv'
  <2>1. CASE SeedFails(s)
    <3>1. s \notin SeedsReported /\ SeedsReported' = SeedsReported \cup {s}
      BY <2>1 DEF SeedFails, TypeOK
    <3>2. PlacesKnown' = PlacesKnown /\ PlacesReported' = PlacesReported
      BY <2>1 DEF SeedFails, PlacesCounted, modes
    <3>3. IncrSeedCompleted(1)
      BY <2>1 DEF SeedFails
    <3> HIDE DEF SeedsReported, PlacesKnown, PlacesReported
    <3> QED BY <3>1, <3>2, <3>3, SeedReported
  <2>2. ASSUME NEW found \in SUBSET {p \in Places : place[p] = "new"}, SeedFinds(s, found)
        PROVE  CountInv'
    <3>1. SeedsReported' = SeedsReported
      BY <2>2 DEF SeedFinds, TypeOK
    <3>2. PlacesReported' = PlacesReported
      BY <2>2 DEF SeedFinds, Put, PlacesCounted, modes, TypeOK
    <3>3. PlacesKnown' = PlacesKnown \cup found /\ PlacesKnown \cap found = {}
      BY <2>2 DEF SeedFinds, Put, TypeOK
    <3>4. IsFiniteSet(PlacesKnown) /\ IsFiniteSet(found)
      BY FS_Subset, PlacesAssumption
    <3>5. Cardinality(PlacesKnown') = Cardinality(PlacesKnown) + Cardinality(found)
      <4> HIDE DEF PlacesKnown
      <4> QED BY <3>3, <3>4, CardDisjointUnion
    <3> HIDE DEF SeedsReported, PlacesKnown, PlacesReported
    <3> QED BY <2>2, <3>1, <3>2, <3>5 DEF SeedFinds, IncrPlacesFound, CountInv
  <2>3. CASE SeedCompletes(s)
    <3>1. s \notin SeedsReported /\ SeedsReported' = SeedsReported \cup {s}
      BY <2>3 DEF SeedCompletes, TypeOK
    <3>2. PlacesKnown' = PlacesKnown /\ PlacesReported' = PlacesReported
      BY <2>3 DEF SeedCompletes, PlacesCounted, modes
    <3>3. IncrSeedCompleted(1)
      BY <2>3 DEF SeedCompletes
    <3> HIDE DEF SeedsReported, PlacesKnown, PlacesReported
    <3> QED BY <3>1, <3>2, <3>3, SeedReported
  <2>4. CASE SearchCounts(s)
    <3>1. SeedsReported' = SeedsReported
      BY <2>4 DEF SearchCounts, TypeOK
    <3>2. /\ ~writerManaged /\ ~writerManaged'
          /\ \A p \in children[s] : place[p] = "found"
          /\ children[s] \in SUBSET Places
      BY <2>4 DEF SearchCounts, TreeInv, modes, TypeOK
    <3>3. /\ PlacesKnown' = PlacesKnown
          /\ PlacesReported' = PlacesReported \cup children[s]
          /\ children[s] \cap PlacesReported = {}
      BY <2>4, <3>2 DEF SearchCounts, Put, PlacesCounted, TypeOK
    <3>4. IncrPlacesCompleted(Cardinality(children[s]))
      BY <2>4 DEF SearchCounts
    <3> HIDE DEF SeedsReported, PlacesKnown, PlacesReported
    <3> QED BY <3>1, <3>2, <3>3, <3>4, PlaceReported
  <2>5. CASE SeedReturns(s)
    <3>1. /\ SeedsReported' = SeedsReported
          /\ PlacesKnown' = PlacesKnown
          /\ PlacesReported' = PlacesReported
      BY <2>5 DEF SeedReturns, Put, PlacesCounted, modes, TypeOK, TreeInv
    <3> HIDE DEF SeedsReported, PlacesKnown, PlacesReported
    <3> QED BY <2>5, <3>1 DEF SeedReturns, counters, CountInv
  <2> QED BY <1>1, <2>1, <2>2, <2>3, <2>4, <2>5 DEF SeedStep
<1>2. ASSUME NEW p \in Places, PlaceStep(p) PROVE CountInv'
  <2>1. /\ SeedsReported' = SeedsReported
        /\ PlacesKnown' = PlacesKnown
    BY <1>2, <1>0 DEF PlaceStep, PlaceFails, PlaceSucceeds, PlaceChainsEmail, EmailFinalizes,
       EmailChainsSubpage, SubpageAdvances, SubpageFinalizes, PlaceReturns, Finalize,
       TypeOK
  <2>2. \/ PlacesReported' = PlacesReported /\ UNCHANGED counters
        \/ /\ {p} \cap PlacesReported = {}
           /\ PlacesReported' = PlacesReported \cup {p}
           /\ IncrPlacesCompleted(1)
    <3>1. UNCHANGED writerManaged
      BY <1>2 DEF PlaceStep, PlaceFails, PlaceSucceeds, PlaceChainsEmail, EmailFinalizes,
       EmailChainsSubpage, SubpageAdvances, SubpageFinalizes, PlaceReturns, modes
    <3>2. CASE PlaceFails(p)
      BY <3>1, <3>2 DEF PlaceFails, PlacesCounted, TypeOK
    <3>3. CASE Finalize(p) /\ place[p] \in {"queued", "email", "subpage"}
      BY <3>1, <3>3 DEF Finalize, PlacesCounted, TypeOK
    <3>4. CASE PlaceChainsEmail(p) \/ SubpageAdvances(p) \/ PlaceReturns(p)
               \/ \E urls \in 1..MaxSubpages : EmailChainsSubpage(p, urls)
      BY <3>1, <3>4 DEF PlaceChainsEmail, SubpageAdvances, PlaceReturns, EmailChainsSubpage,
         PlacesCounted, TypeOK
    <3> QED BY <1>2, <3>2, <3>3, <3>4
            DEF PlaceStep, PlaceSucceeds, EmailFinalizes, SubpageFinalizes
  <2>3. {p} \in SUBSET Places /\ Cardinality({p}) = 1
    BY FS_Singleton
  <2> HIDE DEF SeedsReported, PlacesKnown, PlacesReported
  <2>4. CASE PlacesReported' = PlacesReported /\ UNCHANGED counters
    BY <2>1, <2>4 DEF counters, CountInv
  <2> QED BY <2>1, <2>2, <2>3, <2>4, PlaceReported
<1>3. ASSUME NEW r \in Results, WriterAdds(r) PROVE CountInv'
  <2>1. /\ SeedsReported' = SeedsReported
        /\ PlacesKnown' = PlacesKnown
        /\ PlacesReported' = PlacesReported
    BY <1>3 DEF WriterAdds, Results, Put, PlacesCounted, modes, TypeOK
  <2> HIDE DEF SeedsReported, PlacesKnown, PlacesReported
  <2> QED BY <1>3, <2>1 DEF WriterAdds, counters, CountInv
<1>4. CASE WriterCounts
  <2> DEFINE r == {p \in Places : place[p] = "added"}
  <2>1. SeedsReported' = SeedsReported /\ PlacesKnown' = PlacesKnown
    BY <1>4 DEF WriterCounts, Put, TypeOK
  <2>2. CASE writerManaged
    <3>1. r \cap PlacesReported = {} /\ PlacesReported' = PlacesReported \cup r
      BY <1>4, <2>2 DEF WriterCounts, Put, PlacesCounted, modes, TypeOK
    <3>2. IncrPlacesCompleted(Cardinality(r))
      BY <1>4, <2>2 DEF WriterCounts
    <3> HIDE DEF SeedsReported, PlacesKnown, PlacesReported
    <3> QED BY <2>1, <3>1, <3>2, PlaceReported
  <2>3. CASE ~writerManaged
    <3>1. PlacesReported' = PlacesReported /\ UNCHANGED counters
      BY <1>4, <2>3 DEF WriterCounts, Put, PlacesCounted, modes, TypeOK
    <3> HIDE DEF SeedsReported, PlacesKnown, PlacesReported
    <3> QED BY <2>1, <3>1 DEF counters, CountInv
  <2> QED BY <2>2, <2>3
<1>5. CASE UNCHANGED <<modes, tree, seedCompleted, placesFound, placesCompleted>>
  BY <1>5 DEF modes, tree, CountInv, PlacesCounted
<1> QED BY <1>1, <1>2, <1>3, <1>4, <1>5
        DEF Next, WriterStep, SendDone, RunReceive, RunCancel, RunCtxDone, vars, counters

----------------------------------------------------------------------------
\* A finished tree stays finished: no seed is left to discover a place, and a
\* reported place only moves towards its written entry.
LEMMA FinishedStep == TypeOK /\ TreeInv /\ Finished /\ [Next]_vars => Finished'
<1> SUFFICES ASSUME TypeOK, TreeInv, Finished, [Next]_vars PROVE Finished'
  OBVIOUS
<1> USE DEF TypeOK, Finished, SeedsCounted, PlacesCounted
<1>1. ASSUME NEW s \in Seeds, SeedStep(s) PROVE Finished'
  <2>1. CASE SeedFails(s)
    BY <2>1 DEF SeedFails, modes
  <2>2. CASE \E found \in SUBSET {p \in Places : place[p] = "new"} : SeedFinds(s, found)
    BY <2>2 DEF SeedFinds
  <2>3. CASE SeedCompletes(s)
    BY <2>3 DEF SeedCompletes
  <2>4. CASE SearchCounts(s)
    BY <2>4 DEF SearchCounts, Put, modes, TreeInv
  <2>5. CASE SeedReturns(s)
    BY <2>5 DEF SeedReturns, Put, modes, TreeInv, PlacesKnown
  <2> QED BY <1>1, <2>1, <2>2, <2>3, <2>4, <2>5 DEF SeedStep
<1>2. ASSUME NEW p \in Places, PlaceStep(p) PROVE Finished'
  BY <1>2 DEF PlaceStep, PlaceFails, PlaceSucceeds, PlaceChainsEmail, EmailFinalizes,
     EmailChainsSubpage, SubpageAdvances, SubpageFinalizes, PlaceReturns, Finalize, modes
<1>3. ASSUME NEW r \in Results, WriterAdds(r) PROVE Finished'
  BY <1>3 DEF WriterAdds, Results, Put, modes
<1>4. CASE WriterCounts
  BY <1>4 DEF WriterCounts, Put, modes
<1>5. CASE UNCHANGED <<modes, tree>>
  BY <1>5 DEF modes, tree
<1> QED BY <1>1, <1>2, <1>3, <1>4, <1>5
        DEF Next, WriterStep, SendDone, RunReceive, RunCancel, RunCtxDone, vars

\* A step other than those of the signal's path leaves the monitor alone and
\* signals only over counters that say done.
LEMMA SignalSource ==
  TypeOK /\ [Next]_vars =>
    \/ UNCHANGED <<doneCh, run>> /\ (UNCHANGED sends \/ CountersDone')
    \/ SendDone \/ RunReceive \/ RunCancel \/ RunCtxDone
<1> SUFFICES ASSUME TypeOK, [Next]_vars
    PROVE  \/ UNCHANGED <<doneCh, run>> /\ (UNCHANGED sends \/ CountersDone')
           \/ SendDone \/ RunReceive \/ RunCancel \/ RunCtxDone
  OBVIOUS
<1>0. ASSUME NEW n
      PROVE  /\ IncrSeedCompleted(n) => UNCHANGED sends \/ CountersDone'
             /\ IncrPlacesCompleted(n) => UNCHANGED sends \/ CountersDone'
             /\ IncrPlacesFound(n) => UNCHANGED sends
  BY DEF IncrSeedCompleted, IncrPlacesCompleted, IncrPlacesFound, Signals, IsDone, CountersDone
<1>1. ASSUME NEW s \in Seeds, SeedStep(s)
      PROVE  UNCHANGED <<doneCh, run>> /\ (UNCHANGED sends \/ CountersDone')
  BY <1>1, <1>0 DEF SeedStep, SeedFails, SeedFinds, SeedCompletes, SearchCounts, SeedReturns,
     monitor, counters
<1>2. ASSUME NEW p \in Places, PlaceStep(p)
      PROVE  UNCHANGED <<doneCh, run>> /\ (UNCHANGED sends \/ CountersDone')
  BY <1>2, <1>0 DEF PlaceStep, PlaceFails, PlaceSucceeds, PlaceChainsEmail, EmailFinalizes,
     EmailChainsSubpage, SubpageAdvances, SubpageFinalizes, PlaceReturns, Finalize,
     monitor, counters
<1>3. CASE WriterStep
  BY <1>3, <1>0 DEF WriterStep, WriterAdds, WriterCounts, monitor, counters
<1>4. CASE UNCHANGED vars
  BY <1>4 DEF vars, monitor, counters
<1> QED BY <1>1, <1>2, <1>3, <1>4 DEF Next

\* A signal under way, in the channel or received means a finished tree.
LEMMA SignalStep == IInv /\ [Next]_vars => SignalInv'
<1> SUFFICES ASSUME IInv, [Next]_vars PROVE SignalInv'
  OBVIOUS
<1>1. TypeOK' /\ CountInv'
  BY TypeStep, CountStep DEF IInv
<1>2. CountersDone' => Finished'
  BY <1>1, DoneMeansFinished, PTL
<1>3. Finished => Finished'
  BY FinishedStep DEF IInv
<1>4. CASE UNCHANGED <<doneCh, run>> /\ (UNCHANGED sends \/ CountersDone')
  BY <1>2, <1>3, <1>4 DEF IInv, SignalInv
<1>5. CASE SendDone \/ RunReceive \/ RunCancel \/ RunCtxDone
  BY <1>3, <1>5 DEF IInv, SignalInv, TypeOK, SendDone, RunReceive, RunCancel, RunCtxDone, counters
<1> QED BY <1>4, <1>5, SignalSource DEF IInv

\* The entries the writer holds are those of all the places that did not fail.
AllWritten ==
  {p \in Places : place[p] \in {"added", "written"}} =
    {p \in Places : place[p] \notin {"new", "failed"}}

\* In a finished tree whose writer manages completion, every entry is written.
LEMMA FinishedMeansWritten == TypeOK /\ Finished /\ writerManaged => AllWritten
BY DEF TypeOK, Finished, PlacesCounted, AllWritten

\* Once flushed, the set of written entries is final.
LEMMA FlushStep == IInv /\ [Next]_vars => FlushIsComplete'
<1> SUFFICES ASSUME IInv, [Next]_vars, run' = "cancelled", writerManaged'
             PROVE  saved' = {p \in Places : place'[p] \notin {"new", "failed"}}
  BY DEF FlushIsComplete
<1>1. TypeOK' /\ Finished'
  BY TypeStep, SignalStep DEF IInv, SignalInv
<1>2. AllWritten'
  BY <1>1, FinishedMeansWritten, PTL
<1>3. CASE RunCancel
  BY <1>2, <1>3 DEF RunCancel, tree, AllWritten
<1>4. CASE ~RunCancel
  <2>1. run = "cancelled" /\ UNCHANGED <<saved, writerManaged>>
    BY <1>4 DEF IInv, TypeOK, Next, SeedStep, SeedFails, SeedFinds, SeedCompletes, SearchCounts,
       SeedReturns, PlaceStep, PlaceFails, PlaceSucceeds, PlaceChainsEmail, EmailFinalizes,
       EmailChainsSubpage, SubpageAdvances, SubpageFinalizes, PlaceReturns, Finalize,
       WriterStep, WriterAdds, WriterCounts, SendDone, RunReceive, RunCtxDone,
       vars, modes, monitor
  <2>2. saved = {p \in Places : place[p] \notin {"new", "failed"}} /\ Finished
    BY <2>1, <1>1 DEF IInv, FlushIsComplete, SignalInv
  <2>3. \A p \in Places : place[p] \in {"new", "failed"} <=> place'[p] \in {"new", "failed"}
    <3>1. \A p \in Places : place[p] \in {"new", "written", "failed"}
      BY <2>1, <2>2 DEF Finished, PlacesCounted
    <3>2. \A s \in Seeds : ~ (\E found \in SUBSET Places : SeedFinds(s, found)) /\ ~ SearchCounts(s)
      BY <2>1, <2>2 DEF Finished, SeedsCounted, SeedFinds, SearchCounts, IInv, TreeInv
    <3>3. \A s \in Seeds : seed[s] = "returning" => children[s] = {}
      BY <3>1, <2>1 DEF IInv, TreeInv, TypeOK
    <3>4. \A r \in Results : FALSE
      BY <3>1 DEF Results, IInv, TypeOK
    <3>5. ~ WriterCounts
      BY <3>1 DEF WriterCounts
    <3>6. ASSUME NEW s \in Seeds, SeedStep(s) PROVE place' = place
      BY <3>6, <3>2, <3>3 DEF SeedStep, SeedFails, SeedCompletes, SeedReturns, Put, IInv, TypeOK
    <3>7. ASSUME NEW p \in Places, PlaceStep(p) PROVE place' = place
      BY <3>7, <3>1 DEF PlaceStep, PlaceFails, PlaceSucceeds, PlaceChainsEmail, EmailFinalizes,
         EmailChainsSubpage, SubpageAdvances, SubpageFinalizes, PlaceReturns
    <3>8. place' = place
      BY <3>4, <3>5, <3>6, <3>7 DEF Next, WriterStep, SendDone, RunReceive, RunCancel, RunCtxDone,
         vars, tree
    <3> QED BY <3>8
  <2> QED BY <2>1, <2>2, <2>3
<1> QED BY <1>3, <1>4

\* The counters of a finished tree say done.
LEMMA FinishedMeansDone == TypeOK /\ CountInv /\ Finished => CountersDone
<1> SUFFICES ASSUME TypeOK, CountInv, Finished PROVE CountersDone
  OBVIOUS
<1>1. SeedsReported = Seeds
  BY DEF Finished, SeedsReported
<1>2. PlacesReported = PlacesKnown
  BY DEF Finished, PlacesReported, PlacesKnown, PlacesCounted
<1>3. seedCompleted = Cardinality(Seeds) /\ placesCompleted = placesFound
  BY <1>1, <1>2 DEF CountInv
<1> QED BY <1>3 DEF CountersDone, SeedCount, TypeOK

----------------------------------------------------------------------------
\* The inductive invariant holds initially.
LEMMA InitIInv == Init => IInv
<1> SUFFICES ASSUME Init PROVE IInv
  OBVIOUS
<1>1. TypeOK
  <2>1. 0 \in 0 .. MaxSubpages - 1
    BY SubpagesAssumption
  <2>2. remaining \in [Places -> 0 .. MaxSubpages - 1]
    BY <2>1 DEF Init
  <2>3. seed \in [Seeds -> SeedStates] /\ place \in [Places -> PlaceStates]
        /\ children \in [Seeds -> SUBSET Places]
    BY DEF Init, SeedStates, PlaceStates
  <2> QED BY <2>2, <2>3 DEF Init, TypeOK
<1>2. TreeInv
  BY DEF Init, TreeInv, PlacesKnown
<1>3. CountInv
  <2>1. SeedsReported = {} /\ PlacesKnown = {} /\ PlacesReported = {}
    BY DEF Init, SeedsReported, PlacesKnown, PlacesReported, SeedsCounted, PlacesCounted
  <2> QED BY <2>1, FS_EmptySet DEF Init, CountInv
<1>4. SignalInv /\ FlushIsComplete
  BY DEF Init, SignalInv, FlushIsComplete
<1> QED BY <1>1, <1>2, <1>3, <1>4 DEF IInv

\* The inductive invariant is preserved by every step.
LEMMA NextIInv == IInv /\ [Next]_vars => IInv'
BY TypeStep, TreeStep, CountStep, SignalStep, FlushStep DEF IInv

\* The inductive invariant holds throughout.
THEOREM Invariance == Spec => []IInv
BY InitIInv, NextIInv, PTL DEF Spec

\* Every reachable state of the scrape is well-typed.
THEOREM TypeCorrect == Spec => []TypeOK
<1>1. IInv => TypeOK
  BY DEF IInv
<1> QED BY <1>1, Invariance, PTL

\* The exit monitor calls cancelFunc only when every seed and every discovered
\* place has been reported (exiter.go, Run and the two completion counters).
THEOREM NoEarlyCancel == Spec => []CancelOnlyWhenFinished
<1>1. IInv => CancelOnlyWhenFinished
  BY DEF IInv, SignalInv, CancelOnlyWhenFinished
<1> QED BY <1>1, Invariance, PTL

\* With WriterManagedCompletion the flush that ends a scrape loses no entry
\* (centralwriter.go, processResult before markCompletedFromResult).
THEOREM NoEntryLost == Spec => []FlushIsComplete
<1>1. IInv => FlushIsComplete
  BY DEF IInv
<1> QED BY <1>1, Invariance, PTL

\* The exit condition, once true, stays true, so that a token sent after the
\* unlock cannot be stale (exiter.go, IncrSeedCompleted, IncrPlacesCompleted).
THEOREM DoneStays == Spec => DoneIsStable
<1>1. IInv /\ IInv' /\ [Next]_vars => [CountersDone => CountersDone']_vars
  <2> SUFFICES ASSUME IInv, IInv', [Next]_vars, CountersDone PROVE CountersDone'
    OBVIOUS
  <2>1. Finished
    BY DoneMeansFinished DEF IInv
  <2>2. Finished'
    BY <2>1, FinishedStep DEF IInv
  <2>3. TypeOK' /\ CountInv'
    BY DEF IInv
  <2> QED BY <2>2, <2>3, FinishedMeansDone, PTL
<1> QED BY <1>1, Invariance, PTL DEF Spec, DoneIsStable

----------------------------------------------------------------------------
(* The refinement of TerminationDetection.                                  *)

OpenSeeds == {s \in Seeds : seed[s] \notin SeedsCounted}
OpenPlaces == {p \in Places : place[p] \notin PlacesCounted \cup {"new"}}
Ending == CASE run \in {"received", "cancelled"} -> "complete"
            [] run = "stopped" -> "interrupted"
            [] OTHER -> "running"

\* The steps of the abstract monitor, over the concrete state.
LEMMA AbstractSteps ==
  /\ \A found \in SUBSET Places :
       /\ OpenSeeds # {} /\ found \cap PlacesKnown = {}
       /\ PlacesKnown' = PlacesKnown \cup found /\ OpenPlaces' = OpenPlaces \cup found
       /\ OpenSeeds' = OpenSeeds /\ Ending' = Ending
       => Detection!Next
  /\ \A s \in OpenSeeds :
       /\ OpenSeeds' = OpenSeeds \ {s}
       /\ PlacesKnown' = PlacesKnown /\ OpenPlaces' = OpenPlaces /\ Ending' = Ending
       => Detection!Next
  /\ \A ps \in SUBSET Places :
       /\ ps \subseteq OpenPlaces /\ OpenPlaces' = OpenPlaces \ ps
       /\ PlacesKnown' = PlacesKnown /\ OpenSeeds' = OpenSeeds /\ Ending' = Ending
       => Detection!Next
  /\ /\ Ending = "running" /\ OpenSeeds = {} /\ OpenPlaces = {} /\ Ending' = "complete"
     /\ PlacesKnown' = PlacesKnown /\ OpenSeeds' = OpenSeeds /\ OpenPlaces' = OpenPlaces
     => Detection!Next
  /\ /\ Ending = "running" /\ Ending' = "interrupted"
     /\ PlacesKnown' = PlacesKnown /\ OpenSeeds' = OpenSeeds /\ OpenPlaces' = OpenPlaces
     => Detection!Next
  /\ /\ PlacesKnown' = PlacesKnown /\ OpenSeeds' = OpenSeeds /\ OpenPlaces' = OpenPlaces
     /\ Ending' = Ending
     => UNCHANGED Detection!vars
<1> USE DEF OpenSeeds, OpenPlaces, PlacesKnown, Ending
<1>1. ASSUME NEW found \in SUBSET Places,
             OpenSeeds # {} /\ found \cap PlacesKnown = {},
             PlacesKnown' = PlacesKnown \cup found /\ OpenPlaces' = OpenPlaces \cup found,
             OpenSeeds' = OpenSeeds /\ Ending' = Ending
      PROVE  Detection!Next
  <2>1. Detection!Discover(found)
    BY <1>1 DEF Detection!Discover
  <2> QED BY <2>1 DEF Detection!Next
<1>2. ASSUME NEW s \in OpenSeeds, OpenSeeds' = OpenSeeds \ {s},
             PlacesKnown' = PlacesKnown /\ OpenPlaces' = OpenPlaces /\ Ending' = Ending
      PROVE  Detection!Next
  <2>1. Detection!ReportSeed(s) /\ s \in Seeds
    BY <1>2 DEF Detection!ReportSeed
  <2> QED BY <2>1 DEF Detection!Next
<1>3. ASSUME NEW ps \in SUBSET Places, ps \subseteq OpenPlaces, OpenPlaces' = OpenPlaces \ ps,
             PlacesKnown' = PlacesKnown /\ OpenSeeds' = OpenSeeds /\ Ending' = Ending
      PROVE  Detection!Next
  <2>1. Detection!ReportPlaces(ps)
    BY <1>3 DEF Detection!ReportPlaces
  <2> QED BY <2>1 DEF Detection!Next
<1>4. ASSUME Ending = "running", OpenSeeds = {}, OpenPlaces = {}, Ending' = "complete",
             PlacesKnown' = PlacesKnown /\ OpenSeeds' = OpenSeeds /\ OpenPlaces' = OpenPlaces
      PROVE  Detection!Next
  <2>1. Detection!Complete
    BY <1>4 DEF Detection!Complete
  <2> QED BY <2>1 DEF Detection!Next
<1>5. ASSUME Ending = "running", Ending' = "interrupted",
             PlacesKnown' = PlacesKnown /\ OpenSeeds' = OpenSeeds /\ OpenPlaces' = OpenPlaces
      PROVE  Detection!Next
  <2>1. Detection!Interrupt
    BY <1>5 DEF Detection!Interrupt
  <2> QED BY <2>1 DEF Detection!Next
<1>6. ASSUME PlacesKnown' = PlacesKnown /\ OpenSeeds' = OpenSeeds /\ OpenPlaces' = OpenPlaces,
             Ending' = Ending
      PROVE  UNCHANGED Detection!vars
  BY <1>6 DEF Detection!vars
<1> HIDE DEF OpenSeeds, OpenPlaces, PlacesKnown, Ending
<1> QED BY <1>1, <1>2, <1>3, <1>4, <1>5, <1>6

\* Every step of the scrape is a step of the abstract monitor or a stutter.
LEMMA StepRefines == IInv /\ [Next]_vars => [Detection!Next]_(Detection!vars)
<1> SUFFICES ASSUME IInv, [Next]_vars PROVE [Detection!Next]_(Detection!vars)
  OBVIOUS
<1> DEFINE Same == /\ PlacesKnown' = PlacesKnown /\ OpenSeeds' = OpenSeeds
                   /\ OpenPlaces' = OpenPlaces /\ Ending' = Ending
           SameTree == /\ PlacesKnown' = PlacesKnown /\ OpenSeeds' = OpenSeeds
                       /\ OpenPlaces' = OpenPlaces
<1>0. Same => [Detection!Next]_(Detection!vars)
  BY AbstractSteps
<1>1. ASSUME NEW s \in Seeds, SeedStep(s) PROVE [Detection!Next]_(Detection!vars)
  <2>0. UNCHANGED <<modes, run>> /\ Ending' = Ending /\ PlacesCounted' = PlacesCounted
    BY <1>1 DEF SeedStep, SeedFails, SeedFinds, SeedCompletes, SearchCounts, SeedReturns,
       modes, monitor, Ending, PlacesCounted
  <2>1. CASE SeedFails(s) \/ SeedCompletes(s)
    <3>1. s \in OpenSeeds /\ OpenSeeds' = OpenSeeds \ {s} /\ place' = place
      BY <2>1 DEF SeedFails, SeedCompletes, OpenSeeds, SeedsCounted, IInv, TypeOK
    <3>2. PlacesKnown' = PlacesKnown /\ OpenPlaces' = OpenPlaces
      BY <3>1, <2>0 DEF PlacesKnown, OpenPlaces
    <3> QED BY <3>1, <3>2, <2>0, AbstractSteps
  <2>2. ASSUME NEW found \in SUBSET {p \in Places : place[p] = "new"}, SeedFinds(s, found)
        PROVE  Detection!Next
    <3>1. s \in OpenSeeds /\ OpenSeeds' = OpenSeeds
      BY <2>2 DEF SeedFinds, OpenSeeds, SeedsCounted, IInv, TypeOK
    <3>2. found \in SUBSET Places /\ found \cap PlacesKnown = {}
      BY DEF PlacesKnown
    <3>3. \A p \in Places : place'[p] = IF p \in found THEN "found" ELSE place[p]
      BY <2>2 DEF SeedFinds, Put, IInv, TypeOK
    <3>4. PlacesKnown' = PlacesKnown \cup found
      BY <3>2, <3>3 DEF PlacesKnown
    <3>5. OpenPlaces' = OpenPlaces \cup found
      BY <3>2, <3>3, <2>0 DEF OpenPlaces, PlacesCounted
    <3> QED BY <3>1, <3>2, <3>4, <3>5, <2>0, AbstractSteps
  <2>3. CASE SearchCounts(s)
    <3>1. fastMode /\ ~writerManaged /\ \A p \in children[s] : p \in Places /\ place[p] = "found"
      BY <2>3 DEF SearchCounts, IInv, TypeOK, TreeInv
    <3>2. \A p \in Places : place'[p] = IF p \in children[s] THEN "counted" ELSE place[p]
      BY <2>3 DEF SearchCounts, Put, IInv, TypeOK
    <3>3. OpenSeeds' = OpenSeeds
      BY <2>3 DEF SearchCounts, OpenSeeds, SeedsCounted, IInv, TypeOK
    <3>4. PlacesKnown' = PlacesKnown
      BY <3>1, <3>2 DEF PlacesKnown
    <3>5. children[s] \subseteq OpenPlaces /\ OpenPlaces' = OpenPlaces \ children[s]
      BY <3>1, <3>2, <2>0 DEF OpenPlaces, PlacesCounted
    <3>6. children[s] \in SUBSET Places
      BY DEF IInv, TypeOK
    <3> QED BY <3>3, <3>4, <3>5, <3>6, <2>0, AbstractSteps
  <2>4. CASE SeedReturns(s)
    <3>1. \A p \in children[s] :
             p \in Places /\ place[p] = IF fastMode /\ ~writerManaged THEN "counted" ELSE "found"
      BY <2>4 DEF SeedReturns, IInv, TypeOK, TreeInv
    <3>2. \A p \in Places : place'[p] = IF p \in children[s]
                                        THEN IF fastMode THEN "emitted" ELSE "queued"
                                        ELSE place[p]
      BY <2>4 DEF SeedReturns, Put, IInv, TypeOK
    <3>3. OpenSeeds' = OpenSeeds
      BY <2>4 DEF SeedReturns, OpenSeeds, SeedsCounted, IInv, TypeOK
    <3>4. PlacesKnown' = PlacesKnown
      BY <3>1, <3>2 DEF PlacesKnown
    <3>5. OpenPlaces' = OpenPlaces
      BY <3>1, <3>2, <2>0 DEF OpenPlaces, PlacesCounted, IInv, TypeOK
    <3> QED BY <3>3, <3>4, <3>5, <2>0, <1>0
  <2> QED BY <1>1, <2>1, <2>2, <2>3, <2>4 DEF SeedStep
<1>2. ASSUME NEW p \in Places, PlaceStep(p) PROVE [Detection!Next]_(Detection!vars)
  <2>0. /\ Ending' = Ending /\ PlacesCounted' = PlacesCounted /\ UNCHANGED writerManaged
        /\ OpenSeeds' = OpenSeeds
    BY <1>2 DEF PlaceStep, PlaceFails, PlaceSucceeds, PlaceChainsEmail, EmailFinalizes,
       EmailChainsSubpage, SubpageAdvances, SubpageFinalizes, PlaceReturns,
       modes, monitor, Ending, PlacesCounted, OpenSeeds
  <2>1. ASSUME place[p] \in {"queued", "email", "subpage"},
               place'[p] \in PlacesCounted \ {"new"},
               \A q \in Places : q # p => place'[q] = place[q]
        PROVE  Detection!Next
    <3>1. p \in OpenPlaces /\ OpenPlaces' = OpenPlaces \ {p} /\ PlacesKnown' = PlacesKnown
      BY <2>1, <2>0 DEF OpenPlaces, PlacesKnown, PlacesCounted
    <3> QED BY <3>1, <2>0, AbstractSteps
  <2>2. ASSUME \A q \in Places : /\ place'[q] = "new" <=> place[q] = "new"
                                 /\ place'[q] \in PlacesCounted <=> place[q] \in PlacesCounted
        PROVE  Same
    BY <2>2, <2>0 DEF OpenPlaces, PlacesKnown
  <2>3. CASE PlaceFails(p)
    BY <2>3, <2>1 DEF PlaceFails, PlacesCounted, IInv, TypeOK
  <2>4. CASE place[p] \in {"queued", "email", "subpage"} /\ Finalize(p)
    <3>1. CASE writerManaged
      BY <2>4, <3>1, <2>2, <1>0 DEF Finalize, PlacesCounted, IInv, TypeOK
    <3>2. CASE ~writerManaged
      BY <2>4, <3>2, <2>1 DEF Finalize, PlacesCounted, IInv, TypeOK
    <3> QED BY <3>1, <3>2
  <2>5. CASE PlaceChainsEmail(p) \/ \E urls \in 1..MaxSubpages : EmailChainsSubpage(p, urls)
    BY <2>5, <2>2, <1>0 DEF PlaceChainsEmail, EmailChainsSubpage, PlacesCounted, IInv, TypeOK
  <2>6. CASE SubpageAdvances(p)
    BY <2>6, <2>2, <1>0 DEF SubpageAdvances
  <2>7. CASE PlaceReturns(p)
    BY <2>7, <2>2, <1>0 DEF PlaceReturns, PlacesCounted, IInv, TypeOK
  <2> QED BY <1>2, <2>3, <2>4, <2>5, <2>6, <2>7
          DEF PlaceStep, PlaceSucceeds, EmailFinalizes, SubpageFinalizes
<1>3. CASE WriterStep
  <2>0. /\ Ending' = Ending /\ PlacesCounted' = PlacesCounted /\ UNCHANGED writerManaged
        /\ OpenSeeds' = OpenSeeds
    BY <1>3 DEF WriterStep, WriterAdds, WriterCounts, modes, monitor, Ending, PlacesCounted, OpenSeeds
  <2>1. ASSUME NEW r \in Results, WriterAdds(r) PROVE Same
    <3>1. \A p \in r \cap Places : place[p] = "emitted"
      BY DEF Results
    <3>2. \A p \in Places : place'[p] = IF p \in r THEN "added" ELSE place[p]
      BY <2>1 DEF WriterAdds, Put, IInv, TypeOK
    <3> QED BY <3>1, <3>2, <2>0 DEF OpenPlaces, PlacesKnown, PlacesCounted
  <2>2. CASE WriterCounts
    <3> DEFINE r == {p \in Places : place[p] = "added"}
    <3>1. \A p \in Places : place'[p] = IF p \in r THEN "written" ELSE place[p]
      BY <2>2 DEF WriterCounts, Put, IInv, TypeOK
    <3>2. CASE writerManaged
      <4>1. /\ r \in SUBSET Places /\ r \subseteq OpenPlaces /\ OpenPlaces' = OpenPlaces \ r
            /\ PlacesKnown' = PlacesKnown
        BY <3>1, <3>2, <2>0 DEF OpenPlaces, PlacesKnown, PlacesCounted
      <4> QED BY <4>1, <2>0, AbstractSteps
    <3>3. CASE ~writerManaged
      BY <3>1, <3>3, <2>0, <1>0 DEF OpenPlaces, PlacesKnown, PlacesCounted
    <3> QED BY <3>2, <3>3
  <2> QED BY <1>3, <2>1, <2>2, <1>0 DEF WriterStep
<1>4. CASE SendDone \/ RunReceive \/ RunCancel \/ RunCtxDone \/ UNCHANGED vars
  <2>0. SameTree
    BY <1>4 DEF SendDone, RunReceive, RunCancel, RunCtxDone, vars, modes, tree,
       PlacesKnown, OpenSeeds, OpenPlaces, PlacesCounted
  <2>1. CASE SendDone \/ RunCancel \/ UNCHANGED vars
    <3>1. Ending' = Ending
      BY <2>1 DEF SendDone, RunCancel, vars, monitor, Ending
    <3> QED BY <3>1, <2>0, <1>0
  <2>2. CASE RunReceive
    <3>1. Ending = "running" /\ Ending' = "complete" /\ Finished
      BY <2>2 DEF RunReceive, Ending, IInv, SignalInv
    <3>2. OpenSeeds = {} /\ OpenPlaces = {}
      BY <3>1 DEF Finished, OpenSeeds, OpenPlaces
    <3> QED BY <3>1, <3>2, <2>0, AbstractSteps
  <2>3. CASE RunCtxDone
    <3>1. Ending = "running" /\ Ending' = "interrupted"
      BY <2>3 DEF RunCtxDone, Ending
    <3> QED BY <3>1, <2>0, AbstractSteps
  <2> QED BY <1>4, <2>1, <2>2, <2>3
<1> QED BY <1>1, <1>2, <1>3, <1>4 DEF Next

\* The exit monitor implements termination detection: its end of a scrape is
\* declared when nothing is open, and nothing is discovered afterwards
\* (exiter.go, and what the Process of every job reports).
THEOREM ImplementsDetection == Spec => DetectsTermination
<1>1. Init => Detection!Init
  BY DEF Init, Detection!Init, SeedsCounted
<1>2. IInv /\ [Next]_vars => [Detection!Next]_(Detection!vars)
  BY StepRefines
<1> QED BY <1>1, <1>2, Invariance, PTL DEF Spec, DetectsTermination, Detection!Spec

=============================================================================
