------------------------- MODULE ScraperManagerProofs -------------------------
(***************************************************************************)
(* The restarts of the scraper, for any number of jobs, cycles and workers:  *)
(* one application at a time, no restart missed although JobDone counts and  *)
(* signals in two steps, and workers that wait for room only they can make   *)
(* only after a root was given up.                                           *)
(***************************************************************************)
EXTENDS ScraperManager, FiniteSetTheorems, TLAPS

\* Between JobDone's two steps the counter is the one it read, or was reset.
CountInv == work.pc = "counted" => work.count = jobCount \/ jobCount = 0

\* From the reset on, a counter at the limit has left its token.
TokenInv ==
  jobCount >= MaxJobs /\ work.pc # "counted" => token \/ manager \notin {"creating", "running"}

IInv == TypeOK /\ AtMostOneScraper /\ CountInv /\ TokenInv

-----------------------------------------------------------------------------
LEMMA InitIInv == Init => IInv
<1> SUFFICES ASSUME Init PROVE IInv
  OBVIOUS
<1>1. TypeOK
  <2>1. 0 \in 0 .. MaxCycles /\ 0 \in 0 .. NumJobs
    BY BoundsAssumption
  <2>2. NoWork \in [pc : {"idle", "registered", "submitting", "waiting", "returning", "counted"},
                    root : 0 .. NumJobs, prov : 0 .. MaxCycles, count : Nat]
    BY <2>1 DEF NoWork
  <2>3. NoWork.pc = "idle"
    BY DEF NoWork
  <2>4. [c \in Cycles |-> <<>>] \in [Cycles -> Seq(Items)]
    OBVIOUS
  <2> QED BY <2>1, <2>2, <2>3, <2>4 DEF Init, TypeOK
<1>2. AtMostOneScraper /\ CountInv /\ TokenInv
  BY ManagerAssumption DEF Init, AtMostOneScraper, CountInv, TokenInv, NoWork
<1> QED BY <1>1, <1>2 DEF IInv

\* What a stopped application drops was in hand.
LEMMA DropsType ==
  ASSUME TypeOK, Drops
  PROVE  /\ hand' \in [Workers -> [item : Items, left : Nat] \cup {Idle}]
         /\ lost' \subseteq Roots
<1>1. \A w \in Workers : hand[w] # Idle => hand[w].item.root \in Roots
  BY DEF TypeOK, Items
<1> QED BY <1>1 DEF Drops, TypeOK

\* The manager.
LEMMA ManagerStepType ==
  ASSUME TypeOK, ManagerStep
  PROVE  TypeOK'
<1>1. CASE CycleStarts
  BY <1>1, BoundsAssumption DEF CycleStarts, TypeOK, provider
<1>2. CASE CreateApp
  BY <1>2 DEF CreateApp, TypeOK, provider
<1>3. CASE Restart
  BY <1>3 DEF Restart, TypeOK, provider
<1>4. CASE ScraperDone \/ (\E err \in BOOLEAN : ScraperExits(err)) \/ Shutdown
  <2>1. Drops
    BY <1>4 DEF ScraperDone, ScraperExits, Shutdown
  <2>2. /\ manager' \in {"loop", "failed", "stopped"}
        /\ app' \in [Cycles -> {"none", "running", "ended"}]
        /\ UNCHANGED <<cycle, jobCount, token, inChan, moving, jobChan, work, timedOut>>
    BY <1>4 DEF ScraperDone, ScraperExits, Shutdown, TypeOK, provider
  <2> QED BY <2>1, <2>2, DropsType DEF TypeOK
<1> QED BY <1>1, <1>2, <1>3, <1>4 DEF ManagerStep

\* A provider.
LEMMA ProviderStepType ==
  ASSUME TypeOK, NEW c \in Cycles, ProviderStep(c)
  PROVE  TypeOK'
<1>1. CASE RunTakes(c)
  <2>1. inChan[c] \in Seq(Items) /\ inChan[c] # <<>>
    BY <1>1 DEF RunTakes, TypeOK
  <2>2. Head(inChan[c]) \in Items /\ Tail(inChan[c]) \in Seq(Items)
    BY <2>1
  <2> QED BY <1>1, <2>2 DEF RunTakes, TypeOK, control
<1>2. CASE RunPuts(c)
  <2>1. jobChan[c] \in Seq(Items) /\ moving[c] \in Items
    BY <1>2 DEF RunPuts, TypeOK
  <2>2. Append(jobChan[c], moving[c]) \in Seq(Items)
    BY <2>1
  <2> QED BY <1>2, <2>2 DEF RunPuts, TypeOK, control
<1> QED BY <1>1, <1>2 DEF ProviderStep

\* inChan keeps items.
LEMMA EnqueueType ==
  ASSUME TypeOK, NEW c \in 0 .. MaxCycles, NEW item \in Items, Enqueue(c, item)
  PROVE  inChan' \in [Cycles -> Seq(Items)]
<1>1. CASE c \in Cycles
  <2>1. Append(inChan[c], item) \in Seq(Items)
    BY <1>1 DEF TypeOK
  <2> QED BY <2>1 DEF Enqueue, TypeOK
<1>2. CASE c \notin Cycles
  BY <1>2 DEF Enqueue, TypeOK
<1> QED BY <1>1, <1>2

\* A worker of scrapemate.
LEMMA WorkerStepType ==
  ASSUME TypeOK, NEW w \in Workers, WorkerStep(w)
  PROVE  TypeOK'
<1>1. ASSUME NEW n \in PlaceCounts \cup 0 .. 1, WorkerTakes(w, n) PROVE TypeOK'
  <2>1. cycle \in Cycles /\ n \in Nat
    <3>1. cycle \in 0 .. MaxCycles /\ cycle > 0
      BY <1>1 DEF WorkerTakes, TypeOK
    <3>2. n \in Nat
      BY BoundsAssumption
    <3> QED BY <3>1, <3>2, BoundsAssumption DEF Cycles
  <2>2. jobChan[cycle] \in Seq(Items) /\ jobChan[cycle] # <<>>
    BY <1>1, <2>1 DEF WorkerTakes, TypeOK
  <2>3. Head(jobChan[cycle]) \in Items /\ Tail(jobChan[cycle]) \in Seq(Items)
    BY <2>2
  <2> QED BY <1>1, <2>1, <2>3 DEF WorkerTakes, TypeOK, control
<1>2. CASE WorkerPushes(w)
  <2>1. hand[w] \in [item : Items, left : Nat] /\ hand[w].left > 0
    BY <1>2 DEF WorkerPushes, TypeOK
  <2>2. [kind |-> Child(hand[w].item.kind), root |-> hand[w].item.root] \in Items
    BY <2>1 DEF Items, Child, Kinds
  <2>3. inChan' \in [Cycles -> Seq(Items)]
    BY <1>2, <2>2, EnqueueType DEF WorkerPushes, TypeOK
  <2>4. [hand[w] EXCEPT !.left = @ - 1] \in [item : Items, left : Nat]
    BY <2>1
  <2>5. hand' = [hand EXCEPT ![w] = [hand[w] EXCEPT !.left = @ - 1]]
    BY <1>2 DEF WorkerPushes, TypeOK
  <2> QED BY <1>2, <2>3, <2>4, <2>5 DEF WorkerPushes, TypeOK, control
<1>3. CASE WorkerEnds(w)
  BY <1>3 DEF WorkerEnds, TypeOK, control, provider
<1> QED BY <1>1, <1>2, <1>3 DEF WorkerStep, WorkerTake

\* ScrapeWorker.Work.
LEMMA WorkStepType ==
  ASSUME TypeOK, WorkStep
  PROVE  TypeOK'
<1> DEFINE Pcs == {"idle", "registered", "submitting", "waiting", "returning", "counted"}
           Work == [pc : Pcs, root : 0 .. NumJobs, prov : 0 .. MaxCycles, count : Nat]
<1>1. work \in Work /\ (work.pc # "idle" => work.root \in Roots) /\ cycle \in 0 .. MaxCycles
  BY DEF TypeOK
<1>2. ASSUME NEW v \in Pcs
      PROVE  /\ [work EXCEPT !.pc = v] \in Work
             /\ [work EXCEPT !.pc = v].root = work.root
             /\ [work EXCEPT !.pc = v].pc = v
  BY <1>1
<1>3. CASE RegisterJob
  <2>1. work' = [work EXCEPT !.pc = "registered", !.root = @ + 1] /\ work.root < NumJobs
    BY <1>3 DEF RegisterJob, Step
  <2>2. work.root + 1 \in 0 .. NumJobs /\ work.root + 1 \in Roots
    BY <1>1, <2>1, BoundsAssumption DEF Roots
  <2>3. work' \in Work /\ work'.root \in Roots
    BY <1>1, <2>1, <2>2
  <2> QED BY <1>3, <2>3 DEF RegisterJob, Step, TypeOK
<1>4. CASE GetProvider
  <2>1. work' = [work EXCEPT !.pc = "submitting", !.prov = cycle] /\ work.pc = "registered"
    BY <1>4 DEF GetProvider, Step
  <2>2. work' \in Work /\ work'.root \in Roots
    BY <1>1, <2>1
  <2> QED BY <1>4, <2>2 DEF GetProvider, Step, TypeOK
<1>5. CASE Submit
  <2>1. work' = [work EXCEPT !.pc = "waiting"] /\ work.pc = "submitting"
    BY <1>5 DEF Submit, Step
  <2>2. work' \in Work /\ work'.root \in Roots
    BY <1>1, <2>1
  <2>3. [kind |-> "root", root |-> work.root] \in Items /\ work.prov \in 0 .. MaxCycles
    BY <1>1, <2>1 DEF Items, Kinds
  <2>4. inChan' \in [Cycles -> Seq(Items)]
    BY <1>5, <2>3, EnqueueType DEF Submit
  <2> QED BY <1>5, <2>2, <2>4 DEF Submit, Step, TypeOK
<1>6. CASE Completes
  <2>1. work' = [work EXCEPT !.pc = "returning"] /\ work.pc = "waiting"
    BY <1>6 DEF Completes, Step
  <2>2. work' \in Work /\ work'.root \in Roots
    BY <1>1, <2>1
  <2> QED BY <1>6, <2>2 DEF Completes, Step, TypeOK
<1>7. CASE GivesUp
  <2>1. work' = [work EXCEPT !.pc = "returning"] /\ work.pc # "idle"
    BY <1>7 DEF GivesUp, Step
  <2>2. work' \in Work /\ work'.root \in Roots /\ work.root \in Roots
    BY <1>1, <2>1
  <2> QED BY <1>7, <2>2 DEF GivesUp, Step, TypeOK
<1>8. CASE JobDone
  <2>1. work' = [work EXCEPT !.pc = "counted", !.count = jobCount + 1] /\ work.pc = "returning"
    BY <1>8 DEF JobDone, Step
  <2>2. jobCount + 1 \in Nat
    BY DEF TypeOK
  <2>3. work' \in Work /\ work'.root \in Roots
    BY <1>1, <2>1, <2>2
  <2> QED BY <1>8, <2>2, <2>3 DEF JobDone, Step, TypeOK
<1>9. CASE Signals
  <2>1. work' = [work EXCEPT !.pc = "idle"]
    BY <1>9 DEF Signals, Step
  <2>2. work' \in Work /\ work'.pc = "idle"
    BY <1>1, <2>1
  <2>3. token' \in BOOLEAN
    BY <1>9 DEF Signals, TypeOK
  <2> QED BY <1>9, <2>2, <2>3 DEF Signals, Step, TypeOK
<1> QED BY <1>3, <1>4, <1>5, <1>6, <1>7, <1>8, <1>9 DEF WorkStep

LEMMA TypeStep ==
  ASSUME TypeOK, [Next]_vars
  PROVE  TypeOK'
<1>1. CASE UNCHANGED vars
  BY <1>1 DEF vars, control, provider, TypeOK
<1> QED BY <1>1, ManagerStepType, ProviderStepType, WorkerStepType, WorkStepType DEF Next

-----------------------------------------------------------------------------

\* A new provider is published by the loop, which runs only when the application
\* of the last one has ended.
LEMMA OneScraperStep ==
  ASSUME TypeOK, AtMostOneScraper, [Next]_vars
  PROVE  AtMostOneScraper'
<1> USE DEF AtMostOneScraper
<1>1. CASE ManagerStep
  BY <1>1 DEF ManagerStep, CycleStarts, CreateApp, Restart, ScraperDone, ScraperExits, Shutdown,
              TypeOK
<1>2. UNCHANGED <<manager, cycle, app>> \/ ManagerStep
  BY DEF Next, vars, control, ProviderStep, RunTakes, RunPuts, WorkerStep, WorkerTake, WorkerTakes,
         WorkerPushes, WorkerEnds, WorkStep, RegisterJob, GetProvider, Submit, Completes, GivesUp,
         JobDone, Signals, Step
<1> QED BY <1>1, <1>2

\* The count and the token.
LEMMA TokenStep ==
  ASSUME TypeOK, CountInv, TokenInv, [Next]_vars
  PROVE  CountInv' /\ TokenInv'
<1> USE ManagerAssumption DEF CountInv, TokenInv
<1>1. CASE ManagerStep
  BY <1>1 DEF ManagerStep, CycleStarts, CreateApp, Restart, ScraperDone, ScraperExits, Shutdown,
              TypeOK
<1>2. CASE JobDone
  <2>1. /\ work' = [work EXCEPT !.pc = "counted", !.count = jobCount + 1]
        /\ jobCount' = jobCount + 1
    BY <1>2 DEF JobDone, Step
  <2>2. work'.pc = "counted" /\ work'.count = jobCount'
    BY <2>1 DEF TypeOK
  <2> QED BY <2>2
<1>3. CASE Signals
  <2>1. /\ work.pc = "counted" /\ work' = [work EXCEPT !.pc = "idle"]
        /\ UNCHANGED jobCount
    BY <1>3 DEF Signals, Step
  <2>2. work'.pc = "idle"
    BY <2>1 DEF TypeOK
  <2>3. ASSUME jobCount >= MaxJobs PROVE token'
    <3>1. work.count >= MaxJobs
      BY <2>1, <2>3 DEF TypeOK
    <3> QED BY <1>3, <3>1, Zenon DEF Signals
  <2> QED BY <2>1, <2>2, <2>3
<1>4. CASE /\ work.pc # "counted" /\ work'.pc # "counted"
           /\ UNCHANGED <<manager, jobCount, token>>
  BY <1>4
<1>5. CASE UNCHANGED <<manager, jobCount, token, work>>
  BY <1>5
<1>6. CASE WorkStep
  <2>1. CASE RegisterJob \/ GetProvider \/ Submit \/ Completes \/ GivesUp
    <3>1. /\ work.pc # "counted" /\ UNCHANGED <<manager, jobCount, token>>
          /\ work'.pc \in {"registered", "submitting", "waiting", "returning"}
      BY <2>1 DEF RegisterJob, GetProvider, Submit, Completes, GivesUp, Step, TypeOK
    <3> QED BY <1>4, <3>1
  <2> QED BY <1>2, <1>3, <1>6, <2>1 DEF WorkStep
<1>7. ManagerStep \/ WorkStep \/ UNCHANGED <<manager, jobCount, token, work>>
  BY DEF Next, vars, control, ProviderStep, RunTakes, RunPuts, WorkerStep, WorkerTake, WorkerTakes,
         WorkerPushes, WorkerEnds
<1> QED BY <1>1, <1>5, <1>6, <1>7

LEMMA Invariance == Spec => []IInv
<1>1. IInv /\ [Next]_vars => IInv'
  BY TypeStep, OneScraperStep, TokenStep DEF IInv
<1> QED BY InitIInv, <1>1, PTL DEF Spec

-----------------------------------------------------------------------------

\* Type correctness.
THEOREM TypeCorrect == Spec => []TypeOK
<1>1. IInv => TypeOK
  BY DEF IInv
<1> QED BY Invariance, <1>1, PTL

\* One application runs at a time, and it is that of the last provider.
THEOREM OneScraper == Spec => []AtMostOneScraper
<1>1. IInv => AtMostOneScraper
  BY DEF IInv
<1> QED BY Invariance, <1>1, PTL

\* The job that reaches the limit leaves a token, unless the manager is between
\* two applications anyway.
THEOREM RestartNotMissed == Spec => []NoMissedRestart
<1>1. IInv => NoMissedRestart
  BY DEF IInv, TokenInv, NoMissedRestart
<1> QED BY Invariance, <1>1, PTL


-----------------------------------------------------------------------------
(* The load of the provider in use, as long as no root was given up.        *)

Elems(s) == {s[i] : i \in DOMAIN s}
ItemsOf(c) == Elems(inChan[c]) \cup ({moving[c]} \ {Idle}) \cup Elems(jobChan[c])
Moving(c) == IF moving[c] = Idle THEN 0 ELSE 1
Size(c) == Len(inChan[c]) + Moving(c) + Len(jobChan[c])
Room == InCap + 1 + JobCap

\* What the workers have yet to push, as a set whose size is the sum.
Pending == {p \in Workers \X (1 .. Room) : hand[p[1]] # Idle /\ p[2] <= hand[p[1]].left}

\* A hand is full only while the application of the last provider runs.
HandInv == \A w \in Workers : hand[w] # Idle => cycle > 0 /\ app[cycle] = "running"

\* Only the root that Work waits for has items, and only in the provider that
\* Work submitted it to.
OriginInv ==
  timedOut = {} =>
    /\ \A c \in Cycles : ItemsOf(c) # {} => work.pc = "waiting" /\ c = work.prov
    /\ \A c \in Cycles : \A x \in ItemsOf(c) : x.root = work.root
    /\ \A w \in Workers : hand[w] # Idle =>
         /\ work.pc = "waiting" /\ cycle = work.prov
         /\ hand[w].item.root = work.root
         /\ hand[w].left <= Room

\* A root weighs as much as the places it may find, anything else one.
LoadInv ==
  timedOut = {} => \A c \in Cycles : c = work.prov =>
    \/ Size(c) = 1 /\ Pending = {}
    \/ /\ \A x \in ItemsOf(c) : x.kind # "root"
       /\ Size(c) + Cardinality(Pending) <= Room

-----------------------------------------------------------------------------
(* The stages of a provider                                                 *)

LEMMA AppendFacts ==
  ASSUME NEW s \in Seq(Items), NEW x \in Items
  PROVE  Elems(Append(s, x)) \subseteq Elems(s) \cup {x} /\ Len(Append(s, x)) = Len(s) + 1
BY DEF Elems

LEMMA TailFacts ==
  ASSUME NEW s \in Seq(Items), s # <<>>
  PROVE  /\ Elems(Tail(s)) \subseteq Elems(s) /\ Head(s) \in Elems(s)
         /\ Len(Tail(s)) = Len(s) - 1 /\ Len(s) > 0
BY DEF Elems

LEMMA EmptyFacts ==
  ASSUME NEW s \in Seq(Items)
  PROVE  Elems(s) = {} <=> Len(s) = 0
BY DEF Elems

LEMMA SizeFacts ==
  ASSUME TypeOK, NEW c \in Cycles
  PROVE  Size(c) \in Nat /\ (ItemsOf(c) = {} <=> Size(c) = 0)
<1>1. inChan[c] \in Seq(Items) /\ jobChan[c] \in Seq(Items) /\ moving[c] \in Items \cup {Idle}
  BY DEF TypeOK
<1>2. Len(inChan[c]) \in Nat /\ Len(jobChan[c]) \in Nat
  BY <1>1
<1>3. /\ Elems(inChan[c]) = {} <=> Len(inChan[c]) = 0
      /\ Elems(jobChan[c]) = {} <=> Len(jobChan[c]) = 0
  BY <1>1, EmptyFacts
<1>4. ItemsOf(c) = {} <=> Elems(inChan[c]) = {} /\ moving[c] = Idle /\ Elems(jobChan[c]) = {}
  BY DEF ItemsOf
<1>5. Moving(c) \in Nat /\ (Moving(c) = 0 <=> moving[c] = Idle)
  BY DEF Moving
<1>6. Size(c) = Len(inChan[c]) + Moving(c) + Len(jobChan[c])
  BY DEF Size
<1>7. Size(c) \in Nat
  BY <1>1, <1>5, <1>6
<1>8. Size(c) = 0 <=> Len(inChan[c]) = 0 /\ Moving(c) = 0 /\ Len(jobChan[c]) = 0
  BY <1>1, <1>5, <1>6
<1> QED BY <1>3, <1>4, <1>5, <1>7, <1>8

\* The same of the state after a step.
LEMMA SizeFactsNext == (TypeOK => \A c \in Cycles : ItemsOf(c) = {} <=> Size(c) = 0)'
<1>1. TypeOK => \A c \in Cycles : ItemsOf(c) = {} <=> Size(c) = 0
  BY SizeFacts
<1> QED BY <1>1, PTL

\* An item that moves on stays in the provider.
LEMMA ProviderMoves ==
  ASSUME TypeOK, NEW c \in Cycles, ProviderStep(c), NEW d \in Cycles
  PROVE  ItemsOf(d)' \subseteq ItemsOf(d) /\ Size(d)' = Size(d)
<1>1. inChan[d] \in Seq(Items) /\ jobChan[d] \in Seq(Items)
  BY DEF TypeOK
<1>2. Len(inChan[d]) \in Nat /\ Len(jobChan[d]) \in Nat
  BY <1>1
<1>3. CASE RunTakes(c)
  <2>1. CASE d # c
    BY <1>3, <2>1 DEF RunTakes, TypeOK, ItemsOf, Size, Moving
  <2>2. CASE d = c
    <3>1. /\ inChan[c] # <<>> /\ moving[c] = Idle /\ jobChan' = jobChan
          /\ moving'[c] = Head(inChan[c]) /\ inChan'[c] = Tail(inChan[c])
      BY <1>3 DEF RunTakes, TypeOK
    <3>2. Head(inChan[c]) # Idle
      BY <1>1, <2>2, <3>1, IdleAssumption
    <3>3. /\ Elems(Tail(inChan[d])) \subseteq Elems(inChan[d]) /\ Head(inChan[d]) \in Elems(inChan[d])
          /\ Len(Tail(inChan[d])) = Len(inChan[d]) - 1
      BY <1>1, <2>2, <3>1, TailFacts
    <3>4. ItemsOf(d)' \subseteq ItemsOf(d)
      BY <2>2, <3>1, <3>3 DEF ItemsOf
    <3>5. Size(d)' = Size(d)
      <4>1. Moving(d)' = 1 /\ Moving(d) = 0
        BY <2>2, <3>1, <3>2 DEF Moving
      <4>2. Len(inChan'[d]) = Len(inChan[d]) - 1 /\ Len(jobChan'[d]) = Len(jobChan[d])
        BY <2>2, <3>1, <3>3
      <4> QED BY <1>2, <4>1, <4>2 DEF Size
    <3> QED BY <3>4, <3>5
  <2> QED BY <2>1, <2>2
<1>4. CASE RunPuts(c)
  <2>1. CASE d # c
    BY <1>4, <2>1 DEF RunPuts, TypeOK, ItemsOf, Size, Moving
  <2>2. CASE d = c
    <3>1. /\ moving[c] # Idle /\ moving[c] \in Items /\ inChan' = inChan
          /\ moving'[c] = Idle /\ jobChan'[c] = Append(jobChan[c], moving[c])
      BY <1>4 DEF RunPuts, TypeOK
    <3>2. /\ Elems(Append(jobChan[d], moving[d])) \subseteq Elems(jobChan[d]) \cup {moving[d]}
          /\ Len(Append(jobChan[d], moving[d])) = Len(jobChan[d]) + 1
      BY <1>1, <2>2, <3>1, AppendFacts
    <3>3. ItemsOf(d)' \subseteq ItemsOf(d)
      BY <2>2, <3>1, <3>2 DEF ItemsOf
    <3>4. Size(d)' = Size(d)
      <4>1. Moving(d)' = 0 /\ Moving(d) = 1
        BY <2>2, <3>1 DEF Moving
      <4>2. inChan'[d] = inChan[d] /\ Len(jobChan'[d]) = Len(jobChan[d]) + 1
        BY <2>2, <3>1, <3>2
      <4>3. Size(d)' = Len(inChan[d]) + 0 + (Len(jobChan[d]) + 1)
        BY <4>1, <4>2, Zenon DEF Size
      <4>4. Size(d) = Len(inChan[d]) + 1 + Len(jobChan[d])
        BY <4>1, Zenon DEF Size
      <4>5. \A a, b \in Nat : a + 0 + (b + 1) = a + 1 + b
        OBVIOUS
      <4> QED BY <1>2, <4>3, <4>4, <4>5, Zenon
    <3> QED BY <3>3, <3>4
  <2> QED BY <2>1, <2>2
<1> QED BY <1>3, <1>4 DEF ProviderStep

LEMMA EnqueueAdds ==
  ASSUME TypeOK, NEW c \in 0 .. MaxCycles, NEW item \in Items, Enqueue(c, item),
         UNCHANGED <<moving, jobChan>>, NEW d \in Cycles
  PROVE  /\ d # c => ItemsOf(d)' = ItemsOf(d) /\ Size(d)' = Size(d)
         /\ d = c => ItemsOf(d)' \subseteq ItemsOf(d) \cup {item} /\ Size(d)' = Size(d) + 1
<1>1. inChan[d] \in Seq(Items) /\ Len(inChan[d]) \in Nat /\ Len(jobChan[d]) \in Nat
  BY DEF TypeOK
<1>2. CASE d # c
  BY <1>2 DEF Enqueue, TypeOK, ItemsOf, Size, Moving
<1>3. CASE d = c
  <2>1. inChan'[d] = Append(inChan[d], item)
    BY <1>3 DEF Enqueue, TypeOK
  <2>2. /\ Elems(Append(inChan[d], item)) \subseteq Elems(inChan[d]) \cup {item}
        /\ Len(Append(inChan[d], item)) = Len(inChan[d]) + 1
    BY <1>1, AppendFacts
  <2>3. ItemsOf(d)' \subseteq ItemsOf(d) \cup {item}
    BY <2>1, <2>2 DEF ItemsOf
  <2>4. Size(d)' = Size(d) + 1
    <3>1. Moving(d)' = Moving(d) /\ Moving(d) \in Nat
      BY DEF Moving
    <3>2. Len(inChan'[d]) = Len(inChan[d]) + 1 /\ Len(jobChan'[d]) = Len(jobChan[d])
      BY <2>1, <2>2
    <3> QED BY <1>1, <3>1, <3>2 DEF Size
  <2> QED BY <1>3, <2>3, <2>4
<1> QED BY <1>2, <1>3

LEMMA WorkerTakesOne ==
  ASSUME TypeOK, NEW w \in Workers, NEW n \in PlaceCounts \cup 0 .. 1, WorkerTakes(w, n), NEW d \in Cycles
  PROVE  /\ cycle \in Cycles /\ Head(jobChan[cycle]) \in ItemsOf(cycle)
         /\ ItemsOf(d)' \subseteq ItemsOf(d)
         /\ Size(d)' = IF d = cycle THEN Size(d) - 1 ELSE Size(d)
<1>1. cycle \in Cycles /\ jobChan[cycle] # <<>>
  BY BoundsAssumption DEF WorkerTakes, TypeOK, Cycles
<1>2. /\ jobChan[cycle] \in Seq(Items) /\ inChan[d] \in Seq(Items) /\ jobChan[d] \in Seq(Items)
      /\ Len(inChan[d]) \in Nat /\ Len(jobChan[d]) \in Nat
  BY <1>1 DEF TypeOK
<1>3. /\ Elems(Tail(jobChan[cycle])) \subseteq Elems(jobChan[cycle])
      /\ Head(jobChan[cycle]) \in Elems(jobChan[cycle])
      /\ Len(Tail(jobChan[cycle])) = Len(jobChan[cycle]) - 1
  BY <1>1, <1>2, TailFacts
<1>4. CASE d # cycle
  <2>1. inChan' = inChan /\ moving' = moving /\ jobChan'[d] = jobChan[d]
    BY <1>1, <1>4 DEF WorkerTakes, TypeOK
  <2> QED BY <1>1, <1>3, <1>4, <2>1 DEF ItemsOf, Size, Moving
<1>5. CASE d = cycle
  <2>1. jobChan'[d] = Tail(jobChan[d]) /\ inChan' = inChan /\ moving' = moving
    BY <1>1, <1>5 DEF WorkerTakes, TypeOK
  <2>2. ItemsOf(d)' \subseteq ItemsOf(d) /\ Head(jobChan[cycle]) \in ItemsOf(cycle)
    BY <1>3, <1>5, <2>1 DEF ItemsOf
  <2>3. Size(d)' = Size(d) - 1
    <3>1. Moving(d)' = Moving(d) /\ Moving(d) \in Nat
      BY <2>1 DEF Moving
    <3>2. Len(jobChan'[d]) = Len(jobChan[d]) - 1 /\ Len(inChan'[d]) = Len(inChan[d])
      BY <1>3, <1>5, <2>1
    <3> QED BY <1>2, <3>1, <3>2 DEF Size
  <2> QED BY <1>1, <1>5, <2>2, <2>3
<1>6. Head(jobChan[cycle]) \in ItemsOf(cycle)
  BY <1>3 DEF ItemsOf
<1> QED BY <1>1, <1>4, <1>5, <1>6

-----------------------------------------------------------------------------
(* What is yet to be pushed                                                 *)

LEMMA PendingFinite == IsFiniteSet(Pending) /\ Cardinality(Pending) \in Nat
<1>1. IsFiniteSet(Workers) /\ IsFiniteSet(1 .. Room)
  <2>1. 1 \in Int /\ Concurrency \in Int /\ Room \in Int
    BY ManagerAssumption, CapacityAssumption DEF Room
  <2> QED BY <2>1, FS_Interval DEF Workers
<1>2. IsFiniteSet(Workers \X (1 .. Room))
  BY <1>1, FS_Product
<1>3. Pending \in SUBSET (Workers \X (1 .. Room))
  BY DEF Pending
<1> QED BY <1>2, <1>3, FS_Subset, FS_CardinalityType

\* Each child pushed is one less to push.
LEMMA PushedLess ==
  ASSUME TypeOK, NEW w \in Workers, WorkerPushes(w), hand[w].left <= Room
  PROVE  Cardinality(Pending)' = Cardinality(Pending) - 1 /\ Pending # {}
<1>1. hand[w] \in [item : Items, left : Nat] /\ hand[w].left > 0 /\ hand[w] # Idle
  BY DEF WorkerPushes, TypeOK
<1>2. hand' = [hand EXCEPT ![w] = [hand[w] EXCEPT !.left = @ - 1]]
  BY DEF WorkerPushes, TypeOK
<1> DEFINE x == <<w, hand[w].left>>
<1>3. x \in Pending
  BY <1>1 DEF Pending
<1>4. hand'[w] # Idle /\ hand'[w].left = hand[w].left - 1
  <2>1. hand'[w] = [hand[w] EXCEPT !.left = @ - 1]
    BY <1>2 DEF TypeOK
  <2>2. [hand[w] EXCEPT !.left = @ - 1] \in [item : Items, left : Nat]
    BY <1>1
  <2> QED BY <1>1, <2>1, <2>2, IdleAssumption
<1>5. \A v \in Workers : v # w => hand'[v] = hand[v]
  BY <1>2 DEF TypeOK
<1>6. Pending' = Pending \ {x}
  <2>1. ASSUME NEW p \in Workers \X (1 .. Room)
        PROVE  p \in Pending' <=> p \in Pending \ {x}
    <3>1. CASE p[1] # w
      BY <1>5, <3>1 DEF Pending
    <3>2. CASE p[1] = w
      BY <1>1, <1>4, <3>2 DEF Pending
    <3> QED BY <3>1, <3>2
  <2> QED BY <2>1 DEF Pending
<1> QED BY <1>3, <1>6, PendingFinite, FS_RemoveElement

\* An item taken adds what it yields.
LEMMA TakenAdds ==
  ASSUME TypeOK, NEW w \in Workers, NEW n \in PlaceCounts \cup 0 .. 1, WorkerTakes(w, n)
  PROVE  Cardinality(Pending)' \in Nat /\ Cardinality(Pending)' <= Cardinality(Pending) + n
<1>1. n \in Nat /\ n <= Room
  BY BoundsAssumption, PlacesAssumption, CapacityAssumption DEF Room
<1> DEFINE more == {w} \X (1 .. n)
<1>2. IsFiniteSet(more) /\ Cardinality(more) = n
  <2>1. IsFiniteSet(1 .. n) /\ Cardinality(1 .. n) = n
    BY <1>1, FS_Interval
  <2>2. IsFiniteSet({w}) /\ Cardinality({w}) = 1
    BY FS_Singleton
  <2> QED BY <1>1, <2>1, <2>2, FS_Product
<1>3. Pending' \subseteq Pending \cup more
  <2>1. \A v \in Workers : v # w => hand'[v] = hand[v]
    BY DEF WorkerTakes, TypeOK
  <2>2. hand'[w].left = n
    BY DEF WorkerTakes, TypeOK
  <2>3. ASSUME NEW p \in Pending' PROVE p \in Pending \cup more
    BY <1>1, <2>1, <2>2 DEF Pending
  <2> QED BY <2>3
<1>4. /\ IsFiniteSet(Pending \cup more)
      /\ Cardinality(Pending \cup more) = Cardinality(Pending) + n - Cardinality(Pending \cap more)
  BY <1>2, PendingFinite, FS_Union
<1>5. Cardinality(Pending \cap more) \in Nat
  BY <1>2, FS_Intersection, FS_CardinalityType
<1>6. IsFiniteSet(Pending') /\ Cardinality(Pending') <= Cardinality(Pending \cup more)
  BY <1>3, <1>4, FS_Subset
<1>7. Cardinality(Pending') \in Nat /\ Cardinality(Pending) \in Nat
  BY <1>6, PendingFinite, FS_CardinalityType
<1>8. Cardinality(Pending)' = Cardinality(Pending')
  OBVIOUS
<1> HIDE DEF more
<1> QED BY <1>1, <1>4, <1>5, <1>6, <1>7, <1>8

-----------------------------------------------------------------------------
(* Every step keeps the load within the room                                *)

SupplyInv == HandInv /\ OriginInv /\ LoadInv

LEMMA InitSupply == Init => SupplyInv
<1> SUFFICES ASSUME Init PROVE SupplyInv
  OBVIOUS
<1>1. TypeOK
  BY InitIInv DEF IInv
<1>2. \A c \in Cycles : ItemsOf(c) = {}
  BY DEF Init, ItemsOf, Elems
<1>3. \A w \in Workers : hand[w] = Idle
  BY DEF Init
<1>4. \A c \in Cycles : c # work.prov
  BY DEF Init, NoWork, Cycles
<1> QED BY <1>2, <1>3, <1>4 DEF SupplyInv, HandInv, OriginInv, LoadInv

\* The manager goes on to the next provider only with empty hands.
LEMMA HandStep ==
  ASSUME TypeOK, AtMostOneScraper, HandInv, [Next]_vars
  PROVE  HandInv'
<1>1. CASE CycleStarts
  <2>1. \A w \in Workers : hand[w] = Idle
    <3>1. cycle > 0 => cycle \in Cycles
      BY BoundsAssumption DEF TypeOK, Cycles
    <3> QED BY <1>1, <3>1 DEF CycleStarts, HandInv, AtMostOneScraper
  <2> QED BY <1>1, <2>1 DEF CycleStarts, HandInv
<1>2. CASE CreateApp \/ Restart
  BY <1>2 DEF CreateApp, Restart, HandInv, TypeOK, provider
<1>3. CASE ScraperDone \/ (\E err \in BOOLEAN : ScraperExits(err)) \/ Shutdown
  <2>1. Drops
    BY <1>3 DEF ScraperDone, ScraperExits, Shutdown
  <2> QED BY <2>1 DEF Drops, HandInv
<1>4. ASSUME NEW w \in Workers, WorkerStep(w) PROVE HandInv'
  <2>1. UNCHANGED <<cycle, app>>
    BY <1>4 DEF WorkerStep, WorkerTake, WorkerTakes, WorkerPushes, WorkerEnds, control
  <2>2. \A v \in Workers \ {w} : hand'[v] = hand[v]
    BY <1>4 DEF WorkerStep, WorkerTake, WorkerTakes, WorkerPushes, WorkerEnds, TypeOK
  <2>3. hand[w] # Idle \/ (cycle > 0 /\ app[cycle] = "running")
    BY <1>4 DEF WorkerStep, WorkerTake, WorkerTakes, WorkerPushes, WorkerEnds
  <2> QED BY <2>1, <2>2, <2>3 DEF HandInv
<1>5. CASE UNCHANGED <<cycle, app, hand>>
  BY <1>5 DEF HandInv
<1>6. \/ ManagerStep \/ (\E w \in Workers : WorkerStep(w))
      \/ UNCHANGED <<cycle, app, hand>>
  BY DEF Next, vars, control, ProviderStep, RunTakes, RunPuts, WorkStep, RegisterJob, GetProvider,
         Submit, Completes, GivesUp, JobDone, Signals, Step
<1> QED BY <1>1, <1>2, <1>3, <1>4, <1>5, <1>6 DEF ManagerStep

\* Work has nothing anywhere when it does not wait.
LEMMA NothingWaits ==
  ASSUME OriginInv, timedOut = {}, work.pc # "waiting"
  PROVE  /\ \A c \in Cycles : ItemsOf(c) = {}
         /\ \A w \in Workers : hand[w] = Idle
BY DEF OriginInv

LEMMA ManagerSupply ==
  ASSUME TypeOK, AtMostOneScraper, SupplyInv, ManagerStep
  PROVE  OriginInv' /\ LoadInv'
<1>1. UNCHANGED <<inChan, moving, jobChan, work, timedOut>>
  BY DEF ManagerStep, CycleStarts, CreateApp, Restart, ScraperDone, ScraperExits, Shutdown, provider
<1>2. \A c \in Cycles : ItemsOf(c)' = ItemsOf(c) /\ Size(c)' = Size(c)
  BY <1>1 DEF ItemsOf, Size, Moving
<1>3. CASE UNCHANGED <<hand, cycle>>
  <2>1. Pending' = Pending
    BY <1>3 DEF Pending
  <2> QED BY <1>1, <1>2, <1>3, <2>1 DEF SupplyInv, OriginInv, LoadInv
<1>4. CASE \A w \in Workers : hand'[w] = Idle
  <2>1. Pending' = {} /\ Cardinality(Pending)' = 0
    BY <1>4, FS_EmptySet DEF Pending
  <2>2. OriginInv'
    BY <1>1, <1>2, <1>4 DEF SupplyInv, OriginInv
  <2>3. LoadInv'
    <3> SUFFICES ASSUME timedOut = {}, NEW c \in Cycles, c = work.prov
                 PROVE  \/ Size(c)' = 1 /\ Pending' = {}
                        \/ /\ \A x \in ItemsOf(c)' : x.kind # "root"
                           /\ Size(c)' + Cardinality(Pending)' <= Room
      BY <1>1 DEF LoadInv
    <3>1. Size(c) \in Nat /\ Cardinality(Pending) \in Nat /\ Room \in Nat
      BY SizeFacts, PendingFinite, CapacityAssumption DEF Room
    <3>2. CASE Size(c) = 1
      BY <1>2, <2>1, <3>2
    <3>3. CASE /\ \A x \in ItemsOf(c) : x.kind # "root"
               /\ Size(c) + Cardinality(Pending) <= Room
      <4>1. Size(c)' + Cardinality(Pending)' <= Room
        BY <1>2, <2>1, <3>1, <3>3
      <4> QED BY <1>2, <3>3, <4>1
    <3> QED BY <3>2, <3>3 DEF SupplyInv, LoadInv
  <2> QED BY <2>2, <2>3
<1>5. \/ UNCHANGED <<hand, cycle>>
      \/ \A w \in Workers : hand'[w] = Idle
  <2>1. CASE CycleStarts
    BY <2>1, BoundsAssumption
       DEF CycleStarts, SupplyInv, HandInv, AtMostOneScraper, TypeOK, Cycles
  <2>2. CASE CreateApp \/ Restart
    BY <2>2 DEF CreateApp, Restart
  <2>3. CASE ScraperDone \/ (\E err \in BOOLEAN : ScraperExits(err)) \/ Shutdown
    BY <2>3 DEF ScraperDone, ScraperExits, Shutdown, Drops
  <2> QED BY <2>1, <2>2, <2>3 DEF ManagerStep
<1> QED BY <1>3, <1>4, <1>5

LEMMA ProviderSupply ==
  ASSUME TypeOK, SupplyInv, NEW c \in Cycles, ProviderStep(c)
  PROVE  OriginInv' /\ LoadInv'
<1>1. UNCHANGED <<cycle, hand, work, timedOut>>
  BY DEF ProviderStep, RunTakes, RunPuts, control
<1>2. \A d \in Cycles : ItemsOf(d)' \subseteq ItemsOf(d) /\ Size(d)' = Size(d)
  BY ProviderMoves
<1>3. Pending' = Pending
  BY <1>1 DEF Pending
<1>4. OriginInv'
  BY <1>1, <1>2 DEF SupplyInv, OriginInv
<1>5. LoadInv'
  BY <1>1, <1>2, <1>3 DEF SupplyInv, LoadInv
<1> QED BY <1>4, <1>5

\* A root is taken alone and finds no more than the room; a place finds one job at
\* most and leaves its own room.
LEMMA TakeSupply ==
  ASSUME TypeOK, SupplyInv, NEW w \in Workers,
         NEW n \in PlaceCounts \cup 0 .. 1, WorkerTakes(w, n)
  PROVE  OriginInv' /\ LoadInv'
<1> DEFINE h == Head(jobChan[cycle])
<1>1. UNCHANGED <<cycle, work, timedOut>> /\ n \in Finds(h.kind)
  BY DEF WorkerTakes, control
<1>2. /\ cycle \in Cycles /\ h \in ItemsOf(cycle)
      /\ \A d \in Cycles : /\ ItemsOf(d)' \subseteq ItemsOf(d)
                           /\ Size(d)' = IF d = cycle THEN Size(d) - 1 ELSE Size(d)
  <2>1. cycle \in Cycles
    BY BoundsAssumption DEF Cycles, WorkerTakes, TypeOK
  <2> QED BY <2>1, WorkerTakesOne
<1>3. /\ hand'[w] = [item |-> h, left |-> n]
      /\ \A v \in Workers \ {w} : hand'[v] = hand[v]
  BY DEF WorkerTakes, TypeOK
<1>4. n \in Nat /\ n <= Room /\ Room \in Nat
  BY BoundsAssumption, PlacesAssumption, CapacityAssumption DEF Room
<1> HIDE DEF h
<1>5. timedOut = {} => work.pc = "waiting" /\ cycle = work.prov /\ h.root = work.root
  BY <1>2 DEF SupplyInv, OriginInv
<1>6. OriginInv'
  <2>1. hand'[w].item.root = h.root /\ hand'[w].left = n
    BY <1>3
  <2> QED BY <1>1, <1>2, <1>3, <1>4, <1>5, <2>1 DEF SupplyInv, OriginInv
<1>7. LoadInv'
  <2> SUFFICES ASSUME timedOut = {}, NEW c \in Cycles, c = work.prov
               PROVE  /\ \A x \in ItemsOf(c)' : x.kind # "root"
                      /\ Size(c)' + Cardinality(Pending)' <= Room
    BY <1>1 DEF LoadInv
  <2>1. c = cycle /\ Size(c) \in Nat /\ Size(c) # 0 /\ Size(c)' = Size(c) - 1
    BY <1>2, <1>5, SizeFacts
  <2>2. /\ Cardinality(Pending) \in Nat /\ Cardinality(Pending)' \in Nat
        /\ Cardinality(Pending)' <= Cardinality(Pending) + n
    BY PendingFinite, TakenAdds
  <2>3. CASE Size(c) = 1 /\ Pending = {}
    <3>1. Cardinality(Pending) = 0
      BY <2>3, FS_EmptySet
    <3>2. ItemsOf(c)' = {}
      <4>1. Size(c)' = 0
        BY <2>1, <2>3
      <4>2. TypeOK'
        BY WorkerStepType DEF WorkerStep, WorkerTake
      <4> QED BY <4>1, <4>2, SizeFactsNext
    <3>3. Size(c)' + Cardinality(Pending)' <= Room
      BY <1>4, <2>1, <2>2, <2>3, <3>1
    <3> QED BY <3>2, <3>3
  <2>4. CASE /\ \A x \in ItemsOf(c) : x.kind # "root"
             /\ Size(c) + Cardinality(Pending) <= Room
    <3>1. n \in 0 .. 1
      BY <1>1, <1>2, <2>1, <2>4 DEF Finds
    <3>2. Size(c)' + Cardinality(Pending)' <= Room
      BY <1>4, <2>1, <2>2, <2>4, <3>1
    <3> QED BY <1>2, <2>4, <3>2
  <2> QED BY <2>3, <2>4 DEF SupplyInv, LoadInv
<1> QED BY <1>6, <1>7

LEMMA PushSupply ==
  ASSUME TypeOK, SupplyInv, NEW w \in Workers, WorkerPushes(w)
  PROVE  OriginInv' /\ LoadInv'
<1> DEFINE item == [kind |-> Child(hand[w].item.kind), root |-> hand[w].item.root]
<1>1. hand[w] \in [item : Items, left : Nat] /\ hand[w] # Idle /\ cycle \in 0 .. MaxCycles
  BY DEF WorkerPushes, TypeOK
<1>2. item \in Items /\ item.kind # "root" /\ item.root = hand[w].item.root
  BY <1>1 DEF Items, Child, Kinds
<1> HIDE DEF item
<1>3. /\ Enqueue(cycle, item) /\ UNCHANGED <<moving, jobChan, cycle, work, timedOut>>
      /\ hand' = [hand EXCEPT ![w] = [hand[w] EXCEPT !.left = @ - 1]]
  BY DEF WorkerPushes, TypeOK, control, item
<1>4. \A d \in Cycles :
        /\ d # cycle => ItemsOf(d)' = ItemsOf(d) /\ Size(d)' = Size(d)
        /\ d = cycle => ItemsOf(d)' \subseteq ItemsOf(d) \cup {item} /\ Size(d)' = Size(d) + 1
  BY <1>1, <1>2, <1>3, EnqueueAdds
<1>5. /\ hand'[w].item = hand[w].item /\ hand'[w].left = hand[w].left - 1
      /\ \A v \in Workers \ {w} : hand'[v] = hand[v]
  <2>1. hand'[w] = [hand[w] EXCEPT !.left = @ - 1]
    BY <1>3 DEF TypeOK
  <2> QED BY <1>1, <1>3, <2>1 DEF TypeOK
<1>6. /\ cycle > 0
      /\ timedOut = {} => /\ work.pc = "waiting" /\ cycle = work.prov
                          /\ hand[w].item.root = work.root /\ hand[w].left <= Room
  BY <1>1 DEF SupplyInv, HandInv, OriginInv
<1>7. OriginInv'
  <2> SUFFICES ASSUME timedOut = {} PROVE OriginInv'
    BY <1>3 DEF OriginInv
  <2>1. Room \in Nat /\ hand[w].left \in Nat
    BY <1>1, CapacityAssumption DEF Room
  <2>2. hand'[w].left <= Room
    BY <1>5, <1>6, <2>1
  <2>3. \A v \in Workers : hand'[v] # Idle =>
          work.pc = "waiting" /\ cycle = work.prov /\ hand'[v].item.root = work.root /\ hand'[v].left <= Room
    BY <1>5, <1>6, <2>2 DEF SupplyInv, OriginInv
  <2>4. \A c \in Cycles : /\ ItemsOf(c)' # {} => work.pc = "waiting" /\ c = work.prov
                          /\ \A x \in ItemsOf(c)' : x.root = work.root
    BY <1>2, <1>4, <1>6 DEF SupplyInv, OriginInv
  <2> QED BY <1>3, <2>3, <2>4 DEF OriginInv
<1>8. LoadInv'
  <2> SUFFICES ASSUME timedOut = {}, NEW c \in Cycles, c = work.prov
               PROVE  /\ \A x \in ItemsOf(c)' : x.kind # "root"
                      /\ Size(c)' + Cardinality(Pending)' <= Room
    BY <1>3 DEF LoadInv
  <2>1. c = cycle
    BY <1>6
  <2>2. Cardinality(Pending)' = Cardinality(Pending) - 1 /\ Pending # {}
    BY <1>6, PushedLess
  <2>3. /\ \A x \in ItemsOf(c) : x.kind # "root"
        /\ Size(c) + Cardinality(Pending) <= Room
    BY <2>2 DEF SupplyInv, LoadInv
  <2>4. Size(c) \in Nat /\ Cardinality(Pending) \in Nat /\ Room \in Nat
    BY SizeFacts, PendingFinite, CapacityAssumption DEF Room
  <2>5. Size(c)' + Cardinality(Pending)' <= Room
    BY <1>4, <2>1, <2>2, <2>3, <2>4
  <2> QED BY <1>2, <1>4, <2>1, <2>3, <2>5
<1> QED BY <1>7, <1>8

LEMMA EndSupply ==
  ASSUME TypeOK, SupplyInv, NEW w \in Workers, WorkerEnds(w)
  PROVE  OriginInv' /\ LoadInv'
<1>1. /\ UNCHANGED <<cycle, inChan, moving, jobChan, work, timedOut>>
      /\ hand[w] # Idle /\ hand[w].left = 0 /\ hand'[w] = Idle
      /\ \A v \in Workers \ {w} : hand'[v] = hand[v]
  BY DEF WorkerEnds, TypeOK, control, provider
<1>2. \A c \in Cycles : ItemsOf(c)' = ItemsOf(c) /\ Size(c)' = Size(c)
  BY <1>1 DEF ItemsOf, Size, Moving
<1>3. Pending' = Pending
  <2>1. \A p \in Workers \X (1 .. Room) : p \in Pending' <=> p \in Pending
    BY <1>1 DEF Pending
  <2> QED BY <2>1 DEF Pending
<1>4. OriginInv'
  BY <1>1, <1>2 DEF SupplyInv, OriginInv
<1>5. LoadInv'
  BY <1>1, <1>2, <1>3 DEF SupplyInv, LoadInv
<1> QED BY <1>4, <1>5

\* Work submits a root only when nothing of an earlier one is left, as the exit
\* monitor lets it return only then.
LEMMA WorkSupply ==
  ASSUME TypeOK, SupplyInv, WorkStep
  PROVE  OriginInv' /\ LoadInv'
<1>1. UNCHANGED <<cycle, moving, jobChan, hand>>
  BY DEF WorkStep, RegisterJob, GetProvider, Submit, Completes, GivesUp, JobDone, Signals, Step
<1>2. CASE GivesUp
  <2>1. timedOut' # {}
    BY <1>2 DEF GivesUp
  <2> QED BY <2>1 DEF OriginInv, LoadInv
<1>3. CASE timedOut # {} /\ timedOut' = timedOut
  BY <1>3 DEF OriginInv, LoadInv
<1>4. CASE /\ \A c \in Cycles : ItemsOf(c) = {}
           /\ \A w \in Workers : hand[w] = Idle
           /\ UNCHANGED inChan
  <2>1. \A c \in Cycles : ItemsOf(c)' = {} /\ Size(c)' = Size(c)
    BY <1>1, <1>4 DEF ItemsOf, Size, Moving
  <2>2. \A c \in Cycles : Size(c)' = 0
    BY <1>4, <2>1, SizeFacts
  <2>3. \A w \in Workers : hand'[w] = Idle
    BY <1>1, <1>4
  <2>4. Cardinality(Pending)' = 0
    BY <2>3, FS_EmptySet DEF Pending
  <2>5. 0 + 0 <= Room
    BY CapacityAssumption DEF Room
  <2> QED BY <2>1, <2>2, <2>3, <2>4, <2>5 DEF OriginInv, LoadInv
<1>5. CASE timedOut = {} /\ Submit
  <2> DEFINE item == [kind |-> "root", root |-> work.root]
  <2>1. /\ work.pc = "submitting" /\ work' = [work EXCEPT !.pc = "waiting"]
        /\ timedOut' = timedOut /\ Enqueue(work.prov, item)
    BY <1>5 DEF Submit, Step
  <2>2. /\ work.root \in Roots /\ work.prov \in 0 .. MaxCycles
        /\ work'.pc = "waiting" /\ work'.prov = work.prov /\ work'.root = work.root
    BY <2>1 DEF TypeOK
  <2>3. item \in Items /\ item.root = work.root
    BY <2>2 DEF Items, Kinds
  <2> HIDE DEF item
  <2>4. /\ \A c \in Cycles : ItemsOf(c) = {}
        /\ \A w \in Workers : hand[w] = Idle
    BY <1>5, <2>1, NothingWaits DEF SupplyInv
  <2>5. \A d \in Cycles :
          /\ d # work.prov => ItemsOf(d)' = ItemsOf(d)
          /\ d = work.prov => ItemsOf(d)' \subseteq ItemsOf(d) \cup {item} /\ Size(d)' = Size(d) + 1
    BY <1>1, <2>1, <2>2, <2>3, EnqueueAdds
  <2>6. \A w \in Workers : hand'[w] = Idle
    BY <1>1, <2>4
  <2>7. OriginInv'
    BY <2>2, <2>3, <2>4, <2>5, <2>6 DEF OriginInv
  <2>8. \A c \in Cycles : Size(c) = 0
    BY <2>4, SizeFacts
  <2>9. Pending' = {}
    BY <2>6 DEF Pending
  <2>10. LoadInv'
    BY <2>2, <2>5, <2>8, <2>9 DEF LoadInv
  <2> QED BY <2>7, <2>10
<1>6. CASE timedOut = {} /\ Completes
  <2>1. /\ ~InProvider(work.prov, work.root) /\ ~InHand(work.prov, work.root)
        /\ UNCHANGED inChan
    BY <1>6 DEF Completes
  <2>2. \A c \in Cycles : ItemsOf(c) = {}
    <3> SUFFICES ASSUME NEW c \in Cycles, NEW x \in ItemsOf(c) PROVE FALSE
      OBVIOUS
    <3>1. c = work.prov /\ x.root = work.root
      BY <1>6 DEF SupplyInv, OriginInv
    <3> QED BY <2>1, <3>1 DEF InProvider, ItemsOf, Elems
  <2>3. \A w \in Workers : hand[w] = Idle
    BY <1>6, <2>1 DEF SupplyInv, HandInv, OriginInv, InHand
  <2> QED BY <1>4, <2>1, <2>2, <2>3
<1>7. CASE timedOut = {} /\ (RegisterJob \/ GetProvider \/ JobDone \/ Signals)
  <2>1. work.pc # "waiting" /\ UNCHANGED inChan
    BY <1>7 DEF RegisterJob, GetProvider, JobDone, Signals, Step
  <2> QED BY <1>4, <1>7, <2>1, NothingWaits DEF SupplyInv
<1>8. GivesUp \/ timedOut' = timedOut
  BY DEF WorkStep, RegisterJob, GetProvider, Submit, Completes, JobDone, Signals
<1> QED BY <1>2, <1>3, <1>5, <1>6, <1>7, <1>8 DEF WorkStep

LEMMA SupplyStep ==
  ASSUME TypeOK, AtMostOneScraper, SupplyInv, [Next]_vars
  PROVE  SupplyInv'
<1>1. HandInv'
  BY HandStep DEF SupplyInv
<1>2. CASE UNCHANGED vars
  <2>1. \A c \in Cycles : ItemsOf(c)' = ItemsOf(c) /\ Size(c)' = Size(c)
    BY <1>2 DEF vars, provider, ItemsOf, Size, Moving
  <2>2. Pending' = Pending
    BY <1>2 DEF vars, Pending
  <2> QED BY <1>1, <1>2, <2>1, <2>2 DEF vars, control, SupplyInv, OriginInv, LoadInv
<1>3. ASSUME NEW w \in Workers, WorkerStep(w) PROVE OriginInv' /\ LoadInv'
  BY <1>3, TakeSupply, PushSupply, EndSupply DEF WorkerStep, WorkerTake
<1>4. CASE Next
  <2>1. CASE ManagerStep
    BY <1>1, <2>1, ManagerSupply DEF SupplyInv
  <2>2. ASSUME NEW c \in Cycles, ProviderStep(c) PROVE OriginInv' /\ LoadInv'
    BY <2>2, ProviderSupply
  <2>3. CASE WorkStep
    BY <1>1, <2>3, WorkSupply DEF SupplyInv
  <2> QED BY <1>1, <1>3, <1>4, <2>1, <2>2, <2>3 DEF Next, SupplyInv
<1> QED BY <1>1, <1>2, <1>4 DEF SupplyInv

\* scrapemate's workers can block each other for good only when a root was given
\* up: otherwise the jobs in the provider and those in hand are together no more
\* than it holds.
THEOREM NotWedged == Spec => []WedgedOnlyAfterTimeout
<1>1. IInv /\ SupplyInv => WedgedOnlyAfterTimeout
  <2> SUFFICES ASSUME TypeOK, SupplyInv, Wedged, timedOut = {} PROVE FALSE
    BY DEF IInv, WedgedOnlyAfterTimeout
  <2>1. 1 \in Workers
    BY ManagerAssumption DEF Workers
  <2>2. hand[1] # Idle /\ hand[1].left > 0 /\ hand[1].left \in Nat
    BY <2>1 DEF Wedged, TypeOK
  <2>3. cycle = work.prov /\ cycle \in Cycles
    BY <2>1, <2>2, BoundsAssumption DEF SupplyInv, OriginInv, Wedged, TypeOK, Cycles
  <2>4. Room \in Nat /\ Room >= 1
    BY CapacityAssumption DEF Room
  <2>5. <<1, 1>> \in Pending
    BY <2>1, <2>2, <2>4 DEF Pending
  <2>6. Cardinality(Pending) \in Nat /\ Cardinality(Pending) # 0
    BY <2>5, PendingFinite, FS_EmptySet
  <2>7. Size(cycle) + Cardinality(Pending) <= Room
    BY <2>3, <2>5 DEF SupplyInv, LoadInv
  <2>8. inChan[cycle] \in Seq(Items) /\ jobChan[cycle] \in Seq(Items)
    BY <2>3 DEF TypeOK
  <2>9. /\ Len(inChan[cycle]) >= InCap /\ moving[cycle] # Idle
        /\ Len(jobChan[cycle]) = JobCap
    BY <2>8, CapacityAssumption DEF Wedged, HasRoom
  <2>10. Moving(cycle) = 1
    BY <2>9 DEF Moving
  <2>11. Size(cycle) = Len(inChan[cycle]) + 1 + JobCap
    BY <2>9, <2>10 DEF Size
  <2>12. Len(inChan[cycle]) \in Nat
    BY <2>8
  <2> QED BY <2>6, <2>7, <2>8, <2>9, <2>11, <2>12, CapacityAssumption DEF Room
<1>2. IInv /\ SupplyInv /\ [Next]_vars => SupplyInv'
  BY SupplyStep DEF IInv
<1> QED BY <1>1, <1>2, InitSupply, Invariance, PTL DEF Spec

=============================================================================
