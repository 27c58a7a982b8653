---------------------------- MODULE ScraperManager ----------------------------
(***************************************************************************)
(* The scraper of a worker process: ScraperManager restarts the scrapemate  *)
(* application after a number of jobs (scraper/scraper.go), each time with a *)
(* new Provider, the FIFO that takes the root job of every attempt and the   *)
(* jobs its scrape finds (scraper/provider.go).  ScrapeWorker.Work submits   *)
(* one root at a time, gives it up after its timeout, and tells the manager  *)
(* that it is done.  What Work does with results is module ScrapeWorker.     *)
(***************************************************************************)
EXTENDS Integers, FiniteSets, Sequences

CONSTANTS
  NumJobs,      \* bound: attempts, executed one after the other
  MaxJobs,      \* maxJobs of the manager
  MaxCycles,    \* bound: cycles
  Concurrency,  \* workers of the scrapemate application
  InCap,        \* capacity of inChan
  JobCap,       \* capacity of jobChan
  PlaceCounts,  \* the numbers of places a root may find
  Idle          \* no item

Roots == 1 .. NumJobs
Cycles == 1 .. MaxCycles
Workers == 1 .. Concurrency
Kinds == {"root", "place", "email"}
Items == [kind : Kinds, root : Roots]

ASSUME BoundsAssumption == NumJobs \in Nat /\ MaxCycles \in Nat /\ PlaceCounts \subseteq Nat
ASSUME ManagerAssumption == MaxJobs \in Nat \ {0} /\ Concurrency \in Nat \ {0}
ASSUME CapacityAssumption == InCap \in Nat \ {0} /\ JobCap \in Nat \ {0}
\* A search shows about 120 places, inChan alone holds 128 per worker.
ASSUME PlacesAssumption == \A n \in PlaceCounts : n <= InCap + 1 + JobCap
ASSUME IdleAssumption == Idle \notin Items /\ Idle \notin [item : Items, left : Nat]

VARIABLES
  manager,   \* ScraperManager.Run
  cycle,     \* the provider in m.provider; 0: nil
  jobCount,  \* m.jobCount
  token,     \* restartChan (capacity 1) holds a token
  app,       \* the application of each cycle
  inChan,    \* inChan of each provider
  moving,    \* the item Provider.run has taken from inChan
  jobChan,   \* jobChan of each provider
  hand,      \* per scrapemate worker: its item and how many it has yet to push
  work,      \* ScrapeWorker.Work
  timedOut,  \* roots that were given up
  lost       \* roots of which a stopped application dropped an item

control == <<manager, cycle, jobCount, token>>
provider == <<inChan, moving, jobChan>>
vars == <<control, app, provider, hand, work, timedOut, lost>>

Alive == manager \notin {"failed", "stopped"}
NoWork == [pc |-> "idle", root |-> 0, prov |-> 0, count |-> 0]

----------------------------------------------------------------------------
(* Provider *)

\* Mutant: inChan is made without a buffer.
HasRoomShort(c) == inChan[c] = <<>> /\ moving[c] = Idle

HasRoom(c) == Len(inChan[c]) < InCap

\* enqueue: blocks while inChan is full; no provider is ever closed.
Enqueue(c, item) ==
  /\ HasRoom(c)
  /\ inChan' = [inChan EXCEPT ![c] = Append(@, item)]

\* run: one item at a time from inChan to jobChan, also of a replaced provider.
RunTakes(c) ==
  /\ Alive
  /\ moving[c] = Idle
  /\ inChan[c] # <<>>
  /\ moving' = [moving EXCEPT ![c] = Head(inChan[c])]
  /\ inChan' = [inChan EXCEPT ![c] = Tail(@)]
  /\ UNCHANGED <<control, app, jobChan, hand, work, timedOut, lost>>

RunPuts(c) ==
  /\ Alive
  /\ moving[c] # Idle
  /\ Len(jobChan[c]) < JobCap
  /\ jobChan' = [jobChan EXCEPT ![c] = Append(@, moving[c])]
  /\ moving' = [moving EXCEPT ![c] = Idle]
  /\ UNCHANGED <<control, app, inChan, hand, work, timedOut, lost>>

----------------------------------------------------------------------------
(* ScraperManager *)

\* runCycle: the new provider and the counter, under the lock.
CycleStarts ==
  /\ manager = "loop"
  /\ cycle < MaxCycles
  /\ cycle' = cycle + 1
  /\ jobCount' = 0
  /\ manager' = "creating"
  /\ UNCHANGED <<token, app, provider, hand, work, timedOut, lost>>

CreateApp ==
  /\ manager = "creating"
  /\ \/ manager' = "running" /\ app' = [app EXCEPT ![cycle] = "running"]
     \/ manager' = "failed" /\ UNCHANGED app
  /\ UNCHANGED <<cycle, jobCount, token, provider, hand, work, timedOut, lost>>

\* The workers of an application that ends drop what they have in hand.
Drops ==
  /\ hand' = [w \in Workers |-> Idle]
  /\ lost' = lost \cup {hand[w].item.root : w \in {v \in Workers : hand[v] # Idle}}

\* Mutant: a new cycle is started without waiting for scraperDone.
RestartAtOnce ==
  /\ manager = "running"
  /\ token
  /\ token' = FALSE
  /\ manager' = "loop"
  /\ UNCHANGED <<cycle, jobCount, app, provider, hand, work, timedOut, lost>>

\* The token is received and cycleCancel called.
Restart ==
  /\ manager = "running"
  /\ token
  /\ token' = FALSE
  /\ manager' = "stopping"
  /\ UNCHANGED <<cycle, jobCount, app, provider, hand, work, timedOut, lost>>

\* Mutant: the end of the application is not waited for with its context cancelled.
NeverDone == FALSE /\ UNCHANGED vars

\* app.Start returns after the cancellation.
ScraperDone ==
  /\ manager = "stopping"
  /\ manager' = "loop"
  /\ app' = [app EXCEPT ![cycle] = "ended"]
  /\ Drops
  /\ UNCHANGED <<cycle, jobCount, token, provider, work, timedOut>>

\* app.Start returns, or panics, on its own: an error ends the worker process.
ScraperExits(err) ==
  /\ manager = "running"
  /\ manager' = IF err THEN "failed" ELSE "loop"
  /\ app' = [app EXCEPT ![cycle] = "ended"]
  /\ Drops
  /\ UNCHANGED <<cycle, jobCount, token, provider, work, timedOut>>

Shutdown ==
  /\ Alive
  /\ manager' = "stopped"
  /\ app' = [c \in Cycles |-> IF app[c] = "running" THEN "ended" ELSE app[c]]
  /\ Drops
  /\ UNCHANGED <<cycle, jobCount, token, provider, work, timedOut>>

----------------------------------------------------------------------------
(* scrapemate's workers: external, as jobs and their children need them.    *)

Child(kind) == IF kind = "root" THEN "place" ELSE "email"
Finds(kind) == CASE kind = "root" -> PlaceCounts [] kind = "place" -> 0 .. 1 [] OTHER -> {0}

\* A job is taken and processed: it yields n further jobs.
WorkerTakes(w, n) ==
  /\ cycle > 0
  /\ app[cycle] = "running"
  /\ hand[w] = Idle
  /\ jobChan[cycle] # <<>>
  /\ n \in Finds(Head(jobChan[cycle]).kind)
  /\ hand' = [hand EXCEPT ![w] = [item |-> Head(jobChan[cycle]), left |-> n]]
  /\ jobChan' = [jobChan EXCEPT ![cycle] = Tail(@)]
  /\ UNCHANGED <<control, app, inChan, moving, work, timedOut, lost>>

\* They are pushed one by one, by the worker itself.
WorkerPushes(w) ==
  /\ hand[w] # Idle
  /\ hand[w].left > 0
  /\ Enqueue(cycle, [kind |-> Child(hand[w].item.kind), root |-> hand[w].item.root])
  /\ hand' = [hand EXCEPT ![w].left = @ - 1]
  /\ UNCHANGED <<control, app, moving, jobChan, work, timedOut, lost>>

WorkerEnds(w) ==
  /\ hand[w] # Idle
  /\ hand[w].left = 0
  /\ hand' = [hand EXCEPT ![w] = Idle]
  /\ UNCHANGED <<control, app, provider, work, timedOut, lost>>

----------------------------------------------------------------------------
(* ScrapeWorker.Work as the manager sees it.                                *)

Step(from, w) ==
  /\ Alive
  /\ work.pc = from
  /\ work' = w
  /\ UNCHANGED <<manager, cycle, app, moving, jobChan, hand>>

\* The next attempt is registered with the central writer.
RegisterJob ==
  /\ work.root < NumJobs
  /\ Step("idle", [work EXCEPT !.pc = "registered", !.root = @ + 1])
  /\ UNCHANGED <<jobCount, token, inChan, timedOut, lost>>

\* SubmitJob: getProvider...
GetProvider ==
  /\ cycle > 0
  /\ Step("registered", [work EXCEPT !.pc = "submitting", !.prov = cycle])
  /\ UNCHANGED <<jobCount, token, inChan, timedOut, lost>>

\* ... and Submit, on whatever provider was read.
Submit ==
  /\ Step("submitting", [work EXCEPT !.pc = "waiting"])
  /\ Enqueue(work.prov, [kind |-> "root", root |-> work.root])
  /\ UNCHANGED <<jobCount, token, timedOut, lost>>

InHand(c, r) == app[c] = "running" /\ \E w \in Workers : hand[w] # Idle /\ hand[w].item.root = r
InProvider(c, r) ==
  \/ \E i \in DOMAIN inChan[c] : inChan[c][i].root = r
  \/ moving[c] # Idle /\ moving[c].root = r
  \/ \E i \in DOMAIN jobChan[c] : jobChan[c][i].root = r

\* Every job of the tree has been processed: the exit monitor cancels.
Completes ==
  /\ Step("waiting", [work EXCEPT !.pc = "returning"])
  /\ ~InProvider(work.prov, work.root) /\ ~InHand(work.prov, work.root)
  /\ work.root \notin lost
  /\ UNCHANGED <<jobCount, token, inChan, timedOut, lost>>

\* The timer or the context ends the wait for a provider, for room or for results.
GivesUp ==
  /\ work.pc \in {"registered", "submitting", "waiting"}
  /\ Step(work.pc, [work EXCEPT !.pc = "returning"])
  /\ timedOut' = timedOut \cup {work.root}
  /\ UNCHANGED <<jobCount, token, inChan, lost>>

\* JobDone, deferred: the counter...
JobDone ==
  /\ Step("returning", [work EXCEPT !.pc = "counted", !.count = jobCount + 1])
  /\ jobCount' = jobCount + 1
  /\ UNCHANGED <<token, inChan, timedOut, lost>>

\* Mutant: one job late.
SignalsLate ==
  /\ Step("counted", [work EXCEPT !.pc = "idle"])
  /\ token' = (token \/ work.count > MaxJobs)
  /\ UNCHANGED <<jobCount, inChan, timedOut, lost>>

\* ... and the token, from the value the counter had.
Signals ==
  /\ Step("counted", [work EXCEPT !.pc = "idle"])
  /\ token' = (token \/ work.count >= MaxJobs)
  /\ UNCHANGED <<jobCount, inChan, timedOut, lost>>

----------------------------------------------------------------------------
Init ==
  /\ manager = "loop" /\ cycle = 0 /\ jobCount = 0 /\ token = FALSE
  /\ app = [c \in Cycles |-> "none"]
  /\ inChan = [c \in Cycles |-> <<>>]
  /\ moving = [c \in Cycles |-> Idle]
  /\ jobChan = [c \in Cycles |-> <<>>]
  /\ hand = [w \in Workers |-> Idle]
  /\ work = NoWork
  /\ timedOut = {} /\ lost = {}

ManagerStep ==
  \/ CycleStarts \/ CreateApp \/ Restart \/ ScraperDone
  \/ (\E err \in BOOLEAN : ScraperExits(err)) \/ Shutdown

ProviderStep(c) == RunTakes(c) \/ RunPuts(c)
WorkerTake(w) == \E n \in PlaceCounts \cup 0 .. 1 : WorkerTakes(w, n)
WorkerStep(w) == WorkerTake(w) \/ WorkerPushes(w) \/ WorkerEnds(w)
WorkStep ==
  \/ RegisterJob \/ GetProvider \/ Submit \/ Completes \/ GivesUp \/ JobDone \/ Signals

Next ==
  \/ ManagerStep
  \/ \E c \in Cycles : ProviderStep(c)
  \/ \E w \in Workers : WorkerStep(w)
  \/ WorkStep

\* The manager's loop runs and an application whose context is cancelled ends.
\* Work runs to its end, by its timer at the latest.
Fairness ==
  /\ WF_vars(CycleStarts) /\ WF_vars(CreateApp) /\ WF_vars(Restart) /\ WF_vars(ScraperDone)
  /\ WF_vars(GivesUp) /\ WF_vars(JobDone) /\ WF_vars(Signals)

Spec == Init /\ [][Next]_vars /\ Fairness

----------------------------------------------------------------------------
\* Type invariant.
TypeOK ==
  /\ manager \in {"loop", "creating", "running", "stopping", "failed", "stopped"}
  /\ cycle \in 0 .. MaxCycles
  /\ jobCount \in Nat
  /\ token \in BOOLEAN
  /\ app \in [Cycles -> {"none", "running", "ended"}]
  /\ inChan \in [Cycles -> Seq(Items)] /\ jobChan \in [Cycles -> Seq(Items)]
  /\ moving \in [Cycles -> Items \cup {Idle}]
  /\ hand \in [Workers -> [item : Items, left : Nat] \cup {Idle}]
  /\ work \in [pc : {"idle", "registered", "submitting", "waiting", "returning", "counted"},
               root : 0 .. NumJobs, prov : 0 .. MaxCycles, count : Nat]
  /\ work.pc # "idle" => work.root \in Roots
  /\ timedOut \subseteq Roots
  /\ lost \subseteq Roots

\* The central writer is driven by one application at a time, whatever the order
\* of restarts, failures and jobs: the application of a cycle has ended before
\* the next provider is published.
AtMostOneScraper ==
  \A c \in Cycles : app[c] = "running" => c = cycle /\ manager \in {"running", "stopping"}

\* Every worker is pushing and there is room nowhere.
Wedged ==
  /\ cycle > 0 /\ app[cycle] = "running"
  /\ \A w \in Workers : hand[w] # Idle /\ hand[w].left > 0
  /\ ~HasRoom(cycle) /\ moving[cycle] # Idle /\ Len(jobChan[cycle]) = JobCap

\* scrapemate's workers push the jobs they find into the queue that only they
\* empty.  The queue is large enough for the places of one search: they block
\* each other for good only when a root that was given up left its jobs there.
WedgedOnlyAfterTimeout == Wedged => timedOut # {}

\* No restart is missed: when Work has told the manager of the job that reaches
\* the limit, a token is there or the manager is between two applications,
\* although the counter and the token are two steps and the reset comes between.
NoMissedRestart ==
  jobCount >= MaxJobs /\ work.pc # "counted" => token \/ manager # "running"

\* A token is answered with a new provider, or the worker ends.
RestartsComplete ==
  \A c \in 1 .. MaxCycles - 1 : token /\ cycle = c ~> cycle > c \/ ~Alive

=============================================================================
