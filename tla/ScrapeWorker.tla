---------------------------- MODULE ScrapeWorker ----------------------------
(***************************************************************************)
(* The SaaS worker: River attempts of scrape jobs, executed one at a time   *)
(* by ScrapeWorker.Work (rqueue/rqueue.go), the CentralWriter that collects *)
(* and flushes their entries (scraper/centralwriter.go), the exit monitor   *)
(* goroutine of every attempt, the scrape_results table, and the API's      *)
(* deletion of jobs (rqueue.go DeleteJob, rqueue/jobs.go).                   *)
(*                                                                         *)
(* Every attempt of a job has the same jobID.  Its tree of scrape jobs is   *)
(* abstracted by the number of places it has yet to report: module          *)
(* ExitMonitor shows that the monitor's token means that none is left.       *)
(***************************************************************************)
EXTENDS Integers, FiniteSets

CONSTANTS
  Jobs,         \* the scrape jobs in the queue
  MaxAttempts,  \* MaxAttempts of ScrapeJobArgs
  MaxPlaces,    \* bound: places one attempt may discover
  Deletable,    \* bound: the jobs whose deletion is requested
  None          \* no attempt

ASSUME JobsAssumption == IsFiniteSet(Jobs)
ASSUME AttemptsAssumption == MaxAttempts \in Nat \ {0}
ASSUME PlacesAssumption == MaxPlaces \in Nat
ASSUME DeletableAssumption == Deletable \subseteq Jobs
ASSUME NoneAssumption == None \notin Jobs \cup Jobs \X (1 .. MaxAttempts)

VARIABLES
  river,      \* state of the job's row in river_job
  attempt,    \* attempts River has started
  cancelled,  \* jobs whose cancellation was requested while running
  promoting,  \* the retryable job the promoter has listed
  table,      \* scrape_results
  deletion,   \* progress of the API's deletion of each job
  work,       \* Work: program counter, attempt and the branch it took
  current,    \* CentralWriter.current
  flushes,    \* Flush calls between their unlock and their completion send
  completion, \* completion channel of each registration (capacity 1)
  left,       \* places the attempt's tree has yet to report
  mon         \* the attempt's exit monitor goroutine

queue == <<river, attempt, cancelled, promoting>>
database == <<table, deletion>>
writer == <<current, flushes, completion>>
scrape == <<left, mon>>
vars == <<queue, database, work, writer, scrape>>

Attempts == Jobs \X (1 .. MaxAttempts)
Job(a) == a[1]
Entries == Attempts \X (1 .. MaxPlaces)

NoRow == [saved |-> FALSE, entries |-> {}]
Row(E) == [saved |-> TRUE, entries |-> E]

Idle == [pc |-> "idle", att |-> None, why |-> "none"]
Untracked == [att |-> None, entries |-> {}]
Empty == [full |-> FALSE, ok |-> FALSE, count |-> 0]
FlushResult(ok, n) == [full |-> TRUE, ok |-> ok, count |-> n]

Final == {"completed", "cancelled", "discarded", "deleted"}

----------------------------------------------------------------------------
(* CentralWriter.                                                           *)

RegisterJob(a) == current' = [att |-> a, entries |-> {}]

Tracks(j) == current.att # None /\ Job(current.att) = j

\* An entry of a job that is not tracked is dropped.
AddResult(a, e) ==
  current' = IF Tracks(Job(a))
               THEN [current EXCEPT !.entries = @ \cup {e}] ELSE current

\* Flush up to the unlock: the caller takes the tracked job out of current.
\* MarkDone and ForceFlush are this call.
Flush(j, by) ==
  IF Tracks(j)
    THEN /\ flushes' = flushes \cup {[att |-> current.att, entries |-> current.entries, by |-> by]}
         /\ current' = Untracked
    ELSE UNCHANGED <<flushes, current>>

\* Mutant: a failed save sends no result.
FlushEndsSilently(f, ok) ==
  /\ f \in flushes
  /\ ~completion[f.att].full
  /\ table' = IF ok THEN [table EXCEPT ![Job(f.att)] = Row(f.entries)] ELSE table
  /\ completion' = IF ok THEN [completion EXCEPT ![f.att] = FlushResult(ok, Cardinality(f.entries))]
                   ELSE completion
  /\ flushes' = flushes \ {f}
  /\ work' = IF f.by = "work" THEN [work EXCEPT !.pc = "awaiting"] ELSE work
  /\ UNCHANGED <<queue, deletion, current, scrape>>

\* Mutant: the result is sent before the rows are saved, whatever the save does.
FlushReportsOk(f, ok) ==
  /\ f \in flushes
  /\ ~completion[f.att].full
  /\ table' = IF ok THEN [table EXCEPT ![Job(f.att)] = Row(f.entries)] ELSE table
  /\ completion' = [completion EXCEPT ![f.att] = FlushResult(TRUE, Cardinality(f.entries))]
  /\ flushes' = flushes \ {f}
  /\ work' = IF f.by = "work" THEN [work EXCEPT !.pc = "awaiting"] ELSE work
  /\ UNCHANGED <<queue, deletion, current, scrape>>

\* The rest of Flush: save (an upsert that may fail) and send the result.
FlushEnds(f, ok) ==
  /\ f \in flushes
  /\ ~completion[f.att].full
  /\ table' = IF ok THEN [table EXCEPT ![Job(f.att)] = Row(f.entries)] ELSE table
  /\ completion' = [completion EXCEPT ![f.att] = FlushResult(ok, Cardinality(f.entries))]
  /\ flushes' = flushes \ {f}
  /\ work' = IF f.by = "work" THEN [work EXCEPT !.pc = "awaiting"] ELSE work
  /\ UNCHANGED <<queue, deletion, current, scrape>>

----------------------------------------------------------------------------
(* The scrape of an attempt and its exit monitor.                           *)

Alive(a) == mon[a] \in {"waiting", "received", "ended"}

\* A place is reported with its entry, now or long after its attempt ended.
PlaceWritten(a) ==
  /\ Alive(a)
  /\ left[a] > 0
  /\ left' = [left EXCEPT ![a] = @ - 1]
  /\ AddResult(a, <<a, left[a]>>)
  /\ UNCHANGED <<queue, database, work, flushes, completion, mon>>

\* A place fails: it is reported without an entry.
PlaceFails(a) ==
  /\ Alive(a)
  /\ left[a] > 0
  /\ left' = [left EXCEPT ![a] = @ - 1]
  /\ UNCHANGED <<queue, database, work, writer, mon>>

\* exitCancel has been called for the attempt (or is, as Work returns).
ExitCancelled(a) == ~(work.pc = "waiting" /\ work.att = a)

MonitorReceives(a) ==
  /\ mon[a] = "waiting"
  /\ left[a] = 0
  /\ mon' = [mon EXCEPT ![a] = "received"]
  /\ UNCHANGED <<queue, database, work, writer, left>>

\* cancelFunc: MarkDone(jobID).
MonitorMarksDone(a) ==
  /\ mon[a] = "received"
  /\ mon' = [mon EXCEPT ![a] = "ended"]
  /\ Flush(Job(a), "monitor")
  /\ UNCHANGED <<queue, database, work, completion, left>>

MonitorStops(a) ==
  /\ mon[a] = "waiting"
  /\ ExitCancelled(a)
  /\ mon' = [mon EXCEPT ![a] = "ended"]
  /\ UNCHANGED <<queue, database, work, writer, left>>

----------------------------------------------------------------------------
(* ScrapeWorker.Work.                                                       *)

\* River starts an attempt; Work registers it first of all.
Fetch(j) ==
  LET a == <<j, attempt[j] + 1>>
  IN  /\ work = Idle
      /\ river[j] = "available"
      /\ attempt[j] < MaxAttempts
      /\ river' = [river EXCEPT ![j] = "running"]
      /\ attempt' = [attempt EXCEPT ![j] = @ + 1]
      /\ work' = [pc |-> "registered", att |-> a, why |-> "none"]
      /\ RegisterJob(a)
      /\ UNCHANGED <<cancelled, promoting, database, flushes, completion, scrape>>

\* The root job is submitted and the exit monitor started; n places will be found.
SubmitJob(n) ==
  /\ work.pc = "registered"
  /\ work' = [work EXCEPT !.pc = "waiting"]
  /\ left' = [left EXCEPT ![work.att] = n]
  /\ mon' = [mon EXCEPT ![work.att] = "waiting"]
  /\ UNCHANGED <<queue, database, writer>>

\* Work calls ForceFlush and then waits for the flush result.
ForceFlush(why) ==
  /\ Flush(Job(work.att), "work")
  /\ work' = [work EXCEPT !.pc = IF Tracks(Job(work.att)) THEN "flushing" ELSE "awaiting",
                          !.why = why]
  /\ UNCHANGED <<queue, database, completion, scrape>>

SubmitFails == work.pc = "registered" /\ ForceFlush("submit")
TimerFires == work.pc = "waiting" /\ ForceFlush("timer")
CtxDone(why) == work.pc = "waiting" /\ ForceFlush(why)

\* What River makes of the attempt Work returns from.
Outcome(j, nil) ==
  CASE river[j] # "running" -> river[j]
    [] nil -> "completed"
    [] j \in cancelled -> "cancelled"
    [] attempt[j] < MaxAttempts -> "retryable"
    [] OTHER -> "discarded"

Return(nil) ==
  LET j == Job(work.att)
  IN  /\ completion[work.att].full
      /\ completion' = [completion EXCEPT ![work.att] = Empty]
      /\ river' = [river EXCEPT ![j] = Outcome(j, nil)]
      /\ work' = Idle
      /\ UNCHANGED <<attempt, cancelled, promoting, database, current, flushes, scrape>>

\* The completion channel delivers before the timer and the context.
WorkCompletes == work.pc = "waiting" /\ Return(completion[work.att].ok)

\* Mutant: an attempt that timed out is a success even without results.
TimeoutIsSuccess == work.why \in {"timer", "deadline"}

\* A flush forced by a timeout is a success if it saved any result.
PartialSuccess ==
  /\ work.why \in {"timer", "deadline"}
  /\ completion[work.att].count > 0

WorkFlushed ==
  work.pc = "awaiting" /\ Return(completion[work.att].ok /\ PartialSuccess)

----------------------------------------------------------------------------
(* River outside Work, and the worker process.                              *)

\* The fallback delay of NextRetryAt is over.
RetryDue(j) ==
  /\ river[j] = "retryable"
  /\ river' = [river EXCEPT ![j] = "available"]
  /\ UNCHANGED <<attempt, cancelled, promoting, database, work, writer, scrape>>

\* promoteRetryableJobs: the list...
PromoteLists(j) ==
  /\ promoting = None
  /\ river[j] = "retryable"
  /\ promoting' = j
  /\ UNCHANGED <<river, attempt, cancelled, database, work, writer, scrape>>

\* ... and the retry of what was listed, whatever it has become.  Bound: River
\* would grant one attempt more to a job that has used all of its attempts.
PromoteRetries(j) ==
  /\ promoting = j
  /\ promoting' = None
  /\ river' = [river EXCEPT ![j] =
                 IF @ \in {"retryable", "completed", "cancelled", "discarded"}
                    /\ attempt[j] < MaxAttempts
                   THEN "available" ELSE @]
  /\ UNCHANGED <<attempt, cancelled, database, work, writer, scrape>>

\* The worker process dies, and is started again, with all it has in memory.
Crash ==
  /\ work # Idle
  /\ work' = Idle
  /\ current' = Untracked
  /\ flushes' = {}
  /\ completion' = [a \in Attempts |-> Empty]
  /\ mon' = [a \in Attempts |-> IF mon[a] = "none" THEN "none" ELSE "dead"]
  /\ UNCHANGED <<queue, database, left>>

Executes(j) == work # Idle /\ Job(work.att) = j

\* River rescues a job that is running nowhere (RescueStuckJobsAfter).
Rescue(j) ==
  /\ river[j] = "running"
  /\ ~Executes(j)
  /\ river' = [river EXCEPT ![j] = Outcome(j, FALSE)]
  /\ UNCHANGED <<attempt, cancelled, promoting, database, work, writer, scrape>>

----------------------------------------------------------------------------
(* Deletion: DeleteJob in the API, JobDeleteWorker in the maintenance queue. *)

Step(j, from, to) ==
  deletion[j] \in from /\ deletion' = [deletion EXCEPT ![j] = to]

\* JobGet reads the state that decides whether to cancel.
DeleteReads(j) ==
  /\ river[j] # "deleted"
  /\ Step(j, {"none"}, IF river[j] = "running" THEN "cancelling" ELSE "inserting")
  /\ UNCHANGED <<queue, table, work, writer, scrape>>

\* JobCancel, whose error is ignored.
DeleteCancels(j, ok) ==
  /\ Step(j, {"cancelling"}, "inserting")
  /\ cancelled' = IF ok /\ river[j] = "running" THEN cancelled \cup {j} ELSE cancelled
  /\ river' = IF ok /\ river[j] \in {"available", "retryable"}
                THEN [river EXCEPT ![j] = "cancelled"] ELSE river
  /\ UNCHANGED <<attempt, promoting, table, work, writer, scrape>>

\* The deletion job is inserted, or the request fails and may be repeated.
DeleteInserts(j, ok) ==
  /\ Step(j, {"inserting"}, IF ok THEN "queued" ELSE "none")
  /\ UNCHANGED <<queue, table, work, writer, scrape>>

\* First statement of JobDeleteWorker.Work.
DeleteResults(j) ==
  /\ Step(j, {"queued", "retrying"}, "resultsGone")
  /\ table' = [table EXCEPT ![j] = NoRow]
  /\ UNCHANGED <<queue, work, writer, scrape>>

\* Second statement.
DeleteRow(j) ==
  /\ Step(j, {"resultsGone"}, "done")
  /\ river' = [river EXCEPT ![j] = "deleted"]
  /\ UNCHANGED <<attempt, cancelled, promoting, table, work, writer, scrape>>

\* A statement fails: the worker runs again from the start, or gives up.
DeleteFails(j) ==
  /\ \/ Step(j, {"resultsGone"}, "retrying")
     \/ Step(j, {"queued", "retrying", "resultsGone"}, "gaveup")
  /\ UNCHANGED <<queue, table, work, writer, scrape>>

----------------------------------------------------------------------------
Init ==
  /\ river = [j \in Jobs |-> "available"]
  /\ attempt = [j \in Jobs |-> 0]
  /\ cancelled = {}
  /\ promoting = None
  /\ table = [j \in Jobs |-> NoRow]
  /\ deletion = [j \in Jobs |-> "none"]
  /\ work = Idle
  /\ current = Untracked
  /\ flushes = {}
  /\ completion = [a \in Attempts |-> Empty]
  /\ left = [a \in Attempts |-> 0]
  /\ mon = [a \in Attempts |-> "none"]

FlushStep == \E f \in flushes, ok \in BOOLEAN : FlushEnds(f, ok)
SubmitStep == SubmitFails \/ \E n \in 0 .. MaxPlaces : SubmitJob(n)

WorkStep ==
  \/ SubmitStep
  \/ TimerFires
  \/ \E why \in {"deadline", "cancel"} : CtxDone(why)
  \/ WorkCompletes
  \/ WorkFlushed

ScrapeStep(a) ==
  \/ PlaceWritten(a)
  \/ PlaceFails(a)
  \/ MonitorReceives(a)
  \/ MonitorMarksDone(a)
  \/ MonitorStops(a)

RiverStep(j) == Fetch(j) \/ RetryDue(j) \/ PromoteLists(j) \/ PromoteRetries(j) \/ Rescue(j)

DeletionStep(j) ==
  \/ DeleteReads(j)
  \/ \E ok \in BOOLEAN : DeleteCancels(j, ok) \/ DeleteInserts(j, ok)
  \/ DeleteResults(j)
  \/ DeleteRow(j)
  \/ DeleteFails(j)

Next ==
  \/ WorkStep
  \/ FlushStep
  \/ \E a \in Attempts : ScrapeStep(a)
  \/ \E j \in Jobs : RiverStep(j)
  \/ \E j \in Deletable : DeletionStep(j)
  \/ Crash

\* Work is called and runs to its end, its timer fires, a save succeeds or times
\* out, River reschedules, rescues and retries.  Nothing is assumed of the
\* scrape, of its monitors or of the requests to delete.
Fairness ==
  /\ \A j \in Jobs : WF_vars(Fetch(j)) /\ WF_vars(RetryDue(j)) /\ WF_vars(Rescue(j))
  /\ \A j \in Jobs : WF_vars(PromoteRetries(j))
  /\ WF_vars(SubmitStep)
  /\ WF_vars(TimerFires)
  /\ WF_vars(FlushStep)
  /\ WF_vars(WorkCompletes)
  /\ WF_vars(WorkFlushed)

Spec == Init /\ [][Next]_vars /\ Fairness

----------------------------------------------------------------------------
FlushRecords == [att : Attempts, entries : SUBSET Entries, by : {"work", "monitor"}]

\* Type invariant.
TypeOK ==
  /\ river \in [Jobs -> {"available", "running", "retryable"} \cup Final]
  /\ attempt \in [Jobs -> 0 .. MaxAttempts]
  /\ cancelled \subseteq Jobs
  /\ promoting \in Jobs \cup {None}
  /\ table \in [Jobs -> [saved : BOOLEAN, entries : SUBSET Entries]]
  /\ deletion \in [Jobs -> {"none", "cancelling", "inserting", "queued",
                            "resultsGone", "retrying", "done", "gaveup"}]
  /\ work \in [pc : {"idle", "registered", "waiting", "flushing", "awaiting"},
               att : Attempts \cup {None},
               why : {"none", "submit", "timer", "deadline", "cancel"}]
  /\ current \in [att : Attempts \cup {None}, entries : SUBSET Entries]
  /\ flushes \subseteq FlushRecords
  /\ completion \in [Attempts -> [full : BOOLEAN, ok : BOOLEAN, count : Nat]]
  /\ left \in [Attempts -> 0 .. MaxPlaces]
  /\ mon \in [Attempts -> {"none", "waiting", "received", "ended", "dead"}]

\* Work and the monitors of this and of earlier attempts race to flush one
\* registration.  Exactly one of them saves it: a flush in progress belongs to the
\* attempt that Work is executing, leaves nothing tracked and finds its
\* completion channel free, so the send on it cannot block and no flush of an
\* earlier attempt can overwrite the row of a later one.
OneFlushPerRegistration ==
  \A f \in flushes :
    /\ f.att = work.att
    /\ current.att = None
    /\ ~completion[f.att].full
    /\ flushes = {f}

\* An attempt that waits for its flush result gets one: whoever took the
\* registration has sent the result or is about to.  (This is why the 90 s grace
\* of waitForFlushResult, longer than the 30 s of a save, never expires.)
AwaitedResultComes ==
  work.pc = "awaiting" =>
    completion[work.att].full \/ \E f \in flushes : f.att = work.att

\* Places of an attempt that timed out go on being scraped while other jobs
\* run: their entries reach no other job's buffer, flush or row.
NoCrossJobEntries ==
  /\ \A e \in current.entries : Job(e[1]) = Job(current.att)
  /\ \A f \in flushes : \A e \in f.entries : Job(e[1]) = Job(f.att)
  /\ \A j \in Jobs : \A e \in table[j].entries : Job(e[1]) = j

Deleting(j) == deletion[j] \in {"resultsGone", "retrying", "done", "gaveup"}

\* River shows a job as completed only when its results are saved.
CompletedHasRow ==
  \A j \in Jobs : river[j] = "completed" /\ ~Deleting(j) => table[j].saved

\* A completed job whose row is empty had an attempt that reported every place
\* it found: no timeout, failed submission or crash passes for a search that
\* ended.  A seed that could not be fetched is such a search: it reports that it
\* is done with no place (gmaps/job.go, Process).
EmptyMeansAllReported ==
  \A j \in Jobs :
    river[j] = "completed" /\ ~Deleting(j) /\ table[j].entries = {} =>
      \E a \in Attempts : Job(a) = j /\ mon[a] # "none" /\ left[a] = 0

\* Every job ends, whatever its scrape, the worker process and the deletion do.
EventuallySettled == \A j \in Jobs : <>[](river[j] \in Final)

\* What the comments say of deletion ("deletes the job and its associated
\* results", JobDeleteWorker.Work): a job that is gone has no results.
DeletedJobLeavesNoResults ==
  \A j \in Jobs : river[j] = "deleted" => table[j] = NoRow

=============================================================================
