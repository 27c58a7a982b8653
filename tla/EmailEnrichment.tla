-------------------------- MODULE EmailEnrichment --------------------------
(***************************************************************************)
(* Emails in the web runner: the CSVLiveWriter of the job being scraped     *)
(* stores each place and hands it to the EmailEnricher, a pool of workers   *)
(* with a bounded queue that all jobs share (web/csvlive_writer.go,          *)
(* web/emailenricher.go); when the scrape is over the run waits for its     *)
(* tasks and rewrites the CSV file from the rows (webrunner.go,             *)
(* web/materialize_csv.go).                                                 *)
(*                                                                         *)
(* The emails of a row and its email_status are one value: a row has emails *)
(* when its status is "done".  The queue has no order: with several workers *)
(* tasks end in any order.                                                  *)
(***************************************************************************)
EXTENDS Integers, FiniteSets

CONSTANTS
  Jobs,       \* jobs that want emails, run one at a time
  Places,     \* place keys
  Emissions,  \* bound: the entries of the scrapes, <<job, place, occurrence>>
  QueueCap,   \* capacity of the queue
  Workers     \* number of workers

ASSUME JobsAssumption == IsFiniteSet(Jobs)
ASSUME PlacesAssumption == IsFiniteSet(Places)
ASSUME EmissionsAssumption == IsFiniteSet(Emissions) /\ Emissions \subseteq Jobs \X Places \X Nat
ASSUME CapAssumption == QueueCap \in Nat
ASSUME PoolAssumption == Workers \in Nat \ {0}

VARIABLES
  phase,    \* scrapeJob's progress for each job
  drained,  \* jobs whose WaitForJob returned because nothing was pending
  task,     \* progress of each emission of a place by a job
  row,      \* email_status of job_results
  csv,      \* the rows the job's CSV file was rewritten from
  pending,  \* the enricher's counter of each job
  down      \* the context of the process is cancelled

vars == <<phase, drained, task, row, csv, pending, down>>

JobOf(t) == t[1]
Place(t) == t[2]

Statuses == {"pending", "done", "empty", "failed", "skipped"}
NoRows == [p \in Places |-> "absent"]

In(states) == {t \in Emissions : task[t] \in states}
Of(j, T) == {t \in T : JobOf(t) = j}

\* Between the increment of the counter and its decrement.
Counting == {"counted", "queued", "taken", "saved", "unsaved"}
InWorker == {"taken", "saved", "unsaved"}
InWriter == {"upserted", "counted"}

Advance(t, state) == task' = [task EXCEPT ![t] = state]

----------------------------------------------------------------------------
(* CSVLiveWriter.Run, for one entry at a time.                              *)

\* The web runner scrapes one job at a time.
ScrapeStarts(j) ==
  /\ phase[j] = "waiting"
  /\ \A k \in Jobs : phase[k] \in {"waiting", "ok", "failed"}
  /\ ~down
  /\ phase' = [phase EXCEPT ![j] = "scraping"]
  /\ UNCHANGED <<drained, task, row, csv, pending, down>>

\* The upsert keeps the email columns of a row that exists.
Stored(j, p, initial) == IF row[j][p] = "absent" THEN [row EXCEPT ![j][p] = initial] ELSE row

\* initial is the entry's initialEmailStatus (never "done": no job of the web
\* runner's scrape fetches emails); only a pending one is handed over.
UpsertJobResult(t, initial) ==
  /\ phase[JobOf(t)] = "scraping"
  /\ task[t] = "new"
  /\ In(InWriter) = {}
  /\ row' = Stored(JobOf(t), Place(t), initial)
  /\ Advance(t, IF initial = "pending" THEN "upserted" ELSE "finished")
  /\ UNCHANGED <<phase, drained, csv, pending, down>>

\* An error of the upsert ends the writer, the scrape and the run.
UpsertFails(j) ==
  /\ phase[j] = "scraping"
  /\ In(InWriter) = {}
  /\ phase' = [phase EXCEPT ![j] = "failed"]
  /\ UNCHANGED <<drained, task, row, csv, pending, down>>

----------------------------------------------------------------------------
(* EmailEnricher.                                                           *)

\* Submit increments the counter ...
SubmitCounts(t) ==
  /\ task[t] = "upserted"
  /\ pending' = [pending EXCEPT ![JobOf(t)] = @ + 1]
  /\ Advance(t, "counted")
  /\ UNCHANGED <<phase, drained, row, csv, down>>

\* Mutant: the counter keeps the task that was refused.
SubmitForgets(t) ==
  /\ task[t] = "counted"
  /\ Advance(t, IF Cardinality(In({"queued"})) < QueueCap THEN "queued" ELSE "refused")
  /\ UNCHANGED <<phase, drained, row, csv, pending, down>>

\* ... and sends the task, or reverts the counter if the queue is full.
SubmitSends(t) ==
  /\ task[t] = "counted"
  /\ IF Cardinality(In({"queued"})) < QueueCap
       THEN Advance(t, "queued") /\ UNCHANGED pending
       ELSE Advance(t, "refused") /\ pending' = [pending EXCEPT ![JobOf(t)] = @ - 1]
  /\ UNCHANGED <<phase, drained, row, csv, down>>

WorkerTakes(t) ==
  /\ task[t] = "queued"
  /\ Cardinality(In(InWorker)) < Workers
  /\ Advance(t, "taken")
  /\ UNCHANGED <<phase, drained, row, csv, pending, down>>

\* Mutant: nothing is recorded when the fetch failed.
PersistFetched(t, status, ok) ==
  /\ task[t] = "taken"
  /\ ok => ~down
  /\ row' = IF ok /\ status # "failed" THEN [row EXCEPT ![JobOf(t)][Place(t)] = status] ELSE row
  /\ Advance(t, IF ok THEN "saved" ELSE "unsaved")
  /\ UNCHANGED <<phase, drained, csv, pending, down>>

\* process: the website was fetched; what was found is recorded, whatever the row
\* says, unless the update fails (as it does once the context is cancelled).
Persist(t, status, ok) ==
  /\ task[t] = "taken"
  /\ ok => ~down
  /\ row' = IF ok THEN [row EXCEPT ![JobOf(t)][Place(t)] = status] ELSE row
  /\ Advance(t, IF ok THEN "saved" ELSE "unsaved")
  /\ UNCHANGED <<phase, drained, csv, pending, down>>

\* Mutant: the counter is decremented by a worker that ends well only.
DecrementsSaved(t) ==
  /\ task[t] = "saved"
  /\ pending' = [pending EXCEPT ![JobOf(t)] = @ - 1]
  /\ Advance(t, "finished")
  /\ UNCHANGED <<phase, drained, row, csv, down>>

\* The deferred decrement of process.
Decrements(t) ==
  /\ task[t] \in {"saved", "unsaved"}
  /\ pending' = [pending EXCEPT ![JobOf(t)] = @ - 1]
  /\ Advance(t, IF task[t] = "saved" THEN "finished" ELSE "dropped")
  /\ UNCHANGED <<phase, drained, row, csv, down>>

----------------------------------------------------------------------------
(* scrapeJob after the scrape.                                              *)

\* mate.Start returns when its writer has returned.
ScrapeEnds(j) ==
  /\ phase[j] = "scraping"
  /\ In(InWriter) = {}
  /\ phase' = [phase EXCEPT ![j] = "draining"]
  /\ UNCHANGED <<drained, task, row, csv, pending, down>>

\* Mutant: the wait looks at the queue, not at the counter.
NoneQueued(j) == Of(j, In({"queued"})) = {}

NonePending(j) == pending[j] = 0

WaitForJob(j) ==
  /\ phase[j] = "draining"
  /\ NonePending(j)
  /\ phase' = [phase EXCEPT ![j] = "drained"]
  /\ drained' = drained \cup {j}
  /\ UNCHANGED <<task, row, csv, pending, down>>

\* The deadline or the end of the context.
WaitForJobGivesUp(j) ==
  /\ phase[j] = "draining"
  /\ phase' = [phase EXCEPT ![j] = "drained"]
  /\ UNCHANGED <<drained, task, row, csv, pending, down>>

\* The file is written from the rows if there are any.  An error is only logged.
MaterializeJobCSV(j, ok) ==
  /\ phase[j] = "drained"
  /\ ok => ~down
  /\ csv' = IF ok THEN [csv EXCEPT ![j] = row[j]] ELSE csv
  /\ phase' = [phase EXCEPT ![j] = "materialized"]
  /\ UNCHANGED <<drained, task, row, pending, down>>

\* The final update of the job's status.
RunEnds(j, ok) ==
  /\ phase[j] = "materialized"
  /\ ok => ~down
  /\ phase' = [phase EXCEPT ![j] = IF ok THEN "ok" ELSE "failed"]
  /\ UNCHANGED <<drained, task, row, csv, pending, down>>

\* The process is told to stop; Close lets the workers run the queue down.
Shutdown ==
  /\ ~down
  /\ down' = TRUE
  /\ UNCHANGED <<phase, drained, task, row, csv, pending>>

----------------------------------------------------------------------------
Init ==
  /\ phase = [j \in Jobs |-> "waiting"]
  /\ drained = {}
  /\ task = [t \in Emissions |-> "new"]
  /\ row = [j \in Jobs |-> NoRows]
  /\ csv = [j \in Jobs |-> NoRows]
  /\ pending = [j \in Jobs |-> 0]
  /\ down = FALSE

SubmitStep(t) == SubmitCounts(t) \/ SubmitSends(t)

WorkerStep(t) ==
  \/ WorkerTakes(t)
  \/ \E status \in {"done", "empty", "failed"}, ok \in BOOLEAN : Persist(t, status, ok)
  \/ Decrements(t)

DrainStep(j) ==
  \/ WaitForJob(j)
  \/ WaitForJobGivesUp(j)
  \/ \E ok \in BOOLEAN : MaterializeJobCSV(j, ok) \/ RunEnds(j, ok)

Next ==
  \/ \E j \in Jobs : ScrapeStarts(j) \/ UpsertFails(j) \/ ScrapeEnds(j) \/ DrainStep(j)
  \/ \E t \in Emissions :
       \/ \E initial \in {"pending", "skipped"} : UpsertJobResult(t, initial)
       \/ SubmitStep(t)
       \/ WorkerStep(t)
  \/ Shutdown

\* The scrape ends by its own timeout; a fetch, an update and the wait for the
\* job's tasks are all bounded.
Fairness ==
  /\ \A j \in Jobs : WF_vars(ScrapeEnds(j)) /\ WF_vars(DrainStep(j))
  /\ WF_vars(\E t \in Emissions : SubmitStep(t))
  /\ WF_vars(\E t \in Emissions : WorkerStep(t))

Spec == Init /\ [][Next]_vars /\ Fairness

----------------------------------------------------------------------------
\* Type invariant: the queue and the pool keep to their sizes.
TypeOK ==
  /\ phase \in [Jobs -> {"waiting", "scraping", "draining", "drained", "materialized", "ok", "failed"}]
  /\ drained \subseteq Jobs
  /\ task \in [Emissions -> {"new", "upserted", "refused", "finished", "dropped"} \cup Counting]
  /\ row \in [Jobs -> [Places -> Statuses \cup {"absent"}]]
  /\ csv \in [Jobs -> [Places -> Statuses \cup {"absent"}]]
  /\ pending \in [Jobs -> Nat]
  /\ down \in BOOLEAN
  /\ Cardinality(In({"queued"})) <= QueueCap
  /\ Cardinality(In(InWorker)) <= Workers

\* The counter of a job is the number of its tasks between Submit's increment and
\* the end of process, however Submit and the workers interleave: it never goes
\* below zero and never keeps a run waiting for a task that was refused.
CounterExact == \A j \in Jobs : pending[j] = Cardinality(Of(j, In(Counting)))

\* When the wait ended because nothing was pending, no worker has anything left
\* to write for the job: the CSV file has every email its rows will ever have.
DrainedFileIsFinal == \A j \in drained : csv[j] \in {NoRows, row[j]}

\* A row stays "pending" only while a task for it is on its way, or because the
\* queue was full or the update failed.
PendingIsAccountedFor ==
  \A j \in Jobs, p \in Places : row[j][p] = "pending" =>
    \E t \in Of(j, In({"upserted", "counted", "queued", "taken", "refused", "unsaved", "dropped"})) :
      Place(t) = p

\* Every task that was accepted is processed, through the end of its job and
\* shutdown, so that Close returns.
PoolDrains == []<>(In(Counting) = {})

=============================================================================
