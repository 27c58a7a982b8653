------------------------------ MODULE JobListing ------------------------------
(***************************************************************************)
(* The scrape jobs of the SaaS server as its pages and its API see them:     *)
(* jobs are inserted, listed page by page with a cursor, polled by a client   *)
(* and deleted (admin/handlers_jobs.go, api/api.go, rqueue/rqueue.go).  A      *)
(* deletion is a River job of its own (rqueue/jobs.go), executed while the    *)
(* handler that queues deletions is still reading pages and while workers      *)
(* scrape.  What a worker does with results is module ScrapeWorker.            *)
(***************************************************************************)
EXTENDS Integers, FiniteSets

CONSTANTS
  NumJobs,      \* bound: jobs inserted; River's ids increase
  Batches,     \* requests that delete jobs
  Deleters,     \* MaxWorkers of QueueMaintenance
  Polled,       \* bound: the jobs the client asks for
  Filters,      \* the states one may filter by; "" for none
  PageSize,     \* pageSize
  MaxPages,     \* maxPages
  MaxAttempts   \* MaxAttempts of JobDeleteArgs

Jobs == 1 .. NumJobs
Attempts == 1 .. MaxAttempts
\* "available" stands for the states that GetJobStatus calls pending, "failed"
\* for cancelled and discarded.
JobStates == {"available", "running", "completed", "failed"}

ASSUME NumbersAssumption ==
  /\ NumJobs \in Nat \ {0} /\ PageSize \in Nat \ {0}
  /\ MaxPages \in Nat \ {0} /\ MaxAttempts \in Nat \ {0}
ASSUME FiltersAssumption == Filters \subseteq JobStates \cup {""} /\ Polled \subseteq Jobs

VARIABLES
  state,      \* river_job.state of each job; "none": not inserted, "gone": deleted
  cancelled,  \* running jobs whose cancellation was requested
  scraping,   \* jobs a worker executes
  results,    \* jobs with a row in scrape_results
  deletions,  \* job_delete jobs that wait, by job and attempt
  deleter,    \* JobDeleteWorker.Work
  batch,    \* the deletion requests
  client,     \* an API client that polls a job
  matching,   \* history: jobs that matched the filter since the request began
  queuedBy,   \* history: how often each request queued the deletion of a job
  givenUp,    \* history: jobs whose deletion used up its attempts
  removed     \* history: polled jobs whose results a deletion or the cleanup removed

scrapes == <<state, cancelled, scraping, results>>
maintenance == <<deletions, deleter, givenUp, removed>>
listingVars == <<scrapes, maintenance, batch, client, matching, queuedBy>>

Exists(j) == state[j] \in JobStates
Least(S) == CHOOSE i \in S : \A j \in S : i <= j
Greatest(S) == CHOOSE i \in S : \A j \in S : i >= j

----------------------------------------------------------------------------
(* Jobs: InsertJob, and their execution by River and the workers.           *)

InsertJob(j) ==
  /\ state[j] = "none"
  /\ \A i \in Jobs : i < j => state[i] # "none"
  /\ state' = [state EXCEPT ![j] = "available"]
  /\ UNCHANGED <<cancelled, scraping, results, maintenance, batch, client, queuedBy>>

Execute(j) ==
  /\ state[j] = "available" /\ j \notin scraping
  /\ state' = [state EXCEPT ![j] = "running"]
  /\ scraping' = scraping \cup {j}
  /\ UNCHANGED <<cancelled, results, maintenance, batch, client, queuedBy>>

\* An attempt ends.  A completed one has saved its results before River updates
\* the row, if there still is one (module ScrapeWorker; what a failed attempt may
\* have saved is left out here); a cancelled job is not retried.
AttemptEnds(j, outcome) ==
  /\ j \in scraping
  /\ j \in cancelled => outcome # "available"
  /\ scraping' = scraping \ {j}
  /\ cancelled' = cancelled \ {j}
  /\ results' = IF outcome = "completed" THEN results \cup {j} ELSE results
  /\ state' = IF state[j] = "running" THEN [state EXCEPT ![j] = outcome] ELSE state
  /\ UNCHANGED <<maintenance, batch, client, queuedBy>>

----------------------------------------------------------------------------
(* ListJobs and queueDeleteAllFiltered                                      *)

Matches(filter, j) == Exists(j) /\ (filter = "" \/ state[j] = filter)

\* JobList: the first jobs after the cursor, by id.
Page(filter, cursor) ==
  LET rest == {j \in Jobs : j > cursor /\ Matches(filter, j)}
  IN  {j \in rest : Cardinality({i \in rest : i < j}) < PageSize}

\* Mutants: a full page is taken for the last one; the cursor is inclusive.
HasMoreStrict(page) == Cardinality(page) > PageSize
NextCursorBefore(page) == Greatest(page) - 1

HasMore(page) == Cardinality(page) = PageSize
NextCursor(page) == Greatest(page)

NoBatch == [pc |-> "idle", all |-> FALSE, filter |-> "", page |-> 0, cursor |-> 0,
              todo |-> {}, more |-> FALSE]

Continue(r, from, to) ==
  /\ batch[r].pc = from
  /\ batch' = [batch EXCEPT ![r] = to]

BatchAt(r, pc) == [batch[r] EXCEPT !.pc = pc]

Ended(r, pc) == [NoBatch EXCEPT !.pc = pc, !.all = batch[r].all, !.filter = batch[r].filter]

\* DeleteAllFilteredJobsHandler.
DeleteAll(r, filter) ==
  /\ Continue(r, "idle", [NoBatch EXCEPT !.pc = "list", !.all = TRUE, !.filter = filter])
  /\ UNCHANGED <<scrapes, maintenance, client, queuedBy>>

\* BatchDeleteJobsHandler, DeleteJobHandler and deleteJobHandler, with ids that
\* a list showed before.
BatchDelete(r, ids) ==
  /\ ids # {} /\ \A j \in ids : state[j] # "none"
  /\ Continue(r, "idle", [NoBatch EXCEPT !.pc = "delete", !.todo = ids])
  /\ UNCHANGED <<scrapes, maintenance, client, queuedBy>>

ListPage(r, err) ==
  LET q == batch[r]
      page == Page(q.filter, q.cursor)
  IN  /\ Continue(r, "list",
           IF err \/ q.page = MaxPages THEN Ended(r, "failed")
           ELSE IF page = {} THEN Ended(r, "ok")
           ELSE [q EXCEPT !.pc = "delete", !.page = @ + 1, !.todo = page,
                          !.more = HasMore(page), !.cursor = NextCursor(page)])
      /\ UNCHANGED <<scrapes, maintenance, client, queuedBy>>

\* DeleteJob: JobGet...
GetJob(r, err) ==
  LET j == Least(batch[r].todo)
  IN  /\ Continue(r, "delete",
           IF err \/ ~Exists(j) THEN Ended(r, "failed")
           ELSE BatchAt(r, IF state[j] = "running" THEN "cancel" ELSE "insert"))
      /\ UNCHANGED <<scrapes, maintenance, client, queuedBy>>

\* ... JobCancel of a job that was running, whose error is ignored...
CancelJob(r, err) ==
  LET j == Least(batch[r].todo)
  IN  /\ Continue(r, "cancel", BatchAt(r, "insert"))
      /\ cancelled' = IF ~err /\ state[j] = "running" THEN cancelled \cup {j} ELSE cancelled
      /\ state' = IF ~err /\ state[j] = "available"
                  THEN [state EXCEPT ![j] = "failed"] ELSE state
      /\ UNCHANGED <<scraping, results, maintenance, client, queuedBy>>

\* ... and the job_delete job; then the next job, the next page or the answer.
InsertDeletion(r, err) ==
  LET q == batch[r]
      j == Least(q.todo)
      rest == q.todo \ {j}
  IN  /\ Continue(r, "insert",
           IF err THEN Ended(r, "failed")
           ELSE IF rest = {} /\ ~q.more THEN Ended(r, "ok")
           ELSE [q EXCEPT !.todo = rest, !.pc = IF rest = {} THEN "list" ELSE "delete"])
      /\ IF err THEN UNCHANGED <<deletions, queuedBy>>
                ELSE /\ deletions' = [deletions EXCEPT ![<<j, 1>>] = @ + 1]
                     /\ queuedBy' = [queuedBy EXCEPT ![r][j] = @ + 1]
      /\ UNCHANGED <<scrapes, deleter, givenUp, removed, client>>

----------------------------------------------------------------------------
(* JobDeleteWorker                                                          *)

NoDeletion == [pc |-> "idle", job |-> 0, attempt |-> 0]

StartDeletion(d, j, n) ==
  /\ deleter[d] = NoDeletion
  /\ deletions[<<j, n>>] > 0
  /\ deletions' = [deletions EXCEPT ![<<j, n>>] = @ - 1]
  /\ deleter' = [deleter EXCEPT ![d] = [pc |-> "results", job |-> j, attempt |-> n]]
  /\ UNCHANGED <<scrapes, batch, client, queuedBy, givenUp, removed>>

DeleteResults(d) ==
  /\ deleter[d].pc = "results"
  /\ deleter' = [deleter EXCEPT ![d].pc = "row"]
  /\ results' = results \ {deleter[d].job}
  /\ removed' = removed \cup ({deleter[d].job} \cap Polled)
  /\ UNCHANGED <<state, cancelled, scraping, deletions, givenUp, batch, client, queuedBy>>

DeleteRow(d) ==
  /\ deleter[d].pc = "row"
  /\ deleter' = [deleter EXCEPT ![d] = NoDeletion]
  /\ state' = [state EXCEPT ![deleter[d].job] = "gone"]
  /\ UNCHANGED <<cancelled, scraping, results, deletions, givenUp, removed, batch, client, queuedBy>>

\* Mutant: the error is logged and the deletion ends.
DeletionForgotten(d) ==
  /\ deleter[d] # NoDeletion
  /\ deleter' = [deleter EXCEPT ![d] = NoDeletion]
  /\ UNCHANGED <<scrapes, deletions, givenUp, removed, batch, client, queuedBy>>

\* CleanupWorker removes the results of the jobs that completed 30 days ago or more;
\* any set of completed jobs may be that old.  (Its other two statements are in
\* module AdminAccess.)
CleanResults(old) ==
  /\ old # {} /\ \A j \in old : state[j] = "completed"
  /\ results' = results \ old
  /\ removed' = removed \cup (old \cap Polled)
  /\ UNCHANGED <<state, cancelled, scraping, deletions, deleter, givenUp, batch, client, queuedBy>>

\* An error, or the death of the server (River rescues the job): the deletion is
\* retried from its start, or discarded after its last attempt.
DeletionFails(d) ==
  LET x == deleter[d]
  IN  /\ x # NoDeletion
      /\ deleter' = [deleter EXCEPT ![d] = NoDeletion]
      /\ IF x.attempt < MaxAttempts
           THEN deletions' = [deletions EXCEPT ![<<x.job, x.attempt + 1>>] = @ + 1] /\ UNCHANGED givenUp
           ELSE givenUp' = givenUp \cup {x.job} /\ UNCHANGED deletions
      /\ UNCHANGED <<scrapes, removed, batch, client, queuedBy>>

----------------------------------------------------------------------------
(* GetJobStatus                                                             *)

NoPoll == [pc |-> "idle", job |-> 0, status |-> "", found |-> FALSE, unread |-> FALSE]

AskStatus(j) ==
  /\ client.pc = "idle"
  /\ state[j] # "none"
  /\ client' = [NoPoll EXCEPT !.pc = "get", !.job = j]
  /\ UNCHANGED <<scrapes, maintenance, batch, queuedBy>>

\* Mutant: the results are read first and the job after them.
ReadResultsFirst ==
  /\ \/ /\ client.pc = "get"
        /\ client' = [client EXCEPT !.pc = "between", !.found = client.job \in results]
     \/ /\ client.pc = "between"
        /\ client' = [client EXCEPT !.pc = "answer", !.status = state[client.job]]
  /\ UNCHANGED <<scrapes, maintenance, batch, queuedBy>>

\* JobGet: its answer, but for a completed job...
ReadState ==
  /\ client.pc = "get"
  /\ client' = [client EXCEPT !.status = state[client.job],
                              !.pc = IF state[client.job] = "completed" THEN "results" ELSE "answer"]
  /\ UNCHANGED <<scrapes, maintenance, batch, queuedBy>>

\* ... whose results are read.  An error of the read is dropped: the answer is
\* "completed" without results then.
ReadResults(err) ==
  /\ client.pc = "results"
  /\ client' = [client EXCEPT !.pc = "answer", !.found = ~err /\ client.job \in results,
                              !.unread = err]
  /\ UNCHANGED <<scrapes, maintenance, batch, queuedBy>>

Answer ==
  /\ client.pc = "answer"
  /\ client' = NoPoll
  /\ UNCHANGED <<scrapes, maintenance, batch, queuedBy>>

----------------------------------------------------------------------------
ListingInit ==
  /\ state = [j \in Jobs |-> "none"]
  /\ cancelled = {} /\ scraping = {} /\ results = {}
  /\ deletions = [x \in Jobs \X Attempts |-> 0]
  /\ deleter = [d \in Deleters |-> NoDeletion]
  /\ batch = [r \in Batches |-> NoBatch]
  /\ client = NoPoll
  /\ matching = [r \in Batches |-> {}]
  /\ queuedBy = [r \in Batches |-> [j \in Jobs |-> 0]]
  /\ givenUp = {} /\ removed = {}

JobStep(j) ==
  \/ InsertJob(j)
  \/ Execute(j)
  \/ \E outcome \in {"completed", "failed", "available"} : AttemptEnds(j, outcome)

BatchStep(r) ==
  \/ \E filter \in Filters : DeleteAll(r, filter)
  \/ \E ids \in SUBSET Jobs : BatchDelete(r, ids)
  \/ \E err \in BOOLEAN :
       ListPage(r, err) \/ GetJob(r, err) \/ CancelJob(r, err) \/ InsertDeletion(r, err)

DeletionStep(d) ==
  \/ \E j \in Jobs, n \in Attempts : StartDeletion(d, j, n)
  \/ DeleteResults(d) \/ DeleteRow(d) \/ DeletionFails(d)

ClientStep ==
  \/ \E j \in Polled : AskStatus(j)
  \/ ReadState
  \/ \E err \in BOOLEAN : ReadResults(err)
  \/ Answer

\* The history of what matched from the start of a request to its end.
Track ==
  matching' = [r \in Batches |->
    {j \in IF batch[r].pc = "idle" THEN Jobs ELSE matching[r] :
       /\ batch'[r].all
       /\ state'[j] \in JobStates
       /\ batch'[r].filter \in {"", state'[j]}}]

ListingNext ==
  /\ \/ \E j \in Jobs : JobStep(j)
     \/ \E r \in Batches : BatchStep(r)
     \/ \E d \in Deleters : DeletionStep(d)
     \/ \E old \in SUBSET Jobs : CleanResults(old)
     \/ ClientStep
  /\ Track

ListingSpec == ListingInit /\ [][ListingNext]_listingVars

----------------------------------------------------------------------------
\* A request that deletes all filtered jobs and says that it succeeded has queued
\* the deletion of every job that matched from its start to its end, although
\* jobs were inserted, executed and deleted between its pages.
AllMatchingQueued ==
  \A r \in Batches :
    batch[r].all /\ batch[r].pc = "ok" => \A j \in matching[r] : queuedBy[r][j] > 0

\* ... and has queued none of them twice.
QueuedOnce == \A r \in Batches, j \in Jobs : queuedBy[r][j] <= 1

\* A client is told that a job is completed without being given its results only
\* when they could not be read, or a deletion or the cleanup of old results removed
\* them: its two reads see an older and a newer state.
CompletedWithResults ==
  client.pc = "answer" /\ client.status = "completed" =>
    client.found \/ client.unread \/ client.job \in removed

\* A job whose deletion was queued is deleted, or its deletion waits or is being
\* executed, or every attempt of one has failed.
NoDeletionForgotten ==
  \A r \in Batches, j \in Jobs : queuedBy[r][j] > 0 =>
    \/ state[j] = "gone"
    \/ j \in givenUp
    \/ \E n \in Attempts : deletions[<<j, n>>] > 0
    \/ \E d \in Deleters : deleter[d].job = j

=============================================================================
