# Google Maps scraper: specifications and proofs

TLA+ modules of the control logic of this repository, TLC configurations that
check them on small instances, and TLAPS proofs of their safety properties for
every instance. Paths below are relative to `src/`.

| module | models | checked by | proved in |
|---|---|---|---|
| `ExitMonitor` | one scrape: tree of jobs, `exiter`, result writer | `MCExitMonitor` | `ExitMonitorProofs` |
| `TerminationDetection` | what the exit monitor promises, abstractly | `MCExitMonitor` (refinement) | `ExitMonitorProofs` |
| `ScrapeWorker` | SaaS worker: River attempts, `CentralWriter`, deletion of jobs | `MCScrapeWorker` (2 cfgs) | `ScrapeWorkerProofs` |
| `ScraperManager` | SaaS worker: scraper cycles, provider, their meeting with `Work` | `MCScraperManager` | `ScraperManagerProofs` |
| `WorkerProvisioning` | cloud workers: provisioning, deletion, health check | `MCWorkerProvisioning` | `SaaSProofs` |
| `WebRun` | web runner: run loop, live CSV, stop/pause/resume/delete | `MCWebRun` | `WebRunProofs` |
| `EmailEnrichment` | web runner: the pool that fetches emails | `MCEmailEnrichment` | `EmailEnrichmentProofs` |
| `JobTable` | what a shared table of jobs promises, abstractly | `MCDatabaseQueue` (refinement) | `DatabaseQueueProofs` |
| `DatabaseQueue` | database runner: queue of jobs in a table, result writer | `MCDatabaseQueue` | `DatabaseQueueProofs` |
| `Seeding` | from a form to seed jobs: plan, grid, validation, deduper | `MCSeeding` | `SeedingProofs` |
| `AdminAccess` | admin pages: login, second factor, backup codes, rate limiter | `MCAdminAccess` | `SaaSProofs` |
| `JobListing` | SaaS server: pages of jobs, their deletion, polling of a job | `MCJobListing` | `SaaSProofs` |
| `ProvisionWizard` | the resumable wizard that deploys the SaaS | `MCProvisionWizard` | `SaaSProofs` |

Run `tlc -config MCWebRun.cfg MCWebRun`, `tlapm WebRunProofs.tla`.
`PROJECT.json` has the runs, the source lines of every definition, a mutation of
the code that breaks each property, the hazards and the theorems.

## 1. Inventory

The program scrapes Google Maps. A *seed* (a search page, `GmapJob`, or in fast
mode a JSON search, `SearchJob`) discovers places; each place (`PlaceJob`) may
chain an `EmailExtractJob` and up to a few `EmailSubpageJob`s. The scrapemate
framework (external) runs the jobs on several workers, pushes child jobs to a
provider and sends entries on a results channel to result writers.

**Exit monitor** (`exiter/`). State: seed count and completions, places found and
completed, a channel of capacity one. Jobs increment it from any worker; its
`Run` waits for the channel and cancels the scrape. In the SaaS the *writer*
counts places after it has their entries (`WriterManagedCompletion`). Correct if
it never cancels early, always cancels in the end, and no entry is lost.

**Central writer** (`scraper/centralwriter.go`). State: the one tracked job with its
entries and a completion channel. Three goroutines meet in it: the framework's
writer (`Run`), the exit monitor of an attempt (`MarkDone`) and `Work`
(`RegisterJob`, `ForceFlush`). Correct if each registration is saved and answered
exactly once, with the entries of its own job.

**Scrape worker** (`rqueue/rqueue.go`, `rqueue/jobs.go`). `Work` executes one River
attempt: registers, submits the root job, starts the monitor, waits for the
flush, a timer or its context. River retries, rescues and completes attempts; a
promoter retries early; the API deletes jobs in two statements. Crash of the
process loses the buffer. Correct if a completed job has its results, an empty
result means that every place was reported, and every job ends.

**Scraper manager and provider** (`scraper/scraper.go`, `scraper/provider.go`). State: the
current provider, a count of jobs, a restart channel of capacity one; per provider two
bounded channels with a goroutine between them. After `maxJobs` jobs the browser is
restarted with a new provider, while `Work` may be submitting to the old one. Workers
push what they find into the queue that only they empty. Correct if one scraper runs
at a time, a restart that is due comes, and the channels do not fill up for good.

**Worker provisioning** (`rqueue/worker_jobs.go`, `admin/handlers_workers.go`).
State: rows of `provisioned_resources`, machines at a cloud provider, River jobs of
the maintenance queue. Provisioning, deletion and a periodic health check write
the same row; each may fail or die between a call to the provider and the row.
Correct if rows and machines agree: what is active can be deleted, what was
deleted is gone, every request ends.

**Web runner** (`runner/webrunner`, `web/`, `web/sqlite`). One loop takes a pending
job, writes its entries live to a CSV file and to `job_results`, waits for emails
and rewrites the file from the rows. HTTP requests stop, pause, resume and delete
the job meanwhile. Pause flags and cancel functions are in memory. Correct if the
file and the table agree, deletion leaves nothing, a status never goes back and the
loop never hangs.

**Email enricher** (`web/emailenricher.go`). A bounded queue and a pool shared by all
jobs, with a counter per job that the run polls. Correct if the counter is exact,
the wait ends only when nothing will be written any more, and no row is pending
without reason.

**Database queue** (`postgres/provider.go`, `postgres/resultwriter.go`,
`runner/databaserunner`). Rows of `gmaps_jobs` claimed in batches by several processes
(`FOR UPDATE SKIP LOCKED`), a channel and a forwarder in each; results collected in
batches and saved in a transaction, one by one when PostgreSQL refuses one of them.
Correct if no job is handed out twice, none is forgotten by a live process, and no
result is lost or stored twice.

**Seeding** (`web/simple_jobdata.go`, `web/intensity.go`, `web/job.go`, `grid/`,
`runner/jobs.go`, `deduper/`). A form becomes a plan of cells and keywords, is validated
against an estimate, cut into cells and crossed with the queries into seed jobs; the
seeds share a set of links. Correct if the cells keep to the limit and cover the area,
a plan the program made itself is accepted, and a link makes one job.

**Admin access** (`admin/handlers_auth.go`, `handlers_2fa.go`, `ratelimit/`). The row of a
user with its second factor and backup codes, pending codes in `app_config`, sessions,
one counter per limited action. Correct if a backup code works once for each time its
set was stored and the limiter limits.

**Job listing** (`rqueue/rqueue.go`, `admin/handlers_jobs.go`, `api/api.go`). Pages with a
cursor over a table that changes, deletions queued from them and executed meanwhile,
a status read in two statements, the cleanup of old results. Correct if "delete all"
deletes all that matched, no deletion is lost and a completed job shows the results it has.

**Provisioning wizard** (`cmd/gmapssaas/cmdprovision`). Steps that create servers, databases,
secrets and applications, each followed by a save of a state file from which the next
run resumes. Correct if a run that says it is complete has left a system whose parts
agree, whatever earlier runs left half done.

**Others.** `api/` (thin handlers), `runner/lambdaaws`, `runner/filerunner`, `leadsdb/`,
`cmd/gmapssaas/*` (server and worker), `infra/*` (cloud providers), parsing in `gmaps/`,
and utilities. Each is listed in `PROJECT.json` with its status.

The hard behaviours are the meeting of goroutines around one piece of state
(monitor, writer, `Work`; health check, provisioning, deletion; loop, writer, HTTP
requests), several processes on one table, timeouts that race with late answers, retries
of what partly happened, and deaths between two steps. `PROJECT.json` lists them as
hazards at their lines.

## 2. The modules

### ExitMonitor

`seed`, `place` and `remaining` are the progress of each `Process`; `seedCompleted`,
`placesFound`, `placesCompleted` are the fields of `exiter`; `sends` counts calls that
have unlocked the mutex and not yet sent; `doneCh` is the channel's token, `run` the
monitor's goroutine. `IncrSeedCompleted`, `IncrPlacesFound`, `IncrPlacesCompleted`
are the methods, each one atomic step because the code holds the mutex; the send
(`SendDone`) is a step of its own because it happens after the unlock. `SeedFinds`
and `SeedCompletes` are separate because `GmapJob.Process` makes two calls.
`writerManaged` and `fastMode` are chosen at the start and cover the four
configurations of the program. The deduper appears in the fact that a place is
discovered by one seed. A job is processed once: scrapemate calls `Process` when its
fetches are over.

`FlushIsComplete` is about the writer-managed mode only (section 6).
`DetectsTermination` is the refinement: `TerminationDetection` has only the sets of open
seeds and open places and how the scrape ended; it is declared complete when nothing is
open. The mapping takes the seeds whose completion was counted out of the open ones, and
the reported places out of the open places; a cancellation by the monitor is `Complete`,
the end of its context `Interrupt`, and every step on locks, the channel and the writer
is a stutter. `CancelOnlyWhenFinished` and `DoneIsStable` (the token cannot go stale) are
the two halves of that argument and are proved.

### ScrapeWorker

`river` is the state in `river_job`, `work` the program counter of the one attempt a
process executes (`cmd_worker.go` sets one River worker), `current` the central
writer's tracked job, `flushes` the calls of `Flush` between the unlock and the send
of their result, `completion` the channel of each attempt, `left` the places an
attempt has yet to report, `mon` its monitor. The tree of jobs is abstracted to
`left` because `ExitMonitor` establishes that the token means that none is left.
Entries name the attempt that produced them, which is what the properties on
mixing tell apart. Places of an old attempt go on reporting after it ended.
`Crash` loses all that is in memory; River rescues the job. `DeletionStep` is
`DeleteJob` in three steps and `JobDeleteWorker` in two statements that may fail.

The wait for the flush result has a grace of 90 s; a save is bounded by 30 s, and
`AwaitedResultComes` says that somebody is about to send, so the expiry of the
grace is no action.

### WorkerProvisioning

`row` is the row (status, whether `resource_id` is the machine's or the temporary
one, whether it has an address, `deleted_at`), `vm` the machine, `prov`, `del` and
`health` the program counters of the River jobs and the handlers that insert them.
Every statement that the code executes on its own is an action; `ok` is its error,
which the code in several places ignores. `made` and `reached` say that a call whose
answer was lost took effect at the provider. `ServerDies` ends every running job:
provisioning is not retried (`MaxAttempts: 1`), deletion is, up to `MaxTries`.
One health check runs at a time; a check that selects no row changes nothing and
is left out.

### WebRun

`status`, `rows`, `file`, `lines` are the two tables and the file; `todo` and `buffer` are
what the live writer has of a result between its lines and its rows: a line is buffered
(`WriterStores`), its row stored or not (`WriterStoreFails`), and the lines are flushed after
the last row (`WriterFlushes`) or earlier when the buffer is full. `cutOff` remembers the
jobs whose writer stopped in between with lines in the buffer. A file is `live` as that
writer leaves it, `whole` or `cut` once it was rewritten from the rows. `run` is the run of
the loop with the context of its scrape and the state of the live writer; `paused`
and `cancels` are the maps in memory; `request` is what each HTTP request is doing
between its steps (status read, flag set, cancel function looked up, called; file
removed, rows deleted). `ok` is the outcome of a statement. The deferred calls of
`scrapeJob` are the actions from `unwinding` to `idle`, in the order they run.
`Restart` is the end of the process at any point. `overlaps` is a history variable
for `DeletedLeavesNothing`: deletion of a job that is selected or scraped leaves rows
behind by construction of the code, and the property is about all the others.

### EmailEnrichment

A `task` is one emission of a place by a scrape; it moves from the upsert through
`Submit` (two steps: count, send or revert) to a worker (take, persist, decrement).
`row` is the email status kept by `job_results`, `csv` what the file was rewritten
from. `drained` are the jobs whose wait ended because nothing was pending, as opposed
to the deadline or the end of the process.

### ScraperManager

`manager` is the loop of `Run`, `cycle` the provider in `m.provider`, `app` the scrapemate
application of each cycle; `inChan`, `moving`, `jobChan` are a provider's two channels and
the item its goroutine has in hand, `hand` what the application's workers have. Reading
the provider (`GetProvider`) and submitting to it (`Submit`) are two steps, as are the
count and the signal of `JobDone`; the reset of the count and the swap of the provider
are one, under the lock. An application that ends drops what its workers hold (`lost`); a
replaced provider keeps its items. What scrapemate's workers do is external: they take
from the channel, push each child themselves, and end. A search is assumed to find no
more places than the channels hold (`PlacesAssumption`; about 120 against 128 per worker
and more).

`WedgedOnlyAfterTimeout` is the reason why: when `Work` gives a root up, its places stay
in the queue, the next search adds its own to them, and the workers may then wait for
room that only they could make. The code relies on the restart, which needs further jobs
to time out first.

### DatabaseQueue

`status` and `locked` are the table, `fetcher`, `batch`, `jobc`, `forwarder` and `held` the path of
a job through a process, `handed` a history of how often it reached scrapemate. The
`UPDATE` locks the rows it selects and skips locked ones (`FetchSelects`) and commits when
they have been read (`FetchCommits`) or fails (`FetchFails`). Seeds come before places, as
their priorities say; the order of creation is left out. `emitted`, `buff`, `writer`, `rows` are the writer of
results; `Unstorable` entries make the batch fail and the rows be saved one by one. A
process may be cancelled or die at any point. `ImplementsTable` is the refinement of
`JobTable`, which knows only the jobs that wait, those that were claimed, and how often
each was delivered and its result stored. A new row waits, a queued one that was not handed
over is claimed; the effect of the statement is `Claim`, the hand-over `Deliver`, a save of
the writer `StoreResults`; locks, channels, buffers, errors and deaths are stutters.

### Seeding

Lengths are whole kilometres on the ground at the middle of the box, with cell centres
in half kilometres: both step lengths of `grid.go` are then the cell size. The bisection of
`GridCellKmForBBox` is `Narrow`, one iteration per step, on whole kilometres. A request is a
simple form, an advanced form or a file; `BuildJobData`, `ParseForm` and `ReadFlags` fill in the
job's data, `Validate` accepts or rejects it, `CreateGridSeedJobs` or `CreateSeedJobs` make the
seeds, workers look links up in the deduper (`LookUp` under the read lock, `Add` under the
write lock). A search that opens a place directly does not ask the deduper: those jobs
are counted in `opened`, apart.

### AdminAccess

One user; `user` is the row with secret, flag and set of codes, `pending` the codes of an
enrolment that is not confirmed, `sessions` the browsers that hold the id of a row of
`admin_sessions`. The two steps of a login store the same kind of row and no reader tells
them apart (section 4), so neither does the model. A request is a program counter per browser, one action per statement of
its handler. `lock` is the `FOR UPDATE` of `ValidateBackupCode`. A request reads the clock
before its statement runs, at most `MaxDelay` earlier. Other writes to the
row (`DisableTOTP`, `SetBackupCodes`) wait for the lock as a single statement does.

### JobListing

River's ids increase, so a job is its number and a cursor is the last one listed. `state`,
`scraping`, `results` are what workers make of the jobs meanwhile. `batch` reads a page,
queues a deletion for each of its jobs in three steps (`GetJob`, `CancelJob`,
`InsertDeletion`), and goes on to the next page; `deleter` runs them in two statements, each
of which may fail. `CleanResults` is the cleanup of the results of old completed jobs.
`client` is a poll of a status: `ReadState`, then `ReadResults`, whose error the code drops.
`matching` and `queuedBy` are histories: the jobs that matched the
filter all the time, and what the request queued.

### ProvisionWizard

A run's things are named by its number: key 2 is the one run 2 generated. `file` is the
state file, `Torn` when the process died while it was written, `mem` the state in memory,
`pc` the step; `cloudKey`, `server`, `db` and `app` are the world, which keeps what a run made
before it died. Every step that saves is the step, then `SaveState`, with a death possible
between and in it. `Update` and `AdminCommand` are the other commands on the same world.

`WorkerProvisioning`, `AdminAccess`, `JobListing` and `ProvisionWizard` have disjoint names
(`WorkersSpec`, `AccessSpec`, `ListingSpec`, `WizardSpec`), so that `SaaSProofs` can extend all
four; it proves each on its own and nothing about their composition.

No run checks a type: every module has a type invariant, which is part of its inductive
invariant and stated as a theorem (`TypeCorrect`, `WorkersTypeCorrect`) or within one
(`AccessInvariance`, `ListingInvariance`, `WizardInvariance`).

## 3. Runs

| run | instance | what it shows |
|---|---|---|
| `exit_monitor` | 2 seeds, 3 places, 2 subpages | two seeds race with each other and with the places of the first; three places let one be found, one in progress, one written at the same time |
| `scrape_worker` | 1 job, 2 attempts, 2 places, deletable | the second attempt meets every leftover of the first (monitor, places, flush); two places allow partial results |
| `scrape_worker_deletion` (violation) | 1 job, 1 attempt | see section 4 |
| `scraper_manager` | 3 jobs, 2 per cycle, 2 cycles, 1 worker, channels of 1, searches that find 0 or 3 places | a root given up in the first cycle leaves its places to the second job; the third meets the restart; three places fill both channels and the hand between them |
| `worker_provisioning` | 1 row, 2 deletions, 3 tries, 2 slots | rows are independent but for the slots; two deletions overlap with each other, with the provisioning and the health check |
| `email_enrichment` | 2 jobs, 1 place, 3 tasks, queue of 1, 2 workers | the queue is full with two workers busy; tasks of two jobs share it |
| `web_run` | 1 job, 2 places, 2 requests, 1 restart | a result of two places stops between them or before its flush; jobs are run one at a time and every request names one job, so that one job has every race between its run and two requests |
| `database_queue` | 2 processes, batches of 2, 2 seeds, 2 places, one of them refused | two processes claim overlapping batches; a batch of results has a row that is refused beside one that is not |
| `seeding` | boxes of 2x1, 5x3 and 13x17 km, limit of 6 cells, cells from 1 to 30 km, 2 workers, 3 places | a box narrower than half a cell (no cell at all), partial cells, and a box that needs the search for a cell size; the constants are scaled down together |
| `admin_access` | 2 browsers (symmetric), 3 requests, limit 1, with or without an attempt counted before, windows of 2 ticks, 4 ticks, 2 sets of 1 code | two requests race for one code while the second factor is set up again or its codes are stored again; four ticks hold two windows and the boundary between them |
| `job_listing` | 3 jobs, pages of 2, 2 pages, 1 request, 1 deleter, 2 attempts | a second page, jobs inserted and deleted between the pages, one deletion that fails and one that uses up its attempts, a poll that meets deletion, cleanup or an error between its two reads |
| `provision_wizard` | 3 runs | a run that resumes one that resumed another; the third may change server or database after the second died |

All runs set `CHECK_DEADLOCK FALSE`: a scrape, a set of jobs or a set of requests ends,
and then nothing is left to do. That nothing stops too early is what the liveness
properties say.

**Fairness.**
* `ExitMonitor`: the framework's workers, the writer and the monitor run. The
  context of `Run` need not end.
* `ScrapeWorker`: `Work` goes on, its timer fires, a save ends (it has a timeout of
  30 s), River fetches, reschedules and rescues. Nothing is assumed of the scrape, of
  the monitors or of requests.
* `WorkerProvisioning`: handlers and jobs go on, the waits of the provisioning end
  with River's timeout. `ProvisionStarts` and `DeleteStarts` are strongly fair because
  River fetches in order of insertion: a queued job gets a slot that is free again
  and again.
* `EmailEnrichment`: the scrape's timeout, the timeouts of fetch and update and the
  deadline of the wait.
* `ScraperManager`: the manager's loop runs, an application whose context was cancelled
  ends, and `Work` ends with its timer. Nothing is assumed of scrapemate's workers.
* `DatabaseQueue`: the fetcher and the forwarder of a process that was neither cancelled
  nor killed go on. A job that a stopped process holds in memory is the stated exception.
* `WebRun`: the loop goes on, the time allowed ends a scrape and a result that the writer
  has taken is stored or fails (`StoreStep`; a statement ends). `WriterCtxDone` is
  strongly fair: a writer whose context is done and that finds results again and
  again takes the branch of the context in the end, since Go's `select` chooses among
  ready branches at random.

**Bounds** are constants named in the modules (`MaxAttempts`, `MaxPlaces`,
`Deletable`, `MaxDeletes`, `MaxRestarts`, `Emissions`, `NumJobs`, `MaxCycles`, `MaxTime`,
`MaxSets`, `MaxRequests`, `MaxRuns`, `Polled`). River would grant one more
attempt to a job that used all of them and was retried by the promoter;
`PromoteRetries` stops at `MaxAttempts`.

## 4. Findings

* `scrape_worker_deletion`: the flush of the attempt that deletion cancelled may end
  after the results were deleted and insert the row again, for good
  (`rqueue/jobs.go:39`).

Divergences between code and comment that the models contain but no run is about:

* `rqueue/worker_jobs.go:263`: the health check may make a worker active before its
  provisioning does. The provisioning takes its update of no row for a deletion and
  destroys the machine of an active worker.
* `rqueue/worker_jobs.go:209`: a worker whose SSH wait timed out is set to `failed`, which
  the health check leaves out, though the comment says that it heals it.
* `web/csvlive_writer.go:97`: a place scraped twice is enriched twice and the second
  outcome replaces the first, though the comment says only fresh rows are handed over.
* `web/csvlive_writer.go:81`: the line of a place is buffered, its row is stored with the
  context of the scrape, and the buffer is flushed after the last place of the result. A
  context that ends in between makes the writer return; `webrunner.go:364` takes that for
  the normal end, so that the live file of a job that becomes `ok` may lack rows that are in
  the table. The error of a flush is not looked at either. `MaterializeJobCSV` repairs the
  file from the rows, but its own error is only logged, and a rewrite that fails midway
  leaves a short file. `FileMatchesRows` says exactly this much.
* `rqueue/rqueue.go:791`: `GetJobStatus` drops the error of `getResults` and answers
  "completed" without results; the same answer is given of results that the cleanup
  removed after 30 days (`rqueue/worker_jobs.go:662`). `CompletedWithResults` excepts both.
* `admin/templates/2fa_setup.html:46` says "Each code works only once." `confirm_backup`
  (`admin/handlers_2fa.go:369`) does not ask whether the second factor is enabled already
  and ignores an error of `DeleteConfig`: confirmed twice, it stores the same codes twice,
  and those used in between are accepted once more. `CodeUsedOncePerStore` is what holds:
  one use each time the set was stored.
* `admin/handlers_auth.go:97`: the first step of a login with a second factor stores a row of
  `admin_sessions` like that of a finished login, for five minutes and under another cookie.
  `SessionAuth` (`admin/middleware.go:70`) and the second step look only for a row that has
  not expired, not for the step that stored it; nothing but the name of the cookie tells
  the two apart. No property of `AdminAccess` relies on the difference.
* `gmaps/job.go:120`: a seed that could not be fetched counts as completed, so that a job may
  complete with an empty result although its search was never seen.
* `web/service.go:136`: a pause request that read the status before the run ended leaves
  its flag behind, though the comment says it is cleared when the run ends.
* `grid/grid.go:122`: the estimate is not the number of cells that are generated but an
  upper bound: for an area narrower than half a cell it is one where there is none, and
  the job that was accepted fails with "grid produced 0 cells", its status left `working`.
* `gmaps/job.go:141`: a search that is redirected to a place does not ask the deduper.
* `scraper/provider.go:79`: see `ScraperManager` above.
* `docs/saas.md:42` says that the wizard can be resumed when it was interrupted. Among
  others these cannot: a run that died between the creation of the administrator and the save
  (`provision.go:395`) finds the name taken ever after, and a database URL is saved before
  anybody has connected with it, so that one that does not connect, because it was
  mistyped or because the volume of an interrupted run keeps its first password, is kept
  by every resumed run; a state file that was cut short while it was written is an error
  ever after (`state.go:99`); and a run that registered its SSH key with Hetzner and died
  before the save generates another one, while `EnsureSSHKey` (`infra/hetzner/hetzner.go:45`)
  returns the first, which has the fixed name, so that the new server refuses the wizard.

## 5. Proofs

Each proof module defines an inductive invariant, proves that `Init` implies it and that
every step keeps it (one lemma per group of actions), and derives its invariance and the
properties. The assumptions are the named ones on the constants: finite sets, positive
bounds.

* **ExitMonitor**: the counters are the cardinalities of the seeds and places that
  were reported (`CountInv`), so the exit condition says that these sets are all of
  the seeds and all known places. New places come only from a seed that has not
  completed, so the condition is stable, and `sends`, `doneCh` and a received token
  all imply it. In writer-managed mode a reported place is failed or written. The same
  invariant gives the refinement (`ImplementsDetection`): each step of the counters is a
  step of the abstract sets or a stutter.
* **ScrapeWorker**: the registration of the attempt in execution is in exactly one
  place, `current`, one flush or the completion channel (`RegInv`). Everything else
  follows: at most one flush, a free channel, a result for `Work`, one owner of the
  entries. `RowInv` carries from the flush result to the completed job that the row
  was saved. For `EmptyMeansAllReported`, `StartInv` says that an attempt is started once
  and that River has its job as running, and `FoundInv` that a flush by a monitor, a
  result that `Work` takes while it waits, and an empty row of a completed job each come
  from an attempt with nothing left to report.
* **WorkerProvisioning**: the row learns the machine's id once, after the machine
  exists, and whatever was read from the row later knows it too (`KnowledgeInv`); a
  request past the provider has destroyed what it knew (`DestroyedInv`).
* **AdminAccess**: a code that is in the row has not been accepted since its set was
  stored there (`UsesInv`). The
  transaction that found a code still finds it there when it writes, because it holds
  the lock (`ConsumingInv`). For the limiter, all but the last `Limit` of the attempts it
  allowed are a window older than the start of the counter's window, or than now when the
  counter is at zero (`SpreadInv`); a request may come late to its statement by
  `MaxDelay`, so that `WindowAssumption` asks that rows are not cleaned up before the
  window and the delay have passed (an hour against a quarter of an hour in the code).
* **JobListing**: up to the cursor everything that still matches is queued or is among
  the jobs to do, and what is queued or to do is not behind it (`BatchInv`). `PageFacts` is
  what that needs of a page: it has no gap below its last job, and when it is short nothing
  that matches lies behind it, for any set of jobs. That a finite set of numbers has a least
  and a greatest element (`LeastExists`) is proved from the well-foundedness of strict
  inclusion of finite sets. The results of a completed job are there, or a deletion or the
  cleanup has removed them (`ClientInv`).
* **ProvisionWizard**: file and memory agree except where a save is due, and then the
  memory keeps what the file has (`FileInv`); each of them says only what is true of the
  world (`Sound`); and a run that has reached a step has done everything before it, in the
  world and in memory (`Reached`), a resumed run included, because it passes the same
  steps again and skips only what the file says is done.
* **EmailEnrichment**: the counter is the number of tasks between increment and
  decrement; only the job being scraped is in `Submit`, so a drained job has none and
  gets none (`DrainedInv`).
* **WebRun**: the program counter of a run fixes the statuses its job can have
  (`RunInv`); while an undeleted job is scraped, the lines of its file and the lines in
  the buffer together are its rows, and the buffer is empty but between a line and its
  flush, or after a flush that failed; what is left in it when the writer stops puts the job into
  `cutOff` (`Stored`); a job that was never run has neither file nor rows (`RowsInv`).
* **ScraperManager**: the application of a cycle runs only while the manager is in
  `running` or `stopping` (`OneScraper` is inductive with the types); for
  `RestartNotMissed` the count that `Work` carries to its signal is that of the counter, or
  the counter was reset since. For `NotWedged`, as long as no root was given up all items of
  the providers belong to the one root that `Work` waits for, in the provider it was
  submitted to (`OriginInv`), and what is there and yet to be pushed fits (`LoadInv`), so
  that full channels leave no worker with something to push.
* **DatabaseQueue**: a job is in one place of one process only, and only if its row is
  `queued` and was committed; a row that is `new` is nowhere. An entry is in the results'
  channel, the buffer or the table, exactly once. With the sizes of what a statement locks
  and of what the writer keeps (`SizeInv`), the same invariant gives the refinement
  (`ImplementsJobTable`): a statement that takes effect claims at most a batch, also when the
  fetcher fails after it, and what a save stores, in full or in part, is stored for the
  first time.
* **Seeding**: `CellsWithinEstimate` is arithmetic on one box: the centres below the upper
  edge are at most the ceiling. With it, what was validated bounds what is generated.
  `CellsCover` takes the same box from the other side: the centres of a side are an initial
  segment that ends within a cell of the far edge, and a cell is found from its row and
  its column. For
  `PlanAccepted` the upper bound of the bisection always fits and its lower bound never
  does, so that it ends on the smallest size that fits; `PresetsAssumption` says that the
  largest area fits at the largest cell. For `OneJob`, the set under the lock and the jobs
  made from it grow together.

Every safety and every action property of a passing run is proved, the refinements of
`TerminationDetection` and of `JobTable` included. Model-checked only: the liveness properties
(`EventuallyEnds`, `EventuallySettled`, `RestartsComplete`, `RequestsEnd`, `PoolDrains`,
`RunsEnd`, `EventuallyHandedOut`), since liveness under fairness is out of the prover's reach.
Proved only, without a run: the types, `CancelOnlyWhenFinished`, `DoneIsStable`,
`OneFlushPerRegistration`, `NoCrossJobEntries` (which takes two jobs on one writer),
`StoredOnce` (the run checks it as part of `ImplementsTable`), `CellsWithinEstimate` and
`CellsCover`. The inductive invariants of `AdminAccess`, `JobListing`
and `ProvisionWizard` were found and checked on the instances of section 3 before they were
proved.

## 6. Not modelled

* What pages contain, and all parsing; forms, templates, terminal input and output.
* The time itself: a timer may fire at any moment of its wait. `AdminAccess` has ticks,
  because its limiter compares times.
* Floating point: `Seeding` works on whole kilometres, with sizes scaled down.
* Cryptography: a hash, a cipher text or a one-time code is right or wrong.
* The cursor of the live results (`web/sqlite/results.go`), which is a time in seconds,
  API keys, CSRF tokens, and the browsers' terminal.
* scrapemate, River, PostgreSQL and SQLite beyond what the code relies on: a statement
  or a transaction is atomic, River runs an attempt at most once at a time.
* Completeness of results without `WriterManagedCompletion` (file and web runners): a
  place is counted before its entry is returned, and what becomes of results in the
  framework's channel after the cancellation is not decided by this code.
* A `Submit` to an enricher that is being closed: `Close` is called after the loop has
  returned.
* The branch of `scrapeJob` for a job without keywords, which validation refuses.
* The components with status `not_modelled`, for the reason given there.

## 7. Plan

Done, in this order: `ExitMonitor`, `ScrapeWorker` (which relies on it),
`WorkerProvisioning`, `EmailEnrichment`, `WebRun`, `ProvisionWizard`, `DatabaseQueue`,
`ScraperManager`, `AdminAccess`, `JobListing`, `Seeding`, the refinements of
`TerminationDetection` and of `JobTable`.

Next:
1. A durable queue of attempts as an abstract specification, implemented by `ScrapeWorker`.
2. `ScraperManager` and `ScrapeWorker` composed: the wedge and the timers of `Work`.
3. The cursor of the live results; API keys.
