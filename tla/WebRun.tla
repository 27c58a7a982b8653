------------------------------- MODULE WebRun -------------------------------
(***************************************************************************)
(* The web runner: one loop that scrapes pending jobs one at a time          *)
(* (runner/webrunner/webrunner.go), the live CSV writer it waits for         *)
(* (web/csvlive_writer.go), and the HTTP requests that stop, pause, resume   *)
(* or delete a job meanwhile (runner/webrunner/jobcontrol.go,                *)
(* web/service.go).  Jobs and rows are in SQLite (web/sqlite), the CSV file  *)
(* is on disk; the pause flags and the cancel functions are in memory.       *)
(*                                                                         *)
(* The wait for emails is in EmailEnrichment.  Validate refuses a job without *)
(* keywords, so scrapeJob's branch for one is left out.                      *)
(***************************************************************************)
EXTENDS Integers, FiniteSets

CONSTANTS
  Jobs,        \* ids of jobs
  Places,      \* places that can be found
  Requests,    \* HTTP requests served at the same time
  MaxRestarts  \* bound: restarts of the process

ASSUME JobsAssumption == IsFiniteSet(Jobs) /\ Jobs # {}
ASSUME PlacesAssumption == IsFiniteSet(Places)
ASSUME RestartsAssumption == MaxRestarts \in Nat

VARIABLES
  status,    \* of the jobs table; "absent" before Create, "deleted" after Delete
  rows,      \* job_results: the places of each job
  file,      \* the CSV file: absent, live (as the live writer leaves it), whole
             \* (rewritten from the rows), or cut short by a failed rewrite
  lines,     \* the places with a whole line in the file
  todo,      \* the places of the result being stored that have no row yet
  buffer,    \* the places with a row whose line the csv.Writer still buffers
  cutOff,    \* history: jobs whose writer stopped with such lines
  run,       \* the run of the loop
  paused,    \* Service.jobPaused
  cancels,   \* webrunner.cancels: the jobs with a cancel function
  request,   \* what each request is doing
  overlaps,  \* history: jobs with a run that overlapped a Delete
  down,      \* the context of the process is cancelled
  restarts   \* restarts so far

vars == <<status, rows, file, lines, todo, buffer, cutOff, run, paused, cancels, request, overlaps, down, restarts>>

writing == <<todo, buffer, cutOff>>
data == <<rows, file, lines, writing>>
control == <<paused, cancels, request, overlaps>>
process == <<down, restarts>>

Idle == [pc |-> "idle", job |-> CHOOSE j \in Jobs : TRUE, ctx |-> "done", writer |-> "ended"]
NoRequest == [op |-> "none", job |-> CHOOSE j \in Jobs : TRUE]

RunOf(j) == run.pc # "idle" /\ run.job = j
Deleting(j) == \E h \in Requests : request[h] = [op |-> "delete", job |-> j]

At(pc) == run.pc = pc
GoTo(pc) == run' = [run EXCEPT !.pc = pc]
Writer(state) == run' = [run EXCEPT !.writer = state]

\* Mutant: the update inserts the row again.
UpdateInserts(j, s, ok) == status' = IF ok THEN [status EXCEPT ![j] = s] ELSE status

\* Update of a job that was deleted changes no row and is no error.
Update(j, s, ok) ==
  /\ ok => ~down
  /\ status' = IF ok /\ status[j] # "deleted" THEN [status EXCEPT ![j] = s] ELSE status

----------------------------------------------------------------------------
(* work and scrapeJob.                                                      *)

SelectPending(j) ==
  /\ At("idle")
  /\ ~down
  /\ status[j] = "pending"
  /\ run' = [pc |-> "selected", job |-> j, ctx |-> "live", writer |-> "check"]
  /\ overlaps' = IF Deleting(j) THEN overlaps \cup {j} ELSE overlaps
  /\ UNCHANGED <<status, data, paused, cancels, request, process>>

MarkWorking(ok) ==
  /\ At("selected")
  /\ Update(run.job, "working", ok)
  /\ GoTo(IF ok THEN "working" ELSE "idle")
  /\ UNCHANGED <<data, control, process>>

CreateFails ==
  /\ At("working")
  /\ GoTo("idle")
  /\ UNCHANGED <<status, data, control, process>>

CreateFile ==
  /\ At("working")
  /\ file' = [file EXCEPT ![run.job] = "live"]
  /\ lines' = [lines EXCEPT ![run.job] = {}]
  /\ GoTo("created")
  /\ UNCHANGED <<status, rows, writing, control, process>>

SetupMateFails(ok) ==
  /\ At("created")
  /\ Update(run.job, "failed", ok)
  /\ GoTo("clearing")
  /\ UNCHANGED <<data, control, process>>

\* An unknown area preset, too many cells, an error of the seeds: the status stays.
SeedsFail ==
  /\ At("created")
  /\ GoTo("clearing")
  /\ UNCHANGED <<status, data, control, process>>

NoSeeds ==
  /\ At("created")
  /\ GoTo("scraped")
  /\ UNCHANGED <<status, data, control, process>>

RegisterRunCancel ==
  /\ At("created")
  /\ cancels' = cancels \cup {run.job}
  /\ GoTo("scraping")
  /\ UNCHANGED <<status, data, paused, request, overlaps, process>>

\* The exit monitor, the time allowed or the end of the process.
ContextEnds ==
  /\ At("scraping")
  /\ run.ctx = "live"
  /\ run' = [run EXCEPT !.ctx = "done"]
  /\ UNCHANGED <<status, data, control, process>>

\* Mutant: the scrape is started and not waited for.
ScrapeReturnsEarly ==
  /\ At("scraping")
  /\ GoTo(IF run.writer = "failed" THEN "unwinding" ELSE "scraped")
  /\ UNCHANGED <<status, data, control, process>>

\* mate.Start returns when its writer has returned.  Only an error that is not of
\* the context makes the run fail, and it leaves the status.
ScrapeReturns ==
  /\ At("scraping")
  /\ run.writer \in {"ended", "failed"}
  /\ GoTo(IF run.writer = "failed" THEN "unwinding" ELSE "scraped")
  /\ UNCHANGED <<status, data, control, process>>

\* The file is rewritten from the rows if there are any; an error is only logged.
MaterializeJobCSV(result) ==
  /\ At("scraped")
  /\ result # "unread" => ~down /\ rows[run.job] # {}
  /\ \/ /\ result = "unread"
        /\ UNCHANGED <<file, lines>>
     \/ /\ result \in {"whole", "cut"}
        /\ file' = [file EXCEPT ![run.job] = result]
        /\ lines' = [lines EXCEPT ![run.job] = rows[run.job]]
  /\ GoTo("materialized")
  /\ UNCHANGED <<status, rows, writing, control, process>>

MarkOK(ok) ==
  /\ At("materialized")
  /\ Update(run.job, "ok", ok)
  /\ GoTo("unwinding")
  /\ UNCHANGED <<data, control, process>>

\* The deferred calls, last first.
UnregisterRunCancel ==
  /\ At("unwinding")
  /\ cancels' = cancels \ {run.job}
  /\ run' = [pc |-> "clearing", job |-> run.job, ctx |-> "done", writer |-> run.writer]
  /\ UNCHANGED <<status, data, paused, request, overlaps, process>>

ClearPaused ==
  /\ At("clearing")
  /\ paused' = paused \ {run.job}
  /\ GoTo("idle")
  /\ UNCHANGED <<status, data, cancels, request, overlaps, process>>

----------------------------------------------------------------------------
(* CSVLiveWriter.Run.                                                       *)

Writing == At("scraping")

\* Mutant: the wait ends by a resume only.
WaitIfPausedForever ==
  /\ Writing
  /\ run.writer = "check"
  /\ run.job \notin paused
  /\ Writer("reading")
  /\ UNCHANGED <<status, data, control, process>>

\* The writer returns; what is buffered is never written.
WriterStops(state, lost) ==
  /\ Writer(state)
  /\ todo' = {} /\ buffer' = {}
  /\ cutOff' = IF lost = {} THEN cutOff ELSE cutOff \cup {run.job}

WaitIfPaused ==
  /\ Writing
  /\ run.writer = "check"
  /\ \/ run.job \notin paused /\ Writer("reading") /\ UNCHANGED writing
     \/ run.job \in paused /\ run.ctx = "done" /\ WriterStops("ended", buffer)
  /\ UNCHANGED <<status, rows, file, lines, control, process>>

\* A result: its places, or none.  The csv.Writer refuses more lines once it could
\* not write some, which is a case of WriterFails.
WriterTakes(places) ==
  /\ Writing
  /\ run.writer = "reading"
  /\ places # {} => buffer = {}
  /\ todo' = places
  /\ Writer(IF places = {} THEN "check" ELSE "storing")
  /\ UNCHANGED <<status, rows, file, lines, buffer, cutOff, control, process>>

\* Lines go to the file, if it is still open and Delete has not removed it.
Written(places) ==
  lines' = IF file[run.job] = "live" /\ run.pc \in {"scraping", "scraped"}
           THEN [lines EXCEPT ![run.job] = @ \cup places] ELSE lines

\* The line of a place is buffered, which writes the lines before it when the buffer
\* is full (a piece of a line counts as none), and its row is stored...
WriterStores(p, full) ==
  /\ run.writer = "storing" /\ run.pc # "idle" /\ p \in todo
  /\ run.ctx = "live"
  /\ rows' = [rows EXCEPT ![run.job] = @ \cup {p}]
  /\ todo' = todo \ {p}
  /\ Written(IF full THEN buffer ELSE {})
  /\ buffer' = (IF full THEN {} ELSE buffer) \cup {p}
  /\ UNCHANGED <<status, file, cutOff, run, control, process>>

\* ... or is not: the end of the context, even between line and row, ends the writer
\* as usual; any other error fails the run.
WriterStoreFails(full, error) ==
  /\ run.writer = "storing" /\ run.pc # "idle" /\ todo # {}
  /\ ~error => run.ctx = "done"
  /\ Written(IF full THEN buffer ELSE {})
  /\ WriterStops(IF error THEN "failed" ELSE "ended", IF full THEN {} ELSE buffer)
  /\ UNCHANGED <<status, rows, file, control, process>>

\* Only after the last place of the result are the lines flushed, all of them or, if
\* the error that is not looked at occurs, some.
WriterFlushes(places) ==
  /\ run.writer = "storing" /\ run.pc # "idle" /\ todo = {}
  /\ Written(places)
  /\ buffer' = buffer \ places
  /\ Writer("check")
  /\ UNCHANGED <<status, rows, file, todo, cutOff, control, process>>

WriterFails ==
  /\ Writing
  /\ run.writer = "reading"
  /\ WriterStops("failed", buffer)
  /\ UNCHANGED <<status, rows, file, lines, control, process>>

WriterCtxDone ==
  /\ Writing
  /\ run.writer = "reading"
  /\ run.ctx = "done"
  /\ WriterStops("ended", buffer)
  /\ UNCHANGED <<status, rows, file, lines, control, process>>

----------------------------------------------------------------------------
(* Requests.                                                                *)

Create(j) ==
  /\ status[j] = "absent"
  /\ status' = [status EXCEPT ![j] = "pending"]
  /\ UNCHANGED <<data, run, control, process>>

Becomes(h, op, j) == request' = [request EXCEPT ![h] = [op |-> op, job |-> j]]
Ends(h) == request' = [request EXCEPT ![h] = NoRequest]

\* RequestStop, RequestPause and RequestResume read the status first.
ReadsStatus(h, op, j) ==
  /\ request[h] = NoRequest
  /\ status[j] = "working"
  /\ Becomes(h, op, j)
  /\ UNCHANGED <<status, data, run, paused, cancels, overlaps, process>>

SetsPaused(h) ==
  /\ request[h].op = "pause"
  /\ paused' = paused \cup {request[h].job}
  /\ Ends(h)
  /\ UNCHANGED <<status, data, run, cancels, overlaps, process>>

ClearsPaused(h) ==
  /\ request[h].op = "resume"
  /\ paused' = paused \ {request[h].job}
  /\ Ends(h)
  /\ UNCHANGED <<status, data, run, cancels, overlaps, process>>

StopUnpauses(h) ==
  /\ request[h].op = "stop"
  /\ paused' = paused \ {request[h].job}
  /\ Becomes(h, "stopping", request[h].job)
  /\ UNCHANGED <<status, data, run, cancels, overlaps, process>>

\* The cancel function is looked up under the mutex and called after it.
StopLooksUp(h) ==
  /\ request[h].op = "stopping"
  /\ IF request[h].job \in cancels THEN Becomes(h, "found", request[h].job) ELSE Ends(h)
  /\ UNCHANGED <<status, data, run, paused, cancels, overlaps, process>>

StopCancels(h) ==
  /\ request[h].op = "found"
  /\ run' = IF RunOf(request[h].job) THEN [run EXCEPT !.ctx = "done"] ELSE run
  /\ Ends(h)
  /\ UNCHANGED <<status, data, paused, cancels, overlaps, process>>

\* Service.Delete removes the file ...
DeleteRemovesFile(h, j) ==
  /\ request[h] = NoRequest
  /\ status[j] # "absent"
  /\ file' = [file EXCEPT ![j] = "absent"]
  /\ lines' = [lines EXCEPT ![j] = {}]
  /\ Becomes(h, "delete", j)
  /\ overlaps' = IF RunOf(j) THEN overlaps \cup {j} ELSE overlaps
  /\ UNCHANGED <<status, rows, writing, run, paused, cancels, process>>

\* Mutant: only the job is deleted.
DeleteJobOnly(h, ok) ==
  /\ request[h].op = "delete"
  /\ status' = IF ok THEN [status EXCEPT ![request[h].job] = "deleted"] ELSE status
  /\ Ends(h)
  /\ UNCHANGED <<data, run, paused, cancels, overlaps, process>>

\* ... and then the rows and the job in one transaction.
Delete(h, ok) ==
  /\ request[h].op = "delete"
  /\ IF ok
       THEN /\ status' = [status EXCEPT ![request[h].job] = "deleted"]
            /\ rows' = [rows EXCEPT ![request[h].job] = {}]
       ELSE UNCHANGED <<status, rows>>
  /\ Ends(h)
  /\ UNCHANGED <<file, lines, writing, run, paused, cancels, overlaps, process>>

----------------------------------------------------------------------------
\* The process is told to stop: its context, and the one of the scrape, end.
Shutdown ==
  /\ ~down
  /\ down' = TRUE
  /\ run' = [run EXCEPT !.ctx = "done"]
  /\ UNCHANGED <<status, data, control, restarts>>

\* The process ends at any point and starts again; only memory is lost.
Restart ==
  /\ restarts < MaxRestarts
  /\ restarts' = restarts + 1
  /\ down' = FALSE
  /\ run' = Idle
  /\ paused' = {} /\ cancels' = {}
  /\ request' = [h \in Requests |-> NoRequest]
  /\ todo' = {} /\ buffer' = {}
  /\ UNCHANGED <<status, rows, file, lines, cutOff, overlaps>>

Init ==
  /\ status = [j \in Jobs |-> "absent"]
  /\ rows = [j \in Jobs |-> {}]
  /\ file = [j \in Jobs |-> "absent"]
  /\ lines = [j \in Jobs |-> {}]
  /\ todo = {} /\ buffer = {} /\ cutOff = {}
  /\ run = Idle
  /\ paused = {} /\ cancels = {}
  /\ request = [h \in Requests |-> NoRequest]
  /\ overlaps = {}
  /\ down = FALSE
  /\ restarts = 0

ScrapeJob ==
  \/ \E ok \in BOOLEAN : MarkWorking(ok) \/ SetupMateFails(ok) \/ MarkOK(ok)
  \/ CreateFails \/ CreateFile \/ SeedsFail \/ NoSeeds \/ RegisterRunCancel \/ ScrapeReturns
  \/ \E result \in {"unread", "whole", "cut"} : MaterializeJobCSV(result)
  \/ UnregisterRunCancel \/ ClearPaused

StoreStep ==
  \/ \E full \in BOOLEAN :
       (\E p \in todo : WriterStores(p, full)) \/ (\E error \in BOOLEAN : WriterStoreFails(full, error))
  \/ \E places \in SUBSET buffer : WriterFlushes(places)

WriterStep ==
  \/ WaitIfPaused \/ WriterFails \/ WriterCtxDone \/ StoreStep
  \/ \E places \in SUBSET Places : WriterTakes(places)

RequestStep(h) ==
  \/ \E j \in Jobs : DeleteRemovesFile(h, j) \/ (\E op \in {"stop", "pause", "resume"} : ReadsStatus(h, op, j))
  \/ SetsPaused(h) \/ ClearsPaused(h) \/ StopUnpauses(h) \/ StopLooksUp(h) \/ StopCancels(h)
  \/ \E ok \in BOOLEAN : Delete(h, ok)

Next ==
  \/ \E j \in Jobs : Create(j) \/ SelectPending(j)
  \/ ScrapeJob \/ ContextEnds \/ WriterStep
  \/ \E h \in Requests : RequestStep(h)
  \/ Shutdown \/ Restart

\* The loop and the writer run on; the time allowed ends every scrape, and a
\* writer whose context is done takes the select's branch for it in the end.
Fairness ==
  /\ WF_vars(ScrapeJob) /\ WF_vars(ContextEnds) /\ WF_vars(WaitIfPaused)
  /\ WF_vars(StoreStep)
  /\ SF_vars(WriterCtxDone)

Spec == Init /\ [][Next]_vars /\ Fairness

----------------------------------------------------------------------------
\* Type invariant.
TypeOK ==
  /\ status \in [Jobs -> {"absent", "pending", "working", "ok", "failed", "deleted"}]
  /\ rows \in [Jobs -> SUBSET Places] /\ lines \in [Jobs -> SUBSET Places]
  /\ file \in [Jobs -> {"absent", "live", "whole", "cut"}]
  /\ todo \subseteq Places /\ buffer \subseteq Places /\ cutOff \subseteq Jobs
  /\ run \in [pc : {"idle", "selected", "working", "created", "scraping", "scraped", "materialized",
                    "unwinding", "clearing"},
              job : Jobs, ctx : {"live", "done"},
              writer : {"check", "reading", "storing", "ended", "failed"}]
  /\ paused \subseteq Jobs
  /\ cancels \subseteq {j \in Jobs : RunOf(j)}
  /\ request \in [Requests -> [op : {"none", "stop", "stopping", "found", "pause", "resume", "delete"},
                               job : Jobs]]
  /\ overlaps \subseteq Jobs
  /\ down \in BOOLEAN /\ restarts \in 0 .. MaxRestarts

\* What a finished file and the rows of its job have to do with each other.
FileAgrees(j) ==
  /\ file[j] = "whole" => lines[j] = rows[j]
  /\ file[j] = "live" => lines[j] \subseteq rows[j] /\ (j \in cutOff \/ lines[j] = rows[j])

\* The rewritten file of a job that is "ok" holds what job_results holds, whatever
\* requests and restarts came in between.  Where no rewrite was done (one that fails
\* midway leaves a file that is cut short, and nothing is said of it), the
\* file of the live writer holds no place without a row, and lacks one only if the
\* writer was cut off after it had stored a place and before its line was written.
FileMatchesRows == \A j \in Jobs : status[j] = "ok" => FileAgrees(j)

\* Deleting a job leaves no row and no file behind unless it was being run.
DeletedLeavesNothing ==
  \A j \in Jobs : status[j] = "deleted" /\ j \notin overlaps => rows[j] = {} /\ file[j] = "absent"

Moves ==
  {<<"absent", "pending">>, <<"pending", "working">>, <<"working", "ok">>, <<"working", "failed">>,
   <<"pending", "deleted">>, <<"working", "deleted">>, <<"ok", "deleted">>, <<"failed", "deleted">>}

\* A job is run to its end once: it never becomes pending again, a finished job is
\* never run again, and a deleted one never comes back.
StatusMovesForward ==
  [][\A j \in Jobs : status'[j] = status[j] \/ <<status[j], status'[j]>> \in Moves]_vars

\* The loop always gets to the next job, also from a job that stays paused.
RunsEnd == []<>(run.pc = "idle")

=============================================================================
