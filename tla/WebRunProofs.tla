---------------------------- MODULE WebRunProofs ----------------------------
(***************************************************************************)
(* Safety of the web runner for any jobs, places, requests and restarts.    *)
(* A run fixes what the status of its job can be at each of its steps;      *)
(* while it scrapes a job that was not deleted, the live file and the lines   *)
(* still buffered hold what the table holds; a Delete that met no run finds   *)
(* nothing that could bring rows or a file back.                             *)
(***************************************************************************)
EXTENDS WebRun, TLAPS

\* What the status of the running job can be.
StatusAt(pc) ==
  IF pc = "selected" THEN {"pending", "deleted"}
  ELSE IF pc \in {"working", "created", "scraping", "scraped", "materialized"} THEN {"working", "deleted"}
  ELSE {"working", "ok", "failed", "deleted"}

\* While a job is scraped, its live file lacks no more than what is buffered.
Stored(j) ==
  /\ file[j] \in {"absent", "live"} /\ buffer \subseteq rows[j]
  /\ file[j] = "live" => lines[j] \subseteq rows[j] /\ (j \in cutOff \/ rows[j] \subseteq lines[j] \cup buffer)

RunInv ==
  /\ run.pc # "scraping" \/ run.writer \in {"ended", "failed"} => todo = {} /\ buffer = {}
  /\ run.pc # "idle" =>
      /\ status[run.job] \in StatusAt(run.pc)
      /\ run.pc \in {"selected", "working", "created"} => rows[run.job] = {} /\ run.writer = "check"
      /\ status[run.job] = "working" =>
           /\ run.pc \in {"created", "scraping", "scraped"} => Stored(run.job)
           /\ run.pc = "materialized" => FileAgrees(run.job)
      /\ run.pc \in {"selected", "working", "created", "clearing"} => cancels = {}
      /\ run.writer \in {"reading", "storing"} => run.pc = "scraping"

\* No row is stored before the run.
RowsInv == \A j \in Jobs : status[j] \in {"absent", "pending"} => rows[j] = {} /\ file[j] = "absent"

\* Only a job that exists is deleted.
DeletingInv == \A j \in Jobs : Deleting(j) => status[j] # "absent"

\* A Delete that met no run leaves nothing, and no run begins behind it.
DeleteInv ==
  \A j \in Jobs : j \notin overlaps =>
    /\ Deleting(j) => file[j] = "absent" /\ ~RunOf(j)
    /\ status[j] = "deleted" => rows[j] = {} /\ file[j] = "absent" /\ ~RunOf(j)

IInv ==
  /\ TypeOK
  /\ RunInv
  /\ RowsInv
  /\ DeletingInv
  /\ DeleteInv
  /\ FileMatchesRows

Writers == {"check", "reading", "storing", "ended", "failed"}
Files == {"absent", "live", "whole", "cut"}
Pcs == {"idle", "selected", "working", "created", "scraping", "scraped", "materialized", "unwinding", "clearing"}
USE DEF Writers, Files

----------------------------------------------------------------------------
\* What an update may change.
LEMMA UpdateMoves ==
  ASSUME TypeOK, NEW j \in Jobs, NEW s \in {"working", "ok", "failed"}, NEW ok, Update(j, s, ok)
  PROVE  /\ status' \in [Jobs -> {"absent", "pending", "working", "ok", "failed", "deleted"}]
         /\ \A k \in Jobs : k # j => status'[k] = status[k]
         /\ status'[j] = IF ok /\ status[j] # "deleted" THEN s ELSE status[j]
BY DEF TypeOK, Update

\* A step of the run that changes where it is, and nothing the requests use.
LEMMA RunStepKeeps ==
  ASSUME IInv, run.pc # "idle", NEW pc \in Pcs, NEW w \in Writers,
         NEW c \in {"live", "done"},
         run' = [pc |-> pc, job |-> run.job, ctx |-> c, writer |-> w],
         status' \in [Jobs -> {"absent", "pending", "working", "ok", "failed", "deleted"}],
         \A k \in Jobs : k # run.job => status'[k] = status[k],
         status'[run.job] = "deleted" <=> status[run.job] = "deleted",
         status'[run.job] \in {status[run.job], "working", "ok", "failed"},
         UNCHANGED <<rows, file, lines, todo, buffer, cutOff, request, overlaps, down, restarts>>,
         paused' \subseteq Jobs,
         cancels' \subseteq {k \in Jobs : pc # "idle" /\ run.job = k},
         RunInv',
         status'[run.job] = "ok" => FileAgrees(run.job)
  PROVE  IInv'
<1>1. /\ TypeOK /\ RunInv /\ RowsInv /\ DeletingInv /\ DeleteInv /\ FileMatchesRows
      /\ run.job \in Jobs
  BY DEF IInv, TypeOK
<1>2. run'.pc = pc /\ run'.job = run.job
  OBVIOUS
<1>3. \A j \in Jobs : RunOf(j)' => RunOf(j)
  BY <1>2 DEF RunOf
<1>4. \A j \in Jobs : (RunOf(j)' <=> pc # "idle" /\ run.job = j)
  BY <1>2 DEF RunOf
<1>5. \A j \in Jobs : Deleting(j)' <=> Deleting(j)
  BY DEF Deleting
<1>6. TypeOK'
  <2>1. cancels' \subseteq {j \in Jobs : RunOf(j)'}
    BY <1>4
  <2>2. run' \in [pc : Pcs, job : Jobs, ctx : {"live", "done"}, writer : Writers]
    BY <1>1
  <2> QED BY <1>1, <2>1, <2>2 DEF TypeOK, Pcs, RunOf
<1>7. RowsInv' /\ DeletingInv'
  BY <1>1, <1>5 DEF RowsInv, DeletingInv
<1>8. DeleteInv'
  <2> SUFFICES ASSUME NEW j \in Jobs, j \notin overlaps
               PROVE  /\ Deleting(j)' => file[j] = "absent" /\ ~RunOf(j)'
                      /\ status'[j] = "deleted" => rows[j] = {} /\ file[j] = "absent" /\ ~RunOf(j)'
    BY DEF DeleteInv
  <2>1. status'[j] = "deleted" <=> status[j] = "deleted"
    OBVIOUS
  <2> QED BY <1>1, <1>3, <1>5, <2>1 DEF DeleteInv
<1>9. FileMatchesRows'
  <2> SUFFICES ASSUME NEW j \in Jobs, status'[j] = "ok"
               PROVE  FileAgrees(j)
    BY DEF FileMatchesRows, FileAgrees
  <2>1. CASE j = run.job
    BY <2>1
  <2>2. CASE j # run.job
    BY <1>1, <2>2 DEF FileMatchesRows
  <2> QED BY <2>1, <2>2
<1> QED BY <1>6, <1>7, <1>8, <1>9 DEF IInv

\* The fields of a run after one of them changed.
LEMMA RunRecord ==
  ASSUME TypeOK, NEW x
  PROVE  /\ [run EXCEPT !.pc = x] = [pc |-> x, job |-> run.job, ctx |-> run.ctx, writer |-> run.writer]
         /\ [run EXCEPT !.ctx = x] = [pc |-> run.pc, job |-> run.job, ctx |-> x, writer |-> run.writer]
         /\ [run EXCEPT !.writer = x] = [pc |-> run.pc, job |-> run.job, ctx |-> run.ctx, writer |-> x]
         /\ run.pc \in Pcs /\ run.job \in Jobs /\ run.ctx \in {"live", "done"}
         /\ run.writer \in Writers
<1>1. run \in [pc : Pcs, job : Jobs, ctx : {"live", "done"}, writer : Writers]
  BY DEF TypeOK, Pcs
<1>2. [run EXCEPT !.pc = x] = [pc |-> x, job |-> run.job, ctx |-> run.ctx, writer |-> run.writer]
  BY <1>1
<1>3. [run EXCEPT !.ctx = x] = [pc |-> run.pc, job |-> run.job, ctx |-> x, writer |-> run.writer]
  BY <1>1
<1>4. [run EXCEPT !.writer = x] = [pc |-> run.pc, job |-> run.job, ctx |-> run.ctx, writer |-> x]
  BY <1>1
<1> QED BY <1>1, <1>2, <1>3, <1>4

\* The steps of scrapeJob that leave the rows and the file alone.
LEMMA ControlStepKeeps ==
  ASSUME IInv, NEW ok \in BOOLEAN,
         \/ MarkWorking(ok) \/ SetupMateFails(ok) \/ MarkOK(ok)
         \/ CreateFails \/ SeedsFail \/ NoSeeds \/ RegisterRunCancel \/ ScrapeReturns
         \/ UnregisterRunCancel \/ ClearPaused
  PROVE  IInv'
<1>1. /\ TypeOK /\ RunInv /\ FileMatchesRows
      /\ status \in [Jobs -> {"absent", "pending", "working", "ok", "failed", "deleted"}]
      /\ paused \subseteq Jobs /\ cancels \subseteq {k \in Jobs : run.pc # "idle" /\ run.job = k}
  BY DEF IInv, TypeOK, RunOf
<1>2. /\ run.pc \in Pcs /\ run.job \in Jobs /\ run.ctx \in {"live", "done"}
      /\ run.writer \in Writers
  BY <1>1, RunRecord
<1>3. CASE MarkWorking(ok)
  <2>1. run.pc = "selected" /\ UNCHANGED <<rows, file, lines, todo, buffer, cutOff, request, overlaps, down, restarts>>
    BY <1>3 DEF MarkWorking, At, data, writing, control, process
  <2> DEFINE pc == IF ok THEN "working" ELSE "idle"
             c == run.ctx
  <2>2. run' = [pc |-> pc, job |-> run.job, ctx |-> c, writer |-> run.writer] /\ pc \in Pcs
    BY <1>1, <1>3, RunRecord DEF MarkWorking, GoTo, Pcs
  <2>3. run'.pc = pc /\ run'.job = run.job /\ run'.writer = run.writer
    BY <2>2
  <2>4. /\ status' \in [Jobs -> {"absent", "pending", "working", "ok", "failed", "deleted"}]
        /\ \A k \in Jobs : k # run.job => status'[k] = status[k]
        /\ status'[run.job] = IF ok /\ status[run.job] # "deleted" THEN "working" ELSE status[run.job]
    BY <1>1, <1>2, <1>3, UpdateMoves DEF MarkWorking
  <2>5. paused' \subseteq Jobs /\ cancels' \subseteq {k \in Jobs : pc # "idle" /\ run.job = k}
    BY <1>1, <1>2, <1>3, <2>1 DEF MarkWorking, control, RunInv, Stored, FileAgrees
  <2>6. RunInv'
    BY <1>1, <1>2, <1>3, <2>1, <2>3, <2>4 DEF MarkWorking, control, RunInv, Stored, FileAgrees, StatusAt
  <2>7. /\ status'[run.job] = "deleted" <=> status[run.job] = "deleted"
        /\ status'[run.job] \in {status[run.job], "working", "ok", "failed"}
        /\ c \in {"live", "done"} /\ run.pc # "idle"
    BY <1>1, <1>2, <2>1, <2>4 DEF RunInv, Stored, FileAgrees, StatusAt
  <2>8. status'[run.job] = "ok" => FileAgrees(run.job)
    BY <1>1, <1>2, <2>1, <2>4 DEF RunInv, Stored, FileAgrees, StatusAt, FileMatchesRows
  <2> HIDE DEF pc, c
  <2> QED BY <1>1, <1>2, <2>1, <2>2, <2>4, <2>5, <2>6, <2>7, <2>8, RunStepKeeps
<1>4. CASE SetupMateFails(ok)
  <2>1. run.pc = "created" /\ UNCHANGED <<rows, file, lines, todo, buffer, cutOff, request, overlaps, down, restarts>>
    BY <1>4 DEF SetupMateFails, At, data, writing, control, process
  <2> DEFINE pc == "clearing"
             c == run.ctx
  <2>2. run' = [pc |-> pc, job |-> run.job, ctx |-> c, writer |-> run.writer] /\ pc \in Pcs
    BY <1>1, <1>4, RunRecord DEF SetupMateFails, GoTo, Pcs
  <2>3. run'.pc = pc /\ run'.job = run.job /\ run'.writer = run.writer
    BY <2>2
  <2>4. /\ status' \in [Jobs -> {"absent", "pending", "working", "ok", "failed", "deleted"}]
        /\ \A k \in Jobs : k # run.job => status'[k] = status[k]
        /\ status'[run.job] = IF ok /\ status[run.job] # "deleted" THEN "failed" ELSE status[run.job]
    BY <1>1, <1>2, <1>4, UpdateMoves DEF SetupMateFails
  <2>5. paused' \subseteq Jobs /\ cancels' \subseteq {k \in Jobs : pc # "idle" /\ run.job = k}
    BY <1>1, <1>2, <1>4, <2>1 DEF SetupMateFails, control, RunInv, Stored, FileAgrees
  <2>6. RunInv'
    BY <1>1, <1>2, <1>4, <2>1, <2>3, <2>4 DEF SetupMateFails, control, RunInv, Stored, FileAgrees, StatusAt
  <2>7. /\ status'[run.job] = "deleted" <=> status[run.job] = "deleted"
        /\ status'[run.job] \in {status[run.job], "working", "ok", "failed"}
        /\ c \in {"live", "done"} /\ run.pc # "idle"
    BY <1>1, <1>2, <2>1, <2>4 DEF RunInv, Stored, FileAgrees, StatusAt
  <2>8. status'[run.job] = "ok" => FileAgrees(run.job)
    BY <1>1, <1>2, <2>1, <2>4 DEF RunInv, Stored, FileAgrees, StatusAt, FileMatchesRows
  <2> HIDE DEF pc, c
  <2> QED BY <1>1, <1>2, <2>1, <2>2, <2>4, <2>5, <2>6, <2>7, <2>8, RunStepKeeps
<1>5. CASE MarkOK(ok)
  <2>1. run.pc = "materialized" /\ UNCHANGED <<rows, file, lines, todo, buffer, cutOff, request, overlaps, down, restarts>>
    BY <1>5 DEF MarkOK, At, data, writing, control, process
  <2> DEFINE pc == "unwinding"
             c == run.ctx
  <2>2. run' = [pc |-> pc, job |-> run.job, ctx |-> c, writer |-> run.writer] /\ pc \in Pcs
    BY <1>1, <1>5, RunRecord DEF MarkOK, GoTo, Pcs
  <2>3. run'.pc = pc /\ run'.job = run.job /\ run'.writer = run.writer
    BY <2>2
  <2>4. /\ status' \in [Jobs -> {"absent", "pending", "working", "ok", "failed", "deleted"}]
        /\ \A k \in Jobs : k # run.job => status'[k] = status[k]
        /\ status'[run.job] = IF ok /\ status[run.job] # "deleted" THEN "ok" ELSE status[run.job]
    BY <1>1, <1>2, <1>5, UpdateMoves DEF MarkOK
  <2>5. paused' \subseteq Jobs /\ cancels' \subseteq {k \in Jobs : pc # "idle" /\ run.job = k}
    BY <1>1, <1>2, <1>5, <2>1 DEF MarkOK, control, RunInv, Stored, FileAgrees
  <2>6. RunInv'
    BY <1>1, <1>2, <1>5, <2>1, <2>3, <2>4 DEF MarkOK, control, RunInv, Stored, FileAgrees, StatusAt
  <2>7. /\ status'[run.job] = "deleted" <=> status[run.job] = "deleted"
        /\ status'[run.job] \in {status[run.job], "working", "ok", "failed"}
        /\ c \in {"live", "done"} /\ run.pc # "idle"
    BY <1>1, <1>2, <2>1, <2>4 DEF RunInv, Stored, FileAgrees, StatusAt
  <2>8. status'[run.job] = "ok" => FileAgrees(run.job)
    BY <1>1, <1>2, <2>1, <2>4 DEF RunInv, Stored, FileAgrees, StatusAt, FileMatchesRows
  <2> HIDE DEF pc, c
  <2> QED BY <1>1, <1>2, <2>1, <2>2, <2>4, <2>5, <2>6, <2>7, <2>8, RunStepKeeps
<1>6. CASE CreateFails
  <2>1. run.pc = "working" /\ UNCHANGED <<rows, file, lines, todo, buffer, cutOff, request, overlaps, down, restarts>>
    BY <1>6 DEF CreateFails, At, data, writing, control, process
  <2> DEFINE pc == "idle"
             c == run.ctx
  <2>2. run' = [pc |-> pc, job |-> run.job, ctx |-> c, writer |-> run.writer] /\ pc \in Pcs
    BY <1>1, <1>6, RunRecord DEF CreateFails, GoTo, Pcs
  <2>3. run'.pc = pc /\ run'.job = run.job /\ run'.writer = run.writer
    BY <2>2
  <2>4. UNCHANGED status
    BY <1>6 DEF CreateFails
  <2>5. paused' \subseteq Jobs /\ cancels' \subseteq {k \in Jobs : pc # "idle" /\ run.job = k}
    BY <1>1, <1>2, <1>6, <2>1 DEF CreateFails, control, RunInv, Stored, FileAgrees
  <2>6. RunInv'
    BY <1>1, <1>2, <1>6, <2>1, <2>3, <2>4 DEF CreateFails, control, RunInv, Stored, FileAgrees, StatusAt
  <2>7. /\ status'[run.job] = "deleted" <=> status[run.job] = "deleted"
        /\ status'[run.job] \in {status[run.job], "working", "ok", "failed"}
        /\ c \in {"live", "done"} /\ run.pc # "idle"
    BY <1>1, <1>2, <2>1, <2>4 DEF RunInv, Stored, FileAgrees, StatusAt
  <2>8. status'[run.job] = "ok" => FileAgrees(run.job)
    BY <1>1, <1>2, <2>1, <2>4 DEF RunInv, Stored, FileAgrees, StatusAt, FileMatchesRows
  <2> HIDE DEF pc, c
  <2> QED BY <1>1, <1>2, <2>1, <2>2, <2>4, <2>5, <2>6, <2>7, <2>8, RunStepKeeps
<1>7. CASE SeedsFail
  <2>1. run.pc = "created" /\ UNCHANGED <<rows, file, lines, todo, buffer, cutOff, request, overlaps, down, restarts>>
    BY <1>7 DEF SeedsFail, At, data, writing, control, process
  <2> DEFINE pc == "clearing"
             c == run.ctx
  <2>2. run' = [pc |-> pc, job |-> run.job, ctx |-> c, writer |-> run.writer] /\ pc \in Pcs
    BY <1>1, <1>7, RunRecord DEF SeedsFail, GoTo, Pcs
  <2>3. run'.pc = pc /\ run'.job = run.job /\ run'.writer = run.writer
    BY <2>2
  <2>4. UNCHANGED status
    BY <1>7 DEF SeedsFail
  <2>5. paused' \subseteq Jobs /\ cancels' \subseteq {k \in Jobs : pc # "idle" /\ run.job = k}
    BY <1>1, <1>2, <1>7, <2>1 DEF SeedsFail, control, RunInv, Stored, FileAgrees
  <2>6. RunInv'
    BY <1>1, <1>2, <1>7, <2>1, <2>3, <2>4 DEF SeedsFail, control, RunInv, Stored, FileAgrees, StatusAt
  <2>7. /\ status'[run.job] = "deleted" <=> status[run.job] = "deleted"
        /\ status'[run.job] \in {status[run.job], "working", "ok", "failed"}
        /\ c \in {"live", "done"} /\ run.pc # "idle"
    BY <1>1, <1>2, <2>1, <2>4 DEF RunInv, Stored, FileAgrees, StatusAt
  <2>8. status'[run.job] = "ok" => FileAgrees(run.job)
    BY <1>1, <1>2, <2>1, <2>4 DEF RunInv, Stored, FileAgrees, StatusAt, FileMatchesRows
  <2> HIDE DEF pc, c
  <2> QED BY <1>1, <1>2, <2>1, <2>2, <2>4, <2>5, <2>6, <2>7, <2>8, RunStepKeeps
<1>8. CASE NoSeeds
  <2>1. run.pc = "created" /\ UNCHANGED <<rows, file, lines, todo, buffer, cutOff, request, overlaps, down, restarts>>
    BY <1>8 DEF NoSeeds, At, data, writing, control, process
  <2> DEFINE pc == "scraped"
             c == run.ctx
  <2>2. run' = [pc |-> pc, job |-> run.job, ctx |-> c, writer |-> run.writer] /\ pc \in Pcs
    BY <1>1, <1>8, RunRecord DEF NoSeeds, GoTo, Pcs
  <2>3. run'.pc = pc /\ run'.job = run.job /\ run'.writer = run.writer
    BY <2>2
  <2>4. UNCHANGED status
    BY <1>8 DEF NoSeeds
  <2>5. paused' \subseteq Jobs /\ cancels' \subseteq {k \in Jobs : pc # "idle" /\ run.job = k}
    BY <1>1, <1>2, <1>8, <2>1 DEF NoSeeds, control, RunInv, Stored, FileAgrees
  <2>6. RunInv'
    BY <1>1, <1>2, <1>8, <2>1, <2>3, <2>4 DEF NoSeeds, control, RunInv, Stored, FileAgrees, StatusAt
  <2>7. /\ status'[run.job] = "deleted" <=> status[run.job] = "deleted"
        /\ status'[run.job] \in {status[run.job], "working", "ok", "failed"}
        /\ c \in {"live", "done"} /\ run.pc # "idle"
    BY <1>1, <1>2, <2>1, <2>4 DEF RunInv, Stored, FileAgrees, StatusAt
  <2>8. status'[run.job] = "ok" => FileAgrees(run.job)
    BY <1>1, <1>2, <2>1, <2>4 DEF RunInv, Stored, FileAgrees, StatusAt, FileMatchesRows
  <2> HIDE DEF pc, c
  <2> QED BY <1>1, <1>2, <2>1, <2>2, <2>4, <2>5, <2>6, <2>7, <2>8, RunStepKeeps
<1>9. CASE RegisterRunCancel
  <2>1. run.pc = "created" /\ UNCHANGED <<rows, file, lines, todo, buffer, cutOff, request, overlaps, down, restarts>>
    BY <1>9 DEF RegisterRunCancel, At, data, writing, control, process
  <2> DEFINE pc == "scraping"
             c == run.ctx
  <2>2. run' = [pc |-> pc, job |-> run.job, ctx |-> c, writer |-> run.writer] /\ pc \in Pcs
    BY <1>1, <1>9, RunRecord DEF RegisterRunCancel, GoTo, Pcs
  <2>3. run'.pc = pc /\ run'.job = run.job /\ run'.writer = run.writer
    BY <2>2
  <2>4. UNCHANGED status
    BY <1>9 DEF RegisterRunCancel
  <2>5. paused' \subseteq Jobs /\ cancels' \subseteq {k \in Jobs : pc # "idle" /\ run.job = k}
    BY <1>1, <1>2, <1>9, <2>1 DEF RegisterRunCancel, control, RunInv, Stored, FileAgrees
  <2>6. RunInv'
    BY <1>1, <1>2, <1>9, <2>1, <2>3, <2>4 DEF RegisterRunCancel, control, RunInv, Stored, FileAgrees, StatusAt
  <2>7. /\ status'[run.job] = "deleted" <=> status[run.job] = "deleted"
        /\ status'[run.job] \in {status[run.job], "working", "ok", "failed"}
        /\ c \in {"live", "done"} /\ run.pc # "idle"
    BY <1>1, <1>2, <2>1, <2>4 DEF RunInv, Stored, FileAgrees, StatusAt
  <2>8. status'[run.job] = "ok" => FileAgrees(run.job)
    BY <1>1, <1>2, <2>1, <2>4 DEF RunInv, Stored, FileAgrees, StatusAt, FileMatchesRows
  <2> HIDE DEF pc, c
  <2> QED BY <1>1, <1>2, <2>1, <2>2, <2>4, <2>5, <2>6, <2>7, <2>8, RunStepKeeps
<1>10. CASE ScrapeReturns
  <2>1. run.pc = "scraping" /\ UNCHANGED <<rows, file, lines, todo, buffer, cutOff, request, overlaps, down, restarts>>
    BY <1>10 DEF ScrapeReturns, At, data, writing, control, process
  <2> DEFINE pc == IF run.writer = "failed" THEN "unwinding" ELSE "scraped"
             c == run.ctx
  <2>2. run' = [pc |-> pc, job |-> run.job, ctx |-> c, writer |-> run.writer] /\ pc \in Pcs
    BY <1>1, <1>10, RunRecord DEF ScrapeReturns, GoTo, Pcs
  <2>3. run'.pc = pc /\ run'.job = run.job /\ run'.writer = run.writer
    BY <2>2
  <2>4. UNCHANGED status
    BY <1>10 DEF ScrapeReturns
  <2>5. paused' \subseteq Jobs /\ cancels' \subseteq {k \in Jobs : pc # "idle" /\ run.job = k}
    BY <1>1, <1>2, <1>10, <2>1 DEF ScrapeReturns, control, RunInv, Stored, FileAgrees
  <2>6. RunInv'
    BY <1>1, <1>2, <1>10, <2>1, <2>3, <2>4 DEF ScrapeReturns, control, RunInv, Stored, FileAgrees, StatusAt
  <2>7. /\ status'[run.job] = "deleted" <=> status[run.job] = "deleted"
        /\ status'[run.job] \in {status[run.job], "working", "ok", "failed"}
        /\ c \in {"live", "done"} /\ run.pc # "idle"
    BY <1>1, <1>2, <2>1, <2>4 DEF RunInv, Stored, FileAgrees, StatusAt
  <2>8. status'[run.job] = "ok" => FileAgrees(run.job)
    BY <1>1, <1>2, <2>1, <2>4 DEF RunInv, Stored, FileAgrees, StatusAt, FileMatchesRows
  <2> HIDE DEF pc, c
  <2> QED BY <1>1, <1>2, <2>1, <2>2, <2>4, <2>5, <2>6, <2>7, <2>8, RunStepKeeps
<1>11. CASE UnregisterRunCancel
  <2>1. run.pc = "unwinding" /\ UNCHANGED <<rows, file, lines, todo, buffer, cutOff, request, overlaps, down, restarts>>
    BY <1>11 DEF UnregisterRunCancel, At, data, writing, control, process
  <2> DEFINE pc == "clearing"
             c == "done"
  <2>2. run' = [pc |-> pc, job |-> run.job, ctx |-> c, writer |-> run.writer] /\ pc \in Pcs
    BY <1>1, <1>11, RunRecord DEF UnregisterRunCancel, GoTo, Pcs
  <2>3. run'.pc = pc /\ run'.job = run.job /\ run'.writer = run.writer
    BY <2>2
  <2>4. UNCHANGED status
    BY <1>11 DEF UnregisterRunCancel
  <2>5. paused' \subseteq Jobs /\ cancels' \subseteq {k \in Jobs : pc # "idle" /\ run.job = k}
    BY <1>1, <1>2, <1>11, <2>1 DEF UnregisterRunCancel, control, RunInv, Stored, FileAgrees
  <2>6. RunInv'
    BY <1>1, <1>2, <1>11, <2>1, <2>3, <2>4 DEF UnregisterRunCancel, control, RunInv, Stored, FileAgrees, StatusAt
  <2>7. /\ status'[run.job] = "deleted" <=> status[run.job] = "deleted"
        /\ status'[run.job] \in {status[run.job], "working", "ok", "failed"}
        /\ c \in {"live", "done"} /\ run.pc # "idle"
    BY <1>1, <1>2, <2>1, <2>4 DEF RunInv, Stored, FileAgrees, StatusAt
  <2>8. status'[run.job] = "ok" => FileAgrees(run.job)
    BY <1>1, <1>2, <2>1, <2>4 DEF RunInv, Stored, FileAgrees, StatusAt, FileMatchesRows
  <2> HIDE DEF pc, c
  <2> QED BY <1>1, <1>2, <2>1, <2>2, <2>4, <2>5, <2>6, <2>7, <2>8, RunStepKeeps
<1>12. CASE ClearPaused
  <2>1. run.pc = "clearing" /\ UNCHANGED <<rows, file, lines, todo, buffer, cutOff, request, overlaps, down, restarts>>
    BY <1>12 DEF ClearPaused, At, data, writing, control, process
  <2> DEFINE pc == "idle"
             c == run.ctx
  <2>2. run' = [pc |-> pc, job |-> run.job, ctx |-> c, writer |-> run.writer] /\ pc \in Pcs
    BY <1>1, <1>12, RunRecord DEF ClearPaused, GoTo, Pcs
  <2>3. run'.pc = pc /\ run'.job = run.job /\ run'.writer = run.writer
    BY <2>2
  <2>4. UNCHANGED status
    BY <1>12 DEF ClearPaused
  <2>5. paused' \subseteq Jobs /\ cancels' \subseteq {k \in Jobs : pc # "idle" /\ run.job = k}
    BY <1>1, <1>2, <1>12, <2>1 DEF ClearPaused, control, RunInv, Stored, FileAgrees
  <2>6. RunInv'
    BY <1>1, <1>2, <1>12, <2>1, <2>3, <2>4 DEF ClearPaused, control, RunInv, Stored, FileAgrees, StatusAt
  <2>7. /\ status'[run.job] = "deleted" <=> status[run.job] = "deleted"
        /\ status'[run.job] \in {status[run.job], "working", "ok", "failed"}
        /\ c \in {"live", "done"} /\ run.pc # "idle"
    BY <1>1, <1>2, <2>1, <2>4 DEF RunInv, Stored, FileAgrees, StatusAt
  <2>8. status'[run.job] = "ok" => FileAgrees(run.job)
    BY <1>1, <1>2, <2>1, <2>4 DEF RunInv, Stored, FileAgrees, StatusAt, FileMatchesRows
  <2> HIDE DEF pc, c
  <2> QED BY <1>1, <1>2, <2>1, <2>2, <2>4, <2>5, <2>6, <2>7, <2>8, RunStepKeeps
<1> QED BY <1>3, <1>4, <1>5, <1>6, <1>7, <1>8, <1>9, <1>10, <1>11, <1>12

\* The end of the scrape's context.
LEMMA ContextEndsKeeps ==
  ASSUME IInv, ContextEnds
  PROVE  IInv'
<1>1. /\ TypeOK /\ RunInv /\ FileMatchesRows
      /\ status \in [Jobs -> {"absent", "pending", "working", "ok", "failed", "deleted"}]
      /\ paused \subseteq Jobs /\ cancels \subseteq {k \in Jobs : run.pc # "idle" /\ run.job = k}
  BY DEF IInv, TypeOK, RunOf
<1>2. run.pc \in Pcs /\ run.job \in Jobs /\ run.writer \in Writers
  BY <1>1, RunRecord
<1>3. /\ run.pc = "scraping"
      /\ UNCHANGED <<status, rows, file, lines, todo, buffer, cutOff, paused, cancels, request, overlaps, down, restarts>>
  BY DEF ContextEnds, At, data, writing, control, process
<1>4. run' = [pc |-> run.pc, job |-> run.job, ctx |-> "done", writer |-> run.writer]
  BY <1>1, RunRecord DEF ContextEnds
<1>5. run'.pc = run.pc /\ run'.job = run.job /\ run'.writer = run.writer
  BY <1>4
<1>6. RunInv'
  BY <1>1, <1>3, <1>5 DEF RunInv, Stored, FileAgrees, StatusAt
<1>7. /\ status'[run.job] = "deleted" <=> status[run.job] = "deleted"
      /\ status'[run.job] \in {status[run.job], "working", "ok", "failed"}
      /\ status'[run.job] = "ok" => FileAgrees(run.job)
  BY <1>1, <1>2, <1>3 DEF FileMatchesRows
<1>8. cancels' \subseteq {k \in Jobs : run.pc # "idle" /\ run.job = k} /\ paused' \subseteq Jobs
  BY <1>1, <1>3
<1> QED BY <1>1, <1>2, <1>3, <1>4, <1>6, <1>7, <1>8, RunStepKeeps

\* A step of the run that writes rows or the file of its job: it needs only be
\* checked for that job, which is not "ok" and whose deletion saw the run.
LEMMA DataStepKeeps ==
  ASSUME IInv, NEW pc \in Pcs, run.pc # "idle", pc # "idle", NEW w \in Writers,
         status[run.job] \in {"working", "deleted"},
         run' = [pc |-> pc, job |-> run.job, ctx |-> run.ctx, writer |-> w],
         UNCHANGED <<status, paused, cancels, request, overlaps, down, restarts>>,
         todo' \subseteq Places, buffer' \subseteq Places, cutOff \subseteq cutOff', cutOff' \subseteq Jobs,
         rows' \in [Jobs -> SUBSET Places], lines' \in [Jobs -> SUBSET Places],
         file' \in [Jobs -> Files],
         \A k \in Jobs : k # run.job => rows'[k] = rows[k] /\ file'[k] = file[k] /\ lines'[k] = lines[k],
         RunInv'
  PROVE  IInv'
<1>1. /\ TypeOK /\ RunInv /\ RowsInv /\ DeletingInv /\ DeleteInv /\ FileMatchesRows
      /\ run.job \in Jobs /\ run.ctx \in {"live", "done"}
  BY DEF IInv, TypeOK
<1>2. \A j \in Jobs : RunOf(j)' <=> RunOf(j)
  BY DEF RunOf
<1>3. \A j \in Jobs : Deleting(j)' <=> Deleting(j)
  BY DEF Deleting
<1>4. TypeOK'
  <2>1. run' \in [pc : Pcs, job : Jobs, ctx : {"live", "done"}, writer : Writers]
    BY <1>1
  <2> QED BY <1>1, <1>2, <2>1 DEF TypeOK, Pcs
<1>8. DeletingInv'
  BY <1>1, <1>3 DEF DeletingInv
<1>5. RowsInv'
  <2> SUFFICES ASSUME NEW j \in Jobs, status[j] \in {"absent", "pending"}
               PROVE  rows'[j] = {} /\ file'[j] = "absent"
    BY DEF RowsInv
  <2> QED BY <1>1 DEF RowsInv
<1>6. DeleteInv'
  <2> SUFFICES ASSUME NEW j \in Jobs, j \notin overlaps
               PROVE  /\ Deleting(j) => file'[j] = "absent" /\ ~RunOf(j)
                      /\ status[j] = "deleted" => rows'[j] = {} /\ file'[j] = "absent" /\ ~RunOf(j)
    BY <1>2, <1>3 DEF DeleteInv
  <2>1. CASE j = run.job
    BY <1>1, <2>1 DEF DeleteInv, RunOf
  <2>2. CASE j # run.job
    BY <1>1, <2>2 DEF DeleteInv
  <2> QED BY <2>1, <2>2
<1>7. FileMatchesRows'
  BY <1>1 DEF FileMatchesRows, FileAgrees
<1> QED BY <1>4, <1>5, <1>6, <1>7, <1>8 DEF IInv

LEMMA CreateFileKeeps ==
  ASSUME IInv, CreateFile
  PROVE  IInv'
<1>1. /\ TypeOK /\ RunInv /\ run.pc = "working" /\ run.job \in Jobs /\ run.writer = "check"
      /\ status[run.job] \in {"working", "deleted"} /\ rows[run.job] = {} /\ cancels = {}
      /\ todo = {} /\ buffer = {} /\ cutOff \subseteq Jobs
  BY DEF IInv, TypeOK, CreateFile, At, RunInv, Stored, FileAgrees, StatusAt
<1>2. run' = [pc |-> "created", job |-> run.job, ctx |-> run.ctx, writer |-> run.writer]
  BY <1>1, RunRecord DEF CreateFile, GoTo
<1>3. /\ UNCHANGED <<status, rows, paused, cancels, request, overlaps, down, restarts>>
      /\ UNCHANGED <<todo, buffer, cutOff>>
      /\ file' = [file EXCEPT ![run.job] = "live"] /\ lines' = [lines EXCEPT ![run.job] = {}]
  BY DEF CreateFile, writing, control, process
<1>4. /\ file \in [Jobs -> Files] /\ lines \in [Jobs -> SUBSET Places]
      /\ rows \in [Jobs -> SUBSET Places]
  BY <1>1 DEF TypeOK
<1>5. /\ file' \in [Jobs -> Files] /\ lines' \in [Jobs -> SUBSET Places]
      /\ rows' \in [Jobs -> SUBSET Places] /\ lines'[run.job] = {} /\ file'[run.job] = "live"
      /\ \A k \in Jobs : k # run.job => rows'[k] = rows[k] /\ file'[k] = file[k] /\ lines'[k] = lines[k]
  BY <1>1, <1>3, <1>4
<1>6. run'.pc = "created" /\ run'.job = run.job /\ run'.writer = "check"
  BY <1>1, <1>2
<1>7. RunInv'
  BY <1>1, <1>3, <1>5, <1>6 DEF RunInv, Stored, FileAgrees, StatusAt
<1>8. "created" \in Pcs
  BY DEF Pcs
<1> QED BY <1>1, <1>2, <1>3, <1>5, <1>7, <1>8, DataStepKeeps

LEMMA MaterializeKeeps ==
  ASSUME IInv, NEW result \in {"unread", "whole", "cut"}, MaterializeJobCSV(result)
  PROVE  IInv'
<1>1. /\ TypeOK /\ RunInv /\ run.pc = "scraped" /\ run.job \in Jobs
      /\ run.writer \in {"check", "ended", "failed"}
      /\ status[run.job] \in {"working", "deleted"}
      /\ todo = {} /\ buffer = {} /\ cutOff \subseteq Jobs
      /\ status[run.job] = "working" => Stored(run.job)
  BY DEF IInv, TypeOK, MaterializeJobCSV, At, RunInv, StatusAt
<1>2. run' = [pc |-> "materialized", job |-> run.job, ctx |-> run.ctx, writer |-> run.writer]
  BY <1>1, RunRecord DEF MaterializeJobCSV, GoTo
<1>3. /\ UNCHANGED <<status, rows, paused, cancels, request, overlaps, down, restarts>>
      /\ UNCHANGED <<todo, buffer, cutOff>>
      /\ \/ UNCHANGED <<file, lines>>
         \/ /\ file' = [file EXCEPT ![run.job] = result] /\ result \in {"whole", "cut"}
            /\ lines' = [lines EXCEPT ![run.job] = rows[run.job]]
  BY DEF MaterializeJobCSV, writing, control, process
<1>4. /\ file \in [Jobs -> Files] /\ lines \in [Jobs -> SUBSET Places]
      /\ rows \in [Jobs -> SUBSET Places]
  BY <1>1 DEF TypeOK
<1>5. /\ file' \in [Jobs -> Files] /\ lines' \in [Jobs -> SUBSET Places]
      /\ rows' \in [Jobs -> SUBSET Places]
      /\ \A k \in Jobs : k # run.job => rows'[k] = rows[k] /\ file'[k] = file[k] /\ lines'[k] = lines[k]
  BY <1>1, <1>3, <1>4
<1>9. status[run.job] = "working" => FileAgrees(run.job)'
  <2>1. CASE UNCHANGED <<file, lines>>
    BY <1>1, <1>2, <1>3, <2>1 DEF Stored, FileAgrees
  <2>2. CASE file' = [file EXCEPT ![run.job] = result] /\ lines' = [lines EXCEPT ![run.job] = rows[run.job]]
             /\ result \in {"whole", "cut"}
    <3>1. file'[run.job] \in {"whole", "cut"} /\ lines'[run.job] = rows'[run.job] /\ run'.job = run.job
      BY <1>1, <1>2, <1>3, <1>4, <2>2
    <3> QED BY <3>1 DEF FileAgrees
  <2> QED BY <1>3, <2>1, <2>2
<1>6. run'.pc = "materialized" /\ run'.job = run.job /\ run'.writer = run.writer
  BY <1>2
<1>7. RunInv'
  BY <1>1, <1>3, <1>5, <1>6, <1>9 DEF RunInv, StatusAt
<1>8. "materialized" \in Pcs
  BY DEF Pcs
<1> QED BY <1>1, <1>2, <1>3, <1>5, <1>7, <1>8, DataStepKeeps

\* The steps of the writer, which all happen while the run scrapes: what they have
\* in common is that they leave the requests and every other job alone.
LEMMA WriterStepKeeps ==
  ASSUME IInv, run.pc = "scraping", NEW w \in Writers,
         run' = [pc |-> run.pc, job |-> run.job, ctx |-> run.ctx, writer |-> w],
         UNCHANGED <<status, file, control, process>>,
         NEW R \in SUBSET Places, NEW L \in SUBSET Places,
         rows' = [rows EXCEPT ![run.job] = @ \cup R],
         lines' = IF file[run.job] = "live" THEN [lines EXCEPT ![run.job] = @ \cup L] ELSE lines,
         todo' \subseteq Places, buffer' \subseteq Places, cutOff' \in {cutOff, cutOff \cup {run.job}},
         w \in {"ended", "failed"} => todo' = {} /\ buffer' = {},
         Stored(run.job) => L \subseteq rows[run.job] \cup R /\ buffer' \subseteq rows[run.job] \cup R
                            /\ (run.job \in cutOff' \/ R \cup buffer \subseteq L \cup buffer')
  PROVE  IInv'
<1>1. /\ TypeOK /\ RunInv /\ run.job \in Jobs /\ status[run.job] \in {"working", "deleted"}
      /\ file \in [Jobs -> Files] /\ lines \in [Jobs -> SUBSET Places] /\ rows \in [Jobs -> SUBSET Places]
      /\ cutOff \subseteq Jobs
      /\ status[run.job] = "working" => Stored(run.job)
  BY DEF IInv, TypeOK, RunInv, StatusAt
<1>2. UNCHANGED <<status, file, paused, cancels, request, overlaps, down, restarts>>
  BY DEF control, process
<1>3. /\ rows' \in [Jobs -> SUBSET Places] /\ lines' \in [Jobs -> SUBSET Places] /\ file' \in [Jobs -> Files]
      /\ \A k \in Jobs : k # run.job => rows'[k] = rows[k] /\ file'[k] = file[k] /\ lines'[k] = lines[k]
      /\ rows'[run.job] = rows[run.job] \cup R
      /\ file[run.job] = "live" => lines'[run.job] = lines[run.job] \cup L
  BY <1>1, <1>2
<1>4. cutOff \subseteq cutOff' /\ cutOff' \subseteq Jobs
  BY <1>1
<1>5. run'.pc = "scraping" /\ run'.job = run.job /\ run'.writer = w
  OBVIOUS
<1>6. status[run.job] = "working" => Stored(run.job)'
  <2> SUFFICES ASSUME Stored(run.job)
               PROVE  Stored(run.job)'
    BY <1>1
  <2> QED BY <1>2, <1>3, <1>4, <1>5 DEF Stored
<1>7. RunInv'
  BY <1>1, <1>2, <1>5, <1>6 DEF RunInv, StatusAt
<1>8. run.pc \in Pcs
  BY DEF Pcs
<1> QED BY <1>1, <1>2, <1>3, <1>4, <1>7, <1>8, DataStepKeeps

\* The writer stops, having written the buffered lines if the buffer was full.
LEMMA StopKeeps ==
  ASSUME IInv, run.pc = "scraping", NEW w \in {"ended", "failed"}, NEW full \in BOOLEAN,
         Written(IF full THEN buffer ELSE {}), WriterStops(w, IF full THEN {} ELSE buffer),
         UNCHANGED <<status, rows, file, control, process>>
  PROVE  IInv'
<1>1. TypeOK /\ run.job \in Jobs /\ rows \in [Jobs -> SUBSET Places] /\ buffer \subseteq Places
  BY DEF IInv, TypeOK
<1> DEFINE L == IF full THEN buffer ELSE {}
<1>2. run' = [pc |-> run.pc, job |-> run.job, ctx |-> run.ctx, writer |-> w]
  BY <1>1, RunRecord DEF WriterStops, Writer
<1>3. /\ todo' = {} /\ buffer' = {} /\ cutOff' \in {cutOff, cutOff \cup {run.job}}
      /\ run.job \in cutOff' \/ buffer \subseteq L
  BY DEF WriterStops
<1>4. lines' = IF file[run.job] = "live" THEN [lines EXCEPT ![run.job] = @ \cup L] ELSE lines
  BY DEF Written
<1>5. rows' = [rows EXCEPT ![run.job] = @ \cup {}]
  BY <1>1
<1>6. Stored(run.job) => L \subseteq rows[run.job]
  BY DEF Stored
<1>7. L \in SUBSET Places /\ w \in Writers /\ {} \in SUBSET Places
  BY <1>1
<1> HIDE DEF L
<1> QED BY <1>2, <1>3, <1>4, <1>5, <1>6, <1>7, WriterStepKeeps

\* A step that neither stores nor writes, whatever it does with the result.
LEMMA QuietKeeps ==
  ASSUME IInv, run.pc = "scraping", NEW w \in {"check", "reading", "storing"}, Writer(w),
         todo' \subseteq Places, UNCHANGED <<status, rows, file, lines, buffer, cutOff, control, process>>
  PROVE  IInv'
<1>1. /\ TypeOK /\ run.job \in Jobs /\ rows \in [Jobs -> SUBSET Places] /\ lines \in [Jobs -> SUBSET Places]
      /\ buffer \subseteq Places
  BY DEF IInv, TypeOK
<1>2. run' = [pc |-> run.pc, job |-> run.job, ctx |-> run.ctx, writer |-> w]
  BY <1>1, RunRecord DEF Writer
<1>3. rows' = [rows EXCEPT ![run.job] = @ \cup {}]
  BY <1>1
<1>4. lines' = IF file[run.job] = "live" THEN [lines EXCEPT ![run.job] = @ \cup {}] ELSE lines
  BY <1>1
<1>5. Stored(run.job) => buffer' \subseteq rows[run.job] \cup {}
  BY DEF Stored
<1>6. {} \in SUBSET Places /\ w \in Writers /\ w \notin {"ended", "failed"} /\ buffer' = buffer /\ cutOff' = cutOff
  OBVIOUS
<1> QED BY <1>1, <1>2, <1>3, <1>4, <1>5, <1>6, WriterStepKeeps

LEMMA WriterKeeps ==
  ASSUME IInv, WriterStep
  PROVE  IInv'
<1>1. /\ TypeOK /\ RunInv /\ run.job \in Jobs /\ rows \in [Jobs -> SUBSET Places]
      /\ buffer \subseteq Places /\ todo \subseteq Places
      /\ run.pc # "idle" /\ run.writer = "storing" => run.pc = "scraping"
  BY DEF IInv, TypeOK, RunInv
<1>2. ASSUME WriterStops("ended", buffer) \/ WriterStops("failed", buffer), run.pc = "scraping",
             UNCHANGED <<status, rows, file, lines, control, process>>
      PROVE  IInv'
  <2>1. lines \in [Jobs -> SUBSET Places]
    BY <1>1 DEF TypeOK
  <2>2. Written({})
    BY <1>1, <1>2, <2>1 DEF Written
  <2>3. Written(IF FALSE THEN buffer ELSE {}) /\ buffer = (IF FALSE THEN {} ELSE buffer)
    BY <2>2
  <2> QED BY <1>2, <2>3, StopKeeps
<1>3. CASE WaitIfPaused
  <2>1. CASE Writer("reading") /\ UNCHANGED writing
    BY <1>1, <1>3, <2>1, QuietKeeps DEF WaitIfPaused, Writing, At, writing
  <2>2. CASE WriterStops("ended", buffer)
    BY <1>2, <1>3, <2>2 DEF WaitIfPaused, Writing, At
  <2> QED BY <1>3, <2>1, <2>2 DEF WaitIfPaused
<1>4. CASE WriterFails \/ WriterCtxDone
  BY <1>2, <1>4 DEF WriterFails, WriterCtxDone, Writing, At
<1>5. ASSUME NEW places \in SUBSET Places, WriterTakes(places)
      PROVE  IInv'
  <2>1. PICK w \in {"check", "storing"} : Writer(w)
    BY <1>5 DEF WriterTakes
  <2> QED BY <1>5, <2>1, QuietKeeps DEF WriterTakes, Writing, At
<1>6. ASSUME NEW full \in BOOLEAN, NEW p \in todo, WriterStores(p, full)
      PROVE  IInv'
  <2> DEFINE L == IF full THEN buffer ELSE {}
  <2>1. run.pc = "scraping" /\ run.writer = "storing" /\ {p} \in SUBSET Places /\ L \in SUBSET Places
    BY <1>1, <1>6 DEF WriterStores
  <2>2. run' = [pc |-> run.pc, job |-> run.job, ctx |-> run.ctx, writer |-> "storing"]
    BY <1>1, <1>6, <2>1 DEF WriterStores, TypeOK
  <2>3. /\ rows' = [rows EXCEPT ![run.job] = @ \cup {p}]
        /\ todo' \subseteq Places /\ buffer' \subseteq Places /\ cutOff' = cutOff
        /\ {p} \cup buffer \subseteq L \cup buffer' /\ buffer' \subseteq buffer \cup {p}
        /\ UNCHANGED <<status, file, control, process>>
    BY <1>1, <1>6 DEF WriterStores
  <2>4. lines' = IF file[run.job] = "live" THEN [lines EXCEPT ![run.job] = @ \cup L] ELSE lines
    BY <1>6, <2>1 DEF WriterStores, Written
  <2>5. Stored(run.job) => L \subseteq rows[run.job] \cup {p} /\ buffer' \subseteq rows[run.job] \cup {p}
    BY <2>3 DEF Stored
  <2>6. "storing" \in Writers /\ "storing" \notin {"ended", "failed"}
    OBVIOUS
  <2> HIDE DEF L
  <2> QED BY <2>1, <2>2, <2>3, <2>4, <2>5, <2>6, WriterStepKeeps
<1>7. ASSUME NEW full \in BOOLEAN, NEW error \in BOOLEAN, WriterStoreFails(full, error)
      PROVE  IInv'
  <2>1. PICK w \in {"ended", "failed"} : WriterStops(w, IF full THEN {} ELSE buffer)
    BY <1>7 DEF WriterStoreFails
  <2> QED BY <1>1, <1>7, <2>1, StopKeeps DEF WriterStoreFails
<1>8. ASSUME NEW places \in SUBSET buffer, WriterFlushes(places)
      PROVE  IInv'
  <2>1. run.pc = "scraping" /\ places \in SUBSET Places
    BY <1>1, <1>8 DEF WriterFlushes
  <2>2. run' = [pc |-> run.pc, job |-> run.job, ctx |-> run.ctx, writer |-> "check"]
    BY <1>1, <1>8, RunRecord DEF WriterFlushes, Writer
  <2>3. /\ rows' = [rows EXCEPT ![run.job] = @ \cup {}]
        /\ todo' \subseteq Places /\ buffer' \subseteq Places /\ cutOff' = cutOff
        /\ buffer \subseteq places \cup buffer' /\ buffer' \subseteq buffer
        /\ UNCHANGED <<status, file, control, process>>
    BY <1>1, <1>8 DEF WriterFlushes
  <2>4. lines' = IF file[run.job] = "live" THEN [lines EXCEPT ![run.job] = @ \cup places] ELSE lines
    BY <1>8, <2>1 DEF WriterFlushes, Written
  <2>5. Stored(run.job) => places \subseteq rows[run.job] /\ buffer' \subseteq rows[run.job]
    BY <2>3 DEF Stored
  <2>6. "check" \in Writers /\ "check" \notin {"ended", "failed"} /\ {} \in SUBSET Places
    OBVIOUS
  <2> QED BY <2>1, <2>2, <2>3, <2>4, <2>5, <2>6, WriterStepKeeps
<1> QED BY <1>3, <1>4, <1>5, <1>6, <1>7, <1>8 DEF WriterStep, StoreStep

----------------------------------------------------------------------------
(* The requests.                                                            *)

Ops == {"none", "stop", "stopping", "found", "pause", "resume", "delete"}

\* A request takes its next step; none begins to delete.
LEMMA RequestMoves ==
  ASSUME TypeOK, NEW h \in Requests, NEW op \in Ops, NEW j \in Jobs,
         request' = [request EXCEPT ![h] = [op |-> op, job |-> j]]
  PROVE  /\ request' \in [Requests -> [op : Ops, job : Jobs]]
         /\ op # "delete" => \A k : Deleting(k)' => Deleting(k)
         /\ \A k : k # j => (Deleting(k)' => Deleting(k))
<1>1. request \in [Requests -> [op : Ops, job : Jobs]]
  BY DEF TypeOK, Ops
<1>2. \A g \in Requests : request'[g] = IF g = h THEN [op |-> op, job |-> j] ELSE request[g]
  BY <1>1
<1> QED BY <1>1, <1>2 DEF Deleting

\* A step of a request that deletes nothing.
LEMMA ControlRequestKeeps ==
  ASSUME IInv, NEW h \in Requests,
         \/ \E j \in Jobs, op \in {"stop", "pause", "resume"} : ReadsStatus(h, op, j)
         \/ SetsPaused(h) \/ ClearsPaused(h) \/ StopUnpauses(h) \/ StopLooksUp(h) \/ StopCancels(h)
  PROVE  IInv'
<1>1. /\ TypeOK /\ RunInv /\ RowsInv /\ DeletingInv /\ DeleteInv /\ FileMatchesRows
      /\ request[h].job \in Jobs /\ paused \subseteq Jobs
      /\ run.pc \in Pcs /\ run.job \in Jobs /\ run.ctx \in {"live", "done"}
      /\ run.writer \in Writers
  BY RunRecord DEF IInv, TypeOK
<1>2. UNCHANGED <<status, rows, file, lines, todo, buffer, cutOff, cancels, overlaps, down, restarts>>
  BY DEF ReadsStatus, SetsPaused, ClearsPaused, StopUnpauses, StopLooksUp, StopCancels, data, writing, process
<1>3. paused' \subseteq Jobs
  BY <1>1 DEF ReadsStatus, SetsPaused, ClearsPaused, StopUnpauses, StopLooksUp, StopCancels
<1>4. PICK c \in {"live", "done"} : run' = [pc |-> run.pc, job |-> run.job, ctx |-> c, writer |-> run.writer]
  <2>1. run = [pc |-> run.pc, job |-> run.job, ctx |-> run.ctx, writer |-> run.writer]
    BY <1>1 DEF TypeOK
  <2>2. CASE UNCHANGED run
    BY <1>1, <2>1, <2>2
  <2>3. CASE run' = [run EXCEPT !.ctx = "done"]
    BY <1>1, <2>3, RunRecord
  <2> QED BY <2>2, <2>3 DEF ReadsStatus, SetsPaused, ClearsPaused, StopUnpauses, StopLooksUp, StopCancels
<1>5. PICK op \in Ops \ {"delete"}, j \in Jobs : request' = [request EXCEPT ![h] = [op |-> op, job |-> j]]
  <2>1. NoRequest = [op |-> "none", job |-> CHOOSE j \in Jobs : TRUE] /\ (CHOOSE j \in Jobs : TRUE) \in Jobs
    BY JobsAssumption DEF NoRequest
  <2> QED BY <1>1, <2>1 DEF ReadsStatus, SetsPaused, ClearsPaused, StopUnpauses, StopLooksUp, StopCancels,
                           Becomes, Ends, Ops
<1>6. /\ request' \in [Requests -> [op : Ops, job : Jobs]]
      /\ \A k : Deleting(k)' => Deleting(k)
  BY <1>1, <1>5, RequestMoves
<1>7. run'.pc = run.pc /\ run'.job = run.job /\ run'.writer = run.writer
  BY <1>4
<1>8. \A k : RunOf(k)' <=> RunOf(k)
  BY <1>7 DEF RunOf
<1>9. TypeOK'
  <2>1. run' \in [pc : Pcs, job : Jobs, ctx : {"live", "done"}, writer : Writers]
    BY <1>1, <1>4
  <2> QED BY <1>1, <1>2, <1>3, <1>6, <1>8, <2>1 DEF TypeOK, Pcs, Ops
<1>10. RunInv'
  BY <1>1, <1>2, <1>7 DEF RunInv, Stored, FileAgrees, StatusAt
<1>11. RowsInv' /\ DeletingInv' /\ FileMatchesRows'
  BY <1>1, <1>2, <1>6 DEF RowsInv, DeletingInv, FileMatchesRows, FileAgrees
<1>12. DeleteInv'
  BY <1>1, <1>2, <1>6, <1>8 DEF DeleteInv
<1> QED BY <1>9, <1>10, <1>11, <1>12 DEF IInv

LEMMA CreateKeeps ==
  ASSUME IInv, NEW j \in Jobs, Create(j)
  PROVE  IInv'
<1>1. /\ TypeOK /\ RunInv /\ RowsInv /\ DeletingInv /\ DeleteInv /\ FileMatchesRows /\ status[j] = "absent" /\ run.job \in Jobs
      /\ UNCHANGED <<rows, file, lines, todo, buffer, cutOff, run, paused, cancels, request, overlaps, down, restarts>>
      /\ status \in [Jobs -> {"absent", "pending", "working", "ok", "failed", "deleted"}]
      /\ status' = [status EXCEPT ![j] = "pending"]
  BY DEF IInv, TypeOK, Create, data, writing, control, process
<1>2. \A k \in Jobs : status'[k] = IF k = j THEN "pending" ELSE status[k]
  BY <1>1
<1>3. run.pc # "idle" => run.job # j
  BY <1>1 DEF RunInv, Stored, FileAgrees, StatusAt
<1>4. TypeOK'
  BY <1>1 DEF TypeOK, RunOf
<1>5. RunInv'
  BY <1>1, <1>2, <1>3 DEF RunInv, Stored, FileAgrees, StatusAt
<1>6. RowsInv' /\ DeletingInv' /\ FileMatchesRows'
  BY <1>1, <1>2 DEF RowsInv, DeletingInv, Deleting, FileMatchesRows, FileAgrees
<1>7. DeleteInv'
  BY <1>1, <1>2 DEF DeleteInv, Deleting, RunOf
<1> QED BY <1>4, <1>5, <1>6, <1>7 DEF IInv

LEMMA SelectPendingKeeps ==
  ASSUME IInv, NEW j \in Jobs, SelectPending(j)
  PROVE  IInv'
<1>1. /\ TypeOK /\ RunInv /\ RowsInv /\ DeletingInv /\ DeleteInv /\ FileMatchesRows
      /\ run.pc = "idle" /\ status[j] = "pending" /\ cancels = {}
      /\ UNCHANGED <<status, rows, file, lines, todo, buffer, cutOff, paused, cancels, request, down, restarts>>
      /\ run' = [pc |-> "selected", job |-> j, ctx |-> "live", writer |-> "check"]
      /\ overlaps' = IF Deleting(j) THEN overlaps \cup {j} ELSE overlaps
  BY DEF IInv, TypeOK, SelectPending, At, RunOf, data, writing, process
<1>2. rows[j] = {} /\ file[j] = "absent"
  BY <1>1 DEF RowsInv
<1>3. \A k : RunOf(k)' <=> k = j
  BY <1>1 DEF RunOf
<1>4. TypeOK'
  <2>1. run' \in [pc : Pcs, job : Jobs, ctx : {"live", "done"}, writer : Writers]
    BY <1>1 DEF Pcs
  <2> QED BY <1>1, <2>1 DEF TypeOK, Pcs
<1>5. RunInv'
  BY <1>1, <1>2 DEF RunInv, Stored, FileAgrees, StatusAt
<1>6. RowsInv' /\ DeletingInv' /\ FileMatchesRows'
  BY <1>1 DEF RowsInv, DeletingInv, Deleting, FileMatchesRows, FileAgrees
<1>7. DeleteInv'
  <2> SUFFICES ASSUME NEW k \in Jobs, k \notin overlaps'
               PROVE  /\ Deleting(k) => file[k] = "absent" /\ k # j
                      /\ status[k] = "deleted" => rows[k] = {} /\ file[k] = "absent" /\ k # j
    BY <1>1, <1>3 DEF DeleteInv, Deleting
  <2> QED BY <1>1 DEF DeleteInv
<1> QED BY <1>4, <1>5, <1>6, <1>7 DEF IInv

LEMMA DeleteRemovesFileKeeps ==
  ASSUME IInv, NEW h \in Requests, NEW j \in Jobs, DeleteRemovesFile(h, j)
  PROVE  IInv'
<1>1. /\ TypeOK /\ RunInv /\ RowsInv /\ DeletingInv /\ DeleteInv /\ FileMatchesRows /\ run.job \in Jobs
      /\ UNCHANGED <<status, rows, todo, buffer, cutOff, run, paused, cancels, down, restarts>>
      /\ file' = [file EXCEPT ![j] = "absent"] /\ lines' = [lines EXCEPT ![j] = {}]
      /\ file \in [Jobs -> Files] /\ lines \in [Jobs -> SUBSET Places]
      /\ overlaps' = IF RunOf(j) THEN overlaps \cup {j} ELSE overlaps
      /\ request' = [request EXCEPT ![h] = [op |-> "delete", job |-> j]]
      /\ status[j] # "absent"
  BY DEF IInv, TypeOK, DeleteRemovesFile, Becomes, writing, process
<1>2. \A k \in Jobs : /\ file'[k] = IF k = j THEN "absent" ELSE file[k]
                     /\ lines'[k] = IF k = j THEN {} ELSE lines[k]
  BY <1>1
<1>3. /\ request' \in [Requests -> [op : Ops, job : Jobs]]
      /\ \A k : k # j => (Deleting(k)' => Deleting(k))
  BY <1>1, RequestMoves DEF Ops
<1>4. TypeOK'
  <2>1. file' \in [Jobs -> Files] /\ lines' \in [Jobs -> SUBSET Places]
    BY <1>1
  <2>2. \A k \in Jobs : RunOf(k)' <=> RunOf(k)
    BY <1>1 DEF RunOf
  <2>3. overlaps' \subseteq Jobs
    BY <1>1 DEF TypeOK
  <2> QED BY <1>1, <1>3, <2>1, <2>2, <2>3 DEF TypeOK, Ops
<1>5. RunInv'
  BY <1>1, <1>2 DEF RunInv, Stored, FileAgrees, StatusAt
<1>6. RowsInv' /\ DeletingInv' /\ FileMatchesRows'
  BY <1>1, <1>2, <1>3 DEF RowsInv, DeletingInv, FileMatchesRows, FileAgrees
<1>7. DeleteInv'
  <2> SUFFICES ASSUME NEW k \in Jobs, k \notin overlaps'
               PROVE  /\ Deleting(k)' => file'[k] = "absent" /\ ~RunOf(k)
                      /\ status[k] = "deleted" => rows[k] = {} /\ file'[k] = "absent" /\ ~RunOf(k)
    BY <1>1 DEF DeleteInv, RunOf
  <2>1. k \notin overlaps /\ (k = j => ~RunOf(k))
    BY <1>1
  <2> QED BY <1>1, <1>2, <1>3, <2>1 DEF DeleteInv
<1> QED BY <1>4, <1>5, <1>6, <1>7 DEF IInv

LEMMA DeleteKeeps ==
  ASSUME IInv, NEW h \in Requests, NEW ok \in BOOLEAN, Delete(h, ok)
  PROVE  IInv'
<1> DEFINE j == request[h].job
<1>1. /\ TypeOK /\ RunInv /\ RowsInv /\ DeletingInv /\ DeleteInv /\ FileMatchesRows /\ run.job \in Jobs
      /\ UNCHANGED <<file, lines, todo, buffer, cutOff, run, paused, cancels, overlaps, down, restarts>>
      /\ status \in [Jobs -> {"absent", "pending", "working", "ok", "failed", "deleted"}]
      /\ rows \in [Jobs -> SUBSET Places]
      /\ j \in Jobs /\ request[h] \in [op : Ops, job : Jobs] /\ request[h].op = "delete"
  BY DEF IInv, TypeOK, Delete, writing, process, Ops
<1>2. IF ok THEN status' = [status EXCEPT ![j] = "deleted"] /\ rows' = [rows EXCEPT ![j] = {}]
      ELSE UNCHANGED <<status, rows>>
  BY DEF Delete
<1>3. \A k \in Jobs : /\ status'[k] = IF ok /\ k = j THEN "deleted" ELSE status[k]
                     /\ rows'[k] = IF ok /\ k = j THEN {} ELSE rows[k]
  BY <1>1, <1>2
<1>4. Deleting(j)
  BY <1>1 DEF Deleting
<1>5. /\ request' \in [Requests -> [op : Ops, job : Jobs]]
      /\ \A k : Deleting(k)' => Deleting(k)
  <2>1. PICK i \in Jobs : NoRequest = [op |-> "none", job |-> i]
    BY JobsAssumption DEF NoRequest
  <2>2. request' = [request EXCEPT ![h] = [op |-> "none", job |-> i]]
    BY <2>1 DEF Delete, Ends
  <2> QED BY <1>1, <2>2, RequestMoves DEF Ops
<1> HIDE DEF j
<1>6. TypeOK'
  <2>1. /\ status' \in [Jobs -> {"absent", "pending", "working", "ok", "failed", "deleted"}]
        /\ rows' \in [Jobs -> SUBSET Places]
    BY <1>1, <1>2
  <2>2. \A k \in Jobs : RunOf(k)' <=> RunOf(k)
    BY <1>1 DEF RunOf
  <2> QED BY <1>1, <1>5, <2>1, <2>2 DEF TypeOK, Ops
<1>7. RunInv'
  BY <1>1, <1>3 DEF RunInv, Stored, FileAgrees, StatusAt
<1>8. RowsInv' /\ DeletingInv' /\ FileMatchesRows'
  BY <1>1, <1>3, <1>5 DEF RowsInv, DeletingInv, FileMatchesRows, FileAgrees
<1>9. DeleteInv'
  <2> SUFFICES ASSUME NEW k \in Jobs, k \notin overlaps
               PROVE  /\ Deleting(k)' => file[k] = "absent" /\ ~RunOf(k)
                      /\ status'[k] = "deleted" => rows'[k] = {} /\ file[k] = "absent" /\ ~RunOf(k)
    BY <1>1 DEF DeleteInv, RunOf
  <2> QED BY <1>1, <1>3, <1>4, <1>5 DEF DeleteInv
<1> QED BY <1>6, <1>7, <1>8, <1>9 DEF IInv

LEMMA ShutdownKeeps ==
  ASSUME IInv, Shutdown
  PROVE  IInv'
<1>1. /\ TypeOK /\ RunInv /\ RowsInv /\ DeletingInv /\ DeleteInv /\ FileMatchesRows
      /\ UNCHANGED <<status, rows, file, lines, todo, buffer, cutOff, paused, cancels, request, overlaps, restarts>> /\ down' = TRUE
      /\ run.pc \in Pcs /\ run.job \in Jobs /\ run.writer \in Writers
      /\ run' = [pc |-> run.pc, job |-> run.job, ctx |-> "done", writer |-> run.writer]
  BY RunRecord DEF IInv, Shutdown, data, writing, control
<1>2. TypeOK'
  BY <1>1 DEF TypeOK, RunOf, Pcs
<1>3. RunInv'
  BY <1>1 DEF RunInv, Stored, FileAgrees, StatusAt
<1>4. RowsInv' /\ DeletingInv' /\ DeleteInv' /\ FileMatchesRows'
  BY <1>1 DEF RowsInv, DeletingInv, DeleteInv, FileMatchesRows, FileAgrees, RunOf, Deleting
<1> QED BY <1>2, <1>3, <1>4 DEF IInv

\* The state of a process that has just started.
LEMMA FreshProcess ==
         /\ Idle.pc = "idle" /\ NoRequest.op = "none"
         /\ Idle \in [pc : Pcs, job : Jobs, ctx : {"live", "done"}, writer : Writers]
         /\ [h \in Requests |-> NoRequest] \in [Requests -> [op : Ops, job : Jobs]]
<1>1. (CHOOSE j \in Jobs : TRUE) \in Jobs
  BY JobsAssumption
<1> QED BY <1>1 DEF Idle, NoRequest, Pcs, Ops

LEMMA RestartKeeps ==
  ASSUME IInv, Restart
  PROVE  IInv'
<1>1. /\ TypeOK /\ RunInv /\ RowsInv /\ DeletingInv /\ DeleteInv /\ FileMatchesRows
      /\ UNCHANGED <<status, rows, file, lines, cutOff, overlaps>> /\ todo' = {} /\ buffer' = {} /\ down' = FALSE
      /\ run' = Idle /\ paused' = {} /\ cancels' = {} /\ request' = [h \in Requests |-> NoRequest]
      /\ restarts' \in 0 .. MaxRestarts
  BY RestartsAssumption DEF IInv, Restart, TypeOK
<1>2. TypeOK'
  BY <1>1, FreshProcess DEF TypeOK, Pcs, Ops
<1>3. RunInv'
  BY <1>1, FreshProcess DEF RunInv, Stored, FileAgrees
<1>4. \A j : ~RunOf(j)' /\ ~Deleting(j)'
  BY <1>1, FreshProcess DEF RunOf, Deleting
<1>5. RowsInv' /\ DeletingInv' /\ DeleteInv' /\ FileMatchesRows'
  BY <1>1, <1>4 DEF RowsInv, DeletingInv, DeleteInv, FileMatchesRows, FileAgrees
<1> QED BY <1>2, <1>3, <1>5 DEF IInv

LEMMA InitIInv == Init => IInv
<1> SUFFICES ASSUME Init
             PROVE  IInv
  OBVIOUS
<1>1. TypeOK
  <2>0. restarts \in 0 .. MaxRestarts
    <3>1. restarts = 0
      BY DEF Init
    <3> QED BY <3>1, RestartsAssumption
  <2>1. restarts \in 0 .. MaxRestarts /\ down \in BOOLEAN /\ overlaps \subseteq Jobs
    BY <2>0 DEF Init
  <2>2. /\ status \in [Jobs -> {"absent", "pending", "working", "ok", "failed", "deleted"}]
        /\ rows \in [Jobs -> SUBSET Places] /\ lines \in [Jobs -> SUBSET Places]
        /\ file \in [Jobs -> Files] /\ todo \subseteq Places /\ buffer \subseteq Places /\ cutOff \subseteq Jobs
    BY DEF Init
  <2>3. /\ run \in [pc : Pcs, job : Jobs, ctx : {"live", "done"}, writer : Writers]
        /\ request \in [Requests -> [op : Ops, job : Jobs]]
    BY FreshProcess DEF Init
  <2>4. paused \subseteq Jobs /\ cancels \subseteq {j \in Jobs : RunOf(j)}
    BY DEF Init
  <2> QED BY <2>1, <2>2, <2>3, <2>4 DEF TypeOK, Pcs, Ops
<1>2. RunInv
  BY FreshProcess DEF Init, RunInv, Stored, FileAgrees
<1>3. \A j : ~RunOf(j) /\ ~Deleting(j)
  BY FreshProcess DEF Init, RunOf, Deleting
<1>4. RowsInv /\ DeletingInv /\ DeleteInv /\ FileMatchesRows
  BY <1>3 DEF Init, RowsInv, DeletingInv, DeleteInv, FileMatchesRows, FileAgrees
<1> QED BY <1>1, <1>2, <1>4 DEF IInv

LEMMA NextIInv == IInv /\ [Next]_vars => IInv'
<1> SUFFICES ASSUME IInv, [Next]_vars
             PROVE  IInv'
  OBVIOUS
<1>1. ASSUME NEW j \in Jobs, Create(j) \/ SelectPending(j)
      PROVE  IInv'
  BY <1>1, CreateKeeps, SelectPendingKeeps
<1>2. CASE ScrapeJob
  <2>1. ASSUME NEW result \in {"unread", "whole", "cut"}, MaterializeJobCSV(result)
        PROVE  IInv'
    BY <2>1, MaterializeKeeps
  <2>2. CASE CreateFile
    BY <2>2, CreateFileKeeps
  <2>3. ASSUME NEW ok \in BOOLEAN, MarkWorking(ok) \/ SetupMateFails(ok) \/ MarkOK(ok)
        PROVE  IInv'
    BY <2>3, ControlStepKeeps
  <2>4. CASE CreateFails \/ SeedsFail \/ NoSeeds \/ RegisterRunCancel \/ ScrapeReturns
             \/ UnregisterRunCancel \/ ClearPaused
    BY <2>4, ControlStepKeeps
  <2> QED BY <1>2, <2>1, <2>2, <2>3, <2>4 DEF ScrapeJob
<1>3. CASE ContextEnds \/ WriterStep
  BY <1>3, ContextEndsKeeps, WriterKeeps
<1>4. ASSUME NEW h \in Requests, RequestStep(h)
      PROVE  IInv'
  BY <1>4, ControlRequestKeeps, DeleteRemovesFileKeeps, DeleteKeeps DEF RequestStep
<1>5. CASE Shutdown \/ Restart
  BY <1>5, ShutdownKeeps, RestartKeeps
<1>6. CASE UNCHANGED vars
  BY <1>6 DEF vars, data, writing, control, process, IInv, TypeOK, RunInv, Stored, FileAgrees, RowsInv, DeletingInv, DeleteInv, FileMatchesRows, RunOf,
              Deleting, StatusAt
<1> QED BY <1>1, <1>2, <1>3, <1>4, <1>5, <1>6 DEF Next

----------------------------------------------------------------------------
\* The inductive invariant holds in every reachable state.
THEOREM Invariance == Spec => []IInv
<1> QED BY InitIInv, NextIInv, PTL DEF Spec

\* Every reachable state is well typed, and a cancel function is registered for
\* the job being run only.
THEOREM TypeCorrect == Spec => []TypeOK
<1>1. IInv => TypeOK
  BY DEF IInv
<1> QED BY <1>1, Invariance, PTL

\* The rewritten CSV file of a job that is "ok" agrees with the table, through stops,
\* pauses, deletions that failed and restarts; a file the rewrite left alone has no
\* place without a row, and lacks one only when the writer was cut off behind it.
THEOREM FileMatches == Spec => []FileMatchesRows
<1>1. IInv => FileMatchesRows
  BY DEF IInv
<1> QED BY <1>1, Invariance, PTL

\* A deletion that overlapped no run of the job leaves neither rows nor file.
THEOREM DeletedIsGone == Spec => []DeletedLeavesNothing
<1>1. IInv => DeletedLeavesNothing
  BY DEF IInv, DeleteInv, DeletedLeavesNothing
<1> QED BY <1>1, Invariance, PTL

\* The status of a job changes along the moves of its life cycle.
LEMMA StatusStep ==
  IInv /\ [Next]_vars => \A j \in Jobs : status'[j] = status[j] \/ <<status[j], status'[j]>> \in Moves
<1> SUFFICES ASSUME IInv, [Next]_vars, NEW j \in Jobs, status'[j] # status[j]
             PROVE  <<status[j], status'[j]>> \in Moves
  OBVIOUS
<1>1. TypeOK /\ RunInv /\ run.job \in Jobs
      /\ status \in [Jobs -> {"absent", "pending", "working", "ok", "failed", "deleted"}]
  BY DEF IInv, TypeOK
<1>2. CASE \E i \in Jobs : Create(i)
  BY <1>1, <1>2 DEF Create, Moves
<1>3. ASSUME NEW ok \in BOOLEAN, MarkWorking(ok)
      PROVE  <<status[j], status'[j]>> \in Moves
  BY <1>1, <1>3, UpdateMoves DEF MarkWorking, At, RunInv, Stored, FileAgrees, StatusAt, Moves
<1>4. ASSUME NEW ok \in BOOLEAN, SetupMateFails(ok)
      PROVE  <<status[j], status'[j]>> \in Moves
  BY <1>1, <1>4, UpdateMoves DEF SetupMateFails, At, RunInv, Stored, FileAgrees, StatusAt, Moves
<1>5. ASSUME NEW ok \in BOOLEAN, MarkOK(ok)
      PROVE  <<status[j], status'[j]>> \in Moves
  BY <1>1, <1>5, UpdateMoves DEF MarkOK, At, RunInv, Stored, FileAgrees, StatusAt, Moves
<1>6. ASSUME NEW h \in Requests, NEW ok \in BOOLEAN, Delete(h, ok)
      PROVE  <<status[j], status'[j]>> \in Moves
  <2>1. /\ request[h].op = "delete" /\ request[h].job \in Jobs
        /\ request[h] = [op |-> request[h].op, job |-> request[h].job]
    BY <1>6 DEF Delete, IInv, TypeOK
  <2>2. status[request[h].job] # "absent"
    BY <2>1 DEF IInv, DeletingInv, Deleting
  <2>3. j = request[h].job /\ status'[j] = "deleted"
    BY <1>1, <1>6, <2>1 DEF Delete
  <2> QED BY <1>1, <2>2, <2>3 DEF Moves
<1>7. UNCHANGED status \/ \E i \in Jobs : Create(i)
      \/ (\E ok \in BOOLEAN : MarkWorking(ok) \/ SetupMateFails(ok) \/ MarkOK(ok))
      \/ (\E h \in Requests, ok \in BOOLEAN : Delete(h, ok))
  BY DEF Next, vars, ScrapeJob, WriterStep, RequestStep, SelectPending, CreateFails, CreateFile, SeedsFail, NoSeeds,
         RegisterRunCancel, ContextEnds, ScrapeReturns, MaterializeJobCSV, UnregisterRunCancel, ClearPaused,
         StoreStep, WaitIfPaused, WriterTakes, WriterStores, WriterStoreFails, WriterFlushes, WriterFails, WriterCtxDone, ReadsStatus, SetsPaused, ClearsPaused,
         StopUnpauses, StopLooksUp, StopCancels, DeleteRemovesFile, Shutdown, Restart
<1> QED BY <1>2, <1>3, <1>4, <1>5, <1>6, <1>7

\* No update of a run brings back a deleted job or restarts a finished one.
THEOREM StatusForward == Spec => StatusMovesForward
<1>1. Spec => [][\A j \in Jobs : status'[j] = status[j] \/ <<status[j], status'[j]>> \in Moves]_vars
  BY Invariance, StatusStep, PTL DEF Spec
<1> QED BY <1>1 DEF StatusMovesForward

=============================================================================
