------------------------- MODULE WorkerProvisioning -------------------------
(***************************************************************************)
(* Cloud workers of the SaaS: the admin handlers that request and delete    *)
(* them (admin/handlers_workers.go), the maintenance jobs that provision,   *)
(* delete and health-check them (rqueue/worker_jobs.go), their rows in      *)
(* provisioned_resources and the virtual machines at the cloud provider.    *)
(***************************************************************************)
EXTENDS Integers, FiniteSets

CONSTANTS
  Rows,        \* the rows of provisioned_resources
  MaxDeletes,  \* bound: deletion requests per row
  MaxTries,    \* MaxAttempts of WorkerDeleteArgs
  MaxWorkers   \* workers of the maintenance queue

ASSUME RowsAssumption == IsFiniteSet(Rows)
ASSUME DeletesAssumption == MaxDeletes \in Nat
ASSUME TriesAssumption == MaxTries \in Nat \ {0}
ASSUME WorkersAssumption == MaxWorkers \in Nat \ {0}

VARIABLES
  row,     \* provisioned_resources
  vm,      \* the machine each provisioning created at the provider
  prov,    \* program counter of the provisioning of each row
  del,     \* the deletion requests of each row, as handler and then as job
  health   \* the health check job

workersVars == <<row, vm, prov, del, health>>

Requests == 1 .. MaxDeletes

ProvRunning == {"creating", "waitIP", "recording", "waitSSH", "activating", "cleanup"}
ProvEnded == {"lost", "failed", "sshTimedOut", "done", "cleaned", "discarded"}
DelRunning == {"cloud", "soft"}
DelEnded == {"refused", "lost", "done", "discarded"}

\* River runs at most MaxWorkers maintenance jobs at a time.
Running ==
  {r \in Rows : prov[r] \in ProvRunning}
    \cup {x \in Rows \X Requests : del[x[1]][x[2]].pc \in DelRunning}
    \cup (IF health.pc = "idle" THEN {} ELSE {"health"})

SlotFree == Cardinality(Running) < MaxWorkers

NoRow == [status |-> "none", rid |-> "pending", ip |-> FALSE, deleted |-> FALSE]
NoRequest == [pc |-> "none", rid |-> "pending", ip |-> FALSE, tries |-> 0]
NoCheck == [pc |-> "idle", todo |-> {}, seen |-> [r \in Rows |-> "none"]]

Goto(r, pc) == prov' = [prov EXCEPT ![r] = pc]

----------------------------------------------------------------------------
(* ProvisionWorkerHandler.                                                  *)

CreateProvisionedResource(r) ==
  /\ prov[r] = "none"
  /\ row' = [row EXCEPT ![r] = [NoRow EXCEPT !.status = "provisioning"]]
  /\ Goto(r, "inserting")
  /\ UNCHANGED <<vm, del, health>>

\* The River insert may fail: the row stays as it is.
InsertWorkerProvisionJob(r, ok) ==
  /\ prov[r] = "inserting"
  /\ Goto(r, IF ok THEN "queued" ELSE "lost")
  /\ UNCHANGED <<row, vm, del, health>>

----------------------------------------------------------------------------
(* WorkerProvisionWorker.Work.                                              *)

\* The update is unconditional, runs without the job's context, and its error
\* is ignored.
UpdateResourceFailed(r, ok) ==
  row' = IF ok THEN [row EXCEPT ![r].status = "failed"] ELSE row

ProvisionStarts(r) ==
  /\ prov[r] = "queued"
  /\ SlotFree
  /\ Goto(r, "creating")
  /\ UNCHANGED <<row, vm, del, health>>

\* Configuration missing, or CreateWorker fails: with made, its request reached
\* the provider and only the answer was lost.
ProvisionFails(r, ok, made) ==
  /\ prov[r] = "creating"
  /\ UpdateResourceFailed(r, ok)
  /\ vm' = IF made THEN [vm EXCEPT ![r] = "running"] ELSE vm
  /\ Goto(r, "failed")
  /\ UNCHANGED <<del, health>>

CreateWorker(r, hasIP) ==
  /\ prov[r] = "creating"
  /\ vm' = [vm EXCEPT ![r] = "running"]
  /\ Goto(r, IF hasIP THEN "recording" ELSE "waitIP")
  /\ UNCHANGED <<row, del, health>>

IPAssigned(r) ==
  /\ prov[r] = "waitIP"
  /\ Goto(r, "recording")
  /\ UNCHANGED <<row, vm, del, health>>

IPTimesOut(r, ok) ==
  /\ prov[r] = "waitIP"
  /\ UpdateResourceFailed(r, ok)
  /\ Goto(r, "failed")
  /\ UNCHANGED <<vm, del, health>>

\* Mutant: the guard on deleted_at is missing.
RecordAlways(r, ok) ==
  /\ prov[r] = "recording"
  /\ row' = IF ok THEN [row EXCEPT ![r].rid = "vm", ![r].ip = TRUE] ELSE row
  /\ Goto(r, "waitSSH")
  /\ UNCHANGED <<vm, del, health>>

\* The first UPDATE, whose error is ignored.
RecordWorker(r, ok) ==
  /\ prov[r] = "recording"
  /\ row' = IF ok /\ ~row[r].deleted
              THEN [row EXCEPT ![r].rid = "vm", ![r].ip = TRUE] ELSE row
  /\ Goto(r, "waitSSH")
  /\ UNCHANGED <<vm, del, health>>

SSHReady(r) ==
  /\ prov[r] = "waitSSH"
  /\ Goto(r, "activating")
  /\ UNCHANGED <<row, vm, del, health>>

SSHTimesOut(r, ok) ==
  /\ prov[r] = "waitSSH"
  /\ UpdateResourceFailed(r, ok)
  /\ Goto(r, "sshTimedOut")
  /\ UNCHANGED <<vm, del, health>>

\* Mutant: the second UPDATE relies on the first one for the resource id.
ActivateStatusOnly(r) ==
  /\ prov[r] = "activating"
  /\ IF row[r].status = "provisioning" /\ ~row[r].deleted
       THEN row' = [row EXCEPT ![r].status = "active"] /\ Goto(r, "done")
       ELSE row' = row /\ Goto(r, "cleanup")
  /\ UNCHANGED <<vm, del, health>>

\* The second UPDATE and the test of its RowsAffected.
Activate(r) ==
  /\ prov[r] = "activating"
  /\ IF row[r].status = "provisioning" /\ ~row[r].deleted
       THEN /\ row' = [row EXCEPT ![r] = [@ EXCEPT !.status = "active", !.rid = "vm", !.ip = TRUE]]
            /\ Goto(r, "done")
       ELSE row' = row /\ Goto(r, "cleanup")
  /\ UNCHANGED <<vm, del, health>>

ActivateErrs(r) ==
  /\ prov[r] = "activating"
  /\ Goto(r, "failed")
  /\ UNCHANGED <<row, vm, del, health>>

\* DeleteWorker of a row that is gone; its error is ignored.
CleanUp(r, ok) ==
  /\ prov[r] = "cleanup"
  /\ vm' = IF ok THEN [vm EXCEPT ![r] = "destroyed"] ELSE vm
  /\ Goto(r, "cleaned")
  /\ UNCHANGED <<row, del, health>>

----------------------------------------------------------------------------
(* DeleteWorkerHandler and WorkerDeleteWorker.Work.                         *)

Del(r, d, v) == del' = [del EXCEPT ![r][d] = v]

\* The handler reads the resource id that its job will carry.
GetProvisionedResource(r, d) ==
  /\ del[r][d].pc = "none"
  /\ row[r].status # "none"
  /\ Del(r, d, [NoRequest EXCEPT !.pc = "read", !.rid = row[r].rid, !.ip = row[r].ip])
  /\ UNCHANGED <<row, vm, prov, health>>

\* Mutant: a refused update is tried again until the row takes it.
UpdateUntilTaken(r, d, ok) ==
  LET q == del[r][d]
  IN  /\ q.pc = "read"
      /\ ok /\ ~row[r].deleted
      /\ row' = [row EXCEPT ![r].status = "deleting", ![r].ip = q.ip]
      /\ Del(r, d, [q EXCEPT !.pc = "inserting"])
      /\ UNCHANGED <<vm, prov, health>>

\* The status, with the IP address that was read, unless the row is deleted.
UpdateProvisionedResourceStatus(r, d, ok) ==
  LET q == del[r][d]
  IN  /\ q.pc = "read"
      /\ IF row[r].deleted \/ ~ok
           THEN row' = row /\ Del(r, d, [q EXCEPT !.pc = "refused"])
           ELSE /\ row' = [row EXCEPT ![r].status = "deleting", ![r].ip = q.ip]
                /\ Del(r, d, [q EXCEPT !.pc = "inserting"])
      /\ UNCHANGED <<vm, prov, health>>

InsertWorkerDeleteJob(r, d, ok) ==
  /\ del[r][d].pc = "inserting"
  /\ Del(r, d, [del[r][d] EXCEPT !.pc = IF ok THEN "queued" ELSE "lost"])
  /\ UNCHANGED <<row, vm, prov, health>>

DeleteStarts(r, d) ==
  /\ del[r][d].pc = "queued"
  /\ SlotFree
  /\ Del(r, d, [del[r][d] EXCEPT !.pc = "cloud", !.tries = @ + 1])
  /\ UNCHANGED <<row, vm, prov, health>>

\* What River does with a deletion job whose attempt failed.
Retried(q) == [q EXCEPT !.pc = IF q.tries < MaxTries THEN "queued" ELSE "discarded"]

\* Mutant: an error of the provider does not stop the deletion of the row.
DeleteCloudAnyway(r, d, ok, reached) ==
  LET q == del[r][d]
  IN  /\ q.pc = "cloud"
      /\ ok => reached
      /\ vm' = IF reached /\ q.rid = "vm" THEN [vm EXCEPT ![r] = "destroyed"] ELSE vm
      /\ Del(r, d, [q EXCEPT !.pc = "soft"])
      /\ UNCHANGED <<row, prov, health>>

\* The machine is destroyed, if its id was known when deletion was requested.
\* DeleteWorker succeeds for a machine that is gone, and may fail after its
\* request reached the provider.
DeleteCloud(r, d, ok, reached) ==
  LET q == del[r][d]
  IN  /\ q.pc = "cloud"
      /\ ok => reached
      /\ vm' = IF reached /\ q.rid = "vm" THEN [vm EXCEPT ![r] = "destroyed"] ELSE vm
      /\ Del(r, d, IF ok \/ q.rid = "pending" THEN [q EXCEPT !.pc = "soft"] ELSE Retried(q))
      /\ UNCHANGED <<row, prov, health>>

SoftDelete(r, d, ok) ==
  LET q == del[r][d]
  IN  /\ q.pc = "soft"
      /\ row' = IF ok THEN [row EXCEPT ![r].deleted = TRUE,
                                       ![r].status = IF row[r].deleted THEN @ ELSE "deleted"]
                ELSE row
      /\ Del(r, d, IF ok THEN [q EXCEPT !.pc = "done"] ELSE Retried(q))
      /\ UNCHANGED <<vm, prov, health>>

----------------------------------------------------------------------------
(* WorkerHealthCheckWorker.Work.                                            *)

Selected == {r \in Rows : /\ row[r].status \in {"provisioning", "active"}
                          /\ row[r].ip
                          /\ ~row[r].deleted}

HealthSelects ==
  /\ health.pc = "idle"
  /\ Selected # {}
  /\ SlotFree
  /\ health' = [pc |-> "checking", todo |-> Selected,
                seen |-> [r \in Rows |-> IF r \in Selected THEN row[r].status ELSE "none"]]
  /\ UNCHANGED <<row, vm, prov, del>>

\* The SSH key is missing or cannot be parsed.
HealthFails ==
  /\ health.pc = "checking"
  /\ \A r \in Rows : health.seen[r] # "none" => r \in health.todo
  /\ health' = NoCheck
  /\ UNCHANGED <<row, vm, prov, del>>

\* The next worker is probed over SSH: reachable only if its machine runs.
HealthProbes(r, reachable) ==
  /\ health.pc = "checking"
  /\ r \in health.todo
  /\ reachable => vm[r] = "running"
  /\ health' = [health EXCEPT !.pc = IF reachable THEN "reachable" ELSE "unreachable",
                              !.todo = @ \ {r}]
  /\ UNCHANGED <<row, vm, prov, del>>

\* The worker probed last: the only one seen and no longer to do.
Probed == {r \in Rows : health.seen[r] # "none" /\ r \notin health.todo}

\* The update has no guard but the id: the status is normalised if it was not
\* active when the rows were read.  Its error is ignored.
HealthUpdates(r, ok) ==
  /\ health.pc \in {"reachable", "unreachable"}
  /\ r \in Probed
  /\ row' = IF ok /\ health.pc = "reachable" /\ health.seen[r] # "active"
              THEN [row EXCEPT ![r].status = "active"] ELSE row
  /\ health' = IF health.todo = {} THEN NoCheck
               ELSE [health EXCEPT !.pc = "checking", !.seen = [@ EXCEPT ![r] = "none"]]
  /\ UNCHANGED <<vm, prov, del>>

----------------------------------------------------------------------------
\* The server dies: River discards a provisioning (MaxAttempts 1), retries a
\* deletion; a handler's request is lost.
ServerDies ==
  /\ Running # {} \/ \E r \in Rows : prov[r] = "inserting"
  /\ prov' = [r \in Rows |-> CASE prov[r] \in ProvRunning -> "discarded"
                               [] prov[r] = "inserting" -> "lost"
                               [] OTHER -> prov[r]]
  /\ del' = [r \in Rows |-> [d \in Requests |->
               LET q == del[r][d]
               IN  CASE q.pc \in DelRunning -> Retried(q)
                     [] q.pc \in {"read", "inserting"} -> [q EXCEPT !.pc = "lost"]
                     [] OTHER -> q]]
  /\ health' = NoCheck
  /\ UNCHANGED <<row, vm>>

WorkersInit ==
  /\ row = [r \in Rows |-> NoRow]
  /\ vm = [r \in Rows |-> "none"]
  /\ prov = [r \in Rows |-> "none"]
  /\ del = [r \in Rows |-> [d \in Requests |-> NoRequest]]
  /\ health = NoCheck

ProvisionStep(r) ==
  \/ CreateProvisionedResource(r)
  \/ IPAssigned(r)
  \/ SSHReady(r)
  \/ Activate(r)
  \/ ActivateErrs(r)
  \/ \E ok \in BOOLEAN :
       \/ InsertWorkerProvisionJob(r, ok)
       \/ \E made \in BOOLEAN : ProvisionFails(r, ok, made)
       \/ CreateWorker(r, ok)
       \/ IPTimesOut(r, ok)
       \/ RecordWorker(r, ok)
       \/ SSHTimesOut(r, ok)
       \/ CleanUp(r, ok)

DeleteStep(r, d) ==
  \E ok \in BOOLEAN :
    \/ UpdateProvisionedResourceStatus(r, d, ok)
    \/ InsertWorkerDeleteJob(r, d, ok)
    \/ \E reached \in BOOLEAN : DeleteCloud(r, d, ok, reached)
    \/ SoftDelete(r, d, ok)

HealthStep ==
  \/ HealthFails
  \/ \E r \in Rows, ok \in BOOLEAN : HealthUpdates(r, ok) \/ HealthProbes(r, ok)

WorkersNext ==
  \/ \E r \in Rows :
       \/ ProvisionStep(r)
       \/ ProvisionStarts(r)
       \/ \E d \in Requests : GetProvisionedResource(r, d) \/ DeleteStep(r, d) \/ DeleteStarts(r, d)
  \/ HealthStep
  \/ HealthSelects
  \/ ServerDies

\* Handlers and jobs run on (the waits of a provisioning are bounded by its
\* timeout); River fetches in order of insertion, so a queued job gets a slot
\* that is free again and again.
WorkersFairness ==
  /\ \A r \in Rows : WF_workersVars(ProvisionStep(r)) /\ SF_workersVars(ProvisionStarts(r))
  /\ \A r \in Rows, d \in Requests : WF_workersVars(DeleteStep(r, d)) /\ SF_workersVars(DeleteStarts(r, d))
  /\ WF_workersVars(HealthStep)

WorkersSpec == WorkersInit /\ [][WorkersNext]_workersVars /\ WorkersFairness

----------------------------------------------------------------------------
\* Type invariant.
WorkersTypeOK ==
  /\ row \in [Rows -> [status : {"none", "provisioning", "active", "failed", "deleting", "deleted"},
                       rid : {"pending", "vm"}, ip : BOOLEAN, deleted : BOOLEAN]]
  /\ vm \in [Rows -> {"none", "running", "destroyed"}]
  /\ prov \in [Rows -> {"none", "inserting", "queued"} \cup ProvRunning \cup ProvEnded]
  /\ del \in [Rows -> [Requests ->
                [pc : {"none", "read", "inserting", "queued"} \cup DelRunning \cup DelEnded,
                 rid : {"pending", "vm"}, ip : BOOLEAN, tries : 0 .. MaxTries]]]
  /\ health \in [pc : {"idle", "checking", "reachable", "unreachable"}, todo : SUBSET Rows,
                 seen : [Rows -> {"none", "provisioning", "active"}]]

\* A worker shown as active can be deleted: its row carries the machine's id,
\* whichever of the provisioning and the health check made it active and
\* whichever update of the provisioning was lost.
ActiveIsDeletable ==
  \A r \in Rows : row[r].status = "active" => row[r].rid = "vm" /\ vm[r] # "none"

\* A deletion that knew the machine ends with the machine destroyed, through
\* errors of the provider, retries and deaths of the server.
KnownMachineIsDestroyed ==
  \A r \in Rows, d \in Requests :
    del[r][d].pc = "done" /\ del[r][d].rid = "vm" => vm[r] = "destroyed"

\* The late writes of a provisioning and of a second deletion leave the id and
\* the address of a deleted row alone.
DeletedRowIsFrozen ==
  [][\A r \in Rows : row[r].deleted =>
       row'[r].deleted /\ row'[r].rid = row[r].rid /\ row'[r].ip = row[r].ip]_workersVars

\* Every request that was accepted ends, although health checks, deletions and
\* provisionings compete for the slots and the server may die.
RequestsEnd ==
  \A r \in Rows :
    /\ prov[r] # "none" ~> prov[r] \in ProvEnded
    /\ \A d \in Requests : del[r][d].pc # "none" ~> del[r][d].pc \in DelEnded

=============================================================================
