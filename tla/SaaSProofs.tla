------------------------------ MODULE SaaSProofs ------------------------------
(***************************************************************************)
(* The parts of the SaaS server, each on its own, for every value of their   *)
(* constants: the workers' rows and machines, the administrator's requests,  *)
(* the listing and deletion of jobs, and the provisioning wizard.  Each       *)
(* section states the inductive invariant of one specification and the        *)
(* properties that follow from it.                                            *)
(***************************************************************************)
EXTENDS WorkerProvisioning, AdminAccess, JobListing, ProvisionWizard,
        FiniteSetTheorems, TLAPS

----------------------------------------------------------------------------
(* WorkerProvisioning.  A row learns its machine's id once, after the machine *)
(* was created, and everything that was read from the row later (a request, a *)
(* health check) knows it too.                                                *)


\* What is known of a machine is known in its row, and no machine is known
\* before it is created.
KnowledgeInv ==
  \A r \in Rows :
    /\ prov[r] = "none" => row[r] = NoRow /\ \A d \in Requests : del[r][d].pc = "none"
    /\ prov[r] \in {"none", "inserting", "queued", "creating"} =>
         vm[r] = "none" /\ row[r].rid = "pending"
    /\ prov[r] \in {"waitIP", "recording", "waitSSH", "activating", "cleanup"} => vm[r] # "none"
    /\ row[r].rid = "vm" => vm[r] # "none"
    /\ row[r].ip \/ row[r].status = "active" \/ health.seen[r] # "none" => row[r].rid = "vm"
    /\ \A d \in Requests : del[r][d].rid = "vm" \/ del[r][d].ip => row[r].rid = "vm"

\* A request past the provider has destroyed the machine it knew.
DestroyedInv ==
  \A r \in Rows, d \in Requests :
    del[r][d].pc \in {"soft", "done"} /\ del[r][d].rid = "vm" => vm[r] = "destroyed"

\* A queued job has an attempt left, so that the attempts are bounded.
TriesInv ==
  \A r \in Rows, d \in Requests : del[r][d].pc \in {"none", "read", "inserting", "queued"} =>
    del[r][d].tries < MaxTries

WorkersInv == WorkersTypeOK /\ KnowledgeInv /\ DestroyedInv /\ TriesInv

RowRecords ==
  [status : {"none", "provisioning", "active", "failed", "deleting", "deleted"},
   rid : {"pending", "vm"}, ip : BOOLEAN, deleted : BOOLEAN]

RequestRecords ==
  [pc : {"none", "read", "inserting", "queued"} \cup DelRunning \cup DelEnded,
   rid : {"pending", "vm"}, ip : BOOLEAN, tries : 0 .. MaxTries]

----------------------------------------------------------------------------
\* A request's update changes that request only.
LEMMA DelUpdate ==
  ASSUME WorkersTypeOK, NEW r \in Rows, NEW d \in Requests, NEW v, Del(r, d, v)
  PROVE  /\ \A x \in Rows, y \in Requests :
              del'[x][y] = IF x = r /\ y = d THEN v ELSE del[x][y]
         /\ v \in RequestRecords => del' \in [Rows -> [Requests -> RequestRecords]]
BY DEF WorkersTypeOK, Del, RequestRecords

\* A failed attempt's retry keeps what the request knows.
LEMMA RetriedKeeps ==
  ASSUME NEW q \in RequestRecords
  PROVE  /\ Retried(q) \in RequestRecords
         /\ Retried(q).rid = q.rid /\ Retried(q).ip = q.ip
         /\ Retried(q).pc \in {"queued", "discarded"}
         /\ Retried(q).pc = "queued" => Retried(q).tries < MaxTries
BY DEF Retried, RequestRecords, DelEnded

----------------------------------------------------------------------------
\* The steps of a provisioning keep the invariant.
LEMMA ProvisionInv ==
  ASSUME WorkersInv, NEW r \in Rows, ProvisionStep(r) \/ ProvisionStarts(r)
  PROVE  WorkersInv'
<1> DEFINE Early == {"none", "inserting", "queued", "creating"}
           Mid == {"waitIP", "recording", "waitSSH", "activating", "cleanup"}
<1>0. row[r] \in RowRecords /\ vm[r] \in {"none", "running", "destroyed"}
  BY DEF WorkersInv, WorkersTypeOK, RowRecords
<1>a. ASSUME NEW to \in {"inserting", "queued"} \cup ProvRunning \cup ProvEnded,
             NEW w \in RowRecords, NEW m \in {"none", "running", "destroyed"},
             prov' = [prov EXCEPT ![r] = to], row' = [row EXCEPT ![r] = w],
             vm' = [vm EXCEPT ![r] = m], UNCHANGED <<del, health>>,
             row[r].rid = "vm" => w.rid = "vm",
             vm[r] = "destroyed" => m = "destroyed",
             to \in Early => m = "none" /\ w.rid = "pending",
             to \in Mid => m # "none",
             w.rid = "vm" => m # "none",
             w.ip \/ w.status = "active" => w.rid = "vm"
      PROVE  WorkersInv'
  <2>1. WorkersTypeOK'
    BY <1>a DEF WorkersInv, WorkersTypeOK, RowRecords
  <2>2. /\ prov'[r] = to /\ row'[r] = w /\ vm'[r] = m
        /\ \A x \in Rows : x # r => prov'[x] = prov[x] /\ row'[x] = row[x] /\ vm'[x] = vm[x]
    BY <1>a DEF WorkersInv, WorkersTypeOK
  <2>3. to # "none"
    BY DEF ProvRunning, ProvEnded
  <2>4. KnowledgeInv'
    BY <2>2, <2>3, <1>a DEF WorkersInv, KnowledgeInv
  <2>5. DestroyedInv'
    BY <2>2, <1>a DEF WorkersInv, DestroyedInv
  <2> QED BY <2>1, <2>4, <2>5, <1>a DEF WorkersInv, TriesInv
<1>b. row = [row EXCEPT ![r] = row[r]] /\ vm = [vm EXCEPT ![r] = vm[r]]
  BY DEF WorkersInv, WorkersTypeOK
<1>c. /\ prov[r] \in Early => vm[r] = "none" /\ row[r].rid = "pending"
      /\ prov[r] \in Mid => vm[r] # "none"
      /\ row[r].rid = "vm" => vm[r] # "none"
      /\ row[r].ip \/ row[r].status = "active" => row[r].rid = "vm"
  BY DEF WorkersInv, KnowledgeInv
<1>d. ASSUME NEW to \in {"queued"} \cup ProvRunning \cup ProvEnded,
             prov' = [prov EXCEPT ![r] = to], UNCHANGED <<row, vm, del, health>>,
             to \in Early => prov[r] \in Early, to \in Mid => prov[r] \in Mid
      PROVE  WorkersInv'
  BY <1>d, <1>a, <1>b, <1>c, <1>0
<1>e. ASSUME NEW ok \in BOOLEAN, UpdateResourceFailed(r, ok),
             NEW to \in {"failed", "sshTimedOut"}, NEW m \in {"running", vm[r]},
             vm[r] = "destroyed" => m = "destroyed",
             prov' = [prov EXCEPT ![r] = to], vm' = [vm EXCEPT ![r] = m], UNCHANGED <<del, health>>
      PROVE  WorkersInv'
  <2>1. PICK w \in RowRecords : /\ row' = [row EXCEPT ![r] = w]
                                /\ w.rid = row[r].rid /\ w.ip = row[r].ip
                                /\ w.status \in {"failed", row[r].status}
    <3>1. CASE ok
      <4> DEFINE w == [row[r] EXCEPT !.status = "failed"]
      <4>1. w \in RowRecords /\ w.rid = row[r].rid /\ w.ip = row[r].ip /\ w.status = "failed"
        BY <1>0 DEF RowRecords
      <4>2. row' = [row EXCEPT ![r] = w]
        BY <3>1, <1>e DEF UpdateResourceFailed
      <4> QED BY <4>1, <4>2
    <3>2. CASE ~ok
      BY <3>2, <1>0, <1>b, <1>e DEF UpdateResourceFailed
    <3> QED BY <3>1, <3>2
  <2>2. m \in {"none", "running", "destroyed"}
    BY <1>0
  <2> QED BY <2>1, <2>2, <1>e, <1>a, <1>c, <1>0 DEF ProvEnded
<1>1. CASE CreateProvisionedResource(r)
  <2> DEFINE w == [NoRow EXCEPT !.status = "provisioning"]
  <2>1. w \in RowRecords /\ w.rid = "pending" /\ ~w.ip /\ w.status = "provisioning"
    BY DEF NoRow, RowRecords
  <2>2. prov[r] = "none" /\ row' = [row EXCEPT ![r] = w] /\ prov' = [prov EXCEPT ![r] = "inserting"]
        /\ vm' = vm /\ UNCHANGED <<del, health>>
    BY <1>1 DEF CreateProvisionedResource, Goto
  <2> QED BY <2>1, <2>2, <1>a, <1>b, <1>c, <1>0
<1>2. CASE IPAssigned(r) \/ SSHReady(r) \/ ActivateErrs(r) \/ ProvisionStarts(r)
  BY <1>2, <1>d DEF IPAssigned, SSHReady, ActivateErrs, ProvisionStarts, Goto, ProvRunning, ProvEnded
<1>3. CASE Activate(r)
  <2>1. CASE row[r].status = "provisioning" /\ ~row[r].deleted
    <3> DEFINE w == [row[r] EXCEPT !.status = "active", !.rid = "vm", !.ip = TRUE]
    <3>1. w \in RowRecords /\ w.rid = "vm"
      BY <1>0 DEF RowRecords
    <3>2. row' = [row EXCEPT ![r] = w] /\ prov' = [prov EXCEPT ![r] = "done"]
          /\ prov[r] = "activating" /\ vm' = vm /\ UNCHANGED <<del, health>>
      BY <2>1, <1>3 DEF Activate, Goto
    <3> QED BY <3>1, <3>2, <1>a, <1>b, <1>c, <1>0 DEF ProvEnded
  <2>2. CASE ~(row[r].status = "provisioning" /\ ~row[r].deleted)
    BY <2>2, <1>3, <1>d DEF Activate, Goto, ProvRunning
  <2> QED BY <2>1, <2>2
<1>4. ASSUME NEW ok \in BOOLEAN, InsertWorkerProvisionJob(r, ok) PROVE WorkersInv'
  BY <1>4, <1>d DEF InsertWorkerProvisionJob, Goto, ProvEnded
<1>5. ASSUME NEW ok \in BOOLEAN, NEW made \in BOOLEAN, ProvisionFails(r, ok, made) PROVE WorkersInv'
  <2>1. prov[r] = "creating" /\ vm[r] = "none"
    BY <1>5, <1>c DEF ProvisionFails
  <2>2. vm' = [vm EXCEPT ![r] = IF made THEN "running" ELSE vm[r]]
    BY <1>5, <1>b DEF ProvisionFails
  <2> QED BY <2>1, <2>2, <1>5, <1>e DEF ProvisionFails, Goto
<1>6. ASSUME NEW hasIP \in BOOLEAN, CreateWorker(r, hasIP) PROVE WorkersInv'
  <2>1. prov[r] = "creating" /\ vm[r] = "none" /\ vm' = [vm EXCEPT ![r] = "running"]
        /\ prov' = [prov EXCEPT ![r] = IF hasIP THEN "recording" ELSE "waitIP"]
        /\ row' = row /\ UNCHANGED <<del, health>>
    BY <1>6, <1>c DEF CreateWorker, Goto
  <2> QED BY <2>1, <1>a, <1>b, <1>c, <1>0 DEF ProvRunning
<1>7. ASSUME NEW ok \in BOOLEAN, IPTimesOut(r, ok) \/ SSHTimesOut(r, ok) PROVE WorkersInv'
  BY <1>7, <1>e, <1>b DEF IPTimesOut, SSHTimesOut, Goto
<1>8. ASSUME NEW ok \in BOOLEAN, RecordWorker(r, ok) PROVE WorkersInv'
  <2>1. CASE ok /\ ~row[r].deleted
    <3> DEFINE w == [row[r] EXCEPT !.rid = "vm", !.ip = TRUE]
    <3>1. w \in RowRecords /\ w.rid = "vm"
      BY <1>0 DEF RowRecords
    <3>2. row' = [row EXCEPT ![r] = w]
      BY <2>1, <1>8, <1>0 DEF RecordWorker, WorkersInv, WorkersTypeOK, RowRecords
    <3>3. prov' = [prov EXCEPT ![r] = "waitSSH"]
          /\ prov[r] = "recording" /\ vm' = vm /\ UNCHANGED <<del, health>>
      BY <1>8 DEF RecordWorker, Goto
    <3> QED BY <3>1, <3>2, <3>3, <1>a, <1>b, <1>c, <1>0 DEF ProvRunning
  <2>2. CASE ~(ok /\ ~row[r].deleted)
    BY <2>2, <1>8, <1>d DEF RecordWorker, Goto, ProvRunning
  <2> QED BY <2>1, <2>2
<1>9. ASSUME NEW ok \in BOOLEAN, CleanUp(r, ok) PROVE WorkersInv'
  <2>1. prov[r] = "cleanup" /\ vm' = [vm EXCEPT ![r] = IF ok THEN "destroyed" ELSE vm[r]]
        /\ prov' = [prov EXCEPT ![r] = "cleaned"] /\ row' = row /\ UNCHANGED <<del, health>>
    BY <1>9, <1>b DEF CleanUp, Goto
  <2> QED BY <2>1, <1>a, <1>b, <1>c, <1>0 DEF ProvEnded
<1> QED BY <1>1, <1>2, <1>3, <1>4, <1>5, <1>6, <1>7, <1>8, <1>9 DEF ProvisionStep

\* The steps of a deletion keep the invariant.
LEMMA DeleteInv ==
  ASSUME WorkersInv, NEW r \in Rows, NEW d \in Requests,
         GetProvisionedResource(r, d) \/ DeleteStep(r, d) \/ DeleteStarts(r, d)
  PROVE  WorkersInv'
<1> DEFINE q == del[r][d]
<1> USE DEF WorkersInv
<1>0. q \in RequestRecords /\ \A x \in Rows, y \in Requests : del[x][y] \in RequestRecords
  BY DEF WorkersTypeOK, RequestRecords
<1>a. ASSUME NEW v \in RequestRecords, Del(r, d, v), UNCHANGED <<prov, health>>,
             row' \in [Rows -> RowRecords],
             vm' \in [Rows -> {"none", "running", "destroyed"}],
             \A x \in Rows : /\ row'[x].rid = row[x].rid
                             /\ vm[x] = "none" <=> vm'[x] = "none"
                             /\ vm[x] = "destroyed" => vm'[x] = "destroyed"
                             /\ row'[x].ip => row[x].rid = "vm"
                             /\ row'[x].status = "active" => row[x].status = "active",
             prov[r] # "none",
             \A x \in Rows : x # r => row'[x] = row[x],
             v.rid = "vm" \/ v.ip => row[r].rid = "vm",
             v.pc \in {"soft", "done"} /\ v.rid = "vm" => vm'[r] = "destroyed",
             v.pc \in {"none", "read", "inserting", "queued"} => v.tries < MaxTries
      PROVE  WorkersInv'
  <2>1. \A x \in Rows, y \in Requests : del'[x][y] = IF x = r /\ y = d THEN v ELSE del[x][y]
    BY <1>a, DelUpdate
  <2>2. WorkersTypeOK'
    BY <1>a, DelUpdate DEF WorkersTypeOK, RequestRecords, RowRecords
  <2>3. KnowledgeInv'
    BY <2>1, <1>a DEF KnowledgeInv
  <2>4. DestroyedInv'
    BY <2>1, <1>a DEF DestroyedInv
  <2>5. TriesInv'
    BY <2>1, <1>a DEF TriesInv
  <2> QED BY <2>2, <2>3, <2>4, <2>5
<1>b. row \in [Rows -> RowRecords] /\ vm \in [Rows -> {"none", "running", "destroyed"}]
  BY DEF WorkersTypeOK, RowRecords
<1>c. prov[r] # "none"
  <2>1. row[r].status # "none" \/ q.pc # "none"
    BY DEF GetProvisionedResource, DeleteStep, DeleteStarts,
           UpdateProvisionedResourceStatus, InsertWorkerDeleteJob, DeleteCloud, SoftDelete
  <2>2. NoRow.status = "none"
    BY DEF NoRow
  <2> QED BY <2>1, <2>2 DEF KnowledgeInv
<1>d. /\ \A x \in Rows : row[x].ip => row[x].rid = "vm"
      /\ q.rid = "vm" \/ q.ip => row[r].rid = "vm"
  BY DEF KnowledgeInv
<1>1. CASE GetProvisionedResource(r, d)
  <2> DEFINE v == [NoRequest EXCEPT !.pc = "read", !.rid = row[r].rid, !.ip = row[r].ip]
  <2>1. v \in RequestRecords /\ v.rid = row[r].rid /\ v.ip = row[r].ip /\ v.pc = "read"
        /\ v.tries < MaxTries
    <3>1. row[r].rid \in {"pending", "vm"} /\ row[r].ip \in BOOLEAN /\ 0 \in 0 .. MaxTries
          /\ 0 < MaxTries
      BY <1>b, TriesAssumption DEF RowRecords
    <3>2. NoRequest \in RequestRecords /\ NoRequest.tries = 0
      BY <3>1 DEF NoRequest, RequestRecords
    <3> QED BY <3>1, <3>2 DEF RequestRecords
  <2>2. Del(r, d, v) /\ UNCHANGED <<row, vm, prov, health>>
    BY <1>1 DEF GetProvisionedResource
  <2> QED BY <2>1, <2>2, <1>a, <1>b, <1>c, <1>d
<1>2. ASSUME NEW ok \in BOOLEAN, UpdateProvisionedResourceStatus(r, d, ok) PROVE WorkersInv'
  <2>1. CASE row[r].deleted \/ ~ok
    <3> DEFINE v == [q EXCEPT !.pc = "refused"]
    <3>1. v \in RequestRecords /\ v.rid = q.rid /\ v.ip = q.ip /\ v.pc = "refused"
      BY <1>0 DEF RequestRecords, DelEnded
    <3>2. Del(r, d, v) /\ UNCHANGED <<row, vm, prov, health>>
      BY <2>1, <1>2 DEF UpdateProvisionedResourceStatus
    <3> QED BY <3>1, <3>2, <1>a, <1>b, <1>c, <1>d
  <2>2. CASE ~row[r].deleted /\ ok
    <3> DEFINE v == [q EXCEPT !.pc = "inserting"]
    <3>1. v \in RequestRecords /\ v.rid = q.rid /\ v.ip = q.ip /\ v.pc = "inserting" /\ v.tries = q.tries
      BY <1>0 DEF RequestRecords
    <3>2. /\ q.pc = "read" /\ Del(r, d, v) /\ UNCHANGED <<vm, prov, health>>
          /\ row' = [row EXCEPT ![r].status = "deleting", ![r].ip = q.ip]
      BY <2>2, <1>2 DEF UpdateProvisionedResourceStatus
    <3>3. /\ row' \in [Rows -> RowRecords]
          /\ \A x \in Rows : row'[x].rid = row[x].rid /\ (x # r => row'[x] = row[x])
          /\ row'[r].ip = q.ip /\ row'[r].status = "deleting"
      <4> DEFINE w == [row[r] EXCEPT !.status = "deleting", !.ip = q.ip]
      <4>1. w \in RowRecords /\ w.rid = row[r].rid /\ w.ip = q.ip /\ w.status = "deleting"
        <5>1. q.ip \in BOOLEAN /\ row[r] \in RowRecords
          BY <1>0, <1>b DEF RequestRecords
        <5> QED BY <5>1 DEF RowRecords
      <4>2. row' = [row EXCEPT ![r] = w]
        BY <3>2, <1>b DEF RowRecords
      <4> QED BY <4>1, <4>2, <1>b
    <3>4. q.tries < MaxTries
      BY <3>2 DEF TriesInv
    <3> QED BY <3>1, <3>2, <3>3, <3>4, <1>a, <1>b, <1>c, <1>d
  <2> QED BY <2>1, <2>2
<1>3. ASSUME NEW ok \in BOOLEAN, InsertWorkerDeleteJob(r, d, ok) PROVE WorkersInv'
  <2> DEFINE v == [q EXCEPT !.pc = IF ok THEN "queued" ELSE "lost"]
  <2>1. v \in RequestRecords /\ v.rid = q.rid /\ v.ip = q.ip /\ v.pc \in {"queued", "lost"}
        /\ v.tries = q.tries
    BY <1>0 DEF RequestRecords, DelEnded
  <2>2. Del(r, d, v) /\ UNCHANGED <<row, vm, prov, health>>
    BY <1>3 DEF InsertWorkerDeleteJob
  <2>3. q.tries < MaxTries
    BY <1>3 DEF InsertWorkerDeleteJob, TriesInv
  <2> QED BY <2>1, <2>2, <2>3, <1>a, <1>b, <1>c, <1>d
<1>4. CASE DeleteStarts(r, d)
  <2> DEFINE v == [q EXCEPT !.pc = "cloud", !.tries = @ + 1]
  <2>1. q.tries < MaxTries
    BY <1>4 DEF DeleteStarts, WorkersInv, TriesInv
  <2>2. v \in RequestRecords /\ v.rid = q.rid /\ v.ip = q.ip /\ v.pc = "cloud"
    <3>1. q.tries \in 0 .. MaxTries /\ q.tries + 1 \in 0 .. MaxTries
      BY <2>1, <1>0, TriesAssumption DEF RequestRecords
    <3> HIDE DEF q
    <3> QED BY <3>1, <1>0 DEF RequestRecords, DelRunning
  <2>3. Del(r, d, v) /\ UNCHANGED <<row, vm, prov, health>>
    BY <1>4 DEF DeleteStarts
  <2> QED BY <2>2, <2>3, <1>a, <1>b, <1>c, <1>d
<1>5. ASSUME NEW ok \in BOOLEAN, NEW reached \in BOOLEAN, DeleteCloud(r, d, ok, reached)
      PROVE WorkersInv'
  <2> DEFINE m == IF reached /\ q.rid = "vm" THEN "destroyed" ELSE vm[r]
  <2>0. vm' = [vm EXCEPT ![r] = m] /\ UNCHANGED <<row, prov, health>> /\ q.pc = "cloud"
        /\ (ok => reached)
    BY <1>5, <1>b DEF DeleteCloud
  <2>1. /\ vm' \in [Rows -> {"none", "running", "destroyed"}]
        /\ \A x \in Rows : /\ vm[x] = "none" <=> vm'[x] = "none"
                           /\ vm[x] = "destroyed" => vm'[x] = "destroyed"
        /\ ok /\ q.rid = "vm" => vm'[r] = "destroyed"
    BY <2>0, <1>b, <1>d DEF KnowledgeInv
  <2>2. CASE ok \/ q.rid = "pending"
    <3> DEFINE v == [q EXCEPT !.pc = "soft"]
    <3>1. v \in RequestRecords /\ v.rid = q.rid /\ v.ip = q.ip /\ v.pc = "soft"
      BY <1>0 DEF RequestRecords, DelRunning
    <3>2. Del(r, d, v)
      BY <2>2, <1>5 DEF DeleteCloud
    <3> QED BY <2>0, <2>1, <2>2, <3>1, <3>2, <1>a, <1>b, <1>c, <1>d
  <2>3. CASE ~(ok \/ q.rid = "pending")
    <3>1. Del(r, d, Retried(q))
      BY <2>3, <1>5 DEF DeleteCloud
    <3> QED BY <2>0, <2>1, <3>1, <1>0, RetriedKeeps, <1>a, <1>b, <1>c, <1>d
  <2> QED BY <2>2, <2>3
<1>6. ASSUME NEW ok \in BOOLEAN, SoftDelete(r, d, ok) PROVE WorkersInv'
  <2>0. UNCHANGED <<vm, prov, health>> /\ q.pc = "soft" /\ (q.rid = "vm" => vm[r] = "destroyed")
    BY <1>6 DEF SoftDelete, DestroyedInv
  <2>1. CASE ok
    <3> DEFINE v == [q EXCEPT !.pc = "done"]
               w == [row[r] EXCEPT !.deleted = TRUE,
                                   !.status = IF row[r].deleted THEN @ ELSE "deleted"]
    <3>1. v \in RequestRecords /\ v.rid = q.rid /\ v.ip = q.ip /\ v.pc = "done"
      BY <1>0 DEF RequestRecords, DelEnded
    <3>2. w \in RowRecords /\ w.rid = row[r].rid /\ w.ip = row[r].ip
          /\ (w.status = "active" => row[r].status = "active")
      BY <1>b DEF RowRecords
    <3>3. Del(r, d, v) /\ row' = [row EXCEPT ![r] = w]
      BY <2>1, <1>6, <1>b DEF SoftDelete, RowRecords
    <3>4. row' \in [Rows -> RowRecords] /\ row'[r] = w /\ \A x \in Rows : x # r => row'[x] = row[x]
      BY <3>2, <3>3, <1>b
    <3> QED BY <2>0, <3>1, <3>2, <3>3, <3>4, <1>a, <1>b, <1>c, <1>d
  <2>2. CASE ~ok
    <3>1. Del(r, d, Retried(q)) /\ row' = row
      BY <2>2, <1>6 DEF SoftDelete
    <3> QED BY <2>0, <3>1, <1>0, RetriedKeeps, <1>a, <1>b, <1>c, <1>d
  <2> QED BY <2>1, <2>2
<1> QED BY <1>1, <1>2, <1>3, <1>4, <1>5, <1>6 DEF DeleteStep

\* The steps of a health check keep the invariant: it activates only rows that
\* showed an address when it selected them.
LEMMA HealthInv ==
  ASSUME WorkersInv, HealthStep \/ HealthSelects
  PROVE  WorkersInv'
<1> USE DEF WorkersInv
<1>0. row \in [Rows -> RowRecords]
  BY DEF WorkersTypeOK, RowRecords
<1>1. CASE HealthSelects
  <2>1. UNCHANGED <<row, vm, prov, del>> /\ health'.seen \in [Rows -> {"none", "provisioning", "active"}]
        /\ WorkersTypeOK'
    BY <1>1 DEF HealthSelects, Selected, WorkersTypeOK
  <2>2. \A r \in Rows : health'.seen[r] # "none" => row[r].ip
    BY <1>1 DEF HealthSelects, Selected
  <2>3. KnowledgeInv'
    BY <2>1, <2>2 DEF KnowledgeInv
  <2> QED BY <2>1, <2>3 DEF DestroyedInv, TriesInv
<1>2. ASSUME NEW r \in Rows, NEW reachable \in BOOLEAN, HealthProbes(r, reachable) PROVE WorkersInv'
  <2>1. UNCHANGED <<row, vm, prov, del>> /\ health'.seen = health.seen /\ WorkersTypeOK'
    BY <1>2 DEF HealthProbes, WorkersTypeOK
  <2> QED BY <2>1 DEF KnowledgeInv, DestroyedInv, TriesInv
<1>3. ASSUME NEW r \in Rows, NEW ok \in BOOLEAN, HealthUpdates(r, ok) PROVE WorkersInv'
  <2>1. row[r].rid = "vm" /\ prov[r] # "none"
    <3>1. row[r].rid = "vm"
      BY <1>3 DEF HealthUpdates, Probed, KnowledgeInv
    <3>2. NoRow.rid = "pending"
      BY DEF NoRow
    <3> QED BY <3>1, <3>2 DEF KnowledgeInv
  <2>2. PICK w \in RowRecords : /\ row' = [row EXCEPT ![r] = w]
                                /\ w.rid = row[r].rid /\ w.ip = row[r].ip
    <3> DEFINE w == [row[r] EXCEPT !.status = "active"]
    <3>1. w \in RowRecords /\ w.rid = row[r].rid /\ w.ip = row[r].ip
      BY <1>0 DEF RowRecords
    <3>2. row' = [row EXCEPT ![r] = w] \/ row' = [row EXCEPT ![r] = row[r]]
      BY <1>3, <1>0 DEF HealthUpdates
    <3> QED BY <3>1, <3>2, <1>0
  <2>3. row' \in [Rows -> RowRecords] /\ row'[r].rid = "vm"
        /\ \A x \in Rows : row'[x].rid = row[x].rid /\ row'[x].ip = row[x].ip
                          /\ (x # r => row'[x] = row[x])
    BY <2>1, <2>2, <1>0
  <2>4. UNCHANGED <<vm, prov, del>>
        /\ health' \in [pc : {"idle", "checking", "reachable", "unreachable"}, todo : SUBSET Rows,
                        seen : [Rows -> {"none", "provisioning", "active"}]]
        /\ \A x \in Rows : health'.seen[x] # "none" => health.seen[x] # "none"
    BY <1>3 DEF HealthUpdates, NoCheck, WorkersTypeOK
  <2>5. WorkersTypeOK'
    BY <2>3, <2>4 DEF WorkersTypeOK, RowRecords
  <2>6. KnowledgeInv'
    BY <2>1, <2>3, <2>4 DEF KnowledgeInv
  <2> QED BY <2>4, <2>5, <2>6 DEF DestroyedInv, TriesInv
<1>4. CASE HealthFails
  <2>1. UNCHANGED <<row, vm, prov, del>> /\ WorkersTypeOK' /\ \A r \in Rows : health'.seen[r] = "none"
    BY <1>4 DEF HealthFails, NoCheck, WorkersTypeOK
  <2> QED BY <2>1 DEF KnowledgeInv, DestroyedInv, TriesInv
<1> QED BY <1>1, <1>2, <1>3, <1>4 DEF HealthStep

\* The death of the server keeps the invariant.
LEMMA DeathInv ==
  ASSUME WorkersInv, ServerDies
  PROVE  WorkersInv'
<1> USE DEF WorkersInv
<1>1. UNCHANGED <<row, vm>> /\ health' = NoCheck
  BY DEF ServerDies
<1>2. /\ \A r \in Rows : /\ prov'[r] \in {prov[r], "discarded", "lost"}
                         /\ prov'[r] = "none" => prov[r] = "none"
      /\ prov' \in [Rows -> {"none", "inserting", "queued"} \cup ProvRunning \cup ProvEnded]
  BY DEF ServerDies, WorkersTypeOK, ProvEnded
<1>3. \A r \in Rows, d \in Requests : del[r][d] \in RequestRecords
  BY DEF WorkersTypeOK, RequestRecords
<1>4. ASSUME NEW r \in Rows, NEW d \in Requests
      PROVE  /\ del'[r][d] \in RequestRecords
             /\ del'[r][d].rid = del[r][d].rid /\ del'[r][d].ip = del[r][d].ip
             /\ \/ del'[r][d] = del[r][d]
                \/ del[r][d].pc # "none" /\ del'[r][d].pc \in {"discarded", "lost"}
                \/ del[r][d].pc # "none" /\ del'[r][d].pc = "queued" /\ del'[r][d].tries < MaxTries
  <2> DEFINE q == del[r][d]
  <2>0. del'[r][d] = CASE q.pc \in DelRunning -> Retried(q)
                       [] q.pc \in {"read", "inserting"} -> [q EXCEPT !.pc = "lost"]
                       [] OTHER -> q
    BY DEF ServerDies
  <2>1. CASE q.pc \in DelRunning
    BY <2>0, <2>1, <1>3, RetriedKeeps DEF DelRunning
  <2>2. CASE q.pc \in {"read", "inserting"}
    <3>1. del'[r][d] = [q EXCEPT !.pc = "lost"]
      BY <2>0, <2>2 DEF DelRunning
    <3>2. q \in RequestRecords
      BY <1>3
    <3> QED BY <3>1, <3>2, <2>2 DEF RequestRecords, DelEnded
  <2>3. CASE q.pc \notin DelRunning \cup {"read", "inserting"}
    BY <2>0, <2>3, <1>3
  <2> QED BY <2>1, <2>2, <2>3
<1>5. del' \in [Rows -> [Requests -> RequestRecords]]
  <2>1. del' = [r \in Rows |-> [d \in Requests |-> del'[r][d]]]
    BY DEF ServerDies
  <2> QED BY <2>1, <1>4
<1>6. WorkersTypeOK'
  <2>1. health' \in [pc : {"idle", "checking", "reachable", "unreachable"}, todo : SUBSET Rows,
                     seen : [Rows -> {"none", "provisioning", "active"}]]
    BY <1>1 DEF NoCheck
  <2> QED BY <1>1, <1>2, <1>5, <2>1 DEF WorkersTypeOK, RequestRecords
<1>7. KnowledgeInv'
  <2>1. \A r \in Rows : health'.seen[r] = "none"
    BY <1>1 DEF NoCheck
  <2>2. \A r \in Rows, d \in Requests : del[r][d].pc = "none" => del'[r][d].pc = "none"
    BY <1>4
  <2> SUFFICES ASSUME NEW r \in Rows
      PROVE /\ prov'[r] = "none" => row'[r] = NoRow /\ \A d \in Requests : del'[r][d].pc = "none"
            /\ prov'[r] \in {"none", "inserting", "queued", "creating"} =>
                 vm'[r] = "none" /\ row'[r].rid = "pending"
            /\ prov'[r] \in {"waitIP", "recording", "waitSSH", "activating", "cleanup"} => vm'[r] # "none"
            /\ row'[r].rid = "vm" => vm'[r] # "none"
            /\ row'[r].ip \/ row'[r].status = "active" \/ health'.seen[r] # "none" => row'[r].rid = "vm"
            /\ \A d \in Requests : del'[r][d].rid = "vm" \/ del'[r][d].ip => row'[r].rid = "vm"
    BY DEF KnowledgeInv
  <2>3. row' = row /\ vm' = vm
    BY <1>1
  <2>4. \A d \in Requests : del[r][d].rid = "vm" \/ del[r][d].ip => row[r].rid = "vm"
    BY DEF KnowledgeInv
  <2>5. \A d \in Requests : del'[r][d].rid = "vm" \/ del'[r][d].ip => row'[r].rid = "vm"
    <3> TAKE d \in Requests
    <3>1. del'[r][d].rid = del[r][d].rid /\ del'[r][d].ip = del[r][d].ip
      BY <1>4
    <3> QED BY <2>3, <2>4, <3>1
  <2>6. prov'[r] = "none" => row'[r] = NoRow /\ \A d \in Requests : del'[r][d].pc = "none"
    <3>1. prov[r] = "none" => row[r] = NoRow /\ \A d \in Requests : del[r][d].pc = "none"
      BY DEF KnowledgeInv
    <3> QED BY <1>2, <2>2, <2>3, <3>1
  <2>7. prov'[r] \in {prov[r], "discarded", "lost"}
    BY <1>2
  <2>8. /\ prov[r] \in {"none", "inserting", "queued", "creating"} =>
             vm[r] = "none" /\ row[r].rid = "pending"
        /\ prov[r] \in {"waitIP", "recording", "waitSSH", "activating", "cleanup"} => vm[r] # "none"
        /\ row[r].rid = "vm" => vm[r] # "none"
        /\ row[r].ip \/ row[r].status = "active" => row[r].rid = "vm"
    BY DEF KnowledgeInv
  <2> HIDE DEF WorkersInv
  <2> QED BY <2>1, <2>3, <2>5, <2>6, <2>7, <2>8
<1>8. DestroyedInv'
  BY <1>1, <1>4 DEF DestroyedInv
<1>9. TriesInv'
  BY <1>4 DEF TriesInv
<1> QED BY <1>6, <1>7, <1>8, <1>9

----------------------------------------------------------------------------
\* The initial states satisfy the invariant.
LEMMA WorkersInitInv == WorkersInit => WorkersInv
<1> SUFFICES ASSUME WorkersInit PROVE WorkersInv
  OBVIOUS
<1>1. 0 \in 0 .. MaxTries /\ 0 < MaxTries
  BY TriesAssumption
<1>2. WorkersTypeOK
  BY <1>1 DEF WorkersInit, WorkersTypeOK, NoRow, NoRequest, NoCheck
<1>3. KnowledgeInv
  BY DEF WorkersInit, KnowledgeInv, NoRow, NoRequest, NoCheck
<1>4. DestroyedInv /\ TriesInv
  BY <1>1 DEF WorkersInit, DestroyedInv, TriesInv, NoRequest
<1> QED BY <1>2, <1>3, <1>4 DEF WorkersInv

\* Every step preserves the invariant.
LEMMA WorkersNextInv == WorkersInv /\ [WorkersNext]_workersVars => WorkersInv'
<1> SUFFICES ASSUME WorkersInv, [WorkersNext]_workersVars PROVE WorkersInv'
  OBVIOUS
<1>1. CASE WorkersNext
  BY <1>1, ProvisionInv, DeleteInv, HealthInv, DeathInv DEF WorkersNext
<1>2. CASE UNCHANGED workersVars
  BY <1>2 DEF workersVars, WorkersInv, WorkersTypeOK, KnowledgeInv, DestroyedInv, TriesInv
<1> QED BY <1>1, <1>2

\* The inductive invariant holds throughout.
THEOREM WorkersInvariance == WorkersSpec => []WorkersInv
BY WorkersInitInv, WorkersNextInv, PTL DEF WorkersSpec

\* Every reachable state is well-typed; in particular no deletion is tried more
\* often than MaxAttempts allows.
THEOREM WorkersTypeCorrect == WorkersSpec => []WorkersTypeOK
<1>1. WorkersInv => WorkersTypeOK
  BY DEF WorkersInv
<1> QED BY <1>1, WorkersInvariance, PTL

\* A row shown as active names its machine, whoever activated it: Work's second
\* UPDATE writes the id again, and the health check selects only rows that have
\* an address (worker_jobs.go).
THEOREM ActiveDeletable == WorkersSpec => []ActiveIsDeletable
<1>1. WorkersInv => ActiveIsDeletable
  BY DEF WorkersInv, KnowledgeInv, ActiveIsDeletable
<1> QED BY <1>1, WorkersInvariance, PTL

\* A deletion that carried the machine's id and ended well left no machine
\* behind (worker_jobs.go, WorkerDeleteWorker.Work).
THEOREM KnownDestroyed == WorkersSpec => []KnownMachineIsDestroyed
<1>1. WorkersInv => KnownMachineIsDestroyed
  BY DEF WorkersInv, DestroyedInv, KnownMachineIsDestroyed
<1> QED BY <1>1, WorkersInvariance, PTL

----------------------------------------------------------------------------
\* No step touches the id or the address of a deleted row, or revives it.
LEMMA FrozenStep ==
  ASSUME WorkersInv, WorkersNext, NEW x \in Rows, row[x].deleted
  PROVE  row'[x].deleted /\ row'[x].rid = row[x].rid /\ row'[x].ip = row[x].ip
<1> DEFINE Frozen == row'[x].deleted /\ row'[x].rid = row[x].rid /\ row'[x].ip = row[x].ip
<1>0. row \in [Rows -> RowRecords] /\ row[x] \in RowRecords
  BY DEF WorkersInv, WorkersTypeOK, RowRecords
<1>a. row' = row => Frozen
  OBVIOUS
<1>b. ASSUME NEW r \in Rows, NEW ok \in BOOLEAN, UpdateResourceFailed(r, ok) PROVE Frozen
  <2>1. CASE ok
    <3> DEFINE w == [row[r] EXCEPT !.status = "failed"]
    <3>1. row' = [row EXCEPT ![r] = w]
      BY <2>1, <1>b DEF UpdateResourceFailed
    <3>2. w.deleted = row[r].deleted /\ w.rid = row[r].rid /\ w.ip = row[r].ip
      BY <1>0 DEF RowRecords
    <3> QED BY <3>1, <3>2, <1>0
  <2>2. CASE ~ok
    BY <2>2, <1>b DEF UpdateResourceFailed
  <2> QED BY <2>1, <2>2
<1>1. ASSUME NEW r \in Rows, ProvisionStep(r) \/ ProvisionStarts(r) PROVE Frozen
  <2>1. CASE CreateProvisionedResource(r)
    <3>1. x # r
      <4>1. row[r] = NoRow /\ ~NoRow.deleted
        BY <2>1 DEF WorkersInv, KnowledgeInv, CreateProvisionedResource, NoRow
      <4> QED BY <4>1
    <3> QED BY <2>1, <3>1, <1>0 DEF CreateProvisionedResource
  <2>2. ASSUME NEW ok \in BOOLEAN, RecordWorker(r, ok) PROVE Frozen
    BY <2>2, <1>0 DEF RecordWorker
  <2>3. CASE Activate(r)
    BY <2>3, <1>0 DEF Activate
  <2>4. ASSUME NEW ok \in BOOLEAN, NEW made \in BOOLEAN, ProvisionFails(r, ok, made) PROVE Frozen
    BY <2>4, <1>b DEF ProvisionFails
  <2>5. ASSUME NEW ok \in BOOLEAN, IPTimesOut(r, ok) \/ SSHTimesOut(r, ok) PROVE Frozen
    BY <2>5, <1>b DEF IPTimesOut, SSHTimesOut
  <2>6. ASSUME NEW ok \in BOOLEAN,
               InsertWorkerProvisionJob(r, ok) \/ CreateWorker(r, ok) \/ CleanUp(r, ok)
        PROVE Frozen
    BY <2>6, <1>a DEF InsertWorkerProvisionJob, CreateWorker, CleanUp
  <2>7. CASE IPAssigned(r) \/ SSHReady(r) \/ ActivateErrs(r) \/ ProvisionStarts(r)
    BY <2>7, <1>a DEF IPAssigned, SSHReady, ActivateErrs, ProvisionStarts
  <2> QED BY <1>1, <2>1, <2>2, <2>3, <2>4, <2>5, <2>6, <2>7 DEF ProvisionStep
<1>2. ASSUME NEW r \in Rows, NEW d \in Requests,
             GetProvisionedResource(r, d) \/ DeleteStep(r, d) \/ DeleteStarts(r, d)
      PROVE Frozen
  <2>1. ASSUME NEW ok \in BOOLEAN, UpdateProvisionedResourceStatus(r, d, ok) PROVE Frozen
    BY <2>1, <1>0 DEF UpdateProvisionedResourceStatus
  <2>2. ASSUME NEW ok \in BOOLEAN, SoftDelete(r, d, ok) PROVE Frozen
    <3>1. CASE ok
      <4> DEFINE w == [row[r] EXCEPT !.deleted = TRUE,
                                     !.status = IF row[r].deleted THEN @ ELSE "deleted"]
      <4>1. row' = [row EXCEPT ![r] = w]
        BY <3>1, <2>2, <1>0 DEF SoftDelete, RowRecords
      <4>2. w.deleted /\ w.rid = row[r].rid /\ w.ip = row[r].ip
        BY <1>0 DEF RowRecords
      <4> QED BY <4>1, <4>2, <1>0
    <3>2. CASE ~ok
      BY <3>2, <2>2, <1>a DEF SoftDelete
    <3> QED BY <3>1, <3>2
  <2>3. ASSUME NEW ok \in BOOLEAN, NEW reached \in BOOLEAN,
               InsertWorkerDeleteJob(r, d, ok) \/ DeleteCloud(r, d, ok, reached)
        PROVE Frozen
    BY <2>3, <1>a DEF InsertWorkerDeleteJob, DeleteCloud
  <2>4. CASE GetProvisionedResource(r, d) \/ DeleteStarts(r, d)
    BY <2>4, <1>a DEF GetProvisionedResource, DeleteStarts
  <2> QED BY <1>2, <2>1, <2>2, <2>3, <2>4 DEF DeleteStep
<1>3. CASE HealthStep \/ HealthSelects
  <2>1. ASSUME NEW r \in Rows, NEW ok \in BOOLEAN, HealthUpdates(r, ok) PROVE Frozen
    BY <2>1, <1>0 DEF HealthUpdates, RowRecords
  <2>2. ASSUME NEW r \in Rows, NEW reachable \in BOOLEAN, HealthProbes(r, reachable) PROVE Frozen
    BY <2>2, <1>a DEF HealthProbes
  <2>3. CASE HealthSelects
    BY <2>3, <1>a DEF HealthSelects
  <2>4. CASE HealthFails
    BY <2>4, <1>a DEF HealthFails
  <2> QED BY <1>3, <2>1, <2>2, <2>3, <2>4 DEF HealthStep
<1>4. CASE ServerDies
  BY <1>4, <1>a DEF ServerDies
<1> QED BY <1>1, <1>2, <1>3, <1>4 DEF WorkersNext

\* The late updates of a provisioning, of a health check and of a second deletion
\* leave a deleted row's id and address alone (the deleted_at IS NULL of
\* worker_jobs.go's updates and of admin/postgres).
THEOREM DeletedStays == WorkersSpec => DeletedRowIsFrozen
<1> DEFINE Frozen == \A r \in Rows : row[r].deleted =>
             row'[r].deleted /\ row'[r].rid = row[r].rid /\ row'[r].ip = row[r].ip
<1>1. WorkersInv /\ [WorkersNext]_workersVars => [Frozen]_workersVars
  <2> SUFFICES ASSUME WorkersInv, WorkersNext PROVE Frozen
    OBVIOUS
  <2> QED BY FrozenStep
<1>2. DeletedRowIsFrozen <=> [][Frozen]_workersVars
  BY PTL DEF DeletedRowIsFrozen
<1> QED BY <1>1, <1>2, WorkersInvariance, PTL DEF WorkersSpec

----------------------------------------------------------------------------
(* AdminAccess.  A check of a limiter and the use of a backup code each hold    *)
(* the lock of a row from its read to its write.  The code that a transaction   *)
(* consumes is still in the row; the limiter's log is sparse up to the last     *)
(* Limit attempts of the current window.                                        *)

RequestPCs ==
  {"idle", "loginCheck", "password", "halfway", "reset", "session", "codeCheck", "code",
   "consuming", "accepted", "acceptedLogin", "completing", "secret", "codes", "install",
   "enable", "forget", "disable", "others"}

BrowserRequests ==
  [pc : RequestPCs, clock : Nat, set : 0 .. MaxSets, code : Codes \cup {<<0, 0>>},
   left : SUBSET Codes]

AccessTypeOK ==
  /\ user \in [secret : BOOLEAN, enabled : BOOLEAN, codes : SUBSET Codes]
  /\ pending \in 0 .. MaxSets /\ sets \in 0 .. MaxSets
  /\ sessions \subseteq Browsers
  /\ request \in [Browsers -> BrowserRequests]
  /\ lock \in Browsers \cup {None}
  /\ limiter \in [Keys -> [count : Nat, start : Nat]]
  /\ now \in Nat /\ served \in Nat
  /\ uses \in [Codes -> Nat]
  /\ log \in [Keys -> Seq(Nat)]

\* A code that is being consumed is still in the row its transaction has locked.
ConsumingInv ==
  \A b \in Browsers :
    /\ request[b].pc = "consuming" <=> lock = b
    /\ request[b].pc = "consuming" =>
         /\ request[b].code \in user.codes
         /\ request[b].left = user.codes \ {request[b].code}

\* A code in the row has not been accepted since its set was stored there.
UsesInv == \A c \in Codes : uses[c] <= 1 /\ (c \in user.codes => uses[c] = 0)

\* The attempts that a limiter's row stands for: the latest ones of the log.
Counted(r) == IF r.count < Limit THEN r.count ELSE Limit

\* What row r of a limiter with windows of w ticks says at time t of the log l:
\* attempts before its window are older than the window's first statement, and
\* the ones before the previous window are a window older.
Spread(l, r, t, w) ==
  /\ Len(l) <= 2 * Limit + 1
  /\ \A i \in 1 .. Len(l) : l[i] <= t
  /\ r.count = 0 => \A i \in 1 .. Len(l) : i <= Len(l) - Limit => l[i] <= t - w
  /\ r.count > 0 =>
       /\ r.start <= t
       /\ \A i \in 1 .. Len(l) :
            /\ i <= Len(l) - Counted(r) => l[i] <= r.start + MaxDelay
            /\ i <= Len(l) - Counted(r) - Limit => l[i] <= r.start - w + MaxDelay
  /\ Len(l) = 2 * Limit + 1 => l[2 * Limit + 1] - l[1] >= w - MaxDelay

SpreadInv ==
  /\ \A b \in Browsers : request[b].pc \in {"loginCheck", "codeCheck"} =>
       request[b].clock <= now /\ now <= request[b].clock + MaxDelay
  /\ \A k \in Keys : Spread(log[k], limiter[k], now, Window(k))

AccessInv == AccessTypeOK /\ ConsumingInv /\ UsesInv /\ SpreadInv

\* The windows are positive and the clean-up waits for a window and the delay.
LEMMA WindowFacts ==
  /\ \A k \in Keys : Window(k) \in Nat \ {0} /\ CleanupAge >= Window(k) + MaxDelay
  /\ Limit \in Nat \ {0} /\ MaxDelay \in Nat /\ CleanupAge \in Nat
BY WindowAssumption, LimitAssumption DEF Window, Keys

LEMMA AccessInitInv == AccessInit => AccessInv
<1> SUFFICES ASSUME AccessInit PROVE AccessInv
  OBVIOUS
<1>1. 0 \in 0 .. MaxSets /\ 1 \in 0 .. MaxSets /\ 0 \in Nat /\ 1 \in Nat /\ Limit \in Nat \ {0}
  BY BoundsAssumption, LimitAssumption
<1>2. Idle \in BrowserRequests /\ Idle.pc = "idle"
  BY <1>1 DEF Idle, BrowserRequests, RequestPCs
<1>3. user \in [secret : BOOLEAN, enabled : BOOLEAN, codes : SUBSET Codes]
  <2>1. user \in {NotEnrolled, Enrolled} /\ CodesOf(1) \in SUBSET Codes
    BY DEF AccessInit, CodesOf
  <2>2. NotEnrolled \in [secret : BOOLEAN, enabled : BOOLEAN, codes : SUBSET Codes]
    BY Zenon DEF NotEnrolled
  <2>3. Enrolled \in [secret : BOOLEAN, enabled : BOOLEAN, codes : SUBSET Codes]
    BY <2>1, Zenon DEF Enrolled
  <2> QED BY <2>1, <2>2, <2>3
<1>4. AccessTypeOK
  <2>1. sets \in {0, 1} /\ pending \in {0, sets}
    BY DEF AccessInit
  <2>2. sets \in 0 .. MaxSets /\ pending \in 0 .. MaxSets
    BY <2>1, <1>1
  <2>3. log \in [Keys -> Seq(Nat)]
    <3>1. <<>> \in Seq(Nat) /\ <<0>> \in Seq(Nat)
      BY <1>1
    <3>2. log \in [Keys -> {<<>>, <<0>>}]
      BY DEF AccessInit
    <3> QED BY <3>1, <3>2
  <2>4. [k \in Keys |-> [count |-> Len(log[k]), start |-> 0]] \in [Keys -> [count : Nat, start : Nat]]
    BY <2>3, <1>1
  <2>6. [c \in Codes |-> 0] \in [Codes -> Nat]
    BY <1>1
  <2> QED BY <2>2, <2>3, <2>4, <2>6, <1>1, <1>2, <1>3 DEF AccessInit, AccessTypeOK
<1>5. ConsumingInv
  BY <1>2, BrowsersAssumption DEF AccessInit, ConsumingInv
<1>6. UsesInv
  BY DEF AccessInit, UsesInv
<1>7. SpreadInv
  <2>1. \A b \in Browsers : request[b].pc = "idle"
    BY <1>2 DEF AccessInit
  <2>2. ASSUME NEW k \in Keys PROVE Spread(log[k], limiter[k], now, Window(k))
    <3>1. /\ log[k] \in {<<>>, <<0>>} /\ now = 0
          /\ limiter[k].count = Len(log[k]) /\ limiter[k].start = 0
      BY DEF AccessInit
    <3>2. CASE log[k] = <<>>
      <4>1. Len(log[k]) = 0 /\ limiter[k].count = 0
        BY <3>1, <3>2
      <4> QED BY <4>1, <1>1 DEF Spread
    <3>3. CASE log[k] = <<0>>
      <4>1. Len(log[k]) = 1 /\ limiter[k].count = 1 /\ log[k][1] = 0
        BY <3>1, <3>3
      <4>2. Counted(limiter[k]) = 1
        BY <4>1, <1>1 DEF Counted
      <4> HIDE DEF Counted
      <4> QED BY <4>1, <4>2, <3>1, <1>1, WindowFacts DEF Spread
    <3> QED BY <3>1, <3>2, <3>3
  <2> QED BY <2>1, <2>2 DEF SpreadInv
<1> QED BY <1>4, <1>5, <1>6, <1>7 DEF AccessInv

----------------------------------------------------------------------------
\* A request's step changes that request only.
LEMMA ProceedUpdate ==
  ASSUME AccessTypeOK, NEW b \in Browsers, NEW r \in BrowserRequests,
         request' = [request EXCEPT ![b] = r]
  PROVE  /\ request' \in [Browsers -> BrowserRequests]
         /\ request'[b] = r
         /\ \A x \in Browsers : x # b => request'[x] = request[x]
BY DEF AccessTypeOK

LEMMA IdleRequest ==
  /\ Idle \in BrowserRequests
  /\ Idle.pc = "idle"
  /\ \A p \in RequestPCs : [Idle EXCEPT !.pc = p] \in BrowserRequests
                           /\ [Idle EXCEPT !.pc = p].pc = p
  /\ \A p \in RequestPCs, t \in Nat :
       /\ [Idle EXCEPT !.pc = p, !.clock = t] \in BrowserRequests
       /\ [Idle EXCEPT !.pc = p, !.clock = t].pc = p
       /\ [Idle EXCEPT !.pc = p, !.clock = t].clock = t
  /\ \A p \in RequestPCs, s \in 0 .. MaxSets :
       /\ [Idle EXCEPT !.pc = p, !.set = s] \in BrowserRequests
       /\ [Idle EXCEPT !.pc = p, !.set = s].pc = p
<1>1. 0 \in 0 .. MaxSets /\ 0 \in Nat
  BY BoundsAssumption
<1> QED BY <1>1 DEF Idle, BrowserRequests, RequestPCs

\* Where a request goes on.
LEMMA AtRequest ==
  ASSUME NEW p \in RequestPCs
  PROVE  At(p) \in BrowserRequests /\ At(p).pc = p
BY IdleRequest, Zenon DEF At

UserRows == [secret : BOOLEAN, enabled : BOOLEAN, codes : SUBSET Codes]

\* A step of a request that is not about to write a consumed code: the row's codes
\* change only while no transaction holds the row.
LEMMA RequestStep ==
  ASSUME AccessInv, NEW b \in Browsers, NEW r \in BrowserRequests,
         request' = [request EXCEPT ![b] = r],
         request[b].pc # "consuming", r.pc # "consuming",
         r.pc \in {"loginCheck", "codeCheck"} => r.clock = now,
         lock' = lock, now' = now, uses' \in [Codes -> Nat],
         lock # None => user'.codes = user.codes,
         user' \in UserRows,
         pending' \in 0 .. MaxSets, sets' \in 0 .. MaxSets,
         sessions' \subseteq Browsers, served' \in Nat,
         limiter' \in [Keys -> [count : Nat, start : Nat]], log' \in [Keys -> Seq(Nat)],
         UsesInv',
         \A k \in Keys : Spread(log'[k], limiter'[k], now, Window(k))
  PROVE  AccessInv'
<1> USE DEF AccessInv
<1>1. /\ request' \in [Browsers -> BrowserRequests]
      /\ request'[b] = r
      /\ \A x \in Browsers : x # b => request'[x] = request[x]
  BY ProceedUpdate
<1>2. AccessTypeOK'
  BY <1>1 DEF AccessTypeOK, UserRows
<1>3. ConsumingInv'
  <2> SUFFICES ASSUME NEW x \in Browsers
               PROVE  /\ request'[x].pc = "consuming" <=> lock' = x
                      /\ request'[x].pc = "consuming" =>
                           /\ request'[x].code \in user'.codes
                           /\ request'[x].left = user'.codes \ {request'[x].code}
    BY DEF ConsumingInv
  <2>1. lock # b
    BY DEF ConsumingInv
  <2>2. CASE x = b
    BY <2>1, <2>2, <1>1
  <2>3. CASE x # b
    <3>1. request'[x] = request[x]
      BY <2>3, <1>1
    <3>2. x # None
      BY BrowsersAssumption
    <3> QED BY <3>1, <3>2 DEF ConsumingInv
  <2> QED BY <2>2, <2>3
<1>4. SpreadInv'
  <2>1. \A x \in Browsers : request'[x].pc \in {"loginCheck", "codeCheck"} =>
          request'[x].clock <= now' /\ now' <= request'[x].clock + MaxDelay
    <3> SUFFICES ASSUME NEW x \in Browsers, request'[x].pc \in {"loginCheck", "codeCheck"}
                 PROVE  request'[x].clock <= now' /\ now' <= request'[x].clock + MaxDelay
      OBVIOUS
    <3>1. CASE x = b
      <4>1. request'[x].clock = now
        BY <3>1, <1>1
      <4> QED BY <4>1, WindowAssumption DEF AccessTypeOK
    <3>2. CASE x # b
      BY <3>2, <1>1 DEF SpreadInv
    <3> QED BY <3>1, <3>2
  <2>2. \A k \in Keys : Spread(log'[k], limiter'[k], now', Window(k))
    OBVIOUS
  <2> QED BY <2>1, <2>2 DEF SpreadInv
<1> QED BY <1>2, <1>3, <1>4

\* ... in particular one that leaves the row, the counters and the histories alone.
LEMMA QuietRequestStep ==
  ASSUME AccessInv, NEW b \in Browsers, NEW r \in BrowserRequests,
         request' = [request EXCEPT ![b] = r],
         request[b].pc # "consuming", r.pc # "consuming",
         r.pc \in {"loginCheck", "codeCheck"} => r.clock = now,
         UNCHANGED <<user, limiter, lock, now, uses, log>>,
         pending' \in 0 .. MaxSets, sets' \in 0 .. MaxSets,
         sessions' \subseteq Browsers, served' \in Nat
  PROVE  AccessInv'
<1>1. UsesInv'
  BY DEF AccessInv, UsesInv
<1>2. \A k \in Keys : Spread(log'[k], limiter'[k], now, Window(k))
  BY DEF AccessInv, SpreadInv
<1>3. /\ limiter' \in [Keys -> [count : Nat, start : Nat]] /\ log' \in [Keys -> Seq(Nat)]
      /\ uses' \in [Codes -> Nat] /\ user' \in UserRows /\ user'.codes = user.codes
  BY DEF AccessInv, AccessTypeOK, UserRows
<1> QED BY <1>1, <1>2, <1>3, RequestStep

----------------------------------------------------------------------------
\* The counter goes on in its window or starts a new one: by cases of the upsert,
\* whether the attempt is allowed (and logged) or not.
LEMMA CheckedRow ==
  ASSUME AccessTypeOK, NEW k \in Keys, NEW t \in Nat
  PROVE  /\ Checked(k, t) \in [count : Nat, start : Nat]
         /\ limiter[k].count = 0 \/ limiter[k].start + Window(k) <= t =>
              Checked(k, t).count = 1 /\ Checked(k, t).start = t
         /\ ~(limiter[k].count = 0 \/ limiter[k].start + Window(k) <= t) =>
              Checked(k, t).count = limiter[k].count + 1
              /\ Checked(k, t).start = limiter[k].start
<1>1. limiter[k] \in [count : Nat, start : Nat] /\ 1 \in Nat
  BY DEF AccessTypeOK
<1>2. CASE limiter[k].count = 0 \/ limiter[k].start + Window(k) <= t
  BY <1>1, <1>2 DEF Checked, Expired
<1>3. CASE ~(limiter[k].count = 0 \/ limiter[k].start + Window(k) <= t)
  BY <1>1, <1>3 DEF Checked, Expired
<1> QED BY <1>2, <1>3

\* The log with one more attempt, or moved by one when it was full.
LEMMA LastAllowedLog ==
  ASSUME AccessTypeOK, NEW k \in Keys, Len(log[k]) <= 2 * Limit + 1
  PROVE  /\ LastAllowed(k) \in Seq(Nat)
         /\ Len(log[k]) <= 2 * Limit =>
              /\ Len(LastAllowed(k)) = Len(log[k]) + 1
              /\ \A i \in 1 .. Len(log[k]) : LastAllowed(k)[i] = log[k][i]
              /\ LastAllowed(k)[Len(log[k]) + 1] = now
         /\ Len(log[k]) = 2 * Limit + 1 =>
              /\ Len(LastAllowed(k)) = Len(log[k])
              /\ \A i \in 1 .. (Len(log[k]) - 1) : LastAllowed(k)[i] = log[k][i + 1]
              /\ LastAllowed(k)[Len(log[k])] = now
<1> DEFINE l == log[k]
           m == Append(l, now)
<1>1. l \in Seq(Nat) /\ now \in Nat /\ Limit \in Nat \ {0} /\ Len(l) \in Nat
  BY LimitAssumption DEF AccessTypeOK
<1>2. m \in Seq(Nat) /\ Len(m) = Len(l) + 1 /\ m[Len(l) + 1] = now
      /\ \A i \in 1 .. Len(l) : m[i] = l[i]
  BY <1>1
<1>3. CASE Len(l) <= 2 * Limit
  <2>1. LastAllowed(k) = m
    BY <1>1, <1>2, <1>3 DEF LastAllowed
  <2> QED BY <2>1, <1>1, <1>2, <1>3
<1>4. CASE Len(l) = 2 * Limit + 1
  <2>1. LastAllowed(k) = Tail(m)
    BY <1>1, <1>2, <1>4 DEF LastAllowed
  <2>2. Tail(m) \in Seq(Nat) /\ Len(Tail(m)) = Len(l)
        /\ \A i \in 1 .. Len(l) : Tail(m)[i] = m[i + 1]
    <3>1. Len(m) = Len(l) + 1 /\ Len(l) \in Nat /\ m \in Seq(Nat)
      BY <1>1, <1>2
    <3> HIDE DEF l, m
    <3>2. m # << >>
      BY <3>1
    <3>3. Tail(m) \in Seq(Nat)
      BY <3>1, <3>2
    <3>4. Len(Tail(m)) = Len(l)
      BY <3>1, <3>2
    <3>5. \A i \in 1 .. Len(l) : Tail(m)[i] = m[i + 1]
      BY <3>1, <3>2
    <3> QED BY <3>3, <3>4, <3>5
  <2> HIDE DEF l, m
  <2>3. \A i \in 1 .. (Len(l) - 1) : i \in 1 .. Len(l) /\ i + 1 \in 1 .. Len(l)
    BY <1>1
  <2>4. \A i \in 1 .. (Len(l) - 1) : Tail(m)[i] = l[i + 1]
    BY <2>3, <2>2, <1>2
  <2>5. Len(l) \in 1 .. Len(l)
    BY <1>1, <1>4
  <2>6. Tail(m)[Len(l)] = now
    BY <2>5, <2>2, <1>2
  <2> QED BY <2>1, <2>2, <2>4, <2>6, <1>1, <1>4 DEF l
<1> QED BY <1>1, <1>3, <1>4

\* An allowed attempt is appended to a log l: the row r that counts it says what is
\* true of the new log a, if the older attempts are as old as r says.
LEMMA SpreadAppended ==
  ASSUME NEW l, NEW a, NEW n \in Nat, NEW t \in Nat, NEW w \in Nat \ {0},
         NEW r \in [count : Nat, start : Nat], r.count > 0, r.count <= Limit, r.start <= t,
         n <= 2 * Limit + 1, \A i \in 1 .. n : l[i] \in Nat /\ l[i] <= t,
         Len(a) = IF n <= 2 * Limit THEN n + 1 ELSE n,
         a[Len(a)] = t,
         \A i \in 1 .. (Len(a) - 1) : a[i] = IF n <= 2 * Limit THEN l[i] ELSE l[i + 1],
         \A i \in 1 .. n :
           /\ i <= n + 1 - r.count => l[i] <= r.start + MaxDelay
           /\ i <= n + 1 - r.count - Limit => l[i] <= r.start - w + MaxDelay
  PROVE  Spread(a, r, t, w)
<1> DEFINE m == Len(a)
           s == r.start
           c == r.count
<1>1. Limit \in Nat \ {0} /\ MaxDelay \in Nat /\ s \in Nat /\ c \in Nat /\ c \in 1 .. Limit
  BY WindowFacts
<1>2. m \in 1 .. (2 * Limit + 1) /\ m \in Nat /\ Counted(r) = c /\ c # 0 /\ c > 0
  BY <1>1 DEF Counted
<1>3. ASSUME NEW i \in 1 .. (m - 1)
      PROVE  /\ a[i] \in Nat /\ a[i] <= t
             /\ i <= m - c => a[i] <= s + MaxDelay
             /\ i <= m - c - Limit => a[i] <= s - w + MaxDelay
  <2>1. CASE n <= 2 * Limit
    <3>1. m = n + 1 /\ i \in 1 .. n /\ a[i] = l[i]
      BY <2>1
    <3>2. l[i] \in Nat /\ l[i] <= t
      BY <3>1
    <3> QED BY <3>1, <3>2, <1>1
  <2>2. CASE n > 2 * Limit
    <3>1. m = n /\ i + 1 \in 1 .. n /\ a[i] = l[i + 1] /\ i \in Nat
      BY <2>2, <1>1
    <3>2. l[i + 1] \in Nat /\ l[i + 1] <= t
      BY <3>1
    <3>3. /\ i + 1 <= n + 1 - c => l[i + 1] <= s + MaxDelay
          /\ i + 1 <= n + 1 - c - Limit => l[i + 1] <= s - w + MaxDelay
      BY <3>1
    <3> HIDE DEF s, c, m
    <3> QED BY <3>1, <3>2, <3>3, <1>1
  <2> QED BY <2>1, <2>2, <1>1
<1>4. a[m] = t
  OBVIOUS
<1> HIDE DEF m, s, c
<1>5. \A i \in 1 .. m : a[i] <= t
  BY <1>2, <1>3, <1>4
<1>6. \A i \in 1 .. m : /\ i <= m - c => a[i] <= s + MaxDelay
                        /\ i <= m - c - Limit => a[i] <= s - w + MaxDelay
  BY <1>1, <1>2, <1>3
<1>7. m = 2 * Limit + 1 => a[2 * Limit + 1] - a[1] >= w - MaxDelay
  <2> SUFFICES ASSUME m = 2 * Limit + 1 PROVE a[2 * Limit + 1] - a[1] >= w - MaxDelay
    OBVIOUS
  <2>1. 1 \in 1 .. (m - 1) /\ 1 <= m - c - Limit
    BY <1>1, <1>2
  <2>2. a[1] \in Nat /\ a[1] <= s - w + MaxDelay
    BY <2>1, <1>3
  <2>3. a[2 * Limit + 1] = t /\ s <= t
    BY <1>4 DEF s
  <2> QED BY <2>2, <2>3, <1>1
<1> QED BY <1>1, <1>2, <1>5, <1>6, <1>7 DEF Spread, m, s, c

\* An attempt with clock t that is counted now: the row says no more of the old log
\* than is true, and of the new one if the attempt is allowed.
LEMMA SpreadChecked ==
  ASSUME AccessTypeOK, NEW k \in Keys, NEW t \in Nat, t <= now, now <= t + MaxDelay,
         Spread(log[k], limiter[k], now, Window(k))
  PROVE  /\ Spread(log[k], Checked(k, t), now, Window(k))
         /\ Checked(k, t).count <= Limit =>
              Spread(LastAllowed(k), Checked(k, t), now, Window(k))
<1> DEFINE l == log[k]
           r == limiter[k]
           c == Checked(k, t)
           a == LastAllowed(k)
           w == Window(k)
           n == Len(l)
<1>1. /\ n \in Nat /\ now \in Nat /\ r.count \in Nat /\ r.start \in Nat
      /\ \A i \in 1 .. n : l[i] \in Nat
      /\ c \in [count : Nat, start : Nat] /\ c.count \in Nat /\ c.start \in Nat
  <2>1. l \in Seq(Nat)
    BY DEF AccessTypeOK
  <2>2. now \in Nat /\ r \in [count : Nat, start : Nat]
    BY DEF AccessTypeOK
  <2>3. c \in [count : Nat, start : Nat]
    BY CheckedRow
  <2> QED BY <2>1, <2>2, <2>3
<1>2. w \in Nat \ {0} /\ Limit \in Nat \ {0} /\ MaxDelay \in Nat
  BY WindowFacts
<1>3. /\ n <= 2 * Limit + 1 /\ \A i \in 1 .. n : l[i] <= now
      /\ n = 2 * Limit + 1 => l[2 * Limit + 1] - l[1] >= w - MaxDelay
  BY DEF Spread
\* What is known of the older attempts, as the new row counts.
<1>4. /\ c.count > 0 /\ c.start <= now
      /\ \A i \in 1 .. n :
           /\ i <= n + 1 - Counted(c) => l[i] <= c.start + MaxDelay \/ c.count > Limit
           /\ i <= n + 1 - Counted(c) - Limit => l[i] <= c.start - w + MaxDelay \/ c.count > Limit
           /\ i <= n - Counted(c) => l[i] <= c.start + MaxDelay
           /\ i <= n - Counted(c) - Limit => l[i] <= c.start - w + MaxDelay
  <2>1. CASE r.count = 0 \/ r.start + w <= t
    <3>1. c.count = 1 /\ c.start = t
      BY <2>1, CheckedRow
    <3>2. Counted(c) = 1
      BY <3>1, <1>2 DEF Counted
    <3>3. \A i \in 1 .. n : i <= n - Limit => l[i] <= t - w + MaxDelay
      <4>1. CASE r.count = 0
        <5>1. \A i \in 1 .. n : i <= n - Limit => l[i] <= now - w
          BY <4>1 DEF Spread
        <5> HIDE DEF l, n, w
        <5> QED BY <5>1, <1>1, <1>2
      <4>2. CASE r.count # 0
        <5>1. r.start + w <= t
          BY <4>2, <2>1
        <5>2. \A i \in 1 .. n : i <= n - Counted(r) => l[i] <= r.start + MaxDelay
          BY <4>2, <1>1 DEF Spread
        <5>3. Counted(r) \in Nat /\ Counted(r) <= Limit
          BY <1>1, <1>2 DEF Counted
        <5> HIDE DEF l, n, w, r
        <5> QED BY <5>1, <5>2, <5>3, <1>1, <1>2
      <4> QED BY <4>1, <4>2
    <3> HIDE DEF l, n, w, c
    <3> QED BY <3>1, <3>2, <3>3, <1>1, <1>2, <1>3
  <2>2. CASE ~(r.count = 0 \/ r.start + w <= t)
    <3>1. c.count = r.count + 1 /\ c.start = r.start /\ r.count > 0
      BY <2>2, <1>1, CheckedRow
    <3>2. /\ r.start <= now
          /\ \A i \in 1 .. n :
               /\ i <= n - Counted(r) => l[i] <= r.start + MaxDelay
               /\ i <= n - Counted(r) - Limit => l[i] <= r.start - w + MaxDelay
      BY <3>1 DEF Spread
    <3>3. /\ Counted(r) \in Nat /\ Counted(c) \in Nat /\ Counted(r) <= Counted(c)
          /\ c.count <= Limit => Counted(c) = Counted(r) + 1
      BY <3>1, <1>1, <1>2 DEF Counted
    <3> HIDE DEF l, n, w, c, r
    <3> QED BY <3>1, <3>2, <3>3, <1>1, <1>2, <1>3
  <2> QED BY <2>1, <2>2
<1>5. Spread(l, c, now, w)
  <2>1. c.count # 0
    BY <1>1, <1>4
  <2> QED BY <2>1, <1>3, <1>4 DEF Spread
<1>6. ASSUME c.count <= Limit
      PROVE  Spread(a, c, now, w)
  <2>1. Counted(c) = c.count
    BY <1>1, <1>2, <1>6 DEF Counted
  <2>2. \A i \in 1 .. n :
           /\ i <= n + 1 - c.count => l[i] <= c.start + MaxDelay
           /\ i <= n + 1 - c.count - Limit => l[i] <= c.start - w + MaxDelay
    <3>1. ~(c.count > Limit)
      BY <1>1, <1>2, <1>6
    <3>2. \A i \in 1 .. n :
             /\ i <= n + 1 - Counted(c) => l[i] <= c.start + MaxDelay
             /\ i <= n + 1 - Counted(c) - Limit => l[i] <= c.start - w + MaxDelay
      BY <3>1, <1>4
    <3> HIDE DEF l, n, w, c
    <3> QED BY <3>2, <2>1, <1>1, <1>2, SMT
  <2>3. /\ Len(a) = IF n <= 2 * Limit THEN n + 1 ELSE n
        /\ a[Len(a)] = now
        /\ \A i \in 1 .. (Len(a) - 1) : a[i] = IF n <= 2 * Limit THEN l[i] ELSE l[i + 1]
    <3>1. n <= 2 * Limit \/ n = 2 * Limit + 1
      <4>1. n \in Nat /\ n <= 2 * Limit + 1 /\ Limit \in Nat
        BY <1>1, <1>2, <1>3
      <4> HIDE DEF n
      <4> QED BY <4>1
    <3>2. /\ n <= 2 * Limit =>
               /\ Len(a) = n + 1 /\ a[n + 1] = now /\ \A i \in 1 .. n : a[i] = l[i]
          /\ n = 2 * Limit + 1 =>
               /\ Len(a) = n /\ a[n] = now /\ \A i \in 1 .. (n - 1) : a[i] = l[i + 1]
      BY <1>3, LastAllowedLog
    <3> HIDE DEF a, l, n
    <3>3. CASE n <= 2 * Limit
      <4>1. (n + 1) - 1 = n
        BY <1>1
      <4> QED BY <4>1, <3>2, <3>3
    <3>4. CASE n = 2 * Limit + 1
      <4>1. ~(n <= 2 * Limit)
        BY <3>4, <1>2
      <4> QED BY <4>1, <3>2, <3>4
    <3> QED BY <3>1, <3>3, <3>4
  <2> HIDE DEF a, l, n, w, c
  <2> QED BY <2>2, <2>3, <1>1, <1>2, <1>3, <1>4, <1>6, SpreadAppended
<1> QED BY <1>5, <1>6

\* A counted attempt keeps the invariant, allowed, refused or answered by an error.
LEMMA CheckInv ==
  ASSUME AccessInv, NEW b \in Browsers, NEW k \in Keys,
         NEW from \in {"loginCheck", "codeCheck"}, NEW to \in {"password", "code"},
         Check(b, k, from, to)
  PROVE  AccessInv'
<1> USE DEF AccessInv
<1> DEFINE t == request[b].clock
           c == Checked(k, t)
<1>1. request[b].pc = from /\ request[b] \in BrowserRequests /\ served' = served
  BY DEF Check, Proceed, AccessTypeOK
<1>2. t \in Nat /\ t <= now /\ now <= t + MaxDelay
  BY <1>1 DEF SpreadInv, BrowserRequests
<1>3. /\ \A x \in Keys : Spread(log[x], limiter[x], now, Window(x))
      /\ limiter \in [Keys -> [count : Nat, start : Nat]] /\ log \in [Keys -> Seq(Nat)]
  BY DEF SpreadInv, AccessTypeOK
<1>4. /\ Spread(log[k], c, now, Window(k))
      /\ c.count <= Limit => Spread(LastAllowed(k), c, now, Window(k))
      /\ c \in [count : Nat, start : Nat]
      /\ LastAllowed(k) \in Seq(Nat)
  <2>1. Len(log[k]) <= 2 * Limit + 1
    BY <1>3 DEF Spread
  <2> QED BY <2>1, <1>2, <1>3, SpreadChecked, CheckedRow, LastAllowedLog
<1>5. UNCHANGED <<enrolment, sessions, lock, now, uses>>
  BY DEF Check
<1>6. UsesInv' /\ user' \in UserRows
  BY <1>5 DEF UsesInv, enrolment, UserRows, AccessTypeOK
<1>7. PICK r \in {Idle, At(to)} :
        /\ request' = [request EXCEPT ![b] = r]
        /\ \/ limiter' = limiter /\ log' = log
           \/ /\ limiter' = [limiter EXCEPT ![k] = c]
              /\ \/ log' = log
                 \/ c.count <= Limit /\ log' = [log EXCEPT ![k] = LastAllowed(k)]
  BY DEF Check, Proceed
<1>8. r \in BrowserRequests /\ r.pc \in {"idle", "password", "code"}
  <2>1. to \in RequestPCs
    BY DEF RequestPCs
  <2>2. At(to) \in BrowserRequests /\ At(to).pc = to
    BY <2>1, AtRequest
  <2>3. Idle \in BrowserRequests /\ Idle.pc = "idle"
    BY IdleRequest
  <2> QED BY <2>2, <2>3
<1>9. /\ limiter' \in [Keys -> [count : Nat, start : Nat]] /\ log' \in [Keys -> Seq(Nat)]
      /\ \A x \in Keys : Spread(log'[x], limiter'[x], now, Window(x))
  BY <1>3, <1>4, <1>7
<1> QED BY <1>1, <1>5, <1>6, <1>7, <1>8, <1>9, RequestStep DEF enrolment, AccessTypeOK

\* So does a reset, with or without effect, and whatever the browser does next.
LEMMA ResetInv ==
  ASSUME AccessInv, NEW b \in Browsers, NEW k \in Keys,
         NEW from \in {"reset", "accepted", "acceptedLogin"},
         NEW to \in {"session", "acceptedLogin", "completing"},
         Proceed(b, from, At(to)), Reset(k),
         UNCHANGED <<enrolment, sessions, lock, now, uses>>
  PROVE  AccessInv'
<1> USE DEF AccessInv
<1> DEFINE none == [count |-> 0, start |-> 0]
<1>1. request[b].pc = from /\ served' = served /\ request' = [request EXCEPT ![b] = At(to)]
  BY DEF Proceed
<1>2. At(to) \in BrowserRequests /\ At(to).pc = to
  BY AtRequest DEF RequestPCs
<1>3. /\ \A x \in Keys : Spread(log[x], limiter[x], now, Window(x))
      /\ limiter \in [Keys -> [count : Nat, start : Nat]] /\ log \in [Keys -> Seq(Nat)]
  BY DEF SpreadInv, AccessTypeOK
<1>4. none \in [count : Nat, start : Nat] /\ Spread(<<>>, none, now, Window(k))
  BY WindowFacts DEF Spread
<1>5. /\ limiter' \in [Keys -> [count : Nat, start : Nat]] /\ log' \in [Keys -> Seq(Nat)]
      /\ \A x \in Keys : Spread(log'[x], limiter'[x], now, Window(x))
  <2>1. CASE UNCHANGED <<limiter, log>>
    BY <2>1, <1>3
  <2>2. CASE limiter' = [limiter EXCEPT ![k] = none] /\ log' = [log EXCEPT ![k] = <<>>]
    <3>1. <<>> \in Seq(Nat)
      OBVIOUS
    <3> HIDE DEF none
    <3> QED BY <3>1, <2>2, <1>3, <1>4
  <2> QED BY <2>1, <2>2 DEF Reset
<1>6. UsesInv' /\ user' \in UserRows
  BY DEF UsesInv, enrolment, UserRows, AccessTypeOK
<1> QED BY <1>1, <1>2, <1>5, <1>6, RequestStep DEF enrolment, AccessTypeOK

LEMMA LoginInv ==
  ASSUME AccessInv, NEW b \in Browsers, LoginStep(b)
  PROVE  AccessInv'
<1> USE DEF AccessInv
<1>0. /\ sessions \subseteq Browsers
      /\ served \in Nat /\ served + 1 \in Nat /\ now \in Nat
      /\ pending \in 0 .. MaxSets /\ sets \in 0 .. MaxSets
  BY DEF AccessTypeOK
<1>i. Idle \in BrowserRequests /\ Idle.pc = "idle"
  BY IdleRequest
<1>1. CASE Login(b)
  <2> DEFINE r == [Idle EXCEPT !.pc = "loginCheck", !.clock = now]
  <2>1. r \in BrowserRequests /\ r.pc = "loginCheck" /\ r.clock = now
    <3>1. "loginCheck" \in RequestPCs
      BY DEF RequestPCs
    <3> QED BY <3>1, <1>0, IdleRequest, Zenon
  <2>2. request[b].pc = "idle" /\ request' = [request EXCEPT ![b] = r] /\ served' = served + 1
    BY <1>1, <1>i DEF Login, Begin
  <2> QED BY <2>1, <2>2, <1>0, <1>1, QuietRequestStep DEF Login, enrolment, rows, history
<1>2. CASE LoginCheck(b)
  BY <1>2, CheckInv DEF LoginCheck, Keys
<1>3. CASE LoginResets(b)
  BY <1>3, ResetInv DEF LoginResets, Keys
<1>4. CASE LogoutHandler(b)
  BY <1>4, <1>0, <1>i, QuietRequestStep DEF LogoutHandler, DeleteSession, Begin, enrolment, history
<1>5. CASE SessionExpires(b)
  <2>1. /\ UNCHANGED <<enrolment, limiter, request, lock, now, served, history>>
        /\ sessions' \subseteq Browsers
    BY <1>5, <1>0 DEF SessionExpires, DeleteSession
  <2>2. AccessTypeOK'
    BY <2>1 DEF AccessTypeOK, enrolment, history
  <2> QED BY <2>1, <2>2 DEF ConsumingInv, UsesInv, SpreadInv, enrolment, history
<1>6. ASSUME NEW ok \in BOOLEAN, Password(b, ok) PROVE AccessInv'
  <2>1. PICK r \in {Idle, At("halfway"), At("reset")} :
          request[b].pc = "password" /\ request' = [request EXCEPT ![b] = r] /\ served' = served
    BY <1>6 DEF Password, Proceed
  <2>2. r \in BrowserRequests /\ r.pc \in {"idle", "halfway", "reset"}
    BY <1>i, AtRequest DEF RequestPCs
  <2> QED BY <2>1, <2>2, <1>0, <1>6, QuietRequestStep DEF Password, enrolment, rows, history
<1>7. ASSUME NEW ok \in BOOLEAN, HalfwaySession(b, ok) PROVE AccessInv'
  BY <1>7, <1>0, <1>i, QuietRequestStep DEF HalfwaySession, Proceed, enrolment, history
<1>8. ASSUME NEW ok \in BOOLEAN, CreateSession(b, ok) PROVE AccessInv'
  BY <1>8, <1>0, <1>i, QuietRequestStep DEF CreateSession, Proceed, enrolment, history
<1> QED BY <1>1, <1>2, <1>3, <1>4, <1>5, <1>6, <1>7, <1>8 DEF LoginStep

LEMMA PasswordInv ==
  ASSUME AccessInv, NEW b \in Browsers, PasswordStep(b)
  PROVE  AccessInv'
<1> USE DEF AccessInv
<1>0. /\ sessions \subseteq Browsers
      /\ served \in Nat /\ served + 1 \in Nat
      /\ pending \in 0 .. MaxSets /\ sets \in 0 .. MaxSets
  BY DEF AccessTypeOK
<1>i. Idle \in BrowserRequests /\ Idle.pc = "idle"
  BY IdleRequest
<1>1. CASE ChangePassword(b)
  <2> DEFINE r == [Idle EXCEPT !.pc = "others"]
  <2>1. r \in BrowserRequests /\ r.pc = "others"
    BY IdleRequest DEF RequestPCs
  <2>2. request[b].pc = "idle" /\ request' = [request EXCEPT ![b] = r] /\ served' = served + 1
    BY <1>1, <1>i DEF ChangePassword, Begin
  <2> QED BY <2>1, <2>2, <1>0, <1>1, QuietRequestStep DEF ChangePassword, enrolment, rows, history
<1>2. ASSUME NEW ok \in BOOLEAN, DeleteUserSessionsExcept(b, ok) PROVE AccessInv'
  <2>1. sessions' \subseteq Browsers
    BY <1>2, <1>0 DEF DeleteUserSessionsExcept
  <2> QED BY <2>1, <1>2, <1>0, <1>i, QuietRequestStep
             DEF DeleteUserSessionsExcept, Proceed, enrolment, history
<1> QED BY <1>1, <1>2 DEF PasswordStep

\* A step that takes the lock of the row or gives it back.
LEMMA TransactionStep ==
  ASSUME AccessInv, NEW b \in Browsers, NEW r \in BrowserRequests,
         request' = [request EXCEPT ![b] = r],
         r.pc \notin {"loginCheck", "codeCheck"},
         lock \in {None, b}, lock' = IF r.pc = "consuming" THEN b ELSE None,
         r.pc = "consuming" => r.code \in user'.codes /\ r.left = user'.codes \ {r.code},
         UNCHANGED <<pending, sets, rows, now, served, log>>,
         user' \in UserRows, uses' \in [Codes -> Nat], UsesInv'
  PROVE  AccessInv'
<1> USE DEF AccessInv
<1>1. /\ request' \in [Browsers -> BrowserRequests]
      /\ request'[b] = r
      /\ \A x \in Browsers : x # b => request'[x] = request[x]
  BY ProceedUpdate
<1>2. AccessTypeOK'
  BY <1>1 DEF AccessTypeOK, UserRows, rows
<1>3. ConsumingInv'
  <2> SUFFICES ASSUME NEW x \in Browsers
               PROVE  /\ request'[x].pc = "consuming" <=> lock' = x
                      /\ request'[x].pc = "consuming" =>
                           /\ request'[x].code \in user'.codes
                           /\ request'[x].left = user'.codes \ {request'[x].code}
    BY DEF ConsumingInv
  <2>0. x # None /\ b # None
    BY BrowsersAssumption
  <2>1. CASE x = b
    BY <2>0, <2>1, <1>1
  <2>2. CASE x # b
    <3>1. lock # x /\ lock' # x
      BY <2>0, <2>2
    <3>2. request'[x].pc # "consuming"
      BY <3>1, <2>2, <1>1 DEF ConsumingInv
    <3> QED BY <3>1, <3>2
  <2> QED BY <2>1, <2>2
<1>4. SpreadInv'
  <2>1. \A x \in Browsers : request'[x].pc \in {"loginCheck", "codeCheck"} =>
          request'[x].clock <= now' /\ now' <= request'[x].clock + MaxDelay
    BY <1>1 DEF SpreadInv
  <2> QED BY <2>1 DEF SpreadInv, rows
<1> QED BY <1>2, <1>3, <1>4

LEMMA VerifyInv ==
  ASSUME AccessInv, NEW b \in Browsers, VerifyStep(b)
  PROVE  AccessInv'
<1> USE DEF AccessInv
<1>0. /\ sessions \subseteq Browsers
      /\ served \in Nat /\ served + 1 \in Nat /\ now \in Nat
      /\ pending \in 0 .. MaxSets /\ sets \in 0 .. MaxSets
      /\ user \in UserRows /\ request[b] \in BrowserRequests
      /\ uses \in [Codes -> Nat]
  BY DEF AccessTypeOK, UserRows
<1>i. Idle \in BrowserRequests /\ Idle.pc = "idle"
  BY IdleRequest
<1>a. At("accepted") \in BrowserRequests /\ At("accepted").pc = "accepted"
  BY AtRequest DEF RequestPCs
<1>1. CASE Verify(b)
  <2> DEFINE r == [Idle EXCEPT !.pc = "codeCheck", !.clock = now]
  <2>1. r \in BrowserRequests /\ r.pc = "codeCheck" /\ r.clock = now
    <3>1. "codeCheck" \in RequestPCs
      BY DEF RequestPCs
    <3> QED BY <3>1, <1>0, IdleRequest, Zenon
  <2>2. request[b].pc = "idle" /\ request' = [request EXCEPT ![b] = r] /\ served' = served + 1
    BY <1>1, <1>i DEF Verify, Begin
  <2> QED BY <2>1, <2>2, <1>0, <1>1, QuietRequestStep DEF Verify, enrolment, rows, history
<1>2. CASE CodeCheck(b)
  BY <1>2, CheckInv DEF CodeCheck, Keys
<1>3. ASSUME NEW k \in Keys, Accept(b, k) PROVE AccessInv'
  BY <1>3, ResetInv DEF Accept, Keys
<1>4. ASSUME NEW ok \in BOOLEAN, OneTimeCode(b, ok) PROVE AccessInv'
  <2>1. PICK r \in {Idle, At("accepted")} :
          request[b].pc = "code" /\ request' = [request EXCEPT ![b] = r] /\ served' = served
    BY <1>4 DEF OneTimeCode, Proceed
  <2> QED BY <2>1, <1>i, <1>a, <1>0, <1>4, QuietRequestStep
             DEF OneTimeCode, enrolment, rows, history
<1>5. CASE Complete(b)
  <2>1. At("session") \in BrowserRequests /\ At("session").pc = "session"
    BY AtRequest DEF RequestPCs
  <2>2. sessions' \subseteq Browsers
    BY <1>5, <1>0 DEF Complete, DeleteSession
  <2> QED BY <2>1, <2>2, <1>0, <1>5, QuietRequestStep DEF Complete, Proceed, enrolment, history
<1>6. ASSUME NEW ok \in BOOLEAN, Consume(b, ok) PROVE AccessInv'
  <2> DEFINE c == request[b].code
  <2>1. /\ request[b].pc = "consuming" /\ served' = served
        /\ request' = [request EXCEPT ![b] = IF ok THEN At("accepted") ELSE Idle]
        /\ UNCHANGED <<pending, sets, rows, now, log>> /\ lock' = None
    BY <1>6 DEF Consume, Proceed
  <2>2. lock = b /\ c \in user.codes /\ request[b].left = user.codes \ {c} /\ c \in Codes
    BY <2>1, <1>0 DEF ConsumingInv, UserRows
  <2>3. CASE ok
    <3>1. /\ user' \in UserRows /\ user'.codes = user.codes \ {c}
          /\ uses' = [uses EXCEPT ![c] = @ + 1] /\ uses' \in [Codes -> Nat]
      <4>1. user' = [user EXCEPT !.codes = user.codes \ {c}]
        BY <2>2, <2>3, <1>6 DEF Consume
      <4>2. uses' = [uses EXCEPT ![c] = @ + 1]
        BY <2>3, <1>6 DEF Consume
      <4>3. user' \in UserRows /\ user'.codes = user.codes \ {c}
        BY <4>1, <1>0 DEF UserRows
      <4>4. uses' \in [Codes -> Nat]
        BY <4>2, <2>2, <1>0
      <4> QED BY <4>2, <4>3, <4>4
    <3>2. UsesInv'
      <4> SUFFICES ASSUME NEW d \in Codes
                   PROVE  uses'[d] <= 1 /\ (d \in user'.codes => uses'[d] = 0)
        BY DEF UsesInv
      <4>1. /\ uses[d] <= 1 /\ (d \in user.codes => uses[d] = 0)
            /\ uses[c] = 0
        BY <2>2 DEF UsesInv
      <4>2. uses'[d] = IF d = c THEN uses[d] + 1 ELSE uses[d]
        BY <3>1, <1>0
      <4> QED BY <4>1, <4>2, <3>1, <2>2, <1>0
    <3> QED BY <3>1, <3>2, <2>1, <2>2, <2>3, <1>a, TransactionStep
  <2>4. CASE ~ok
    <3>1. user' = user /\ uses' = uses
      BY <2>4, <1>6 DEF Consume
    <3>2. UsesInv'
      BY <3>1, <2>1 DEF UsesInv
    <3> QED BY <3>1, <3>2, <2>1, <2>2, <2>4, <1>0, <1>i, TransactionStep
  <2> QED BY <2>3, <2>4
<1>7. ASSUME NEW c \in Codes, BackupCode(b, c) PROVE AccessInv'
  <2>1. CASE c \in user.codes
    <3> DEFINE r == [At("consuming") EXCEPT !.code = c, !.left = user.codes \ {c}]
    <3>1. r \in BrowserRequests /\ r.pc = "consuming" /\ r.code = c /\ r.left = user.codes \ {c}
      <4>1. At("consuming") \in BrowserRequests /\ At("consuming").pc = "consuming"
        BY AtRequest DEF RequestPCs
      <4>2. user.codes \ {c} \in SUBSET Codes
        BY <1>0 DEF UserRows
      <4> QED BY <4>1, <4>2 DEF BrowserRequests
    <3>2. /\ request' = [request EXCEPT ![b] = r] /\ served' = served
          /\ lock = None /\ lock' = b
          /\ UNCHANGED <<enrolment, rows, now, history>>
      BY <2>1, <1>7 DEF BackupCode, Proceed, RowFree
    <3>3. UsesInv'
      BY <3>2 DEF UsesInv, enrolment, history
    <3> HIDE DEF r
    <3> QED BY <3>1, <3>2, <3>3, <2>1, <1>0, TransactionStep DEF enrolment, history
  <2>2. CASE c \notin user.codes
    <3>1. /\ request[b].pc = "code" /\ request' = [request EXCEPT ![b] = Idle]
          /\ served' = served /\ lock' = lock
      BY <2>2, <1>7 DEF BackupCode, Proceed, RowFree
    <3> QED BY <3>1, <1>i, <1>0, <1>7, QuietRequestStep DEF BackupCode, enrolment, rows, history
  <2> QED BY <2>1, <2>2
<1> QED BY <1>1, <1>2, <1>3, <1>4, <1>5, <1>6, <1>7 DEF VerifyStep

LEMMA SetupInv ==
  ASSUME AccessInv, NEW b \in Browsers, SetupStep(b)
  PROVE  AccessInv'
<1> USE DEF AccessInv
<1>0. /\ sessions \subseteq Browsers
      /\ served \in Nat /\ served + 1 \in Nat
      /\ pending \in 0 .. MaxSets /\ sets \in 0 .. MaxSets
      /\ user \in UserRows /\ request[b] \in BrowserRequests
      /\ uses \in [Codes -> Nat]
      /\ limiter \in [Keys -> [count : Nat, start : Nat]] /\ log \in [Keys -> Seq(Nat)]
      /\ 0 \in 0 .. MaxSets
  BY BoundsAssumption DEF AccessTypeOK, UserRows
<1>i. Idle \in BrowserRequests /\ Idle.pc = "idle"
  BY IdleRequest
<1>s. \A k \in Keys : Spread(log[k], limiter[k], now, Window(k))
  BY DEF SpreadInv
\* What a request that begins looks like.
<1>b. ASSUME NEW p \in {"secret", "codes", "disable", "install"}, NEW s \in 0 .. MaxSets,
             NEW r, r = [Idle EXCEPT !.pc = p] \/ r = [Idle EXCEPT !.pc = p, !.set = s],
             Begin(b, r), UNCHANGED <<enrolment, rows, lock, now, history>>
      PROVE  AccessInv'
  <2>1. p \in RequestPCs
    BY DEF RequestPCs
  <2>2. r \in BrowserRequests /\ r.pc = p
    <3>1. CASE r = [Idle EXCEPT !.pc = p]
      BY <3>1, <2>1, IdleRequest, Zenon
    <3>2. CASE r = [Idle EXCEPT !.pc = p, !.set = s]
      BY <3>2, <2>1, IdleRequest, Zenon
    <3> QED BY <3>1, <3>2, <1>b
  <2>3. request[b].pc = "idle" /\ request' = [request EXCEPT ![b] = r] /\ served' = served + 1
    BY <1>b, <1>i DEF Begin
  <2> QED BY <2>2, <2>3, <1>0, <1>b, QuietRequestStep DEF enrolment, rows, history
<1>1. CASE VerifyPassword(b)
  BY <1>1, <1>b, <1>0 DEF VerifyPassword
<1>2. CASE VerifyTOTP(b)
  BY <1>2, <1>b, <1>0 DEF VerifyTOTP
<1>3. CASE ConfirmBackup(b)
  BY <1>3, <1>b, <1>0 DEF ConfirmBackup
<1>4. CASE Disable(b)
  BY <1>4, <1>b, <1>0 DEF Disable
\* A write of the row, which no transaction holds.
<1>w. ASSUME NEW from \in {"secret", "install", "enable", "disable"},
             NEW r \in {Idle, At("enable"), At("forget")},
             Proceed(b, from, r), RowFree,
             UNCHANGED <<pending, sets, rows, lock, now, log>>,
             user' \in UserRows, uses' \in [Codes -> Nat],
             \A c \in Codes : \/ uses'[c] = 0
                              \/ uses'[c] = uses[c] /\ (c \in user'.codes => c \in user.codes)
      PROVE  AccessInv'
  <2>1. r \in BrowserRequests /\ r.pc \in {"idle", "enable", "forget"}
    <3>1. At("enable") \in BrowserRequests /\ At("enable").pc = "enable"
      BY AtRequest DEF RequestPCs
    <3>2. At("forget") \in BrowserRequests /\ At("forget").pc = "forget"
      BY AtRequest DEF RequestPCs
    <3> QED BY <3>1, <3>2, <1>i
  <2>2. /\ request[b].pc = from /\ request' = [request EXCEPT ![b] = r] /\ served' = served
        /\ lock = None
    BY <1>w DEF Proceed, RowFree
  <2>3. UsesInv'
    BY <1>w DEF UsesInv
  <2> QED BY <2>1, <2>2, <2>3, <1>w, <1>0, <1>s, RequestStep DEF rows
<1>5. ASSUME NEW ok \in BOOLEAN, SetTOTPSecret(b, ok) PROVE AccessInv'
  <2>1. user' \in UserRows /\ user'.codes = user.codes
    <3>1. CASE ok
      BY <3>1, <1>5, <1>0 DEF SetTOTPSecret, UserRows
    <3>2. CASE ~ok
      BY <3>2, <1>5, <1>0 DEF SetTOTPSecret
    <3> QED BY <3>1, <3>2
  <2>2. uses' = uses /\ log' = log
    BY <1>5 DEF SetTOTPSecret, history
  <2> QED BY <2>1, <2>2, <1>5, <1>0, <1>w DEF SetTOTPSecret
<1>6. ASSUME NEW ok \in BOOLEAN, DisableTOTP(b, ok) PROVE AccessInv'
  <2>1. user' \in UserRows /\ user'.codes \subseteq user.codes
    <3>1. CASE ok
      BY <3>1, <1>6, <1>0 DEF DisableTOTP, UserRows
    <3>2. CASE ~ok
      BY <3>2, <1>6, <1>0 DEF DisableTOTP
    <3> QED BY <3>1, <3>2
  <2>2. uses' = uses /\ log' = log
    BY <1>6 DEF DisableTOTP, history
  <2> QED BY <2>1, <2>2, <1>6, <1>0, <1>w DEF DisableTOTP
<1>7. ASSUME NEW ok \in BOOLEAN, EnableTOTP(b, ok) PROVE AccessInv'
  <2>1. user' \in UserRows /\ user'.codes = user.codes
    <3>1. CASE ok
      BY <3>1, <1>7, <1>0 DEF EnableTOTP, UserRows
    <3>2. CASE ~ok
      BY <3>2, <1>7, <1>0 DEF EnableTOTP
    <3> QED BY <3>1, <3>2
  <2>2. uses' = uses /\ log' = log
    BY <1>7 DEF EnableTOTP, history
  <2> QED BY <2>1, <2>2, <1>7, <1>0, <1>w DEF EnableTOTP
<1>8. ASSUME NEW ok \in BOOLEAN, SetBackupCodes(b, ok) PROVE AccessInv'
  <2> DEFINE s == request[b].set
  <2>1. /\ user' \in UserRows /\ uses' \in [Codes -> Nat]
        /\ \A c \in Codes : \/ uses'[c] = 0
                            \/ uses'[c] = uses[c] /\ (c \in user'.codes => c \in user.codes)
    <3>1. CASE ok
      <4>1. /\ user' = [user EXCEPT !.codes = CodesOf(s)]
            /\ uses' = [c \in Codes |-> IF c[1] = s THEN 0 ELSE uses[c]]
        BY <3>1, <1>8 DEF SetBackupCodes
      <4>2. user' \in UserRows /\ user'.codes = CodesOf(s)
        BY <4>1, <1>0 DEF UserRows, CodesOf
      <4>3. uses' \in [Codes -> Nat]
        BY <4>1, <1>0
      <4> QED BY <4>1, <4>2, <4>3 DEF CodesOf
    <3>2. CASE ~ok
      BY <3>2, <1>8, <1>0 DEF SetBackupCodes
    <3> QED BY <3>1, <3>2
  <2> QED BY <2>1, <1>8, <1>0, <1>w DEF SetBackupCodes
<1>9. ASSUME NEW ok \in BOOLEAN, StoreCodes(b, ok) PROVE AccessInv'
  <2>1. pending' \in 0 .. MaxSets /\ sets' \in 0 .. MaxSets
    BY <1>9, <1>0, BoundsAssumption DEF StoreCodes
  <2> QED BY <2>1, <1>9, <1>0, <1>i, QuietRequestStep DEF StoreCodes, Proceed, rows, history
<1>10. ASSUME NEW ok \in BOOLEAN, DeleteConfig(b, ok) PROVE AccessInv'
  <2>1. pending' \in 0 .. MaxSets
    BY <1>10, <1>0 DEF DeleteConfig
  <2> QED BY <2>1, <1>10, <1>0, <1>i, QuietRequestStep DEF DeleteConfig, Proceed, rows, history
<1> QED BY <1>1, <1>2, <1>3, <1>4, <1>5, <1>6, <1>7, <1>8, <1>9, <1>10 DEF SetupStep

\* A row that is cleaned up is older than any window with its delay.
LEMMA CleanupInv ==
  ASSUME AccessInv, Cleanup
  PROVE  AccessInv'
<1> USE DEF AccessInv
<1>1. /\ UNCHANGED <<enrolment, sessions, request, lock, now, served, history>>
      /\ limiter' = [k \in Keys |-> IF limiter[k].start < now - CleanupAge
                                    THEN [count |-> 0, start |-> 0] ELSE limiter[k]]
  BY DEF Cleanup
<1>2. AccessTypeOK'
  <2>1. limiter' \in [Keys -> [count : Nat, start : Nat]]
    BY <1>1 DEF AccessTypeOK
  <2> QED BY <1>1, <2>1 DEF AccessTypeOK, enrolment, history
<1>3. SpreadInv'
  <2>1. ASSUME NEW k \in Keys PROVE Spread(log[k], limiter'[k], now, Window(k))
    <3> DEFINE l == log[k]
               n == Len(l)
               r == limiter[k]
               w == Window(k)
    <3>1. CASE r.start < now - CleanupAge
      <4>1. limiter'[k].count = 0 /\ ~(limiter'[k].count > 0)
        BY <3>1, <1>1
      <4>2. /\ r.count \in Nat /\ r.start \in Nat /\ now \in Nat /\ n \in Nat
            /\ \A i \in 1 .. n : l[i] \in Nat
        <5>1. l \in Seq(Nat)
          BY DEF AccessTypeOK
        <5> QED BY <5>1 DEF AccessTypeOK
      <4>3. /\ w \in Nat \ {0} /\ CleanupAge >= w + MaxDelay
            /\ Limit \in Nat \ {0} /\ MaxDelay \in Nat /\ CleanupAge \in Nat
        BY WindowFacts
      <4>4. Spread(l, r, now, w)
        BY DEF SpreadInv
      <4>5. \A i \in 1 .. n : i <= n - Limit => l[i] <= now - w
        <5>1. CASE r.count = 0
          BY <4>4, <5>1 DEF Spread
        <5>2. CASE r.count > 0
          <6>1. \A i \in 1 .. n : i <= n - Counted(r) => l[i] <= r.start + MaxDelay
            BY <4>4, <5>2 DEF Spread
          <6>2. Counted(r) \in Nat /\ Counted(r) <= Limit
            BY <4>2, <4>3 DEF Counted
          <6> HIDE DEF l, n, r, w
          <6> QED BY <6>1, <6>2, <4>2, <4>3, <3>1
        <5> QED BY <5>1, <5>2, <4>2
      <4> QED BY <4>1, <4>4, <4>5 DEF Spread
    <3>2. CASE ~(r.start < now - CleanupAge)
      BY <3>2, <1>1 DEF SpreadInv
    <3> QED BY <3>1, <3>2
  <2> QED BY <1>1, <2>1 DEF SpreadInv, history
<1> QED BY <1>1, <1>2, <1>3 DEF ConsumingInv, UsesInv, enrolment, history

\* Time makes the logged attempts older; it waits for the requests in progress.
LEMMA TickInv ==
  ASSUME AccessInv, Tick
  PROVE  AccessInv'
<1> USE DEF AccessInv
<1>1. now \in Nat /\ now' = now + 1 /\ MaxDelay \in Nat
      /\ UNCHANGED <<enrolment, rows, request, lock, served, history>>
  BY WindowFacts DEF Tick, AccessTypeOK
<1>2. AccessTypeOK'
  BY <1>1 DEF AccessTypeOK, enrolment, rows, history
<1>3. ASSUME NEW k \in Keys PROVE Spread(log[k], limiter[k], now', Window(k))
  <2> DEFINE l == log[k]
             n == Len(l)
             r == limiter[k]
             w == Window(k)
  <2>1. /\ r.start \in Nat /\ n \in Nat /\ \A i \in 1 .. n : l[i] \in Nat
    <3>1. l \in Seq(Nat)
      BY DEF AccessTypeOK
    <3> QED BY <3>1 DEF AccessTypeOK
  <2>2. Spread(l, r, now, w) /\ w \in Nat
    BY WindowFacts DEF SpreadInv
  <2> HIDE DEF l, r, w
  <2>3. \A i \in 1 .. n : l[i] <= now'
    BY <2>1, <2>2, <1>1 DEF Spread
  <2>4. r.count = 0 => \A i \in 1 .. n : i <= n - Limit => l[i] <= now' - w
    BY <2>1, <2>2, <1>1, WindowFacts DEF Spread
  <2>5. r.count > 0 => r.start <= now'
    BY <2>1, <2>2, <1>1 DEF Spread
  <2> QED BY <2>2, <2>3, <2>4, <2>5 DEF Spread, l, r, w
<1>4. ASSUME NEW b \in Browsers, request[b].pc \in {"loginCheck", "codeCheck"}
      PROVE  request[b].clock <= now' /\ now' <= request[b].clock + MaxDelay
  <2>1. request[b].clock <= now /\ now - request[b].clock < MaxDelay
    BY <1>4 DEF SpreadInv, Tick
  <2>2. request[b].clock \in Nat
    BY DEF AccessTypeOK, BrowserRequests
  <2> QED BY <2>1, <2>2, <1>1
<1>5. SpreadInv'
  BY <1>1, <1>3, <1>4 DEF SpreadInv, rows, history
<1> QED BY <1>1, <1>2, <1>5 DEF ConsumingInv, UsesInv, enrolment, rows, history

LEMMA AccessNextInv == AccessInv /\ [AccessNext]_accessVars => AccessInv'
<1> SUFFICES ASSUME AccessInv, [AccessNext]_accessVars PROVE AccessInv'
  OBVIOUS
<1>1. ASSUME NEW b \in Browsers,
             LoginStep(b) \/ VerifyStep(b) \/ SetupStep(b) \/ PasswordStep(b)
      PROVE  AccessInv'
  BY <1>1, LoginInv, VerifyInv, SetupInv, PasswordInv
<1>2. CASE UNCHANGED accessVars
  BY <1>2 DEF AccessInv, AccessTypeOK, ConsumingInv, UsesInv, SpreadInv,
              accessVars, enrolment, rows, history
<1> QED BY <1>1, <1>2, CleanupInv, TickInv DEF AccessNext

\* The invariant of the requests, the row and the limiters.
THEOREM AccessInvariance == AccessSpec => []AccessInv
BY AccessInitInv, AccessNextInv, PTL DEF AccessSpec

\* A code is accepted once each time its set was stored: ValidateBackupCode's lock of
\* the row is held from its read to its write.
THEOREM CodesUsedOncePerStore == AccessSpec => []CodeUsedOncePerStore
<1>1. AccessInv => CodeUsedOncePerStore
  BY DEF AccessInv, UsesInv, CodeUsedOncePerStore
<1> QED BY <1>1, AccessInvariance, PTL

\* Of any 2 * Limit + 1 attempts that Check allowed in a row, the first and the last
\* are a window apart, whatever the limit, the windows and the delay.
THEOREM LimiterSpreads == AccessSpec => []AttemptsAreSpread
<1>1. AccessInv => AttemptsAreSpread
  BY DEF AccessInv, SpreadInv, Spread, AttemptsAreSpread
<1> QED BY <1>1, AccessInvariance, PTL

----------------------------------------------------------------------------
(* JobListing.  The deletion of what matches up to the cursor is queued, but    *)
(* for the jobs still to do; what a page shows has no gap below its last job.   *)

\* A finite set of integers has a least and a greatest element: the sets of elements
\* below each of its elements are well-founded by inclusion.
LEMMA LeastExists ==
  ASSUME NEW S \in SUBSET Int, IsFiniteSet(S), S # {}
  PROVE  \E i \in S : \A j \in S : i <= j
<1> DEFINE Below(i) == {j \in S : j < i}
           T == {Below(i) : i \in S}
           R == StrictSubsetOrdering(S)
<1>1. IsWellFoundedOn(R, FiniteSubsetsOf(S)) /\ FiniteSubsetsOf(S) = SUBSET S
  BY FS_StrictSubsetOrderingWellFounded, FS_FiniteSubsetsOfFinite
<1>2. T \subseteq SUBSET S /\ T # {}
  OBVIOUS
<1> HIDE DEF T, R
<1>a. IsWellFoundedOn(R, SUBSET S)
  BY <1>1
<1>3. \E A \in T : \A B \in T : ~(<<B, A>> \in R)
  BY <1>a, <1>2, WFMin
<1>4. PICK i \in S : \A B \in T : ~(<<B, Below(i)>> \in R)
  BY <1>3 DEF T
<1>5. ASSUME NEW j \in S, j < i
      PROVE  FALSE
  <2>1. Below(j) \in T /\ Below(j) \in SUBSET S /\ Below(i) \in SUBSET S
    BY DEF T
  <2>2. \A k \in S : k < j => k < i
    <3>1. j \in Int /\ i \in Int /\ \A k \in S : k \in Int
      OBVIOUS
    <3> QED BY <3>1, <1>5
  <2>5. Below(j) \subseteq Below(i)
    BY <2>2
  <2>3. j \in Below(i) /\ j \notin Below(j)
    BY <1>5
  <2>4. Below(j) # Below(i)
    BY <2>3, Zenon
  <2> HIDE DEF Below
  <2> QED BY <2>1, <2>5, <2>4, <1>4 DEF R, StrictSubsetOrdering
<1>6. \A j \in S : i <= j
  BY <1>5
<1> QED BY <1>6

LEMMA GreatestExists ==
  ASSUME NEW S \in SUBSET Int, IsFiniteSet(S), S # {}
  PROVE  \E i \in S : \A j \in S : i >= j
<1> DEFINE f == [j \in S |-> -j]
           T == {f[j] : j \in S}
<1>1. T \in SUBSET Int /\ T # {}
  <2>1. \A j \in S : f[j] \in Int
    OBVIOUS
  <2> HIDE DEF f
  <2> QED BY <2>1
<1>2. f \in Surjection(S, T)
  BY DEF Surjection
<1>3. IsFiniteSet(T)
  <2> HIDE DEF f, T
  <2> QED BY <1>2, FS_Surjection
<1>4. PICK t \in T : \A u \in T : t <= u
  <2> HIDE DEF T
  <2> QED BY <1>1, <1>3, LeastExists
<1>5. PICK i \in S : t = -i
  OBVIOUS
<1>6. ASSUME NEW j \in S PROVE i >= j
  <2>1. -j \in T
    OBVIOUS
  <2>2. -i <= -j
    BY <2>1, <1>4, <1>5
  <2>3. i \in Int /\ j \in Int
    OBVIOUS
  <2> QED BY <2>2, <2>3
<1> QED BY <1>6

BatchRecords ==
  [pc : {"idle", "list", "delete", "cancel", "insert", "ok", "failed"}, all : BOOLEAN,
   filter : JobStates \cup {""}, page : 0 .. MaxPages, cursor : 0 .. NumJobs,
   todo : SUBSET Jobs, more : BOOLEAN]

DeletionRecords == [pc : {"results", "row"}, job : Jobs, attempt : Attempts]

ListingTypeOK ==
  /\ state \in [Jobs -> JobStates \cup {"none", "gone"}]
  /\ cancelled \subseteq Jobs /\ scraping \subseteq Jobs /\ results \subseteq Jobs
  /\ deletions \in [Jobs \X Attempts -> Nat]
  /\ deleter \in [Deleters -> DeletionRecords \cup {NoDeletion}]
  /\ batch \in [Batches -> BatchRecords]
  /\ client \in [pc : {"idle", "get", "results", "answer"}, job : Polled \cup {0},
                 status : JobStates \cup {"", "none", "gone"}, found : BOOLEAN, unread : BOOLEAN]
  /\ client.pc # "idle" => client.job \in Polled
  /\ matching \in [Batches -> SUBSET Jobs]
  /\ queuedBy \in [Batches -> [Jobs -> Nat]]
  /\ givenUp \subseteq Jobs /\ removed \subseteq Polled

\* A deletion is queued for each job of the pages up to the cursor, but for the
\* jobs that are still to do; what matches lies behind the cursor once there is no
\* further page.
BatchInv(r) ==
  LET q == batch[r]
  IN  /\ q.pc = "idle" => \A j \in Jobs : queuedBy[r][j] = 0
      /\ q.pc \in {"idle", "list", "ok", "failed"} => q.todo = {}
      /\ q.pc \in {"delete", "cancel", "insert"} => q.todo # {}
      /\ q.pc = "list" \/ q.more => q.all
      /\ \A j \in q.todo : queuedBy[r][j] = 0
      /\ \A j \in Jobs : queuedBy[r][j] <= 1
      /\ q.all /\ q.pc \in {"list", "delete", "cancel", "insert"} =>
           /\ \A j \in q.todo : j <= q.cursor
           /\ \A j \in Jobs : queuedBy[r][j] > 0 => j <= q.cursor
           /\ \A j \in matching[r] : j <= q.cursor => queuedBy[r][j] > 0 \/ j \in q.todo
           /\ q.pc # "list" /\ ~q.more => \A j \in matching[r] : j <= q.cursor
      /\ q.all /\ q.pc = "ok" => \A j \in matching[r] : queuedBy[r][j] > 0

\* Results of a polled job are there, or a deletion or the cleanup has removed them,
\* from the moment River's row says that the job is completed.
ClientInv ==
  /\ \A j \in Polled : state[j] = "completed" => j \in results \cup removed
  /\ client.pc = "results" => client.job \in results \cup removed
  /\ CompletedWithResults

ListingInv ==
  ListingTypeOK /\ (\A r \in Batches : BatchInv(r)) /\ ClientInv /\ NoDeletionForgotten

LEMMA JobsFinite ==
  /\ NumJobs \in Nat \ {0} /\ PageSize \in Nat \ {0} /\ MaxPages \in Nat /\ MaxAttempts \in Nat \ {0}
  /\ IsFiniteSet(Jobs) /\ Jobs \subseteq Nat
  /\ \A S \in SUBSET Jobs : IsFiniteSet(S) /\ Cardinality(S) \in Nat
<1>1. NumJobs \in Nat \ {0} /\ PageSize \in Nat \ {0} /\ MaxPages \in Nat /\ MaxAttempts \in Nat \ {0}
  BY NumbersAssumption
<1>2. IsFiniteSet(Jobs) /\ Jobs \subseteq Nat
  BY <1>1, FS_Interval DEF Jobs
<1> QED BY <1>1, <1>2, FS_Subset, FS_CardinalityType

LEMMA LeastJob ==
  ASSUME NEW S \in SUBSET Jobs, S # {}
  PROVE  Least(S) \in S /\ \A j \in S : Least(S) <= j
<1>1. S \in SUBSET Int /\ IsFiniteSet(S)
  BY JobsFinite
<1>2. \E i \in S : \A j \in S : i <= j
  BY <1>1, LeastExists
<1> QED BY <1>2 DEF Least

LEMMA GreatestJob ==
  ASSUME NEW S \in SUBSET Jobs, S # {}
  PROVE  Greatest(S) \in S /\ \A j \in S : Greatest(S) >= j
<1>1. S \in SUBSET Int /\ IsFiniteSet(S)
  BY JobsFinite
<1>2. \E i \in S : \A j \in S : i >= j
  BY <1>1, GreatestExists
<1> QED BY <1>2 DEF Greatest

\* A page of JobList: it has no gap below its last job, so that the cursor may go
\* there; and when it is not full nothing that matches lies behind it.
LEMMA PageFacts ==
  ASSUME NEW filter, NEW cursor \in Nat
  PROVE  LET page == Page(filter, cursor)
         IN  /\ page \subseteq Jobs
             /\ \A j \in page : j > cursor
             /\ page = {} => ~ \E j \in Jobs : j > cursor /\ Matches(filter, j)
             /\ page # {} =>
                  /\ NextCursor(page) \in page
                  /\ \A j \in page : j <= NextCursor(page)
                  /\ \A j \in Jobs :
                       j > cursor /\ Matches(filter, j) /\ j <= NextCursor(page) => j \in page
                  /\ ~HasMore(page) =>
                       \A j \in Jobs : j > cursor /\ Matches(filter, j) => j <= NextCursor(page)
<1> DEFINE rest == {j \in Jobs : j > cursor /\ Matches(filter, j)}
           Before(j) == {i \in rest : i < j}
           page == Page(filter, cursor)
           g == Greatest(page)
<1>1. page = {j \in rest : Cardinality(Before(j)) < PageSize}
  BY DEF Page
<1>2. rest \subseteq Jobs /\ page \subseteq rest /\ page \subseteq Jobs /\ \A j \in rest : Before(j) \subseteq Jobs
  BY <1>1
<1>3. \A j \in Jobs : j \in Nat /\ j \in Int
  BY JobsFinite
<1>p. PageSize \in Nat \ {0}
  BY JobsFinite
<1>f. \A S \in SUBSET Jobs : IsFiniteSet(S) /\ Cardinality(S) \in Nat
  BY JobsFinite
<1>4. ASSUME NEW i \in rest, NEW j \in rest, i <= j, j \in page
      PROVE  i \in page
  <2>1. \A k \in rest : k < i => k < j
    <3>1. i \in Int /\ j \in Int /\ \A k \in rest : k \in Int
      BY <1>2, <1>3
    <3> QED BY <3>1, <1>4
  <2>2. Before(i) \subseteq Before(j)
    BY <2>1
  <2>3. IsFiniteSet(Before(j)) /\ Cardinality(Before(j)) \in Nat /\ Cardinality(Before(i)) \in Nat
    BY <1>2, <1>f
  <2>4. Cardinality(Before(i)) <= Cardinality(Before(j))
    <3> HIDE DEF Before
    <3> QED BY <2>2, <2>3, FS_Subset
  <2>5. Cardinality(Before(j)) < PageSize
    BY <1>4, <1>1
  <2>6. Cardinality(Before(i)) < PageSize
    <3> HIDE DEF Before
    <3> QED BY <2>3, <2>4, <2>5, <1>p
  <2> QED BY <2>6, <1>1
<1>5. ASSUME rest # {}
      PROVE  page # {}
  <2> DEFINE m == Least(rest)
  <2>1. m \in rest /\ \A j \in rest : m <= j
    BY <1>5, <1>2, LeastJob
  <2>2. \A j \in rest : ~(j < m)
    <3>1. m \in Int /\ \A j \in rest : j \in Int
      BY <2>1, <1>2, <1>3
    <3> HIDE DEF m, rest
    <3> QED BY <3>1, <2>1
  <2>3. Before(m) = {}
    BY <2>2
  <2>4. Cardinality(Before(m)) = 0
    BY <2>3, FS_EmptySet
  <2>5. m \in page
    <3> HIDE DEF m, Before, rest
    <3> QED BY <2>1, <2>4, <1>1, <1>p
  <2> QED BY <2>5
<1>6. ASSUME page # {}
      PROVE  /\ g \in page /\ \A j \in page : j <= g
             /\ \A j \in rest : j <= g => j \in page
             /\ Cardinality(page) # PageSize => \A j \in rest : j <= g
  <2>1. g \in page /\ \A j \in page : g >= j
    BY <1>6, <1>2, GreatestJob
  <2>2. g \in rest /\ g \in Int /\ \A j \in rest : j \in Int
    BY <2>1, <1>2, <1>3
  <2>3. \A j \in page : j <= g
    <3> HIDE DEF g, page, rest
    <3> QED BY <2>1, <2>2, <1>2
  <2>4. \A j \in rest : j <= g => j \in page
    BY <2>1, <2>2, <1>4
  <2>5. ASSUME Cardinality(page) # PageSize, \E j \in rest : ~(j <= g)
        PROVE  FALSE
    <3> DEFINE Beyond == {j \in rest : ~(j <= g)}
               m == Least(Beyond)
    <3>1. Beyond \subseteq Jobs /\ Beyond # {}
      BY <2>5, <1>2
    <3>2. m \in Beyond /\ \A j \in Beyond : m <= j
      BY <3>1, LeastJob
    <3>3. m \in rest /\ m \in Int /\ ~(m <= g)
      BY <3>2, <2>2
    <3>4. \A j \in rest : j < m <=> j <= g
      <4> SUFFICES ASSUME NEW j \in rest PROVE j < m <=> j <= g
        OBVIOUS
      <4>1. j \in Int
        BY <2>2
      <4>2. ~(j <= g) => m <= j
        BY <3>2
      <4> HIDE DEF m, g, rest
      <4> QED BY <4>1, <4>2, <3>3, <2>2
    <3>5. \A j \in rest : j < m <=> j \in page
      BY <3>4, <2>3, <2>4
    <3>6. Before(m) = page
      BY <3>5, <1>2
    <3>7. ~(Cardinality(Before(m)) < PageSize)
      <4>1. m \notin page
        BY <3>3, <2>3
      <4> QED BY <4>1, <3>3, <1>1
    <3>8. Before(g) \subseteq Jobs /\ IsFiniteSet(Before(g)) /\ Cardinality(Before(g)) \in Nat
          /\ Cardinality(Before(g)) < PageSize
      BY <2>1, <2>2, <1>1, <1>2, <1>f
    <3>9. page = Before(g) \cup {g} /\ g \notin Before(g)
      <4>1. \A j \in rest : j \in page <=> (j < g \/ j = g)
        <5> SUFFICES ASSUME NEW j \in rest PROVE j \in page <=> (j < g \/ j = g)
          OBVIOUS
        <5>1. j \in page <=> j <= g
          BY <2>3, <2>4
        <5>2. j \in Int
          BY <2>2
        <5> HIDE DEF g, page, rest
        <5> QED BY <5>1, <5>2, <2>2
      <4>2. ~(g < g)
        <5> HIDE DEF g
        <5> QED BY <2>2
      <4> HIDE DEF g
      <4> QED BY <4>1, <4>2, <1>2, <2>2
    <3>10. Cardinality(page) = Cardinality(Before(g)) + 1
      <4> HIDE DEF Before, g, page
      <4> QED BY <3>8, <3>9, FS_AddElement
    <3> HIDE DEF Before, g, page, m
    <3> QED BY <3>6, <3>7, <3>8, <3>10, <2>5, <1>p
  <2> QED BY <2>1, <2>3, <2>4, <2>5
<1>7. \A j \in page : j > cursor
  BY <1>2
<1> QED BY <1>2, <1>5, <1>6, <1>7 DEF NextCursor, HasMore

----------------------------------------------------------------------------
\* A batch's step changes that batch only.
LEMMA BatchUpdate ==
  ASSUME ListingTypeOK, NEW r \in Batches, NEW from, NEW q \in BatchRecords, Continue(r, from, q)
  PROVE  /\ batch[r].pc = from
         /\ batch' \in [Batches -> BatchRecords]
         /\ batch'[r] = q
         /\ \A x \in Batches : x # r => batch'[x] = batch[x]
BY DEF ListingTypeOK, Continue

LEMMA NoBatchRecord ==
  /\ NoBatch \in BatchRecords
  /\ NoBatch.pc = "idle" /\ ~NoBatch.all /\ ~NoBatch.more /\ NoBatch.todo = {} /\ NoBatch.cursor = 0
<1>1. 0 \in 0 .. MaxPages /\ 0 \in 0 .. NumJobs
  BY JobsFinite
<1> QED BY <1>1 DEF NoBatch, BatchRecords

\* A batch that has ended, or that goes on with the same pages.
LEMMA EndedRecord ==
  ASSUME ListingTypeOK, NEW r \in Batches, NEW to \in {"ok", "failed"}
  PROVE  /\ Ended(r, to) \in BatchRecords
         /\ Ended(r, to).pc = to /\ Ended(r, to).all = batch[r].all
         /\ Ended(r, to).filter = batch[r].filter
         /\ Ended(r, to).todo = {} /\ ~Ended(r, to).more
<1>1. batch[r] \in BatchRecords
  BY DEF ListingTypeOK
<1>2. batch[r].all \in BOOLEAN /\ batch[r].filter \in JobStates \cup {""}
  BY <1>1 DEF BatchRecords
<1>3. 0 \in 0 .. MaxPages /\ 0 \in 0 .. NumJobs
  BY JobsFinite
<1> QED BY <1>2, <1>3 DEF Ended, NoBatch, BatchRecords

LEMMA BatchAtRecord ==
  ASSUME ListingTypeOK, NEW r \in Batches, NEW to \in {"cancel", "insert"}
  PROVE  /\ BatchAt(r, to) \in BatchRecords
         /\ BatchAt(r, to).pc = to
         /\ BatchAt(r, to).all = batch[r].all /\ BatchAt(r, to).filter = batch[r].filter
         /\ BatchAt(r, to).cursor = batch[r].cursor /\ BatchAt(r, to).page = batch[r].page
         /\ BatchAt(r, to).todo = batch[r].todo /\ BatchAt(r, to).more = batch[r].more
<1>1. batch[r] \in BatchRecords
  BY DEF ListingTypeOK
<1> QED BY <1>1 DEF BatchAt, BatchRecords

----------------------------------------------------------------------------
\* The history only forgets while a request is in progress, and what it holds
\* matches now.
LEMMA TrackShrinks ==
  ASSUME ListingTypeOK, Track
  PROVE  /\ matching' \in [Batches -> SUBSET Jobs]
         /\ \A r \in Batches :
              /\ batch[r].pc # "idle" => matching'[r] \subseteq matching[r]
              /\ \A j \in matching'[r] :
                   j \in Jobs /\ batch'[r].all /\ state'[j] \in JobStates
                   /\ batch'[r].filter \in {"", state'[j]}
<1>1. matching \in [Batches -> SUBSET Jobs]
  BY DEF ListingTypeOK
<1>2. ASSUME NEW r \in Batches
      PROVE  /\ matching'[r] \in SUBSET Jobs
             /\ batch[r].pc # "idle" => matching'[r] \subseteq matching[r]
             /\ \A j \in matching'[r] :
                   j \in Jobs /\ batch'[r].all /\ state'[j] \in JobStates
                   /\ batch'[r].filter \in {"", state'[j]}
  <2>1. matching'[r] = {j \in IF batch[r].pc = "idle" THEN Jobs ELSE matching[r] :
                          /\ batch'[r].all
                          /\ state'[j] \in JobStates
                          /\ batch'[r].filter \in {"", state'[j]}}
    BY DEF Track
  <2>2. CASE batch[r].pc = "idle"
    BY <2>1, <2>2
  <2>3. CASE batch[r].pc # "idle"
    BY <2>1, <2>3, <1>1
  <2> QED BY <2>2, <2>3
<1>3. matching' = [r \in Batches |-> matching'[r]]
  BY DEF Track
<1>4. matching' \in [Batches -> SUBSET Jobs]
  <2> DEFINE m == matching'
  <2>1. m = [r \in Batches |-> m[r]]
    BY <1>3
  <2>2. \A r \in Batches : m[r] \in SUBSET Jobs
    BY <1>2
  <2> HIDE DEF m
  <2>3. m \in [Batches -> SUBSET Jobs]
    BY <2>1, <2>2
  <2> QED BY <2>3 DEF m
<1> QED BY <1>2, <1>4

\* A step that is not the batch's own.
LEMMA BatchFrame ==
  ASSUME ListingTypeOK, Track, NEW r \in Batches, BatchInv(r),
         batch'[r] = batch[r], queuedBy'[r] = queuedBy[r]
  PROVE  BatchInv(r)'
<1>1. batch[r].pc # "idle" => matching'[r] \subseteq matching[r]
  BY TrackShrinks
<1> QED BY <1>1 DEF BatchInv

\* ListPage: the jobs of the next page are to do.
LEMMA ListPageInv ==
  ASSUME ListingTypeOK, Track, NEW r \in Batches, BatchInv(r), NEW err \in BOOLEAN,
         ListPage(r, err)
  PROVE  /\ BatchInv(r)'
         /\ batch' \in [Batches -> BatchRecords]
         /\ \A x \in Batches : x # r => batch'[x] = batch[x]
<1> DEFINE q == batch[r]
           page == Page(q.filter, q.cursor)
           n == [q EXCEPT !.pc = "delete", !.page = @ + 1, !.todo = page,
                          !.more = HasMore(page), !.cursor = NextCursor(page)]
<1>1. /\ q \in BatchRecords /\ q.cursor \in Nat /\ q.page \in 0 .. MaxPages
      /\ queuedBy' = queuedBy /\ state' = state /\ queuedBy[r] \in [Jobs -> Nat]
  <2>1. q \in BatchRecords /\ queuedBy[r] \in [Jobs -> Nat]
    BY DEF ListingTypeOK
  <2>2. q.cursor \in 0 .. NumJobs /\ q.page \in 0 .. MaxPages
    BY <2>1 DEF BatchRecords
  <2>3. q.cursor \in Nat
    BY <2>2
  <2>4. queuedBy' = queuedBy /\ state' = state
    BY DEF ListPage, scrapes
  <2> QED BY <2>1, <2>2, <2>3, <2>4
<1>2. q.pc = "list" /\ q.todo = {} /\ q.all
  BY DEF ListPage, Continue, BatchInv
<1>3. matching'[r] \subseteq matching[r] /\ matching'[r] \subseteq Jobs
  BY <1>2, TrackShrinks
<1>4. \A j \in Jobs : queuedBy[r][j] > 0 => j <= q.cursor
  BY <1>2 DEF BatchInv
<1>5. \A j \in matching[r] : j <= q.cursor => queuedBy[r][j] > 0
  BY <1>2 DEF BatchInv
<1>6. \A j \in Jobs : queuedBy[r][j] <= 1 /\ queuedBy[r][j] \in Nat
  BY <1>1 DEF BatchInv
<1>j. \A j \in Jobs : j \in Nat
  BY JobsFinite
<1>7. CASE err \/ q.page = MaxPages
  <2>1. Continue(r, "list", Ended(r, "failed"))
    BY <1>7 DEF ListPage
  <2>2. Ended(r, "failed") \in BatchRecords /\ Ended(r, "failed").pc = "failed"
        /\ Ended(r, "failed").todo = {} /\ ~Ended(r, "failed").more
    BY EndedRecord
  <2>3. /\ batch' \in [Batches -> BatchRecords] /\ batch'[r] = Ended(r, "failed")
        /\ \A x \in Batches : x # r => batch'[x] = batch[x]
    BY <2>1, <2>2, BatchUpdate
  <2> QED BY <2>2, <2>3, <1>1, <1>6 DEF BatchInv
<1>8. CASE ~(err \/ q.page = MaxPages) /\ page = {}
  <2>1. Continue(r, "list", Ended(r, "ok"))
    BY <1>8 DEF ListPage
  <2>2. Ended(r, "ok") \in BatchRecords /\ Ended(r, "ok").pc = "ok"
        /\ Ended(r, "ok").todo = {} /\ ~Ended(r, "ok").more
        /\ Ended(r, "ok").filter = q.filter
    BY EndedRecord
  <2>3. /\ batch' \in [Batches -> BatchRecords] /\ batch'[r] = Ended(r, "ok")
        /\ \A x \in Batches : x # r => batch'[x] = batch[x]
    BY <2>1, <2>2, BatchUpdate
  <2>4. ASSUME NEW j \in matching'[r] PROVE queuedBy[r][j] > 0
    <3>0. j \in Jobs /\ state'[j] \in JobStates /\ batch'[r].filter \in {"", state'[j]}
      BY TrackShrinks
    <3>1. Matches(q.filter, j) /\ j \in Jobs
      BY <3>0, <2>2, <2>3, <1>1 DEF Matches, Exists
    <3>2. ~(j > q.cursor)
      BY <3>1, <1>1, <1>8, PageFacts
    <3>3. j <= q.cursor
      BY <3>1, <3>2, <1>j, <1>1
    <3> QED BY <3>3, <1>3, <1>5
  <2> QED BY <2>2, <2>3, <2>4, <1>1, <1>6 DEF BatchInv
<1>9. CASE ~(err \/ q.page = MaxPages) /\ page # {}
  <2> DEFINE g == NextCursor(page)
  <2>1. Continue(r, "list", n)
    BY <1>9 DEF ListPage
  <2>2. /\ page \subseteq Jobs
        /\ \A j \in page : j > q.cursor
        /\ g \in page
        /\ \A j \in page : j <= g
        /\ \A j \in Jobs : j > q.cursor /\ Matches(q.filter, j) /\ j <= g => j \in page
        /\ ~HasMore(page) => \A j \in Jobs : j > q.cursor /\ Matches(q.filter, j) => j <= g
    BY <1>9, <1>1, PageFacts
  <2>3. g \in 0 .. NumJobs /\ g \in Nat
    BY <2>2, JobsFinite DEF Jobs
  <2>4. q.page + 1 \in 0 .. MaxPages
    BY <1>9, <1>1, JobsFinite
  <2>5. HasMore(page) \in BOOLEAN
    BY DEF HasMore
  <2>6. n \in BatchRecords /\ n.pc = "delete" /\ n.todo = page /\ n.more = HasMore(page)
        /\ n.cursor = g /\ n.all = q.all /\ n.filter = q.filter
    <3> HIDE DEF g, page, q
    <3> QED BY <2>2, <2>3, <2>4, <2>5, <1>1 DEF BatchRecords, g
  <2> HIDE DEF n, g
  <2>7. /\ batch' \in [Batches -> BatchRecords] /\ batch'[r] = n
        /\ \A x \in Batches : x # r => batch'[x] = batch[x]
    BY <2>1, <2>6, BatchUpdate
  <2>8. q.cursor < g /\ g \in Nat
    BY <2>2, <2>3, <1>1
  <2>9. ASSUME NEW j \in matching'[r]
        PROVE  /\ j <= g => queuedBy[r][j] > 0 \/ j \in page
               /\ ~HasMore(page) => j <= g
    <3>0. j \in Jobs /\ state'[j] \in JobStates /\ batch'[r].filter \in {"", state'[j]}
      BY TrackShrinks
    <3>1. Matches(q.filter, j) /\ j \in Jobs /\ j \in Nat
      BY <3>0, <2>6, <2>7, <1>1, <1>j DEF Matches, Exists
    <3>2. j <= q.cursor \/ j > q.cursor
      BY <3>1, <1>1
    <3>3. j <= q.cursor => queuedBy[r][j] > 0 /\ j <= g
      BY <3>1, <2>8, <1>1, <1>3, <1>5
    <3> QED BY <3>1, <3>2, <3>3, <2>2
  <2>10. ASSUME NEW j \in page PROVE queuedBy[r][j] = 0
    <3>1. j \in Jobs /\ j \in Nat /\ ~(j <= q.cursor)
      BY <2>2, <1>j, <1>1
    <3> QED BY <3>1, <1>4, <1>6
  <2>11. ASSUME NEW j \in Jobs, queuedBy[r][j] > 0 PROVE j <= g
    <3>1. j <= q.cursor /\ j \in Nat
      BY <2>11, <1>4, <1>j
    <3> QED BY <3>1, <2>8, <1>1
  <2>12. BatchInv(r)'
    <3> HIDE DEF q, page
    <3> QED BY <2>2, <2>6, <2>7, <2>9, <2>10, <2>11, <1>1, <1>2, <1>6, <1>9 DEF BatchInv
  <2> QED BY <2>7, <2>12
<1> QED BY <1>7, <1>8, <1>9

\* A batch that ends, or goes on with the jobs that it has to do.
LEMMA BatchGoesOn ==
  ASSUME ListingTypeOK, Track, NEW r \in Batches, BatchInv(r), queuedBy' = queuedBy,
         NEW from \in {"delete", "cancel", "insert"},
         NEW q \in {Ended(r, "failed"), BatchAt(r, "cancel"), BatchAt(r, "insert")},
         Continue(r, from, q)
  PROVE  /\ BatchInv(r)'
         /\ batch' \in [Batches -> BatchRecords]
         /\ \A x \in Batches : x # r => batch'[x] = batch[x]
<1>1. CASE q = Ended(r, "failed")
  <2>1. q \in BatchRecords /\ q.pc = "failed" /\ q.todo = {} /\ ~q.more
    BY <1>1, EndedRecord
  <2>2. /\ batch[r].pc = from /\ batch' \in [Batches -> BatchRecords] /\ batch'[r] = q
        /\ \A x \in Batches : x # r => batch'[x] = batch[x]
    BY <2>1, BatchUpdate
  <2> QED BY <2>1, <2>2 DEF BatchInv
<1>2. ASSUME NEW to \in {"cancel", "insert"}, q = BatchAt(r, to)
      PROVE  /\ BatchInv(r)'
             /\ batch' \in [Batches -> BatchRecords]
             /\ \A x \in Batches : x # r => batch'[x] = batch[x]
  <2>1. /\ q \in BatchRecords /\ q.pc = to
        /\ q.all = batch[r].all /\ q.cursor = batch[r].cursor
        /\ q.todo = batch[r].todo /\ q.more = batch[r].more
    BY <1>2, BatchAtRecord
  <2>2. /\ batch[r].pc = from /\ batch' \in [Batches -> BatchRecords] /\ batch'[r] = q
        /\ \A x \in Batches : x # r => batch'[x] = batch[x]
    BY <2>1, BatchUpdate
  <2>3. matching'[r] \subseteq matching[r]
    BY <2>2, TrackShrinks
  <2> QED BY <2>1, <2>2, <2>3 DEF BatchInv
<1> QED BY <1>1, <1>2

\* InsertDeletion: the next job of the page is done.
LEMMA InsertDeletionInv ==
  ASSUME ListingTypeOK, Track, NEW r \in Batches, BatchInv(r), NEW err \in BOOLEAN,
         InsertDeletion(r, err)
  PROVE  /\ BatchInv(r)'
         /\ batch' \in [Batches -> BatchRecords]
         /\ \A x \in Batches : x # r => batch'[x] = batch[x] /\ queuedBy'[x] = queuedBy[x]
         /\ queuedBy' \in [Batches -> [Jobs -> Nat]]
         /\ deletions' \in [Jobs \X Attempts -> Nat]
         /\ \/ UNCHANGED <<deletions, queuedBy>>
            \/ \E j \in Jobs :
                 /\ deletions' = [deletions EXCEPT ![<<j, 1>>] = @ + 1]
                 /\ queuedBy' = [queuedBy EXCEPT ![r][j] = @ + 1]
<1> DEFINE q == batch[r]
           j == Least(q.todo)
           rest == q.todo \ {j}
<1>1. q \in BatchRecords /\ queuedBy[r] \in [Jobs -> Nat] /\ queuedBy \in [Batches -> [Jobs -> Nat]]
      /\ deletions \in [Jobs \X Attempts -> Nat]
  BY DEF ListingTypeOK
<1>2. q.pc = "insert" /\ q.todo # {} /\ q.todo \subseteq Jobs
  BY <1>1 DEF InsertDeletion, Continue, BatchInv, BatchRecords
<1>3. j \in q.todo /\ j \in Jobs
  BY <1>2, LeastJob
<1>4. matching'[r] \subseteq matching[r] /\ matching[r] \subseteq Jobs
  BY <1>2, TrackShrinks DEF ListingTypeOK
<1>5. CASE err
  <2>1. Continue(r, "insert", Ended(r, "failed")) /\ UNCHANGED <<deletions, queuedBy>>
    BY <1>5 DEF InsertDeletion
  <2> QED BY <2>1, <1>1, BatchGoesOn
<1>6. CASE ~err
  <2>1. /\ deletions' = [deletions EXCEPT ![<<j, 1>>] = @ + 1]
        /\ queuedBy' = [queuedBy EXCEPT ![r][j] = @ + 1]
    BY <1>6 DEF InsertDeletion
  <2> HIDE DEF j
  <2>2. /\ queuedBy' \in [Batches -> [Jobs -> Nat]]
        /\ \A x \in Batches : x # r => queuedBy'[x] = queuedBy[x]
        /\ \A i \in Jobs : queuedBy'[r][i] = IF i = j THEN queuedBy[r][i] + 1 ELSE queuedBy[r][i]
    <3>1. queuedBy' = [queuedBy EXCEPT ![r] = [queuedBy[r] EXCEPT ![j] = queuedBy[r][j] + 1]]
      BY <2>1, <1>1
    <3>2. queuedBy[r][j] + 1 \in Nat
      BY <1>1, <1>3
    <3>3. [queuedBy[r] EXCEPT ![j] = queuedBy[r][j] + 1] \in [Jobs -> Nat]
      BY <3>2, <1>1, <1>3
    <3> QED BY <3>1, <3>3, <1>1, <1>3
  <2>3. deletions' \in [Jobs \X Attempts -> Nat]
    <3>1. <<j, 1>> \in Jobs \X Attempts
      BY <1>3, JobsFinite DEF Attempts
    <3>2. deletions[<<j, 1>>] + 1 \in Nat
      BY <3>1, <1>1
    <3> QED BY <3>1, <3>2, <2>1, <1>1
  <2>4. queuedBy'[r][j] = 1 /\ \A i \in Jobs : i # j => queuedBy'[r][i] = queuedBy[r][i]
    <3>1. queuedBy[r][j] = 0
      BY <1>3 DEF BatchInv
    <3> QED BY <3>1, <2>2, <1>3
  <2>5. CASE rest = {} /\ ~q.more
    <3>1. Continue(r, "insert", Ended(r, "ok"))
      BY <2>5, <1>6 DEF InsertDeletion, j
    <3>2. /\ Ended(r, "ok") \in BatchRecords /\ Ended(r, "ok").pc = "ok"
          /\ Ended(r, "ok").todo = {} /\ ~Ended(r, "ok").more /\ Ended(r, "ok").all = q.all
      BY EndedRecord
    <3>3. /\ batch' \in [Batches -> BatchRecords] /\ batch'[r] = Ended(r, "ok")
          /\ \A x \in Batches : x # r => batch'[x] = batch[x]
      BY <3>1, <3>2, BatchUpdate
    <3>4. q.all => \A i \in matching'[r] : queuedBy'[r][i] > 0
      <4> SUFFICES ASSUME q.all, NEW i \in matching'[r] PROVE queuedBy'[r][i] > 0
        OBVIOUS
      <4>1. i \in Jobs /\ (queuedBy[r][i] > 0 \/ i \in q.todo)
        BY <2>5, <1>2, <1>4 DEF BatchInv
      <4>2. i \in q.todo => i = j
        BY <2>5
      <4> QED BY <4>1, <4>2, <2>4
    <3>5. \A i \in Jobs : queuedBy'[r][i] <= 1
      BY <2>4 DEF BatchInv
    <3>6. BatchInv(r)'
      BY <3>2, <3>3, <3>4, <3>5 DEF BatchInv
    <3> QED BY <3>3, <3>6, <2>1, <2>2, <2>3, <1>3
  <2>6. CASE ~(rest = {} /\ ~q.more)
    <3> DEFINE n == [q EXCEPT !.todo = rest, !.pc = IF rest = {} THEN "list" ELSE "delete"]
    <3>1. Continue(r, "insert", n)
      BY <2>6, <1>6 DEF InsertDeletion, j
    <3>2. /\ n \in BatchRecords /\ n.todo = rest /\ n.all = q.all /\ n.cursor = q.cursor
          /\ n.more = q.more /\ n.pc = IF rest = {} THEN "list" ELSE "delete"
      BY <1>1, <1>2 DEF BatchRecords
    <3> HIDE DEF n
    <3>3. /\ batch' \in [Batches -> BatchRecords] /\ batch'[r] = n
          /\ \A x \in Batches : x # r => batch'[x] = batch[x]
      BY <3>1, <3>2, BatchUpdate
    <3>4. /\ n.pc = "list" => n.all
          /\ n.more => n.all
      BY <3>2, <2>6 DEF BatchInv
    <3>5. \A i \in Jobs : queuedBy'[r][i] <= 1
      BY <2>4 DEF BatchInv
    <3>6. \A i \in rest : i \in Jobs /\ queuedBy'[r][i] = 0
      BY <2>4, <1>2 DEF BatchInv
    <3>7. ASSUME q.all
          PROVE  /\ \A i \in rest : i <= n.cursor
                 /\ \A i \in Jobs : queuedBy'[r][i] > 0 => i <= n.cursor
                 /\ \A i \in matching'[r] : i <= n.cursor => queuedBy'[r][i] > 0 \/ i \in rest
                 /\ ~n.more => \A i \in matching'[r] : i <= n.cursor
      <4>1. \A i \in q.todo : i <= q.cursor
        BY <3>7, <1>2 DEF BatchInv
      <4>2. \A i \in Jobs : queuedBy[r][i] > 0 => i <= q.cursor
        BY <3>7, <1>2 DEF BatchInv
      <4>3. \A i \in matching[r] : i <= q.cursor => queuedBy[r][i] > 0 \/ i \in q.todo
        BY <3>7, <1>2 DEF BatchInv
      <4>4. ~q.more => \A i \in matching[r] : i <= q.cursor
        BY <3>7, <1>2 DEF BatchInv
      <4> QED BY <4>1, <4>2, <4>3, <4>4, <3>2, <2>4, <1>3, <1>4
    <3>8. BatchInv(r)'
      BY <3>2, <3>3, <3>4, <3>5, <3>6, <3>7, <1>4 DEF BatchInv
    <3> QED BY <3>3, <3>8, <2>1, <2>2, <2>3, <1>3
  <2> QED BY <2>5, <2>6
<1> QED BY <1>5, <1>6

\* A batch begins.
LEMMA BatchBegins ==
  ASSUME ListingTypeOK, Track, NEW r \in Batches, BatchInv(r),
         (\E filter \in Filters : DeleteAll(r, filter))
           \/ (\E ids \in SUBSET Jobs : BatchDelete(r, ids))
  PROVE  /\ BatchInv(r)'
         /\ batch' \in [Batches -> BatchRecords]
         /\ \A x \in Batches : x # r => batch'[x] = batch[x]
<1>1. \A j \in Jobs : batch[r].pc = "idle" => queuedBy[r][j] = 0
  BY DEF BatchInv
<1>2. queuedBy' = queuedBy
  BY DEF DeleteAll, BatchDelete
<1>j. \A j \in Jobs : j \in Nat /\ ~(j <= 0)
  BY JobsFinite DEF Jobs
<1>3. ASSUME NEW filter \in Filters, DeleteAll(r, filter)
      PROVE  /\ BatchInv(r)'
             /\ batch' \in [Batches -> BatchRecords]
             /\ \A x \in Batches : x # r => batch'[x] = batch[x]
  <2> DEFINE n == [NoBatch EXCEPT !.pc = "list", !.all = TRUE, !.filter = filter]
  <2>1. Continue(r, "idle", n)
    BY <1>3 DEF DeleteAll
  <2>2. filter \in JobStates \cup {""}
    BY FiltersAssumption
  <2>3. n \in BatchRecords /\ n.pc = "list" /\ n.all /\ ~n.more /\ n.todo = {} /\ n.cursor = 0
    BY <2>2, NoBatchRecord DEF BatchRecords
  <2> HIDE DEF n
  <2>4. /\ batch[r].pc = "idle" /\ batch' \in [Batches -> BatchRecords] /\ batch'[r] = n
        /\ \A x \in Batches : x # r => batch'[x] = batch[x]
    BY <2>1, <2>3, BatchUpdate
  <2>5. matching'[r] \subseteq Jobs
    BY TrackShrinks
  <2> QED BY <2>3, <2>4, <2>5, <1>1, <1>2, <1>j DEF BatchInv
<1>4. ASSUME NEW ids \in SUBSET Jobs, BatchDelete(r, ids)
      PROVE  /\ BatchInv(r)'
             /\ batch' \in [Batches -> BatchRecords]
             /\ \A x \in Batches : x # r => batch'[x] = batch[x]
  <2> DEFINE n == [NoBatch EXCEPT !.pc = "delete", !.todo = ids]
  <2>1. Continue(r, "idle", n) /\ ids # {}
    BY <1>4 DEF BatchDelete
  <2>2. n \in BatchRecords /\ n.pc = "delete" /\ ~n.all /\ ~n.more /\ n.todo = ids
    BY NoBatchRecord DEF BatchRecords
  <2> HIDE DEF n
  <2>3. /\ batch[r].pc = "idle" /\ batch' \in [Batches -> BatchRecords] /\ batch'[r] = n
        /\ \A x \in Batches : x # r => batch'[x] = batch[x]
    BY <2>1, <2>2, BatchUpdate
  <2> QED BY <2>1, <2>2, <2>3, <1>1, <1>2 DEF BatchInv
<1> QED BY <1>3, <1>4

----------------------------------------------------------------------------
LEMMA ListingInitInv == ListingInit => ListingInv
<1> SUFFICES ASSUME ListingInit PROVE ListingInv
  OBVIOUS
<1>1. NoPoll.pc = "idle" /\ NoPoll.job = 0 /\ NoPoll.status = "" /\ NoPoll.found \in BOOLEAN /\ NoPoll.unread \in BOOLEAN
      /\ NoPoll \in [pc : {"idle", "get", "results", "answer"}, job : Polled \cup {0},
                     status : JobStates \cup {"", "none", "gone"}, found : BOOLEAN, unread : BOOLEAN]
  BY DEF NoPoll
<1>2. NoBatch \in BatchRecords /\ NoBatch.pc = "idle" /\ ~NoBatch.all /\ ~NoBatch.more
      /\ NoBatch.todo = {}
  BY NoBatchRecord
<1>3. ListingTypeOK
  <2>1. [x \in Jobs \X Attempts |-> 0] \in [Jobs \X Attempts -> Nat]
    OBVIOUS
  <2>2. [r \in Batches |-> [j \in Jobs |-> 0]] \in [Batches -> [Jobs -> Nat]]
    OBVIOUS
  <2> QED BY <2>1, <2>2, <1>1, <1>2 DEF ListingInit, ListingTypeOK
<1>4. ASSUME NEW r \in Batches PROVE BatchInv(r)
  <2>1. batch[r] = NoBatch /\ \A j \in Jobs : queuedBy[r][j] = 0
    BY DEF ListingInit
  <2> QED BY <2>1, <1>2 DEF BatchInv
<1>5. ClientInv
  <2>1. \A j \in Polled : state[j] = "none"
    BY FiltersAssumption DEF ListingInit
  <2> QED BY <2>1, <1>1 DEF ClientInv, CompletedWithResults, ListingInit
<1>6. NoDeletionForgotten
  BY DEF ListingInit, NoDeletionForgotten
<1> QED BY <1>3, <1>4, <1>5, <1>6 DEF ListingInv

LEMMA JobStepInv ==
  ASSUME ListingInv, Track, NEW j \in Jobs, JobStep(j)
  PROVE  ListingInv'
<1> USE DEF ListingInv
<1>0. /\ state \in [Jobs -> JobStates \cup {"none", "gone"}]
      /\ cancelled \subseteq Jobs /\ scraping \subseteq Jobs /\ results \subseteq Jobs
  BY DEF ListingTypeOK
<1>1. /\ UNCHANGED <<deletions, deleter, givenUp, removed, batch, client, queuedBy>>
      /\ cancelled' \subseteq Jobs /\ scraping' \subseteq Jobs /\ results' \subseteq Jobs
      /\ results \subseteq results'
      /\ \/ state' = state
         \/ /\ state[j] # "gone"
            /\ \E s \in JobStates : /\ state' = [state EXCEPT ![j] = s]
                                    /\ s = "completed" => j \in results'
  <2>1. CASE InsertJob(j)
    BY <2>1, <1>0 DEF InsertJob, maintenance, JobStates
  <2>2. CASE Execute(j)
    BY <2>2, <1>0 DEF Execute, maintenance, JobStates
  <2>3. ASSUME NEW outcome \in {"completed", "failed", "available"}, AttemptEnds(j, outcome)
        PROVE  <1>1!:
    <3>1. cancelled' \subseteq Jobs /\ scraping' \subseteq Jobs
      BY <2>3, <1>0 DEF AttemptEnds
    <3>2. /\ results' = IF outcome = "completed" THEN results \cup {j} ELSE results
          /\ state' = IF state[j] = "running" THEN [state EXCEPT ![j] = outcome] ELSE state
          /\ UNCHANGED <<deletions, deleter, givenUp, removed, batch, client, queuedBy>>
      BY <2>3 DEF AttemptEnds, maintenance
    <3>3. outcome \in JobStates
      BY DEF JobStates
    <3> QED BY <3>1, <3>2, <3>3, <1>0
  <2> QED BY <2>1, <2>2, <2>3 DEF JobStep
<1>2. /\ state' \in [Jobs -> JobStates \cup {"none", "gone"}]
      /\ \A i \in Jobs : /\ state[i] = "gone" => state'[i] = "gone"
                         /\ state'[i] = "completed" => state[i] = "completed" \/ i \in results'
  <2>1. CASE state' = state
    BY <2>1, <1>0
  <2>2. ASSUME NEW s \in JobStates, state' = [state EXCEPT ![j] = s], state[j] # "gone",
               s = "completed" => j \in results'
        PROVE  <1>2!:
    BY <2>2, <1>0
  <2> QED BY <2>1, <2>2, <1>1
<1>3. ListingTypeOK'
  BY <1>1, <1>2, TrackShrinks DEF ListingTypeOK
<1>4. \A r \in Batches : BatchInv(r)'
  BY <1>1, BatchFrame
<1>5. ClientInv'
  BY <1>1, <1>2, FiltersAssumption DEF ClientInv, CompletedWithResults
<1>6. NoDeletionForgotten'
  BY <1>1, <1>2 DEF NoDeletionForgotten
<1> QED BY <1>3, <1>4, <1>5, <1>6

LEMMA ClientStepInv ==
  ASSUME ListingInv, Track, ClientStep
  PROVE  ListingInv'
<1> USE DEF ListingInv
<1>1. UNCHANGED <<state, cancelled, scraping, results, deletions, deleter, givenUp, removed,
                  batch, queuedBy>>
  BY DEF ClientStep, AskStatus, ReadState, ReadResults, Answer, scrapes, maintenance
<1>2. /\ client \in [pc : {"idle", "get", "results", "answer"}, job : Polled \cup {0},
                     status : JobStates \cup {"", "none", "gone"}, found : BOOLEAN, unread : BOOLEAN]
      /\ client.pc # "idle" => client.job \in Polled
      /\ state \in [Jobs -> JobStates \cup {"none", "gone"}]
  BY DEF ListingTypeOK
<1>n. NoPoll.pc = "idle" /\ NoPoll.job = 0 /\ NoPoll.status = "" /\ NoPoll.found = FALSE
      /\ NoPoll \in [pc : {"idle", "get", "results", "answer"}, job : Polled \cup {0},
                     status : JobStates \cup {"", "none", "gone"}, found : BOOLEAN, unread : BOOLEAN]
  BY DEF NoPoll
<1>3. /\ client' \in [pc : {"idle", "get", "results", "answer"}, job : Polled \cup {0},
                      status : JobStates \cup {"", "none", "gone"}, found : BOOLEAN, unread : BOOLEAN]
      /\ client'.pc # "idle" => client'.job \in Polled
      /\ client'.pc = "results" => client'.job \in results \cup removed
      /\ client'.pc = "answer" /\ client'.status = "completed" =>
           client'.found \/ client'.unread \/ client'.job \in removed
  <2>1. ASSUME NEW j \in Polled, AskStatus(j) PROVE <1>3!:
    <3>1. client' = [NoPoll EXCEPT !.pc = "get", !.job = j]
      BY <2>1 DEF AskStatus
    <3> QED BY <3>1, <1>n
  <2>2. CASE ReadState
    <3>1. client.job \in Polled /\ client.job \in Jobs
          /\ state[client.job] \in JobStates \cup {"none", "gone"}
      BY <2>2, <1>2, FiltersAssumption DEF ReadState
    <3>2. state[client.job] = "completed" => client.job \in results \cup removed
      BY <3>1 DEF ClientInv
    <3>3. client' = [client EXCEPT !.status = state[client.job],
                       !.pc = IF state[client.job] = "completed" THEN "results" ELSE "answer"]
      BY <2>2 DEF ReadState
    <3>4. /\ client'.job = client.job /\ client'.status = state[client.job]
          /\ client'.found = client.found
          /\ client'.pc = IF state[client.job] = "completed" THEN "results" ELSE "answer"
          /\ client' \in [pc : {"idle", "get", "results", "answer"}, job : Polled \cup {0},
                          status : JobStates \cup {"", "none", "gone"}, found : BOOLEAN, unread : BOOLEAN]
      BY <3>1, <3>3, <1>2
    <3> QED BY <3>1, <3>2, <3>4
  <2>3. ASSUME NEW err \in BOOLEAN, ReadResults(err) PROVE <1>3!:
    <3> DEFINE found == ~err /\ client.job \in results
    <3>1. client.pc = "results" /\ client.job \in Polled /\ client.job \in results \cup removed
      BY <2>3, <1>2 DEF ReadResults, ClientInv
    <3>2. client' = [client EXCEPT !.pc = "answer", !.found = found, !.unread = err]
      BY <2>3 DEF ReadResults
    <3>3. found \in BOOLEAN /\ (found \/ err \/ client.job \in removed)
      BY <3>1
    <3> HIDE DEF found
    <3> QED
      <4>3. /\ client'.job = client.job /\ client'.status = client.status
            /\ client'.pc = "answer" /\ client'.found = found /\ client'.unread = err
            /\ client' \in [pc : {"idle", "get", "results", "answer"}, job : Polled \cup {0},
                            status : JobStates \cup {"", "none", "gone"}, found : BOOLEAN, unread : BOOLEAN]
        BY <3>2, <3>3, <1>2
      <4> QED BY <4>3, <3>1, <3>3
  <2>4. CASE Answer
    BY <2>4, <1>n DEF Answer
  <2> QED BY <2>1, <2>2, <2>3, <2>4 DEF ClientStep
<1>4. ListingTypeOK'
  BY <1>1, <1>3, TrackShrinks DEF ListingTypeOK
<1>5. \A r \in Batches : BatchInv(r)'
  BY <1>1, BatchFrame
<1>6. ClientInv'
  BY <1>1, <1>3 DEF ClientInv, CompletedWithResults
<1>7. NoDeletionForgotten'
  BY <1>1 DEF NoDeletionForgotten
<1> QED BY <1>4, <1>5, <1>6, <1>7

\* A deletion moves from a row of River's table to a worker and on to its end, or
\* back to the table, or is given up.
LEMMA DeletionStepInv ==
  ASSUME ListingInv, Track, NEW d \in Deleters, DeletionStep(d)
  PROVE  ListingInv'
<1> USE DEF ListingInv
<1>0. /\ state \in [Jobs -> JobStates \cup {"none", "gone"}] /\ results \subseteq Jobs
      /\ deletions \in [Jobs \X Attempts -> Nat]
      /\ deleter \in [Deleters -> DeletionRecords \cup {NoDeletion}]
      /\ givenUp \subseteq Jobs /\ removed \subseteq Polled /\ Polled \subseteq Jobs
  BY FiltersAssumption DEF ListingTypeOK
<1>1. UNCHANGED <<cancelled, scraping, batch, client, queuedBy>>
  BY DEF DeletionStep, StartDeletion, DeleteResults, DeleteRow, DeletionFails, scrapes, maintenance
<1>n. NoDeletion.pc = "idle" /\ NoDeletion.job = 0 /\ 0 \notin Jobs
  BY DEF NoDeletion, Jobs
<1>2. deleter[d] # NoDeletion =>
        /\ deleter[d] \in DeletionRecords
        /\ deleter[d].job \in Jobs /\ deleter[d].attempt \in Attempts
  BY <1>0 DEF DeletionRecords
\* What a step of the worker may do to the places where a deletion is remembered.
<1>k. ASSUME state' \in [Jobs -> JobStates \cup {"none", "gone"}], results' \subseteq Jobs,
             deletions' \in [Jobs \X Attempts -> Nat],
             deleter' \in [Deleters -> DeletionRecords \cup {NoDeletion}],
             givenUp' \subseteq Jobs, removed' \subseteq Polled,
             removed \subseteq removed',
             \A j \in Jobs : /\ state[j] = "gone" => state'[j] = "gone"
                             /\ state'[j] = "completed" => state[j] = "completed"
                             /\ j \in givenUp => j \in givenUp'
                             /\ j \in results => j \in results' \/ j \notin Polled \/ j \in removed',
             \A x \in Deleters : x # d => deleter'[x] = deleter[x],
             \A j \in Jobs, n \in Attempts : deletions[<<j, n>>] > 0 =>
               deletions'[<<j, n>>] > 0 \/ deleter'[d].job = j,
             \A j \in Jobs : deleter[d].job = j =>
               \/ state'[j] = "gone"
               \/ j \in givenUp'
               \/ \E n \in Attempts : deletions'[<<j, n>>] > 0
               \/ deleter'[d].job = j
      PROVE  ListingInv'
  <2>1. ListingTypeOK'
    BY <1>k, <1>1, TrackShrinks DEF ListingTypeOK
  <2>2. \A r \in Batches : BatchInv(r)'
    BY <1>1, BatchFrame
  <2>3. ClientInv'
    <3>1. \A j \in Polled : state'[j] = "completed" => j \in results' \cup removed'
      <4> SUFFICES ASSUME NEW j \in Polled, state'[j] = "completed" PROVE j \in results' \cup removed'
        OBVIOUS
      <4>1. j \in Jobs /\ state[j] = "completed"
        BY <1>k, <1>0
      <4>2. j \in results \cup removed
        BY <4>1 DEF ClientInv
      <4> QED BY <4>1, <4>2, <1>k
    <3>2. client.pc = "results" => client.job \in results' \cup removed'
      <4> SUFFICES ASSUME client.pc = "results" PROVE client.job \in results' \cup removed'
        OBVIOUS
      <4>1. client.job \in results \cup removed /\ client.job \in Polled /\ client.job \in Jobs
        BY <1>0 DEF ClientInv, ListingTypeOK
      <4> QED BY <4>1, <1>k
    <3>3. CompletedWithResults'
      BY <1>k, <1>1 DEF ClientInv, CompletedWithResults
    <3> QED BY <3>1, <3>2, <3>3, <1>1 DEF ClientInv
  <2>4. NoDeletionForgotten'
    <3> SUFFICES ASSUME NEW r \in Batches, NEW j \in Jobs, queuedBy[r][j] > 0
                 PROVE  \/ state'[j] = "gone"
                        \/ j \in givenUp'
                        \/ \E n \in Attempts : deletions'[<<j, n>>] > 0
                        \/ \E x \in Deleters : deleter'[x].job = j
      BY <1>1 DEF NoDeletionForgotten
    <3>1. \/ state[j] = "gone"
          \/ j \in givenUp
          \/ \E n \in Attempts : deletions[<<j, n>>] > 0
          \/ \E x \in Deleters : deleter[x].job = j
      BY DEF NoDeletionForgotten
    <3>2. CASE \E n \in Attempts : deletions[<<j, n>>] > 0
      BY <3>2, <1>k
    <3>3. CASE \E x \in Deleters : deleter[x].job = j
      BY <3>3, <1>k
    <3> QED BY <3>1, <3>2, <3>3, <1>k
  <2> QED BY <2>1, <2>2, <2>3, <2>4
<1>3. ASSUME NEW j \in Jobs, NEW n \in Attempts, StartDeletion(d, j, n) PROVE ListingInv'
  <2> DEFINE w == [pc |-> "results", job |-> j, attempt |-> n]
  <2>1. /\ deletions' = [deletions EXCEPT ![<<j, n>>] = @ - 1] /\ deletions[<<j, n>>] > 0
        /\ deleter' = [deleter EXCEPT ![d] = w] /\ deleter[d] = NoDeletion
        /\ UNCHANGED <<state, results, givenUp, removed>>
    BY <1>3 DEF StartDeletion, scrapes
  <2>2. w \in DeletionRecords /\ w.job = j
    BY DEF DeletionRecords
  <2> HIDE DEF w
  <2>3. <<j, n>> \in Jobs \X Attempts /\ deletions[<<j, n>>] - 1 \in Nat
    BY <2>1, <1>0
  <2>4. /\ deletions' \in [Jobs \X Attempts -> Nat]
        /\ \A i \in Jobs, m \in Attempts :
             <<i, m>> # <<j, n>> => deletions'[<<i, m>>] = deletions[<<i, m>>]
    BY <2>1, <2>3, <1>0
  <2>5. /\ deleter' \in [Deleters -> DeletionRecords \cup {NoDeletion}]
        /\ deleter'[d].job = j
        /\ \A x \in Deleters : x # d => deleter'[x] = deleter[x]
    BY <2>1, <2>2, <1>0
  <2>6. \A i \in Jobs, m \in Attempts : deletions[<<i, m>>] > 0 =>
          deletions'[<<i, m>>] > 0 \/ deleter'[d].job = i
    BY <2>4, <2>5
  <2>7. \A i \in Jobs : deleter[d].job # i
    BY <2>1, <1>n
  <2> QED BY <2>1, <2>4, <2>5, <2>6, <2>7, <1>0, <1>k
<1>4. CASE DeleteResults(d)
  <2> DEFINE w == [deleter[d] EXCEPT !.pc = "row"]
             j == deleter[d].job
  <2>1. /\ deleter[d].pc = "results" /\ deleter' = [deleter EXCEPT ![d] = w]
        /\ results' = results \ {j} /\ removed' = removed \cup ({j} \cap Polled)
        /\ UNCHANGED <<state, deletions, givenUp>>
    BY <1>4, <1>0 DEF DeleteResults
  <2>2. w \in DeletionRecords /\ w.job = j
    BY <2>1, <1>2, <1>n DEF DeletionRecords
  <2> HIDE DEF w
  <2>3. /\ deleter' \in [Deleters -> DeletionRecords \cup {NoDeletion}]
        /\ deleter'[d].job = j
        /\ \A x \in Deleters : x # d => deleter'[x] = deleter[x]
    BY <2>1, <2>2, <1>0
  <2>4. results' \subseteq Jobs /\ removed' \subseteq Polled
    BY <2>1, <1>0
  <2> QED BY <2>1, <2>3, <2>4, <1>0, <1>k
<1>5. CASE DeleteRow(d)
  <2> DEFINE j == deleter[d].job
  <2>1. /\ deleter[d].pc = "row" /\ deleter' = [deleter EXCEPT ![d] = NoDeletion]
        /\ state' = [state EXCEPT ![j] = "gone"]
        /\ UNCHANGED <<results, deletions, givenUp, removed>>
    BY <1>5 DEF DeleteRow
  <2>2. j \in Jobs
    BY <2>1, <1>2, <1>n
  <2>3. /\ deleter' \in [Deleters -> DeletionRecords \cup {NoDeletion}]
        /\ \A x \in Deleters : x # d => deleter'[x] = deleter[x]
    BY <2>1, <1>0
  <2>4. /\ state' \in [Jobs -> JobStates \cup {"none", "gone"}]
        /\ state'[j] = "gone" /\ \A i \in Jobs : i # j => state'[i] = state[i]
    <3> HIDE DEF j
    <3> QED BY <2>1, <2>2, <1>0
  <2>5. \A i \in Jobs : deleter[d].job = i => state'[i] = "gone"
    BY <2>4
  <2> HIDE DEF j
  <2> QED BY <2>1, <2>3, <2>4, <2>5, <1>0, <1>k
<1>6. CASE DeletionFails(d)
  <2> DEFINE j == deleter[d].job
             n == deleter[d].attempt + 1
  <2>1. /\ deleter[d] # NoDeletion /\ deleter' = [deleter EXCEPT ![d] = NoDeletion]
        /\ UNCHANGED <<state, results, removed>>
        /\ \/ /\ deleter[d].attempt < MaxAttempts
              /\ deletions' = [deletions EXCEPT ![<<j, n>>] = @ + 1] /\ UNCHANGED givenUp
           \/ givenUp' = givenUp \cup {j} /\ UNCHANGED deletions
    BY <1>6 DEF DeletionFails, scrapes
  <2>2. j \in Jobs /\ deleter[d].attempt \in Attempts
    BY <2>1, <1>2
  <2>3. /\ deleter' \in [Deleters -> DeletionRecords \cup {NoDeletion}]
        /\ \A x \in Deleters : x # d => deleter'[x] = deleter[x]
    BY <2>1, <1>0
  <2>4. CASE givenUp' = givenUp \cup {j} /\ UNCHANGED deletions
    BY <2>1, <2>2, <2>3, <2>4, <1>0, <1>k
  <2>5. CASE /\ deleter[d].attempt < MaxAttempts
             /\ deletions' = [deletions EXCEPT ![<<j, n>>] = @ + 1] /\ UNCHANGED givenUp
    <3>1. n \in Attempts
      BY <2>2, <2>5, JobsFinite DEF Attempts
    <3> HIDE DEF n
    <3>2. <<j, n>> \in Jobs \X Attempts
      BY <3>1, <2>2
    <3>3. /\ deletions' \in [Jobs \X Attempts -> Nat]
          /\ deletions'[<<j, n>>] > 0
          /\ \A x \in Jobs \X Attempts : deletions[x] > 0 => deletions'[x] > 0
      <4> DEFINE y == <<j, n>>
      <4>1. deletions[y] \in Nat /\ deletions[y] + 1 \in Nat /\ deletions[y] + 1 > 0
        BY <3>2, <1>0
      <4> HIDE DEF y
      <4>2. deletions' = [deletions EXCEPT ![y] = deletions[y] + 1]
        BY <2>5 DEF y
      <4>3. y \in Jobs \X Attempts
        BY <3>2 DEF y
      <4>4. \A x \in Jobs \X Attempts : deletions'[x] = IF x = y THEN deletions[y] + 1 ELSE deletions[x]
        BY <4>2, <4>3, <1>0
      <4>5. deletions' \in [Jobs \X Attempts -> Nat]
        BY <4>1, <4>2, <1>0
      <4>6. deletions'[y] > 0
        BY <4>1, <4>3, <4>4
      <4>7. \A x \in Jobs \X Attempts : deletions[x] > 0 => deletions'[x] > 0
        BY <4>1, <4>4
      <4> QED BY <4>5, <4>6, <4>7 DEF y
    <3>4. \A i \in Jobs, m \in Attempts : deletions[<<i, m>>] > 0 => deletions'[<<i, m>>] > 0
      BY <3>3
    <3>5. \A i \in Jobs : deleter[d].job = i => \E m \in Attempts : deletions'[<<i, m>>] > 0
      BY <3>1, <3>3
    <3> HIDE DEF j
    <3> QED BY <2>1, <2>3, <2>5, <3>3, <3>4, <3>5, <1>0, <1>k
  <2> QED BY <2>1, <2>4, <2>5
<1> QED BY <1>3, <1>4, <1>5, <1>6 DEF DeletionStep

\* The cleanup of old results.
LEMMA CleanResultsInv ==
  ASSUME ListingInv, Track, NEW old \in SUBSET Jobs, CleanResults(old)
  PROVE  ListingInv'
<1> USE DEF ListingInv
<1>1. /\ UNCHANGED <<state, cancelled, scraping, deletions, deleter, givenUp, batch, client, queuedBy>>
      /\ results' = results \ old /\ removed' = removed \cup (old \cap Polled)
  BY DEF CleanResults
<1>2. \A j \in Polled : j \in results \cup removed => j \in results' \cup removed'
  BY <1>1
<1>3. ListingTypeOK'
  BY <1>1, TrackShrinks DEF ListingTypeOK
<1>4. \A r \in Batches : BatchInv(r)'
  BY <1>1, BatchFrame
<1>5. ClientInv'
  <2>1. client.pc = "results" => client.job \in Polled
    BY DEF ListingTypeOK
  <2>2. CompletedWithResults'
    BY <1>1 DEF ClientInv, CompletedWithResults
  <2> QED BY <1>1, <1>2, <2>1, <2>2 DEF ClientInv
<1>6. NoDeletionForgotten'
  BY <1>1 DEF NoDeletionForgotten
<1> QED BY <1>3, <1>4, <1>5, <1>6

\* A batch's step: the batch itself and the deletions that it queues, or a job that
\* is cancelled on the way.
LEMMA BatchStepInv ==
  ASSUME ListingInv, Track, NEW r \in Batches, BatchStep(r)
  PROVE  ListingInv'
<1> USE DEF ListingInv
<1>0. /\ state \in [Jobs -> JobStates \cup {"none", "gone"}] /\ cancelled \subseteq Jobs
      /\ queuedBy \in [Batches -> [Jobs -> Nat]] /\ deletions \in [Jobs \X Attempts -> Nat]
      /\ Polled \subseteq Jobs
  BY FiltersAssumption DEF ListingTypeOK
<1>1. UNCHANGED <<scraping, results, deleter, givenUp, removed, client>>
  BY DEF BatchStep, DeleteAll, BatchDelete, ListPage, GetJob, CancelJob, InsertDeletion,
         scrapes, maintenance
\* What a batch may do to the rest of the system.
<1>k. ASSUME BatchInv(r)', batch' \in [Batches -> BatchRecords],
             \A x \in Batches : x # r => batch'[x] = batch[x] /\ queuedBy'[x] = queuedBy[x],
             state' \in [Jobs -> JobStates \cup {"none", "gone"}], cancelled' \subseteq Jobs,
             queuedBy' \in [Batches -> [Jobs -> Nat]],
             deletions' \in [Jobs \X Attempts -> Nat],
             \A j \in Jobs : /\ state[j] = "gone" => state'[j] = "gone"
                             /\ state'[j] = "completed" => state[j] = "completed",
             \A x \in Jobs \X Attempts : deletions[x] > 0 => deletions'[x] > 0,
             \A j \in Jobs : \/ queuedBy'[r][j] = queuedBy[r][j]
                             \/ \E n \in Attempts : deletions'[<<j, n>>] > 0
      PROVE  ListingInv'
  <2>1. ListingTypeOK'
    BY <1>k, <1>1, TrackShrinks DEF ListingTypeOK
  <2>2. \A x \in Batches : BatchInv(x)'
    BY <1>k, BatchFrame
  <2>3. ClientInv'
    BY <1>k, <1>0, <1>1 DEF ClientInv, CompletedWithResults
  <2>4. NoDeletionForgotten'
    <3> SUFFICES ASSUME NEW x \in Batches, NEW j \in Jobs, queuedBy'[x][j] > 0
                 PROVE  \/ state'[j] = "gone"
                        \/ j \in givenUp
                        \/ \E n \in Attempts : deletions'[<<j, n>>] > 0
                        \/ \E d \in Deleters : deleter[d].job = j
      BY <1>1 DEF NoDeletionForgotten
    <3>1. CASE queuedBy'[x][j] # queuedBy[x][j]
      BY <3>1, <1>k
    <3>2. CASE queuedBy'[x][j] = queuedBy[x][j]
      <4>1. \/ state[j] = "gone"
            \/ j \in givenUp
            \/ \E n \in Attempts : deletions[<<j, n>>] > 0
            \/ \E d \in Deleters : deleter[d].job = j
        BY <3>2 DEF NoDeletionForgotten
      <4>2. \A n \in Attempts : deletions[<<j, n>>] > 0 => deletions'[<<j, n>>] > 0
        BY <1>k
      <4> QED BY <4>1, <4>2, <1>k
    <3> QED BY <3>1, <3>2
  <2> QED BY <2>1, <2>2, <2>3, <2>4
<1>q. ASSUME BatchInv(r)', batch' \in [Batches -> BatchRecords],
             \A x \in Batches : x # r => batch'[x] = batch[x],
             UNCHANGED <<deletions, queuedBy>>, cancelled' \subseteq Jobs,
             state' \in [Jobs -> JobStates \cup {"none", "gone"}],
             \A j \in Jobs : /\ state[j] = "gone" => state'[j] = "gone"
                             /\ state'[j] = "completed" => state[j] = "completed"
      PROVE  ListingInv'
  BY <1>q, <1>0, <1>k
<1>2. CASE \/ \E filter \in Filters : DeleteAll(r, filter)
           \/ \E ids \in SUBSET Jobs : BatchDelete(r, ids)
  <2>1. UNCHANGED <<state, cancelled, deletions, queuedBy>>
    BY <1>2 DEF DeleteAll, BatchDelete, scrapes, maintenance
  <2>2. /\ BatchInv(r)' /\ batch' \in [Batches -> BatchRecords]
        /\ \A x \in Batches : x # r => batch'[x] = batch[x]
    BY <1>2, BatchBegins
  <2> QED BY <2>1, <2>2, <1>0, <1>q
<1>3. ASSUME NEW err \in BOOLEAN, ListPage(r, err) PROVE ListingInv'
  <2>1. UNCHANGED <<state, cancelled, deletions, queuedBy>>
    BY <1>3 DEF ListPage, scrapes, maintenance
  <2>2. /\ BatchInv(r)' /\ batch' \in [Batches -> BatchRecords]
        /\ \A x \in Batches : x # r => batch'[x] = batch[x]
    BY <1>3, ListPageInv
  <2> QED BY <2>1, <2>2, <1>0, <1>q
<1>4. ASSUME NEW err \in BOOLEAN, GetJob(r, err) PROVE ListingInv'
  <2>1. UNCHANGED <<state, cancelled, deletions, queuedBy>>
    BY <1>4 DEF GetJob, scrapes, maintenance
  <2>2. PICK q \in {Ended(r, "failed"), BatchAt(r, "cancel"), BatchAt(r, "insert")} :
          Continue(r, "delete", q)
    BY <1>4 DEF GetJob
  <2>3. /\ BatchInv(r)' /\ batch' \in [Batches -> BatchRecords]
        /\ \A x \in Batches : x # r => batch'[x] = batch[x]
    BY <2>1, <2>2, BatchGoesOn
  <2> QED BY <2>1, <2>3, <1>0, <1>q
<1>5. ASSUME NEW err \in BOOLEAN, CancelJob(r, err) PROVE ListingInv'
  <2> DEFINE j == Least(batch[r].todo)
  <2>1. /\ Continue(r, "cancel", BatchAt(r, "insert"))
        /\ cancelled' = IF ~err /\ state[j] = "running" THEN cancelled \cup {j} ELSE cancelled
        /\ state' = IF ~err /\ state[j] = "available"
                    THEN [state EXCEPT ![j] = "failed"] ELSE state
        /\ UNCHANGED <<deletions, queuedBy>>
    BY <1>5 DEF CancelJob, maintenance
  <2>2. /\ BatchInv(r)' /\ batch' \in [Batches -> BatchRecords]
        /\ \A x \in Batches : x # r => batch'[x] = batch[x]
    BY <2>1, BatchGoesOn
  <2>3. batch[r].todo # {} /\ batch[r].todo \subseteq Jobs
    BY <2>1 DEF Continue, BatchInv, ListingTypeOK, BatchRecords
  <2>4. j \in Jobs
    BY <2>3, LeastJob
  <2> HIDE DEF j
  <2>5. cancelled' \subseteq Jobs
    BY <2>1, <2>4, <1>0
  <2>6. /\ state' \in [Jobs -> JobStates \cup {"none", "gone"}]
        /\ \A i \in Jobs : /\ state[i] = "gone" => state'[i] = "gone"
                           /\ state'[i] = "completed" => state[i] = "completed"
    BY <2>1, <2>4, <1>0 DEF JobStates
  <2> QED BY <2>1, <2>2, <2>5, <2>6, <1>q
<1>6. ASSUME NEW err \in BOOLEAN, InsertDeletion(r, err) PROVE ListingInv'
  <2>1. UNCHANGED <<state, cancelled>>
    BY <1>6 DEF InsertDeletion, scrapes
  <2>2. /\ BatchInv(r)'
        /\ batch' \in [Batches -> BatchRecords]
        /\ \A x \in Batches : x # r => batch'[x] = batch[x] /\ queuedBy'[x] = queuedBy[x]
        /\ queuedBy' \in [Batches -> [Jobs -> Nat]]
        /\ deletions' \in [Jobs \X Attempts -> Nat]
        /\ \/ UNCHANGED <<deletions, queuedBy>>
           \/ \E j \in Jobs :
                /\ deletions' = [deletions EXCEPT ![<<j, 1>>] = @ + 1]
                /\ queuedBy' = [queuedBy EXCEPT ![r][j] = @ + 1]
    BY <1>6, InsertDeletionInv
  <2>3. CASE UNCHANGED <<deletions, queuedBy>>
    BY <2>1, <2>2, <2>3, <1>0, <1>q
  <2>4. ASSUME NEW j \in Jobs, deletions' = [deletions EXCEPT ![<<j, 1>>] = @ + 1],
               queuedBy' = [queuedBy EXCEPT ![r][j] = @ + 1]
        PROVE  ListingInv'
    <3> DEFINE y == <<j, 1>>
    <3>1. 1 \in Attempts /\ y \in Jobs \X Attempts
      BY JobsFinite DEF Attempts
    <3>2. deletions' = [deletions EXCEPT ![y] = deletions[y] + 1]
      BY <2>4
    <3> HIDE DEF y
    <3>3. deletions[y] \in Nat /\ deletions[y] + 1 > 0
      BY <3>1, <1>0
    <3>4. \A x \in Jobs \X Attempts :
            deletions'[x] = IF x = y THEN deletions[y] + 1 ELSE deletions[x]
      BY <3>1, <3>2, <1>0
    <3>5. /\ \A x \in Jobs \X Attempts : deletions[x] > 0 => deletions'[x] > 0
          /\ deletions'[y] > 0
      BY <3>1, <3>3, <3>4
    <3>6. \A i \in Jobs : i # j => queuedBy'[r][i] = queuedBy[r][i]
      BY <2>4, <1>0
    <3>7. \A i \in Jobs : \/ queuedBy'[r][i] = queuedBy[r][i]
                          \/ \E n \in Attempts : deletions'[<<i, n>>] > 0
      BY <3>1, <3>5, <3>6 DEF y
    <3> QED BY <2>1, <2>2, <3>5, <3>7, <1>0, <1>k
  <2> QED BY <2>2, <2>3, <2>4
<1> QED BY <1>2, <1>3, <1>4, <1>5, <1>6 DEF BatchStep

LEMMA ListingNextInv == ListingInv /\ [ListingNext]_listingVars => ListingInv'
<1> SUFFICES ASSUME ListingInv, [ListingNext]_listingVars PROVE ListingInv'
  OBVIOUS
<1>1. CASE UNCHANGED listingVars
  BY <1>1 DEF listingVars, scrapes, maintenance, ListingInv, ListingTypeOK, BatchInv, ClientInv,
              CompletedWithResults, NoDeletionForgotten
<1> QED BY <1>1, JobStepInv, BatchStepInv, DeletionStepInv, CleanResultsInv, ClientStepInv DEF ListingNext

\* The invariant of the requests, the client and the deletions.
THEOREM ListingInvariance == ListingSpec => []ListingInv
BY ListingInitInv, ListingNextInv, PTL DEF ListingSpec

\* A request that succeeds has queued the deletion of every job that matched all the
\* time, whatever happens between its pages.
THEOREM FilteredJobsQueued == ListingSpec => []AllMatchingQueued
<1>1. ListingInv => AllMatchingQueued
  BY DEF ListingInv, BatchInv, AllMatchingQueued
<1> QED BY <1>1, ListingInvariance, PTL

\* ... and none of them twice.
THEOREM JobsQueuedOnce == ListingSpec => []QueuedOnce
<1>1. ListingInv => QueuedOnce
  BY DEF ListingInv, BatchInv, QueuedOnce
<1> QED BY <1>1, ListingInvariance, PTL

\* GetJobStatus reads the job and then its results: an answer without those of a
\* completed job means that their read failed, or that a deletion or the cleanup of
\* old results removed them.
THEOREM ResultsWithCompletion == ListingSpec => []CompletedWithResults
<1>1. ListingInv => CompletedWithResults
  BY DEF ListingInv, ClientInv
<1> QED BY <1>1, ListingInvariance, PTL

\* JobDeleteWorker's retries: a queued deletion is carried out, pending or given up.
THEOREM DeletionsPending == ListingSpec => []NoDeletionForgotten
<1>1. ListingInv => NoDeletionForgotten
  BY DEF ListingInv
<1> QED BY <1>1, ListingInvariance, PTL

----------------------------------------------------------------------------
(* ProvisionWizard.  The state in memory and the file differ only where a save  *)
(* is due; each says only what is true of the world; and a run that has reached *)
(* a step has done what comes before it.                                        *)

Databases == [pwd : Ids, schema : BOOLEAN, admin : BOOLEAN,
              rows : [ConfigRows -> [enc : Ids, val : Ids]]]
Deployments == [url : URLs, enc : Ids, salt : Ids]

\* The steps after the order of a database, its migration, the generation of the
\* key and of the salt, the save of the settings and the deployment; the steps that
\* follow a save.
AfterDeploy == {"deploymentComesActive", "admin", "complete"}
AfterConfig == {"deploy"} \cup AfterDeploy
AfterSalt == {"sshKey", "config"} \cup AfterConfig
AfterKey == {"hashSalt"} \cup AfterSalt
AfterVerify == {"encryptionKey"} \cup AfterKey
AfterDatabase == {"verify"} \cup AfterVerify
AfterSave == {"provider", "connect", "setup", "database", "verify", "hashSalt", "sshKey",
              "config", "admin", "complete"}
WizardSteps == {"off", "image", "saving", "clusterComesOnline"} \cup AfterSave \cup AfterDatabase

WorldTypeOK ==
  /\ cloudKey \in Ids /\ server \in [Ids -> Ids]
  /\ db \in [Places -> Databases] /\ app \in [Places -> Deployments]

WizardTypeOK ==
  /\ file \in States \cup {NoFile, Torn}
  /\ mem \in States
  /\ pc \in WizardSteps /\ after \in WizardSteps
  /\ runs \in Ids /\ (pc # "off" => runs # 0)
  /\ WorldTypeOK

Keeps(s, t) ==
  /\ s.enc # 0 => t.enc = s.enc
  /\ s.salt # 0 => t.salt = s.salt
  /\ s.ssh # 0 => t.ssh = s.ssh
  /\ s.url # NoURL => t.url = s.url
  /\ s.host # Nowhere => t.host = s.host

\* What a state says is true of the databases d and of the applications a, at
\* whatever step it was saved.
Sound(t, d, a) ==
  /\ t.url # NoURL => "database" \in t.steps
  /\ t.provider = "none" => t.host = Nowhere
  /\ t.provider = "vps" => t.host = <<"vps", 0>>
  /\ t.provider = "do" => t.host = <<"do", 0>>
  /\ "deployed" \in t.steps =>
       a[t.app] = DeployConfig(t) /\ "database" \in t.steps /\ t.enc # 0 /\ t.salt # 0
  /\ t.admin => d[t.url.db].admin /\ "database" \in t.steps

\* What a run that has reached a step has done.
Reached(t, step, d, a) ==
  /\ step = "clusterComesOnline" => "database" \notin t.steps
  /\ step \in AfterDatabase => "database" \in t.steps
  /\ step \in AfterVerify =>
       t.url.pwd # 0 /\ d[t.url.db].pwd = t.url.pwd /\ d[t.url.db].schema
  /\ step \in AfterKey => t.enc # 0
  /\ step \in AfterSalt => t.salt # 0
  /\ step \in AfterConfig =>
       /\ d[t.url.db].rows["hash_salt"] = [enc |-> t.enc, val |-> t.salt]
       /\ d[t.url.db].rows["app_key_pair"] = [enc |-> t.enc, val |-> t.ssh]
  /\ step \in AfterDeploy => a[t.app] = DeployConfig(t)
  /\ step = "complete" => t.admin

\* The state in memory and the file differ only where a save is due.
FileInv ==
  /\ pc = "off" => mem = Fresh
  /\ pc = "image" => file = mem \/ (file = NoFile /\ mem = Fresh)
  /\ pc = "saving" => after \in AfterSave
  /\ pc = "deploymentComesActive" =>
       /\ Saved
       /\ mem = [file EXCEPT !.app = mem.app]
  /\ pc \notin {"off", "image", "saving", "deploymentComesActive"} => file = mem
  /\ pc # "off" /\ Saved => Keeps(file, mem)

WizardInv ==
  /\ WizardTypeOK
  /\ FileInv
  /\ Sound(mem, db, app)
  /\ Saved => Sound(file, db, app)
  /\ Reached(mem, IF pc = "saving" THEN after ELSE pc, db, app)

LEMMA WizardIds ==
  /\ MaxRuns \in Nat \ {0} /\ 0 \in Ids /\ 1 \in Ids /\ Ids \subseteq Nat
  /\ Nowhere \in Places /\ NoURL \in URLs /\ <<"existing", 0>> \in Places
  /\ \A i \in Ids, p \in Providers : <<p, i>> \in Places
<1>1. MaxRuns \in Nat \ {0} /\ 0 \in Ids /\ 1 \in Ids /\ Ids \subseteq Nat
  BY RunsAssumption DEF Ids
<1>2. Nowhere \in Places /\ <<"existing", 0>> \in Places
  BY <1>1 DEF Nowhere, Places
<1>3. NoURL \in URLs
  BY <1>1, <1>2 DEF NoURL, URLs
<1>4. \A i \in Ids, p \in Providers : <<p, i>> \in Places
  BY DEF Places, Providers
<1> QED BY <1>1, <1>2, <1>3, <1>4

LEMMA FreshState ==
  /\ Fresh \in States /\ Fresh.steps = {} /\ Fresh.url = NoURL /\ Fresh.admin = FALSE
  /\ Fresh.provider = "none" /\ Fresh.host = Nowhere /\ Fresh.app = Nowhere
  /\ Fresh.enc = 0 /\ Fresh.salt = 0 /\ Fresh.ssh = 0
BY WizardIds DEF Fresh, States

LEMMA FreshSound == ASSUME NEW d, NEW a PROVE Sound(Fresh, d, a)
BY FreshState DEF Sound

\* The state with a step done, and the state with a part replaced.
LEMMA DoneState ==
  ASSUME NEW t \in States, NEW s \in Steps
  PROVE  /\ Done(t, s) \in States
         /\ Done(t, s) = [t EXCEPT !.steps = t.steps \cup {s}]
         /\ Done(t, s).steps = t.steps \cup {s}
         /\ Done(t, s).provider = t.provider /\ Done(t, s).host = t.host
         /\ Done(t, s).ssh = t.ssh /\ Done(t, s).url = t.url /\ Done(t, s).enc = t.enc
         /\ Done(t, s).salt = t.salt /\ Done(t, s).app = t.app /\ Done(t, s).admin = t.admin
BY DEF Done, States

LEMMA StateParts ==
  ASSUME NEW t \in States
  PROVE  /\ t.provider \in Providers \cup {"none"} /\ t.host \in Places /\ t.ssh \in Ids
         /\ t.steps \in SUBSET Steps /\ t.url \in URLs /\ t.url.db \in Places /\ t.url.pwd \in Ids
         /\ t.enc \in Ids /\ t.salt \in Ids /\ t.app \in Places /\ t.admin \in BOOLEAN
         /\ t \notin {NoFile, Torn}
<1>1. /\ t.provider \in Providers \cup {"none"} /\ t.host \in Places /\ t.ssh \in Ids
      /\ t.steps \in SUBSET Steps /\ t.url \in URLs
      /\ t.enc \in Ids /\ t.salt \in Ids /\ t.app \in Places /\ t.admin \in BOOLEAN
  BY DEF States
<1>2. t.url.db \in Places /\ t.url.pwd \in Ids
  BY <1>1 DEF URLs
<1> QED BY <1>1, <1>2, FileAssumption

LEMMA DeployConfigType ==
  ASSUME NEW t \in States
  PROVE  DeployConfig(t) \in Deployments
BY StateParts DEF DeployConfig, Deployments

LEMMA KeepsItself == ASSUME NEW t PROVE Keeps(t, t)
BY DEF Keeps

LEMMA KeepsTwice ==
  ASSUME NEW s, NEW t, NEW u, Keeps(s, t), Keeps(t, u)
  PROVE  Keeps(s, u)
BY DEF Keeps

\* What a state says stays true when administrators are only added, and applications
\* only get what the state has.
LEMMA SoundStays ==
  ASSUME NEW t \in States, NEW d, NEW d2, NEW a, NEW a2, Sound(t, d, a),
         \A p \in Places : d[p].admin => d2[p].admin,
         \A p \in Places : a2[p] = a[p] \/ a2[p] = DeployConfig(t)
  PROVE  Sound(t, d2, a2)
BY StateParts DEF Sound

\* A save begins.
LEMMA SaveBegins ==
  ASSUME WizardInv, pc \notin {"off", "saving"},
         NEW t \in States, NEW next \in AfterSave, SaveState(t, next), WorldTypeOK',
         Keeps(mem, t), Sound(t, db', app'), Reached(t, next, db', app'),
         Saved => Sound(file, db', app')
  PROVE  WizardInv'
<1>1. mem' = t /\ pc' = "saving" /\ after' = next /\ file' = file /\ runs' = runs
  BY DEF SaveState
<1>2. next \in WizardSteps /\ "saving" \in WizardSteps
  BY DEF WizardSteps
<1>3. Saved' <=> Saved
  BY <1>1 DEF Saved
<1>4. WizardTypeOK'
  BY <1>1, <1>2 DEF WizardInv, WizardTypeOK
<1>5. Saved => Keeps(file, t)
  BY KeepsTwice DEF WizardInv, FileInv
<1>6. FileInv'
  BY <1>1, <1>3, <1>5 DEF FileInv
<1> QED BY <1>1, <1>3, <1>4, <1>6 DEF WizardInv

\* The run goes on with what the file holds.
LEMMA GoesOn ==
  ASSUME WizardInv, pc # "off", file = mem, UNCHANGED <<file, mem, after, runs>>,
         pc' \in WizardSteps \ {"off", "image", "saving", "deploymentComesActive"}, WorldTypeOK',
         Sound(mem, db', app'), Reached(mem, pc', db', app')
  PROVE  WizardInv'
<1>1. WizardTypeOK'
  BY DEF WizardInv, WizardTypeOK
<1>2. Keeps(file', mem')
  BY KeepsItself
<1>3. FileInv'
  BY <1>2 DEF FileInv
<1> QED BY <1>1, <1>3 DEF WizardInv

\* The file is the state wherever the process is not about to save.
LEMMA FileIsState ==
  ASSUME WizardInv
  PROVE  /\ pc \notin {"off", "image", "saving", "deploymentComesActive"} =>
              file = mem /\ Saved
         /\ mem \in States /\ runs \in Ids /\ (pc # "off" => runs # 0) /\ WorldTypeOK
         /\ Saved => file \in States
         /\ pc # "saving" => Reached(mem, pc, db, app)
<1>1. mem \in States /\ mem \notin {NoFile, Torn}
  BY StateParts DEF WizardInv, WizardTypeOK
<1> QED BY <1>1 DEF WizardInv, WizardTypeOK, FileInv, Saved

\* The run ends.
LEMMA TurnsOff ==
  ASSUME WizardInv, Off, UNCHANGED world, file' = file \/ file' \in {NoFile, Torn}
  PROVE  WizardInv'
<1>1. mem' = Fresh /\ pc' = "off" /\ after' = "off" /\ runs' = runs
  BY DEF Off
<1>2. UNCHANGED <<cloudKey, server, db, app>>
  BY DEF world
<1>3. WizardTypeOK'
  BY <1>1, <1>2, FreshState DEF WizardInv, WizardTypeOK, WorldTypeOK, WizardSteps
<1>4. Saved' => Saved /\ file' = file
  BY DEF Saved
<1>5. FileInv'
  BY <1>1 DEF FileInv
<1>6. Reached(Fresh, "off", db, app)
  BY DEF Reached, AfterDatabase, AfterVerify, AfterKey, AfterSalt, AfterConfig, AfterDeploy
<1> QED BY <1>1, <1>2, <1>3, <1>4, <1>5, <1>6, FreshSound DEF WizardInv

LEMMA EarlyReached ==
  ASSUME NEW t, NEW d, NEW a,
         NEW step \in {"off", "image", "provider", "connect", "setup", "database"}
  PROVE  Reached(t, step, d, a)
BY DEF Reached, AfterDatabase, AfterVerify, AfterKey, AfterSalt, AfterConfig, AfterDeploy

LEMMA WizardInitInv == WizardInit => WizardInv
<1> SUFFICES ASSUME WizardInit PROVE WizardInv
  OBVIOUS
<1>1. NoDatabase \in Databases /\ [NoDatabase EXCEPT !.pwd = 1] \in Databases
  <2>1. [r \in ConfigRows |-> [enc |-> 0, val |-> 0]] \in [ConfigRows -> [enc : Ids, val : Ids]]
    BY WizardIds
  <2> QED BY <2>1, WizardIds DEF NoDatabase, Databases
<1>2. NotDeployed \in Deployments
  BY WizardIds DEF NotDeployed, Deployments
<1>3. WorldTypeOK
  BY <1>1, <1>2, WizardIds DEF WizardInit, WorldTypeOK
<1>4. WizardTypeOK
  BY <1>3, FreshState, WizardIds DEF WizardInit, WizardTypeOK, WizardSteps
<1>5. FileInv /\ ~Saved
  BY DEF WizardInit, FileInv, Saved
<1>6. Sound(mem, db, app) /\ Reached(mem, "off", db, app)
  BY FreshSound, EarlyReached DEF WizardInit
<1> QED BY <1>4, <1>5, <1>6 DEF WizardInv, WizardInit

LEMMA FileWrittenInv == WizardInv /\ FileWritten => WizardInv'
<1> SUFFICES ASSUME WizardInv, FileWritten PROVE WizardInv'
  OBVIOUS
<1>1. /\ pc = "saving" /\ file' = mem /\ pc' = after
      /\ UNCHANGED <<mem, after, runs, cloudKey, server, db, app>>
  BY DEF FileWritten, world
<1>2. after \in AfterSave /\ runs # 0
  BY <1>1 DEF WizardInv, FileInv, WizardTypeOK
<1>3. after \notin {"off", "image", "saving", "deploymentComesActive"}
  BY <1>2 DEF AfterSave
<1>4. WizardTypeOK'
  BY <1>1, <1>2 DEF WizardInv, WizardTypeOK, WorldTypeOK
<1>5. FileInv'
  BY <1>1, <1>3, KeepsItself DEF FileInv
<1> QED BY <1>1, <1>3, <1>4, <1>5 DEF WizardInv

LEMMA BeginsInv ==
  ASSUME WizardInv, Start \/ Resume \/ Discard
  PROVE  WizardInv'
<1>1. /\ pc = "off" /\ runs < MaxRuns /\ runs' = runs + 1 /\ pc' = "image"
      /\ UNCHANGED <<after, cloudKey, server, db, app>>
      /\ \/ mem' = Fresh /\ file' = NoFile
         \/ Saved /\ mem' = file /\ file' = file
  BY DEF Start, Resume, Discard, Begins, world
<1>2. runs' \in Ids /\ runs' # 0
  <2>1. runs \in Ids
    BY DEF WizardInv, WizardTypeOK
  <2> QED BY <2>1, <1>1, RunsAssumption DEF Ids
<1>3. CASE mem' = Fresh /\ file' = NoFile
  <2>1. WizardTypeOK'
    BY <1>1, <1>2, <1>3, FreshState DEF WizardInv, WizardTypeOK, WorldTypeOK, WizardSteps
  <2>2. FileInv' /\ ~Saved'
    BY <1>1, <1>3 DEF FileInv, Saved
  <2> QED BY <2>1, <2>2, <1>1, <1>3, FreshSound, EarlyReached DEF WizardInv
<1>4. CASE Saved /\ mem' = file /\ file' = file
  <2>1. file \in States
    BY <1>4, FileIsState
  <2>2. WizardTypeOK'
    BY <1>1, <1>2, <1>4, <2>1 DEF WizardInv, WizardTypeOK, WorldTypeOK, WizardSteps
  <2>3. FileInv'
    BY <1>1, <1>4, KeepsItself DEF FileInv
  <2>4. Sound(file, db, app)
    BY <1>4 DEF WizardInv
  <2> QED BY <2>2, <2>3, <2>4, <1>1, <1>4, EarlyReached DEF WizardInv
<1> QED BY <1>1, <1>3, <1>4

\* The state with a step done, or with the host of its provider, says the same.
LEMMA SoundDone ==
  ASSUME NEW t \in States, NEW d, NEW a, Sound(t, d, a), NEW s \in Steps \ {"deployed"}
  PROVE  Sound(Done(t, s), d, a) /\ Keeps(t, Done(t, s))
<1>1. DeployConfig(Done(t, s)) = DeployConfig(t)
  BY DoneState DEF DeployConfig
<1> QED BY <1>1, DoneState DEF Sound, Keeps

LEMMA ImageInv ==
  ASSUME WizardInv, ImageKept \/ ImagePushed
  PROVE  WizardInv'
<1>1. pc = "image" /\ UNCHANGED <<cloudKey, server, db, app>>
  BY DEF ImageKept, ImagePushed, world
<1>2. mem \in States /\ WorldTypeOK' /\ Sound(mem, db', app')
  BY <1>1, FileIsState DEF WizardInv, WorldTypeOK
<1>3. CASE ImageKept
  <2>1. "image" \in mem.steps /\ pc' = "provider" /\ UNCHANGED <<file, mem, after, runs>>
    BY <1>3 DEF ImageKept, Go
  <2>2. mem # Fresh
    BY <2>1, FreshState
  <2>3. file = mem
    BY <2>2, <1>1 DEF WizardInv, FileInv
  <2> QED BY <2>1, <2>3, <1>1, <1>2, EarlyReached, GoesOn DEF WizardSteps, AfterSave
<1>4. CASE ImagePushed
  <2>1. SaveState(Done(mem, "image"), "provider")
    BY <1>4 DEF ImagePushed
  <2>2. "image" \in Steps \ {"deployed"} /\ "provider" \in AfterSave
    BY DEF Steps, AfterSave
  <2>3. Done(mem, "image") \in States
    BY <1>2, <2>2, DoneState
  <2>4. Keeps(mem, Done(mem, "image")) /\ Sound(Done(mem, "image"), db', app')
    BY <1>2, <2>2, SoundDone
  <2>5. Saved => Sound(file, db', app')
    BY <1>1 DEF WizardInv
  <2> QED BY <2>1, <2>2, <2>3, <2>4, <2>5, <1>1, <1>2, EarlyReached, SaveBegins
<1> QED BY <1>3, <1>4

\* A provider is chosen, and its host and the key for it.
LEMMA SoundHost ==
  ASSUME NEW t \in States, NEW d, NEW a, Sound(t, d, a),
         NEW p \in Providers, NEW h \in Places, NEW k \in Ids,
         t.provider \in {"none", p}, t.host \in {Nowhere, h}, t.ssh \in {0, k},
         p = "vps" => h = <<"vps", 0>>, p = "do" => h = <<"do", 0>>
  PROVE  LET u == [t EXCEPT !.provider = p, !.host = h, !.ssh = k]
         IN  u \in States /\ Sound(u, d, a) /\ Keeps(t, u)
<1> DEFINE u == [t EXCEPT !.provider = p, !.host = h, !.ssh = k]
<1>1. /\ u \in States /\ u.provider = p /\ u.host = h /\ u.ssh = k /\ u.steps = t.steps
      /\ u.url = t.url /\ u.enc = t.enc /\ u.salt = t.salt /\ u.app = t.app /\ u.admin = t.admin
  BY DEF States
<1> HIDE DEF u
<1>2. DeployConfig(u) = DeployConfig(t)
  BY <1>1 DEF DeployConfig
<1>3. Sound(u, d, a)
  BY <1>1, <1>2 DEF Sound, Providers
<1>4. Keeps(t, u)
  BY <1>1 DEF Keeps
<1> QED BY <1>1, <1>3, <1>4 DEF u

LEMMA InitProviderInv ==
  ASSUME WizardInv, InitVPS \/ InitDO \/ InitHetznerSaved \/ InitHetzner
  PROVE  WizardInv'
<1>1. pc = "provider" /\ db' = db /\ app' = app /\ "connect" \in AfterSave
  BY DEF InitVPS, InitDO, InitHetznerSaved, InitHetzner, ProviderIs, world, AfterSave
<1>2. /\ mem \in States /\ mem.ssh \in Ids /\ mem.host \in Places
      /\ Sound(mem, db', app') /\ (Saved => Sound(file, db', app'))
  BY <1>1, FileIsState, StateParts DEF WizardInv
<1>w. WorldTypeOK
  BY DEF WizardInv, WizardTypeOK
<1>k. ASSUME NEW t \in States, Sound(t, db', app'), Keeps(mem, t), SaveState(t, "connect"), WorldTypeOK'
      PROVE  WizardInv'
  BY <1>k, <1>1, <1>2, EarlyReached, SaveBegins
<1>3. ASSUME NEW p \in {"vps", "do"},
             ProviderIs(p), SaveState([mem EXCEPT !.provider = p, !.host = <<p, 0>>], "connect"),
             UNCHANGED world
      PROVE  WizardInv'
  <2> DEFINE u == [mem EXCEPT !.provider = p, !.host = <<p, 0>>]
             v == [mem EXCEPT !.provider = p, !.host = <<p, 0>>, !.ssh = mem.ssh]
  <2>1. u = v
    BY <1>2 DEF States
  <2>2. p \in Providers /\ <<p, 0>> \in Places /\ mem.provider \in {"none", p}
    BY <1>3, WizardIds DEF Providers, ProviderIs
  <2>3. mem.host \in {Nowhere, <<p, 0>>}
    BY <2>2, <1>2 DEF Sound
  <2>4. v \in States /\ Sound(v, db', app') /\ Keeps(mem, v)
    <3> HIDE DEF u
    <3> QED BY <2>2, <2>3, <1>2, SoundHost
  <2>5. WorldTypeOK'
    BY <1>w, <1>3 DEF WorldTypeOK, world
  <2> HIDE DEF v
  <2>6. SaveState(v, "connect")
    BY <2>1, <1>3
  <2> QED BY <2>4, <2>5, <2>6, <1>k
<1>4. CASE InitVPS
  BY <1>3, <1>4 DEF InitVPS
<1>5. CASE InitDO
  BY <1>3, <1>5 DEF InitDO
<1>6. CASE InitHetznerSaved
  <2>1. SaveState(mem, "connect") /\ UNCHANGED world
    BY <1>6 DEF InitHetznerSaved
  <2>2. WorldTypeOK'
    BY <2>1, <1>w DEF WorldTypeOK, world
  <2> QED BY <2>1, <2>2, <1>2, <1>k, KeepsItself
<1>7. CASE InitHetzner
  <2> DEFINE key == IF mem.ssh = 0 THEN runs ELSE mem.ssh
             h == <<"hetzner", runs>>
             v == [mem EXCEPT !.provider = "hetzner", !.host = h, !.ssh = key]
  <2>1. /\ ProviderIs("hetzner") /\ mem.host = Nowhere /\ EnsureSSHKey(key)
        /\ server' = [server EXCEPT ![runs] = cloudKey']
        /\ SaveState(v, "connect")
    BY <1>7 DEF InitHetzner
  <2>2. runs \in Ids
    BY FileIsState
  <2>3. key \in Ids /\ mem.ssh \in {0, key} /\ "hetzner" \in Providers
    BY <2>2, <1>2 DEF Providers
  <2>4. h \in Places
    BY <2>2, <2>3, WizardIds
  <2>5. mem.provider \in {"none", "hetzner"} /\ mem.host \in {Nowhere, h}
    BY <2>1 DEF ProviderIs
  <2> HIDE DEF key, h
  <2>6. v \in States /\ Sound(v, db', app') /\ Keeps(mem, v)
    BY <2>3, <2>4, <2>5, <1>2, SoundHost
  <2>7. cloudKey' \in Ids
    BY <2>1, <2>3, <1>w DEF EnsureSSHKey, WorldTypeOK
  <2>8. WorldTypeOK'
    BY <2>1, <2>2, <2>7, <1>1, <1>w DEF WorldTypeOK
  <2> HIDE DEF v
  <2> QED BY <2>1, <2>6, <2>8, <1>k
<1> QED BY <1>4, <1>5, <1>6, <1>7

LEMMA ConnectInv ==
  ASSUME WizardInv, CheckConnectivity \/ Setup
  PROVE  WizardInv'
<1>1. pc \in {"connect", "setup"} /\ UNCHANGED <<cloudKey, server, db, app>>
  BY DEF CheckConnectivity, Setup, world
<1>2. /\ mem \in States /\ file = mem /\ WorldTypeOK' /\ Sound(mem, db', app')
      /\ (Saved => Sound(file, db', app'))
  BY <1>1, FileIsState DEF WizardInv, WorldTypeOK
<1>3. PICK step \in {"connected", "setup"}, next \in {"setup", "database"} :
        Go(next) \/ SaveState(Done(mem, step), next)
  BY DEF CheckConnectivity, Setup
<1>4. next \in AfterSave /\ step \in Steps \ {"deployed"}
      /\ next \in WizardSteps \ {"off", "image", "saving", "deploymentComesActive"}
  BY DEF AfterSave, Steps, WizardSteps
<1>5. CASE Go(next)
  <2>1. pc' = next /\ UNCHANGED <<file, mem, after, runs>>
    BY <1>5 DEF Go
  <2> QED BY <2>1, <1>1, <1>2, <1>4, EarlyReached, GoesOn
<1>6. CASE SaveState(Done(mem, step), next)
  <2>1. /\ Done(mem, step) \in States /\ Keeps(mem, Done(mem, step))
        /\ Sound(Done(mem, step), db', app')
    BY <1>2, <1>4, SoundDone, DoneState
  <2> QED BY <2>1, <1>1, <1>2, <1>4, <1>6, EarlyReached, SaveBegins
<1> QED BY <1>3, <1>5, <1>6

\* One database changes, and keeps its administrator.
LEMMA OneDatabase ==
  ASSUME WorldTypeOK, NEW p \in Places, NEW x \in Databases, db' = [db EXCEPT ![p] = x],
         db[p].admin => x.admin, UNCHANGED <<cloudKey, server, app>>
  PROVE  /\ WorldTypeOK' /\ db'[p] = x
         /\ \A q \in Places : q # p => db'[q] = db[q]
         /\ \A q \in Places : db[q].admin => db'[q].admin
BY DEF WorldTypeOK

LEMMA DatabaseParts ==
  ASSUME NEW x \in Databases
  PROVE  /\ x.pwd \in Ids /\ x.schema \in BOOLEAN /\ x.admin \in BOOLEAN
         /\ x.rows \in [ConfigRows -> [enc : Ids, val : Ids]]
         /\ /\ [x EXCEPT !.schema = TRUE] \in Databases
            /\ [x EXCEPT !.schema = TRUE].schema
            /\ [x EXCEPT !.schema = TRUE].admin = x.admin
            /\ [x EXCEPT !.schema = TRUE].pwd = x.pwd
            /\ [x EXCEPT !.schema = TRUE].rows = x.rows
         /\ /\ [x EXCEPT !.admin = TRUE] \in Databases
            /\ [x EXCEPT !.admin = TRUE].schema = x.schema
            /\ [x EXCEPT !.admin = TRUE].admin
            /\ [x EXCEPT !.admin = TRUE].pwd = x.pwd
            /\ [x EXCEPT !.admin = TRUE].rows = x.rows
BY DEF Databases

LEMMA NewPassword ==
  ASSUME NEW x \in Databases, NEW i \in Ids
  PROVE  [x EXCEPT !.pwd = i] \in Databases /\ [x EXCEPT !.pwd = i].admin = x.admin
BY DEF Databases

\* The URL of the database is saved.
LEMMA DatabaseIsInv ==
  ASSUME WizardInv, pc \in {"database", "clusterComesOnline"}, "database" \notin mem.steps,
         NEW url \in URLs, DatabaseIs(url), WorldTypeOK',
         \A q \in Places : db[q].admin => db'[q].admin, app' = app
  PROVE  WizardInv'
<1> DEFINE t == [mem EXCEPT !.url = url]
           u == Done(t, "database")
<1>1. mem \in States /\ file = mem /\ Sound(mem, db, app)
  BY FileIsState DEF WizardInv
<1>2. /\ t \in States /\ t.url = url /\ t.provider = mem.provider /\ t.host = mem.host
      /\ t.ssh = mem.ssh /\ t.steps = mem.steps /\ t.enc = mem.enc /\ t.salt = mem.salt
      /\ t.app = mem.app /\ t.admin = mem.admin
  BY <1>1 DEF States
<1> HIDE DEF t
<1>3. "database" \in Steps
  BY DEF Steps
<1>4. /\ u \in States /\ u.url = url /\ u.provider = mem.provider /\ u.host = mem.host
      /\ u.ssh = mem.ssh /\ u.steps = mem.steps \cup {"database"} /\ u.enc = mem.enc
      /\ u.salt = mem.salt /\ u.app = mem.app /\ u.admin = mem.admin
  BY <1>2, <1>3, DoneState
<1>5. SaveState(u, "verify") /\ "verify" \in AfterSave
  BY DEF DatabaseIs, t, AfterSave
<1> HIDE DEF u
<1>6. mem.url = NoURL /\ "deployed" \notin mem.steps /\ ~mem.admin
  BY <1>1 DEF Sound
<1>7. Keeps(mem, u)
  BY <1>4, <1>6 DEF Keeps
<1>8. Sound(u, db', app')
  BY <1>1, <1>4, <1>6 DEF Sound
<1>9. Sound(file, db', app')
  BY <1>1, SoundStays
<1>10. Reached(u, "verify", db', app')
  BY <1>4 DEF Reached, AfterDatabase, AfterVerify, AfterKey, AfterSalt, AfterConfig, AfterDeploy
<1> QED BY <1>4, <1>5, <1>7, <1>8, <1>9, <1>10, SaveBegins

LEMMA DatabaseStepInv ==
  ASSUME WizardInv, DatabaseStep
  PROVE  WizardInv'
<1>1. pc \in {"database", "clusterComesOnline", "verify"} /\ app' = app
  BY DEF DatabaseStep, DatabaseKept, CreateOnServer, CreateCluster, ClusterOnline, UseExistingDB,
         VerifyAndMigrate, WantsDatabase, world
<1>2. /\ mem \in States /\ file = mem /\ Sound(mem, db, app) /\ Reached(mem, pc, db, app)
      /\ WorldTypeOK /\ runs \in Ids /\ mem.url \in URLs /\ mem.url.db \in Places
      /\ mem.host \in Places
  BY <1>1, FileIsState, StateParts DEF WizardInv
<1>d. \A p \in Places : db[p] \in Databases
  BY <1>2 DEF WorldTypeOK
<1>3. CASE DatabaseKept
  <2>1. /\ "database" \in mem.steps /\ pc' = "verify" /\ UNCHANGED <<file, mem, after, runs>>
        /\ UNCHANGED <<cloudKey, server, db, app>>
    BY <1>3 DEF DatabaseKept, Go, world
  <2>2. WorldTypeOK'
    BY <1>2, <2>1 DEF WorldTypeOK
  <2>3. Reached(mem, "verify", db', app')
    BY <2>1 DEF Reached, AfterDatabase, AfterVerify, AfterKey, AfterSalt, AfterConfig, AfterDeploy
  <2>4. "verify" \in WizardSteps \ {"off", "image", "saving", "deploymentComesActive"}
    BY DEF WizardSteps, AfterSave
  <2> QED BY <2>1, <2>2, <2>3, <2>4, <1>1, <1>2, GoesOn
<1>4. CASE CreateOnServer
  <2> DEFINE p == mem.host
             i == IF db[p].pwd = 0 THEN runs ELSE db[p].pwd
             x == [db[p] EXCEPT !.pwd = i]
  <2>1. /\ pc = "database" /\ "database" \notin mem.steps
        /\ db' = [db EXCEPT ![p] = x] /\ DatabaseIs([db |-> p, pwd |-> runs])
        /\ UNCHANGED <<cloudKey, server, app>>
    BY <1>4 DEF CreateOnServer, WantsDatabase, RunDBScript
  <2>p. p \in Places /\ db[p] \in Databases
    BY <1>2, <1>d
  <2>i. i \in Ids
    BY <2>p, <1>2, DatabaseParts
  <2>2. x \in Databases /\ x.admin = db[p].admin
    <3> HIDE DEF i, p
    <3> QED BY <2>p, <2>i, NewPassword
  <2>3. [db |-> p, pwd |-> runs] \in URLs
    BY <1>2 DEF URLs
  <2> HIDE DEF p, x
  <2>4. WorldTypeOK' /\ \A q \in Places : db[q].admin => db'[q].admin
    BY <1>2, <2>p, <2>1, <2>2, OneDatabase
  <2> QED BY <2>1, <2>3, <2>4, DatabaseIsInv
<1>5. CASE CreateCluster
  <2> DEFINE p == <<"do", runs>>
             x == [db[p] EXCEPT !.pwd = runs]
  <2>1. /\ pc = "database" /\ "database" \notin mem.steps /\ db' = [db EXCEPT ![p] = x]
        /\ pc' = "clusterComesOnline"
        /\ UNCHANGED <<file, mem, after, runs, cloudKey, server, app>>
    BY <1>5 DEF CreateCluster, WantsDatabase, Go
  <2>p. p \in Places /\ db[p] \in Databases
    BY <1>2, <1>d, WizardIds DEF Providers
  <2>2. x \in Databases /\ x.admin = db[p].admin
    <3> HIDE DEF p
    <3> QED BY <2>p, <1>2, NewPassword
  <2> HIDE DEF p, x
  <2>4. WorldTypeOK' /\ \A q \in Places : db[q].admin => db'[q].admin
    BY <1>2, <2>p, <2>1, <2>2, OneDatabase
  <2>5. Sound(mem, db', app')
    BY <1>2, <2>1, <2>4, SoundStays
  <2>6. Reached(mem, "clusterComesOnline", db', app')
    BY <2>1 DEF Reached, AfterDatabase, AfterVerify, AfterKey, AfterSalt, AfterConfig, AfterDeploy
  <2>7. "clusterComesOnline" \in WizardSteps \ {"off", "image", "saving", "deploymentComesActive"}
    BY DEF WizardSteps, AfterSave
  <2> QED BY <2>1, <2>4, <2>5, <2>6, <2>7, <1>2, GoesOn
<1>6. CASE ClusterOnline
  <2>1. /\ pc = "clusterComesOnline" /\ DatabaseIs([db |-> <<"do", runs>>, pwd |-> runs])
        /\ UNCHANGED <<cloudKey, server, db, app>>
    BY <1>6 DEF ClusterOnline, world
  <2>2. [db |-> <<"do", runs>>, pwd |-> runs] \in URLs
    BY <1>2, WizardIds DEF URLs, Providers
  <2>3. "database" \notin mem.steps
    BY <1>2, <2>1 DEF Reached
  <2>4. WorldTypeOK'
    BY <1>2, <2>1 DEF WorldTypeOK
  <2> QED BY <2>1, <2>2, <2>3, <2>4, DatabaseIsInv
<1>7. CASE UseExistingDB
  <2>1. /\ pc = "database" /\ "database" \notin mem.steps
        /\ UNCHANGED <<cloudKey, server, db, app>>
    BY <1>7 DEF UseExistingDB, WantsDatabase, world
  <2>2. PICK pwd \in {0, 1} : DatabaseIs([db |-> <<"existing", 0>>, pwd |-> pwd])
    BY <1>7 DEF UseExistingDB
  <2>3. [db |-> <<"existing", 0>>, pwd |-> pwd] \in URLs
    BY WizardIds DEF URLs
  <2>4. WorldTypeOK'
    BY <1>2, <2>1 DEF WorldTypeOK
  <2> QED BY <2>1, <2>2, <2>3, <2>4, DatabaseIsInv
<1>8. CASE VerifyAndMigrate
  <2> DEFINE p == mem.url.db
             x == [db[p] EXCEPT !.schema = TRUE]
  <2>1. /\ pc = "verify" /\ mem.url.pwd # 0 /\ db[p].pwd = mem.url.pwd
        /\ db' = [db EXCEPT ![p] = x] /\ pc' = "encryptionKey"
        /\ UNCHANGED <<file, mem, after, runs, cloudKey, server, app>>
    BY <1>8 DEF VerifyAndMigrate, Connects, Migrated, Go
  <2>2. x \in Databases /\ x.admin = db[p].admin /\ x.schema /\ x.pwd = db[p].pwd
    BY <1>2, <1>d, DatabaseParts
  <2> HIDE DEF x
  <2>4. WorldTypeOK' /\ db'[p] = x /\ \A q \in Places : db[q].admin => db'[q].admin
    BY <1>2, <2>1, <2>2, OneDatabase
  <2>5. Sound(mem, db', app')
    BY <1>2, <2>1, <2>4, SoundStays
  <2>6. "database" \in mem.steps
    BY <1>2, <2>1 DEF Reached, AfterDatabase
  <2>7. Reached(mem, "encryptionKey", db', app')
    BY <2>1, <2>2, <2>4, <2>6
       DEF Reached, AfterDatabase, AfterVerify, AfterKey, AfterSalt, AfterConfig, AfterDeploy
  <2>8. "encryptionKey" \in WizardSteps \ {"off", "image", "saving", "deploymentComesActive"}
    BY DEF WizardSteps, AfterSave, AfterDatabase, AfterVerify
  <2> QED BY <2>1, <2>4, <2>5, <2>7, <2>8, <1>2, GoesOn
<1> QED BY <1>3, <1>4, <1>5, <1>6, <1>7, <1>8 DEF DatabaseStep

LEMMA GenerateInv ==
  ASSUME WizardInv, GenerateSecrets
  PROVE  WizardInv'
<1> USE DEF AfterDatabase, AfterVerify, AfterKey, AfterSalt, AfterConfig, AfterDeploy
<1>1. pc \in {"encryptionKey", "hashSalt", "sshKey"} /\ UNCHANGED <<cloudKey, server, db, app>>
  BY DEF GenerateSecrets, Generate, world
<1>2. /\ mem \in States /\ file = mem /\ Sound(mem, db', app') /\ Reached(mem, pc, db', app')
      /\ WorldTypeOK' /\ runs \in Ids /\ runs # 0
  BY <1>1, FileIsState DEF WizardInv, WorldTypeOK
\* The secret is there already, or it is not and the run's is saved.
<1>3. ASSUME NEW next \in {"hashSalt", "sshKey", "config"}, Go(next), Reached(mem, next, db', app')
      PROVE  WizardInv'
  <2>1. pc' = next /\ UNCHANGED <<file, mem, after, runs>>
    BY <1>3 DEF Go
  <2>2. next \in WizardSteps \ {"off", "image", "saving", "deploymentComesActive"}
    BY DEF WizardSteps, AfterSave
  <2> QED BY <2>1, <2>2, <1>1, <1>2, <1>3, GoesOn
<1>4. ASSUME NEW next \in {"hashSalt", "sshKey", "config"}, NEW t \in States, SaveState(t, next),
             Keeps(mem, t), Sound(t, db', app'), Reached(t, next, db', app')
      PROVE  WizardInv'
  <2>1. next \in AfterSave
    BY DEF AfterSave
  <2> QED BY <2>1, <1>1, <1>2, <1>4, SaveBegins
<1>5. CASE Generate("encryptionKey", mem.enc # 0, [mem EXCEPT !.enc = runs], "hashSalt")
  <2> DEFINE t == [mem EXCEPT !.enc = runs]
  <2>1. pc = "encryptionKey"
    BY <1>5 DEF Generate
  <2>2. CASE mem.enc # 0 /\ Go("hashSalt")
    BY <2>1, <2>2, <1>2, <1>3 DEF Reached
  <2>3. CASE mem.enc = 0 /\ SaveState(t, "hashSalt")
    <3>1. /\ t \in States /\ t.provider = mem.provider /\ t.host = mem.host /\ t.ssh = mem.ssh
          /\ t.steps = mem.steps /\ t.url = mem.url /\ t.enc = runs /\ t.salt = mem.salt
          /\ t.app = mem.app /\ t.admin = mem.admin
      BY <1>2 DEF States
    <3> HIDE DEF t
    <3>2. Keeps(mem, t) /\ Sound(t, db', app')
      BY <2>3, <3>1, <1>2 DEF Keeps, Sound
    <3>3. Reached(t, "hashSalt", db', app')
      BY <2>1, <3>1, <1>2 DEF Reached
    <3> QED BY <2>3, <3>1, <3>2, <3>3, <1>4
  <2> QED BY <2>2, <2>3, <1>5 DEF Generate
<1>6. CASE Generate("hashSalt", mem.salt # 0, [mem EXCEPT !.salt = runs], "sshKey")
  <2> DEFINE t == [mem EXCEPT !.salt = runs]
  <2>1. pc = "hashSalt"
    BY <1>6 DEF Generate
  <2>2. CASE mem.salt # 0 /\ Go("sshKey")
    BY <2>1, <2>2, <1>2, <1>3 DEF Reached
  <2>3. CASE mem.salt = 0 /\ SaveState(t, "sshKey")
    <3>1. /\ t \in States /\ t.provider = mem.provider /\ t.host = mem.host /\ t.ssh = mem.ssh
          /\ t.steps = mem.steps /\ t.url = mem.url /\ t.enc = mem.enc /\ t.salt = runs
          /\ t.app = mem.app /\ t.admin = mem.admin
      BY <1>2 DEF States
    <3> HIDE DEF t
    <3>2. Keeps(mem, t) /\ Sound(t, db', app')
      BY <2>3, <3>1, <1>2 DEF Keeps, Sound
    <3>3. Reached(t, "sshKey", db', app')
      BY <2>1, <3>1, <1>2 DEF Reached
    <3> QED BY <2>3, <3>1, <3>2, <3>3, <1>4
  <2> QED BY <2>2, <2>3, <1>6 DEF Generate
<1>7. CASE Generate("sshKey", mem.ssh # 0, [mem EXCEPT !.ssh = runs], "config")
  <2> DEFINE t == [mem EXCEPT !.ssh = runs]
  <2>1. pc = "sshKey"
    BY <1>7 DEF Generate
  <2>2. CASE mem.ssh # 0 /\ Go("config")
    BY <2>1, <2>2, <1>2, <1>3 DEF Reached
  <2>3. CASE mem.ssh = 0 /\ SaveState(t, "config")
    <3>1. /\ t \in States /\ t.provider = mem.provider /\ t.host = mem.host /\ t.ssh = runs
          /\ t.steps = mem.steps /\ t.url = mem.url /\ t.enc = mem.enc /\ t.salt = mem.salt
          /\ t.app = mem.app /\ t.admin = mem.admin
      BY <1>2 DEF States
    <3> HIDE DEF t
    <3>d. DeployConfig(t) = DeployConfig(mem)
      BY <3>1 DEF DeployConfig
    <3>2. Keeps(mem, t) /\ Sound(t, db', app')
      BY <2>3, <3>1, <3>d, <1>2 DEF Keeps, Sound
    <3>3. Reached(t, "config", db', app')
      BY <2>1, <3>1, <1>2 DEF Reached
    <3> QED BY <2>3, <3>1, <3>2, <3>3, <1>4
  <2> QED BY <2>2, <2>3, <1>7 DEF Generate
<1> QED BY <1>5, <1>6, <1>7 DEF GenerateSecrets

LEMMA ConfigInv ==
  ASSUME WizardInv, (\E item \in ConfigRows : SaveConfig(item)) \/ ConfigSaved
  PROVE  WizardInv'
<1> USE DEF AfterDatabase, AfterVerify, AfterKey, AfterSalt, AfterConfig, AfterDeploy
<1>1. pc = "config" /\ UNCHANGED <<file, mem, after, runs, cloudKey, server, app>>
  BY DEF SaveConfig, ConfigSaved, Go, world, local
<1>2. /\ mem \in States /\ file = mem /\ Sound(mem, db, app) /\ Reached(mem, "config", db, app)
      /\ WorldTypeOK /\ runs \in Ids /\ mem.url.db \in Places
      /\ mem.enc \in Ids /\ mem.salt \in Ids /\ mem.ssh \in Ids
  BY <1>1, FileIsState, StateParts DEF WizardInv
<1>3. {"config", "deploy"} \subseteq WizardSteps \ {"off", "image", "saving", "deploymentComesActive"}
  BY DEF WizardSteps, AfterSave
<1>4. ASSUME NEW item \in ConfigRows, SaveConfig(item) PROVE WizardInv'
  <2> DEFINE p == mem.url.db
             v == [enc |-> mem.enc, val |-> IF item = "hash_salt" THEN mem.salt ELSE mem.ssh]
             x == [db[p] EXCEPT !.rows = [@ EXCEPT ![item] = v]]
  <2>1. db' = [db EXCEPT ![p] = x] /\ pc' = pc
    BY <1>4 DEF SaveConfig, SetConfig, local
  <2>2. v \in [enc : Ids, val : Ids]
    BY <1>2
  <2>3. db[p] \in Databases /\ p \in Places
    BY <1>2 DEF WorldTypeOK
  <2>4. x \in Databases /\ x.admin = db[p].admin /\ x.pwd = db[p].pwd /\ x.schema = db[p].schema
    <3> HIDE DEF p, v
    <3> QED BY <2>2, <2>3 DEF Databases
  <2> HIDE DEF x, p
  <2>5. WorldTypeOK' /\ db'[p] = x /\ \A q \in Places : db[q].admin => db'[q].admin
    BY <2>1, <2>3, <2>4, <1>1, <1>2, OneDatabase
  <2>6. Sound(mem, db', app')
    BY <2>5, <1>1, <1>2, SoundStays
  <2>7. Reached(mem, "config", db', app')
    BY <2>4, <2>5, <1>2 DEF Reached, p
  <2> QED BY <2>1, <2>5, <2>6, <2>7, <1>1, <1>2, <1>3, GoesOn
<1>5. CASE ConfigSaved
  <2>1. pc' = "deploy" /\ db' = db /\ Holds(mem.url.db, mem)
    BY <1>5 DEF ConfigSaved, Go, world
  <2>2. WorldTypeOK'
    BY <2>1, <1>1, <1>2 DEF WorldTypeOK
  <2>3. Reached(mem, "deploy", db', app')
    BY <2>1, <1>1, <1>2 DEF Reached, Holds
  <2>4. Sound(mem, db', app')
    BY <2>1, <1>1, <1>2
  <2> QED BY <2>1, <2>2, <2>3, <2>4, <1>1, <1>2, <1>3, GoesOn
<1> QED BY <1>4, <1>5

\* One application gets what a state has.
LEMMA OneApplication ==
  ASSUME WorldTypeOK, NEW p \in Places, NEW t \in States,
         app' = [app EXCEPT ![p] = DeployConfig(t)], UNCHANGED <<cloudKey, server, db>>
  PROVE  /\ WorldTypeOK' /\ app'[p] = DeployConfig(t)
         /\ \A q \in Places : app'[q] = app[q] \/ app'[q] = DeployConfig(t)
BY DeployConfigType DEF WorldTypeOK

\* A deployed state says that its application has what it has.
LEMMA SoundDeployed ==
  ASSUME NEW t \in States, NEW d, NEW a, Sound(t, d, a), NEW p \in Places,
         a[p] = DeployConfig(t), "database" \in t.steps, t.enc # 0, t.salt # 0,
         NEW u \in States, u.steps \in {t.steps, t.steps \cup {"deployed"}},
         u.provider = t.provider, u.host = t.host, u.ssh = t.ssh, u.url = t.url,
         u.enc = t.enc, u.salt = t.salt, u.app = p, u.admin = t.admin
  PROVE  Sound(u, d, a) /\ Keeps(t, u) /\ a[u.app] = DeployConfig(u)
<1>1. DeployConfig(u) = DeployConfig(t)
  BY DEF DeployConfig
<1> QED BY <1>1 DEF Sound, Keeps

LEMMA StateWithApp ==
  ASSUME NEW t \in States, NEW p \in Places
  PROVE  LET u == [t EXCEPT !.app = p]
         IN  /\ u \in States /\ u.steps = t.steps
             /\ u.provider = t.provider /\ u.host = t.host /\ u.ssh = t.ssh /\ u.url = t.url
             /\ u.enc = t.enc /\ u.salt = t.salt /\ u.app = p /\ u.admin = t.admin
BY DEF States

LEMMA DeployInv ==
  ASSUME WizardInv, DeployKept \/ DeployOnServer \/ (\E a \in Places : DeployApp(a))
  PROVE  WizardInv'
<1> USE DEF AfterDatabase, AfterVerify, AfterKey, AfterSalt, AfterConfig, AfterDeploy
<1>1. pc = "deploy" /\ UNCHANGED <<cloudKey, server, db>>
  BY DEF DeployKept, DeployOnServer, DeployApp, world
<1>2. /\ mem \in States /\ file = mem /\ Saved /\ Sound(mem, db, app) /\ Reached(mem, "deploy", db, app)
      /\ WorldTypeOK /\ runs \in Ids /\ runs # 0 /\ mem.host \in Places
  BY <1>1, FileIsState, StateParts DEF WizardInv
<1>3. "database" \in mem.steps /\ mem.enc # 0 /\ mem.salt # 0
  BY <1>2 DEF Reached
<1>4. CASE DeployKept
  <2>1. /\ "deployed" \in mem.steps /\ pc' = "admin" /\ UNCHANGED <<file, mem, after, runs>>
        /\ app' = app
    BY <1>4 DEF DeployKept, Go, world
  <2>2. WorldTypeOK'
    BY <2>1, <1>1, <1>2 DEF WorldTypeOK
  <2>3. Reached(mem, "admin", db', app')
    BY <2>1, <1>1, <1>2 DEF Reached, Sound
  <2>4. "admin" \in WizardSteps \ {"off", "image", "saving", "deploymentComesActive"}
    BY DEF WizardSteps, AfterSave
  <2>5. Sound(mem, db', app')
    BY <2>1, <1>1, <1>2
  <2> QED BY <2>1, <2>2, <2>3, <2>4, <2>5, <1>1, <1>2, GoesOn
<1>5. CASE DeployOnServer
  <2> DEFINE u == [Done(mem, "deployed") EXCEPT !.app = mem.host]
  <2>1. app' = [app EXCEPT ![mem.host] = DeployConfig(mem)] /\ SaveState(u, "admin")
    BY <1>5 DEF DeployOnServer
  <2>2. /\ WorldTypeOK' /\ app'[mem.host] = DeployConfig(mem)
        /\ \A q \in Places : app'[q] = app[q] \/ app'[q] = DeployConfig(mem)
    BY <2>1, <1>1, <1>2, OneApplication
  <2>3. Sound(mem, db', app') /\ Sound(file, db', app')
    BY <2>2, <1>1, <1>2, SoundStays
  <2>4. "deployed" \in Steps /\ "admin" \in AfterSave
    BY DEF Steps, AfterSave
  <2>5. /\ u \in States /\ u.steps = mem.steps \cup {"deployed"}
        /\ u.provider = mem.provider /\ u.host = mem.host /\ u.ssh = mem.ssh /\ u.url = mem.url
        /\ u.enc = mem.enc /\ u.salt = mem.salt /\ u.app = mem.host /\ u.admin = mem.admin
    <3> DEFINE t == Done(mem, "deployed")
    <3>0. u = [t EXCEPT !.app = mem.host]
      OBVIOUS
    <3>1. /\ t \in States /\ t.steps = mem.steps \cup {"deployed"}
          /\ t.provider = mem.provider /\ t.host = mem.host /\ t.ssh = mem.ssh /\ t.url = mem.url
          /\ t.enc = mem.enc /\ t.salt = mem.salt /\ t.admin = mem.admin
      BY <2>4, <1>2, DoneState
    <3> HIDE DEF t, u
    <3> QED BY <3>0, <3>1, <1>2, StateWithApp
  <2> HIDE DEF u
  <2>6. Sound(u, db', app') /\ Keeps(mem, u) /\ app'[u.app] = DeployConfig(u)
    BY <2>2, <2>3, <2>5, <1>2, <1>3, SoundDeployed
  <2>7. Reached(u, "admin", db', app')
    BY <2>5, <2>6, <1>1, <1>2 DEF Reached
  <2> QED BY <2>1, <2>2, <2>3, <2>4, <2>5, <2>6, <2>7, <1>1, SaveBegins
<1>6. ASSUME NEW a \in Places, DeployApp(a) PROVE WizardInv'
  <2> DEFINE u == [mem EXCEPT !.app = a]
  <2>1. /\ app' = [app EXCEPT ![a] = DeployConfig(mem)] /\ mem' = u
        /\ pc' = "deploymentComesActive" /\ UNCHANGED <<file, after, runs>>
    BY <1>6 DEF DeployApp
  <2>2. /\ WorldTypeOK' /\ app'[a] = DeployConfig(mem)
        /\ \A q \in Places : app'[q] = app[q] \/ app'[q] = DeployConfig(mem)
    BY <2>1, <1>1, <1>2, OneApplication
  <2>3. Sound(mem, db', app') /\ Sound(file, db', app')
    BY <2>2, <1>1, <1>2, SoundStays
  <2>5. /\ u \in States /\ u.steps = mem.steps
        /\ u.provider = mem.provider /\ u.host = mem.host /\ u.ssh = mem.ssh /\ u.url = mem.url
        /\ u.enc = mem.enc /\ u.salt = mem.salt /\ u.app = a /\ u.admin = mem.admin
    BY <1>2, StateWithApp
  <2>8. u = [file EXCEPT !.app = u.app]
    BY <2>5, <1>2
  <2> HIDE DEF u
  <2>6. Sound(u, db', app') /\ Keeps(mem, u) /\ app'[u.app] = DeployConfig(u)
    BY <2>2, <2>3, <2>5, <1>2, <1>3, SoundDeployed
  <2>7. Reached(u, "deploymentComesActive", db', app')
    BY <2>5, <2>6, <1>1, <1>2 DEF Reached
  <2>9. Saved' <=> Saved
    BY <2>1 DEF Saved
  <2>10. WizardTypeOK'
    BY <2>1, <2>2, <2>5, <1>2 DEF WizardInv, WizardTypeOK, WizardSteps
  <2>11. FileInv'
    BY <2>1, <2>6, <2>8, <2>9, <1>2 DEF FileInv
  <2> QED BY <2>1, <2>3, <2>6, <2>7, <2>9, <2>10, <2>11 DEF WizardInv
<1> QED BY <1>4, <1>5, <1>6

LEMMA ActiveInv ==
  ASSUME WizardInv, DeploymentActive
  PROVE  WizardInv'
<1> USE DEF AfterDatabase, AfterVerify, AfterKey, AfterSalt, AfterConfig, AfterDeploy
<1> DEFINE u == Done(mem, "deployed")
<1>1. /\ pc = "deploymentComesActive" /\ SaveState(u, "admin")
      /\ UNCHANGED <<cloudKey, server, db, app>>
  BY DEF DeploymentActive, world
<1>2. /\ mem \in States /\ Sound(mem, db', app') /\ Reached(mem, pc, db', app')
      /\ WorldTypeOK' /\ mem.app \in Places /\ (Saved => Sound(file, db', app'))
  BY <1>1, FileIsState, StateParts DEF WizardInv, WorldTypeOK
<1>3. /\ "database" \in mem.steps /\ mem.enc # 0 /\ mem.salt # 0
      /\ app'[mem.app] = DeployConfig(mem)
  BY <1>1, <1>2 DEF Reached
<1>4. "deployed" \in Steps /\ "admin" \in AfterSave
  BY DEF Steps, AfterSave
<1>5. /\ u \in States /\ u.steps = mem.steps \cup {"deployed"}
      /\ u.provider = mem.provider /\ u.host = mem.host /\ u.ssh = mem.ssh /\ u.url = mem.url
      /\ u.enc = mem.enc /\ u.salt = mem.salt /\ u.app = mem.app /\ u.admin = mem.admin
  BY <1>2, <1>4, DoneState
<1> HIDE DEF u
<1>6. Sound(u, db', app') /\ Keeps(mem, u) /\ app'[u.app] = DeployConfig(u)
  BY <1>2, <1>3, <1>5, SoundDeployed
<1>7. Reached(u, "admin", db', app')
  BY <1>1, <1>2, <1>5, <1>6 DEF Reached
<1> QED BY <1>1, <1>2, <1>4, <1>5, <1>6, <1>7, SaveBegins

LEMMA AdminInv ==
  ASSUME WizardInv, CreateAdmin \/ AdminKept
  PROVE  WizardInv'
<1> USE DEF AfterDatabase, AfterVerify, AfterKey, AfterSalt, AfterConfig, AfterDeploy
<1>1. pc = "admin" /\ UNCHANGED <<cloudKey, server, app>>
  BY DEF CreateAdmin, AdminKept, world
<1>2. /\ mem \in States /\ file = mem /\ Sound(mem, db, app) /\ Reached(mem, "admin", db, app)
      /\ WorldTypeOK /\ mem.url.db \in Places
  BY <1>1, FileIsState, StateParts DEF WizardInv
<1>3. "complete" \in AfterSave
      /\ "complete" \in WizardSteps \ {"off", "image", "saving", "deploymentComesActive"}
  BY DEF WizardSteps, AfterSave
<1>4. CASE AdminKept
  <2>1. mem.admin /\ pc' = "complete" /\ db' = db /\ UNCHANGED <<file, mem, after, runs>>
    BY <1>4 DEF AdminKept, Go, world
  <2>2. WorldTypeOK' /\ Sound(mem, db', app')
    BY <2>1, <1>1, <1>2 DEF WorldTypeOK
  <2>3. Reached(mem, "complete", db', app')
    BY <2>1, <1>1, <1>2 DEF Reached
  <2> QED BY <2>1, <2>2, <2>3, <1>1, <1>2, <1>3, GoesOn
<1>5. CASE CreateAdmin
  <2> DEFINE p == mem.url.db
             x == [db[p] EXCEPT !.admin = TRUE]
             u == [mem EXCEPT !.admin = TRUE]
  <2>1. db' = [db EXCEPT ![p] = x] /\ SaveState(u, "complete")
    BY <1>5 DEF CreateAdmin
  <2>2. /\ x \in Databases /\ x.admin /\ x.pwd = db[p].pwd
        /\ x.schema = db[p].schema /\ x.rows = db[p].rows
    BY <1>2, DatabaseParts DEF WorldTypeOK
  <2> HIDE DEF x
  <2>3. WorldTypeOK' /\ db'[p] = x /\ \A q \in Places : db[q].admin => db'[q].admin
    BY <2>1, <2>2, <1>1, <1>2, OneDatabase
  <2>4. Sound(mem, db', app') /\ Sound(file, db', app')
    BY <2>3, <1>1, <1>2, SoundStays
  <2>5. /\ u \in States /\ u.steps = mem.steps
        /\ u.provider = mem.provider /\ u.host = mem.host /\ u.ssh = mem.ssh /\ u.url = mem.url
        /\ u.enc = mem.enc /\ u.salt = mem.salt /\ u.app = mem.app /\ u.admin
    BY <1>2 DEF States
  <2> HIDE DEF u
  <2>d. DeployConfig(u) = DeployConfig(mem)
    BY <2>5 DEF DeployConfig
  <2>b. "database" \in mem.steps
    BY <1>2 DEF Reached
  <2>6. Sound(u, db', app') /\ Keeps(mem, u)
    BY <2>2, <2>3, <2>4, <2>5, <2>b, <2>d DEF Sound, Keeps
  <2>7. Reached(u, "complete", db', app')
    BY <2>2, <2>3, <2>5, <2>d, <1>1, <1>2 DEF Reached
  <2> QED BY <2>1, <2>3, <2>4, <2>5, <2>6, <2>7, <1>1, <1>3, SaveBegins
<1> QED BY <1>4, <1>5

\* The other commands leave the run and the file alone.
LEMMA CommandsInv ==
  ASSUME WizardInv, Update \/ AdminCommand
  PROVE  WizardInv'
<1>1. pc = "off" /\ UNCHANGED <<file, mem, pc, after, cloudKey, server>>
  BY DEF Update, AdminCommand, local
<1>2. /\ WorldTypeOK /\ runs \in Ids /\ mem = Fresh /\ (Saved => file \in States)
      /\ (Saved => Sound(file, db, app))
  BY <1>1, FileIsState DEF WizardInv, FileInv
\* What the commands may do.
<1>k. ASSUME WorldTypeOK', runs' \in Ids, \A q \in Places : db[q].admin => db'[q].admin,
             app' = app \/ (Saved /\ \A q \in Places : app'[q] = app[q] \/ app'[q] = DeployConfig(file))
      PROVE  WizardInv'
  <2>1. WizardTypeOK'
    BY <1>1, <1>k DEF WizardInv, WizardTypeOK
  <2>2. FileInv' /\ (Saved' <=> Saved)
    BY <1>1, <1>2 DEF FileInv, Saved
  <2>3. Saved => Sound(file, db', app')
    BY <1>2, <1>k, SoundStays
  <2> QED BY <1>1, <1>2, <2>1, <2>2, <2>3, FreshSound, EarlyReached DEF WizardInv
<1>3. ASSUME NEW place \in Places, db' = [db EXCEPT ![place].admin = TRUE], UNCHANGED <<runs, app>>
      PROVE  WizardInv'
  <2> DEFINE x == [db[place] EXCEPT !.admin = TRUE]
  <2>1. x \in Databases /\ x.admin
    BY <1>2, DatabaseParts DEF WorldTypeOK
  <2>2. db' = [db EXCEPT ![place] = x]
    BY <1>3
  <2> HIDE DEF x
  <2>3. WorldTypeOK' /\ \A q \in Places : db[q].admin => db'[q].admin
    BY <1>1, <1>2, <1>3, <2>1, <2>2, OneDatabase
  <2> QED BY <1>2, <1>3, <2>3, <1>k
<1>4. CASE Update
  <2> DEFINE p == file.url.db
             x == [db[p] EXCEPT !.schema = TRUE]
  <2>1. Saved /\ runs' = runs + 1 /\ runs < MaxRuns /\ db' = [db EXCEPT ![p] = x]
    BY <1>4 DEF Update, Migrated
  <2>2. file \in States /\ p \in Places /\ file.host \in Places
    BY <2>1, <1>2, StateParts
  <2>3. x \in Databases /\ x.admin = db[p].admin
    BY <2>2, <1>2, DatabaseParts DEF WorldTypeOK
  <2> HIDE DEF x, p
  <2>4. db' \in [Places -> Databases] /\ \A q \in Places : db[q].admin => db'[q].admin
    BY <2>1, <2>2, <2>3, <1>2 DEF WorldTypeOK
  <2>5. runs' \in Ids
    BY <2>1, <1>2, RunsAssumption DEF Ids
  <2>6. CASE app' = app
    BY <2>4, <2>5, <2>6, <1>1, <1>2, <1>k DEF WorldTypeOK
  <2>7. ASSUME NEW a \in Places, app' = [app EXCEPT ![a] = DeployConfig(file)]
        PROVE  WizardInv'
    <3>1. DeployConfig(file) \in Deployments
      BY <2>2, DeployConfigType
    <3>2. /\ app' \in [Places -> Deployments]
          /\ \A q \in Places : app'[q] = app[q] \/ app'[q] = DeployConfig(file)
      BY <3>1, <2>7, <1>2 DEF WorldTypeOK
    <3> QED BY <3>2, <2>1, <2>4, <2>5, <1>1, <1>2, <1>k DEF WorldTypeOK
  <2>8. app' = app \/ \E a \in Places : app' = [app EXCEPT ![a] = DeployConfig(file)]
    <3>1. \/ UNCHANGED app
          \/ \E a \in IF file.provider # "do" THEN {file.host}
                      ELSE Found(file) \cup {b \in {<<"do", runs'>>} : file.app = Nowhere} :
               app' = [app EXCEPT ![a] = DeployConfig(file)]
      BY <1>4 DEF Update
    <3>2. Found(file) \subseteq Places
      BY <2>2, StateParts DEF Found
    <3>3. <<"do", runs'>> \in Places
      BY <2>5, WizardIds DEF Providers
    <3> QED BY <3>1, <3>2, <3>3, <2>2
  <2> QED BY <2>6, <2>7, <2>8
<1> QED BY <1>3, <1>4 DEF Update, AdminCommand, local

LEMMA WizardNextInv == WizardInv /\ [WizardNext]_wizardVars => WizardInv'
<1> SUFFICES ASSUME WizardInv, [WizardNext]_wizardVars PROVE WizardInv'
  OBVIOUS
<1>1. CASE Exit \/ DiesWhileWriting
  <2>1. Off /\ UNCHANGED world /\ (file' = file \/ file' \in {NoFile, Torn})
    BY <1>1 DEF Exit, DiesWhileWriting
  <2> QED BY <2>1, TurnsOff
<1>2. CASE BeginStep
  BY <1>2, BeginsInv, ImageInv DEF BeginStep
<1>3. CASE ProviderStep
  BY <1>3, InitProviderInv, ConnectInv DEF ProviderStep
<1>4. CASE SecretStep
  BY <1>4, GenerateInv, ConfigInv DEF SecretStep
<1>5. CASE DeployStep
  BY <1>5, DeployInv, ActiveInv, AdminInv DEF DeployStep
<1>6. CASE UNCHANGED wizardVars
  <2>1. UNCHANGED <<file, mem, pc, after, runs, cloudKey, server, db, app>>
    BY <1>6 DEF wizardVars, local, world
  <2> QED BY <2>1 DEF WizardInv, WizardTypeOK, WorldTypeOK, FileInv, Saved
<1> QED BY <1>1, <1>2, <1>3, <1>4, <1>5, <1>6, FileWrittenInv, DatabaseStepInv, CommandsInv
        DEF WizardNext

\* The invariant of the file, of the run and of what the runs have made.
THEOREM WizardInvariance == WizardSpec => []WizardInv
BY WizardInitInv, WizardNextInv, PTL DEF WizardSpec

\* "Provisioning complete" means that what the wizard set up can be used, after any
\* number of runs that died, were resumed or started afresh.
THEOREM CompleteIsUsable == WizardSpec => []CompleteMeansUsable
<1>1. WizardInv => CompleteMeansUsable
  <2> SUFFICES ASSUME WizardInv, pc = "complete" PROVE CompleteMeansUsable
    BY DEF CompleteMeansUsable
  <2>1. file = mem /\ Sound(mem, db, app) /\ Reached(mem, "complete", db, app)
    BY FileIsState DEF WizardInv
  <2> QED BY <2>1 DEF CompleteMeansUsable, Sound, Reached, Connects, Holds, AfterDatabase,
                      AfterVerify, AfterKey, AfterSalt, AfterConfig, AfterDeploy
<1> QED BY <1>1, WizardInvariance, PTL

\* The resumed runs keep the secrets of the file: nothing is generated twice.
THEOREM SecretsAreKept == WizardSpec => SavedSecretsAreKept
<1> DEFINE Step == Saved /\ Saved' => Keeps(file, file')
<1>1. WizardInv /\ [WizardNext]_wizardVars => [Step]_wizardVars
  <2> SUFFICES ASSUME WizardInv, WizardNext, Saved, Saved' PROVE Keeps(file, file')
    OBVIOUS
  <2>1. CASE file' = file
    BY <2>1, KeepsItself
  <2>2. CASE FileWritten
    <3>1. pc = "saving" /\ file' = mem
      BY <2>2 DEF FileWritten
    <3> QED BY <3>1 DEF WizardInv, FileInv
  <2>3. CASE Discard \/ DiesWhileWriting
    BY <2>3 DEF Discard, DiesWhileWriting, Saved
  <2>4. file' = file \/ FileWritten \/ Discard \/ DiesWhileWriting
    BY DEF WizardNext, Exit, BeginStep, Start, Resume, ImageKept, ImagePushed, Go, SaveState,
           ProviderStep, InitVPS, InitDO, InitHetznerSaved, InitHetzner, CheckConnectivity, Setup,
           DatabaseStep, DatabaseKept, CreateOnServer, CreateCluster, ClusterOnline, UseExistingDB,
           DatabaseIs, VerifyAndMigrate, SecretStep, GenerateSecrets, Generate, SaveConfig,
           ConfigSaved, DeployStep, DeployKept, DeployOnServer, DeployApp, DeploymentActive,
           CreateAdmin, AdminKept, Update, AdminCommand
  <2> QED BY <2>1, <2>2, <2>3, <2>4
<1>2. [][Step]_wizardVars => SavedSecretsAreKept
  <2>1. [Step]_wizardVars =>
          [Saved /\ Saved' =>
             /\ file.enc # 0 => file'.enc = file.enc
             /\ file.salt # 0 => file'.salt = file.salt
             /\ file.ssh # 0 => file'.ssh = file.ssh
             /\ file.url # NoURL => file'.url = file.url
             /\ file.host # Nowhere => file'.host = file.host]_wizardVars
    BY DEF Keeps
  <2> HIDE DEF Step
  <2> QED BY <2>1, PTL DEF SavedSecretsAreKept
<1> HIDE DEF Step
<1> QED BY <1>1, <1>2, WizardInvariance, PTL DEF WizardSpec

\* Rows and applications are written with the secrets of the file at that moment.
THEOREM UsedAreSaved == WizardSpec => UsedSecretsAreSaved
<1> DEFINE RowsSaved == \A p \in Places, r \in ConfigRows :
                     db'[p].rows[r] # db[p].rows[r] =>
                       Saved /\ db'[p].rows[r].enc = file.enc /\ file.enc # 0
           AppsSaved == \A p \in Places : app'[p] # app[p] => Saved /\ app'[p] = DeployConfig(file)
<1>1. WizardInv /\ [WizardNext]_wizardVars => [RowsSaved /\ AppsSaved]_wizardVars
  <2> SUFFICES ASSUME WizardInv, WizardNext PROVE RowsSaved /\ AppsSaved
    OBVIOUS
  <2> HIDE DEF RowsSaved, AppsSaved
  <2>0. db \in [Places -> Databases] /\ app \in [Places -> Deployments]
    BY DEF WizardInv, WizardTypeOK, WorldTypeOK
  <2>1. ASSUME db' = db PROVE RowsSaved
    BY <2>1 DEF RowsSaved
  <2>2. ASSUME app' = app PROVE AppsSaved
    BY <2>2 DEF AppsSaved
  <2>3. ASSUME NEW p \in Places, NEW x, x.rows = db[p].rows, db' = [db EXCEPT ![p] = x]
        PROVE  RowsSaved
    BY <2>0, <2>3 DEF RowsSaved
  <2>4. ASSUME NEW p \in Places, NEW i, db' = [db EXCEPT ![p].pwd = i]
        PROVE  RowsSaved
    <3>1. [db[p] EXCEPT !.pwd = i].rows = db[p].rows
      BY <2>0 DEF Databases
    <3> QED BY <3>1, <2>3, <2>4
  <2>5. ASSUME NEW p \in Places, db' = [db EXCEPT ![p].schema = TRUE]
        PROVE  RowsSaved
    <3>1. [db[p] EXCEPT !.schema = TRUE].rows = db[p].rows
      BY <2>0 DEF Databases
    <3> QED BY <3>1, <2>3, <2>5
  <2>6. ASSUME NEW p \in Places, db' = [db EXCEPT ![p].admin = TRUE]
        PROVE  RowsSaved
    <3>1. [db[p] EXCEPT !.admin = TRUE].rows = db[p].rows
      BY <2>0 DEF Databases
    <3> QED BY <3>1, <2>3, <2>6
  <2>7. ASSUME NEW item \in ConfigRows, SaveConfig(item)
        PROVE  RowsSaved /\ AppsSaved
    <3> DEFINE p == mem.url.db
               v == [enc |-> mem.enc, val |-> IF item = "hash_salt" THEN mem.salt ELSE mem.ssh]
    <3>1. pc = "config" /\ db' = [db EXCEPT ![p].rows[item] = v] /\ app' = app
      BY <2>7 DEF SaveConfig, SetConfig
    <3>2. file = mem /\ Saved /\ mem \in States /\ Reached(mem, "config", db, app)
      BY <3>1, FileIsState
    <3>3. mem.enc # 0 /\ p \in Places /\ v.enc = mem.enc
      BY <3>2, StateParts DEF Reached, AfterKey, AfterSalt
    <3> HIDE DEF v, p
    <3>4. \A q \in Places, r \in ConfigRows :
            db'[q].rows[r] = IF q = p /\ r = item THEN v ELSE db[q].rows[r]
      BY <3>1, <3>3, <2>0 DEF Databases
    <3> QED BY <3>1, <3>2, <3>3, <3>4, <2>2 DEF RowsSaved
  <2>8. ASSUME Saved, NEW a \in Places, app' = [app EXCEPT ![a] = DeployConfig(file)]
        PROVE  AppsSaved
    BY <2>8, <2>0 DEF AppsSaved
  <2>9. CASE DeployOnServer \/ \E a \in Places : DeployApp(a)
    <3>1. pc = "deploy" /\ db' = db
      BY <2>9 DEF DeployOnServer, DeployApp
    <3>2. file = mem /\ Saved /\ mem.host \in Places
      BY <3>1, FileIsState, StateParts
    <3>3. \E a \in Places : app' = [app EXCEPT ![a] = DeployConfig(file)]
      BY <2>9, <3>2 DEF DeployOnServer, DeployApp
    <3> QED BY <3>1, <3>2, <3>3, <2>1, <2>8
  <2>10. CASE Update
    <3>1. Saved /\ file \in States /\ db' = [db EXCEPT ![file.url.db].schema = TRUE]
          /\ runs' = runs + 1 /\ runs < MaxRuns /\ runs \in Ids
      BY <2>10, FileIsState DEF Update, Migrated
    <3>2. file.host \in Places /\ file.url.db \in Places /\ Found(file) \subseteq Places
      BY <3>1, StateParts DEF Found
    <3>3. <<"do", runs'>> \in Places
      <4>1. runs' \in Ids
        BY <3>1, RunsAssumption DEF Ids
      <4> QED BY <4>1, WizardIds DEF Providers
    <3>4. app' = app \/ \E a \in Places : app' = [app EXCEPT ![a] = DeployConfig(file)]
      <4>1. \/ UNCHANGED app
            \/ \E a \in IF file.provider # "do" THEN {file.host}
                        ELSE Found(file) \cup {b \in {<<"do", runs'>>} : file.app = Nowhere} :
                 app' = [app EXCEPT ![a] = DeployConfig(file)]
        BY <2>10 DEF Update
      <4> QED BY <4>1, <3>2, <3>3
    <3> QED BY <3>1, <3>2, <3>4, <2>2, <2>5, <2>8
  <2>11. CASE AdminCommand
    BY <2>11, <2>2, <2>6 DEF AdminCommand
  <2>12. CASE CreateOnServer \/ CreateCluster
    <3>1. app' = app /\ pc # "off" /\ mem.host \in Places /\ runs \in Ids
      BY <2>12, FileIsState, StateParts DEF CreateOnServer, CreateCluster, WantsDatabase
    <3>2. <<"do", runs>> \in Places
      BY <3>1, WizardIds DEF Providers
    <3>3. \E p \in Places : \E i \in {runs, db[p].pwd} : db' = [db EXCEPT ![p].pwd = i]
      <4>1. CASE CreateCluster
        BY <4>1, <3>2 DEF CreateCluster
      <4>2. CASE CreateOnServer
        BY <4>2, <3>1 DEF CreateOnServer, RunDBScript
      <4> QED BY <4>1, <4>2, <2>12
    <3> QED BY <3>1, <3>3, <2>2, <2>4
  <2>13. CASE VerifyAndMigrate \/ CreateAdmin
    <3>1. app' = app /\ pc \in {"verify", "admin"} /\ mem.url.db \in Places
          /\ \/ db' = [db EXCEPT ![mem.url.db].schema = TRUE]
             \/ db' = [db EXCEPT ![mem.url.db].admin = TRUE]
      BY <2>13, FileIsState, StateParts DEF VerifyAndMigrate, Migrated, CreateAdmin
    <3> QED BY <3>1, <2>2, <2>5, <2>6
  <2>14. \/ db' = db /\ app' = app
         \/ DeployOnServer \/ (\E a \in Places : DeployApp(a)) \/ Update \/ AdminCommand
         \/ (\E item \in ConfigRows : SaveConfig(item))
         \/ CreateOnServer \/ CreateCluster \/ VerifyAndMigrate \/ CreateAdmin
    BY DEF WizardNext, FileWritten, Exit, DiesWhileWriting, BeginStep, Start, Resume, Discard,
           Begins, ImageKept, ImagePushed, ProviderStep, InitVPS, InitDO, InitHetznerSaved,
           InitHetzner, CheckConnectivity, Setup, DatabaseStep, DatabaseKept, ClusterOnline,
           UseExistingDB, SecretStep, GenerateSecrets, ConfigSaved, DeployStep, DeployKept,
           DeploymentActive, AdminKept, world
  <2> QED BY <2>1, <2>2, <2>7, <2>9, <2>10, <2>11, <2>12, <2>13, <2>14
<1>2. [][RowsSaved /\ AppsSaved]_wizardVars => UsedSecretsAreSaved
  <2>1. [RowsSaved /\ AppsSaved]_wizardVars =>
          [/\ \A p \in Places, r \in ConfigRows :
                db'[p].rows[r] # db[p].rows[r] =>
                  Saved /\ db'[p].rows[r].enc = file.enc /\ file.enc # 0
           /\ \A p \in Places : app'[p] # app[p] => Saved /\ app'[p] = DeployConfig(file)]_wizardVars
    OBVIOUS
  <2> HIDE DEF RowsSaved, AppsSaved
  <2> QED BY <2>1, PTL DEF UsedSecretsAreSaved
<1> HIDE DEF RowsSaved, AppsSaved
<1> QED BY <1>1, <1>2, WizardInvariance, PTL DEF WizardSpec

=============================================================================
