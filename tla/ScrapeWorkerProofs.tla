------------------------- MODULE ScrapeWorkerProofs -------------------------
(***************************************************************************)
(* Safety of Work and the CentralWriter for any set of jobs and any number  *)
(* of attempts and places.  The argument follows the registration of the    *)
(* attempt that Work executes: it is in the writer's current, in exactly one *)
(* flush, or its result is in the completion channel.                       *)
(***************************************************************************)
EXTENDS ScrapeWorker, FiniteSetTheorems, TLAPS

\* The registration of the attempt in execution is in exactly one place.
RegInv ==
  /\ work.pc = "idle" <=> work.att = None
  /\ work.pc = "idle" => work = Idle
  /\ current.att # None => current.att = work.att /\ work.pc \in {"registered", "waiting"}
  /\ \A a \in Attempts : completion[a].full =>
       a = work.att /\ current.att = None /\ flushes = {}
  /\ \A f \in flushes : f.by = "work" => work.pc = "flushing"
  /\ work.pc # "idle" =>
       \/ current.att = work.att
       \/ completion[work.att].full
       \/ \E f \in flushes : f.att = work.att
  /\ work.pc \in {"flushing", "awaiting"} => current.att = None

\* A good flush result means that the job's row is there, unless it is being deleted.
RowInv ==
  /\ \A a \in Attempts :
       completion[a].full /\ completion[a].ok /\ ~Deleting(Job(a)) => table[Job(a)].saved
  /\ CompletedHasRow

IInv == TypeOK /\ RegInv /\ OneFlushPerRegistration /\ NoCrossJobEntries /\ RowInv

----------------------------------------------------------------------------
\* Attempts are pairs, so None is neither an attempt nor a job.
LEMMA AttemptFacts ==
  /\ None \notin Attempts /\ None \notin Jobs
  /\ \A a \in Attempts : Job(a) \in Jobs
  /\ \A j \in Jobs, i \in 1 .. MaxAttempts : <<j, i>> \in Attempts /\ Job(<<j, i>>) = j
  /\ \A a \in Attempts, k \in 1 .. MaxPlaces : <<a, k>> \in Entries
BY NoneAssumption DEF Attempts, Job, Entries

\* A buffer holds finitely many entries.
LEMMA EntryCount == \A E \in SUBSET Entries : Cardinality(E) \in Nat
<1>1. IsFiniteSet(1 .. MaxAttempts) /\ IsFiniteSet(1 .. MaxPlaces)
  BY FS_Interval, AttemptsAssumption, PlacesAssumption
<1>2. IsFiniteSet(Attempts)
  BY <1>1, JobsAssumption, FS_Product DEF Attempts
<1>3. IsFiniteSet(Entries)
  BY <1>1, <1>2, FS_Product DEF Entries
<1> QED BY <1>3, FS_Subset, FS_CardinalityType

----------------------------------------------------------------------------
\* The type invariant is inductive.
LEMMA TypeStep == TypeOK /\ RegInv /\ [Next]_vars => TypeOK'
<1> SUFFICES ASSUME TypeOK, RegInv, [Next]_vars PROVE TypeOK'
  OBVIOUS
<1> USE AttemptFacts DEF TypeOK, Final, queue, database, writer, scrape, Step
<1>1. ASSUME work.pc # "idle" PROVE work.att \in Attempts
  BY <1>1 DEF RegInv
<1>2. ASSUME NEW j \in Jobs, NEW by \in {"work", "monitor"}, Flush(j, by)
      PROVE  flushes' \subseteq FlushRecords
             /\ current' \in [att : Attempts \cup {None}, entries : SUBSET Entries]
  BY <1>2 DEF Flush, Tracks, Untracked, FlushRecords
<1>3. CASE WorkStep
  <2>1. CASE SubmitStep
    <3>1. CASE SubmitFails
      BY <3>1, <1>1, <1>2 DEF SubmitFails, ForceFlush
    <3>2. ASSUME NEW n \in 0 .. MaxPlaces, SubmitJob(n) PROVE TypeOK'
      BY <3>2, <1>1 DEF SubmitJob
    <3> QED BY <2>1, <3>1, <3>2 DEF SubmitStep
  <2>2. CASE TimerFires
    BY <2>2, <1>1, <1>2 DEF TimerFires, ForceFlush
  <2>3. ASSUME NEW why \in {"deadline", "cancel"}, CtxDone(why) PROVE TypeOK'
    BY <2>3, <1>1, <1>2 DEF CtxDone, ForceFlush
  <2>4. ASSUME NEW nil \in BOOLEAN, work.pc # "idle", Return(nil) PROVE TypeOK'
    <3>1. Outcome(Job(work.att), nil) \in {"available", "running", "retryable"} \cup Final
      BY <2>4, <1>1 DEF Outcome
    <3>2. Empty \in [full : BOOLEAN, ok : BOOLEAN, count : Nat]
      BY DEF Empty
    <3> QED BY <2>4, <3>1, <3>2, <1>1 DEF Return, Idle
  <2>5. CASE WorkCompletes
    BY <2>5, <2>4, <1>1 DEF WorkCompletes
  <2>6. CASE WorkFlushed
    BY <2>6, <2>4, <1>1 DEF WorkFlushed, PartialSuccess
  <2> QED BY <1>3, <2>1, <2>2, <2>3, <2>5, <2>6 DEF WorkStep
<1>4. ASSUME NEW f \in flushes, NEW ok \in BOOLEAN, FlushEnds(f, ok) PROVE TypeOK'
  <2>1. f \in FlushRecords /\ Cardinality(f.entries) \in Nat /\ f.att \in Attempts
    BY EntryCount DEF FlushRecords
  <2>2. Row(f.entries) \in [saved : BOOLEAN, entries : SUBSET Entries]
    BY <2>1 DEF Row, FlushRecords
  <2>3. FlushResult(ok, Cardinality(f.entries)) \in [full : BOOLEAN, ok : BOOLEAN, count : Nat]
    BY <2>1 DEF FlushResult
  <2> QED BY <1>4, <2>1, <2>2, <2>3 DEF FlushEnds
<1>5. ASSUME NEW a \in Attempts, ScrapeStep(a) PROVE TypeOK'
  <2>1. CASE PlaceWritten(a)
    <3>1. left[a] \in 1 .. MaxPlaces /\ left[a] - 1 \in 0 .. MaxPlaces
      BY <2>1, PlacesAssumption DEF PlaceWritten
    <3> QED BY <2>1, <3>1 DEF PlaceWritten, AddResult
  <2>2. CASE PlaceFails(a)
    <3>1. left[a] - 1 \in 0 .. MaxPlaces
      BY <2>2, PlacesAssumption DEF PlaceFails
    <3> QED BY <2>2, <3>1 DEF PlaceFails
  <2>3. CASE MonitorReceives(a)
    BY <2>3 DEF MonitorReceives
  <2>4. CASE MonitorMarksDone(a)
    BY <2>4, <1>2 DEF MonitorMarksDone
  <2>5. CASE MonitorStops(a)
    BY <2>5 DEF MonitorStops
  <2> QED BY <1>5, <2>1, <2>2, <2>3, <2>4, <2>5 DEF ScrapeStep
<1>6. ASSUME NEW j \in Jobs, RiverStep(j) PROVE TypeOK'
  <2>1. CASE Fetch(j)
    <3>1. attempt[j] + 1 \in 1 .. MaxAttempts /\ attempt[j] + 1 \in 0 .. MaxAttempts
      BY <2>1, AttemptsAssumption DEF Fetch
    <3> QED BY <2>1, <3>1 DEF Fetch, RegisterJob
  <2>2. CASE RetryDue(j)
    BY <2>2 DEF RetryDue
  <2>3. CASE PromoteLists(j)
    BY <2>3 DEF PromoteLists
  <2>4. CASE PromoteRetries(j)
    BY <2>4 DEF PromoteRetries
  <2>5. CASE Rescue(j)
    <3>1. Outcome(j, FALSE) \in {"available", "running", "retryable"} \cup Final
      BY DEF Outcome
    <3> QED BY <2>5, <3>1 DEF Rescue
  <2> QED BY <1>6, <2>1, <2>2, <2>3, <2>4, <2>5 DEF RiverStep
<1>7. ASSUME NEW j \in Deletable, DeletionStep(j) PROVE TypeOK'
  <2>1. j \in Jobs
    BY DeletableAssumption
  <2>2. CASE DeleteReads(j)
    BY <2>1, <2>2 DEF DeleteReads
  <2>3. ASSUME NEW ok \in BOOLEAN, DeleteCancels(j, ok) PROVE TypeOK'
    BY <2>1, <2>3 DEF DeleteCancels
  <2>4. ASSUME NEW ok \in BOOLEAN, DeleteInserts(j, ok) PROVE TypeOK'
    BY <2>1, <2>4 DEF DeleteInserts
  <2>5. CASE DeleteResults(j)
    BY <2>1, <2>5 DEF DeleteResults, NoRow
  <2>6. CASE DeleteRow(j)
    BY <2>1, <2>6 DEF DeleteRow
  <2>7. CASE DeleteFails(j)
    <3>1. PICK to \in {"retrying", "gaveup"} : deletion' = [deletion EXCEPT ![j] = to]
      BY <2>7 DEF DeleteFails
    <3>2. UNCHANGED <<queue, table, work, writer, scrape>>
      BY <2>7 DEF DeleteFails
    <3> QED BY <2>1, <3>1, <3>2
  <2> QED BY <1>7, <2>2, <2>3, <2>4, <2>5, <2>6, <2>7 DEF DeletionStep
<1>8. CASE Crash
  BY <1>8 DEF Crash, Idle, Untracked, Empty
<1>9. CASE UNCHANGED vars
  BY <1>9 DEF vars
<1> QED BY <1>3, <1>4, <1>5, <1>6, <1>7, <1>8, <1>9 DEF Next, FlushStep

----------------------------------------------------------------------------
\* The steps that move the registration; every other step leaves it alone.
RegStep ==
  \/ WorkStep
  \/ FlushStep
  \/ \E a \in Attempts : PlaceWritten(a) \/ MonitorMarksDone(a)
  \/ \E j \in Jobs : Fetch(j)
  \/ Crash

LEMMA OtherSteps == [Next]_vars => RegStep \/ UNCHANGED <<work, writer>>
<1> SUFFICES ASSUME Next, ~RegStep PROVE UNCHANGED <<work, writer>>
  BY DEF vars, writer
<1>1. CASE \E a \in Attempts : PlaceFails(a) \/ MonitorReceives(a) \/ MonitorStops(a)
  BY <1>1 DEF PlaceFails, MonitorReceives, MonitorStops, writer
<1>2. CASE \E j \in Jobs : RetryDue(j) \/ PromoteLists(j) \/ PromoteRetries(j) \/ Rescue(j)
  BY <1>2 DEF RetryDue, PromoteLists, PromoteRetries, Rescue, writer
<1>3. CASE \E j \in Deletable : DeletionStep(j)
  BY <1>3 DEF DeletionStep, DeleteReads, DeleteCancels, DeleteInserts, DeleteResults,
             DeleteRow, DeleteFails, writer
<1> QED BY <1>1, <1>2, <1>3 DEF Next, RegStep, ScrapeStep, RiverStep

\* The registration stays in exactly one place, and only one flush takes it.
LEMMA RegistrationStep ==
  TypeOK /\ RegInv /\ OneFlushPerRegistration /\ [Next]_vars =>
    RegInv' /\ OneFlushPerRegistration'
<1> SUFFICES ASSUME TypeOK, RegInv, OneFlushPerRegistration, [Next]_vars
             PROVE  RegInv' /\ OneFlushPerRegistration'
  OBVIOUS
<1> USE AttemptFacts DEF RegInv, OneFlushPerRegistration, writer
<1>0. /\ \A a \in Attempts : completion[a].full \in BOOLEAN
      /\ work.pc # "idle" => work.att \in Attempts
      /\ \A f \in flushes : f.att \in Attempts
      /\ \A f \in flushes : f.by \in {"work", "monitor"}
  BY DEF TypeOK, FlushRecords
<1>a. ASSUME NEW j \in Jobs, NEW by \in {"work", "monitor"}, Flush(j, by), Tracks(j)
      PROVE  /\ \E g : flushes' = {g} /\ g.att = work.att /\ g.by = by
             /\ current'.att = None
             /\ work.pc \in {"registered", "waiting"}
             /\ work.att \in Attempts
             /\ \A a \in Attempts : ~completion[a].full
  <2>1. current.att # None
    BY <1>a DEF Tracks
  <2>2. flushes = {}
    BY <2>1
  <2>3. current.att = work.att /\ work.pc \in {"registered", "waiting"}
    BY <2>1
  <2>4. flushes' = {[att |-> work.att, entries |-> current.entries, by |-> by]}
        /\ current' = Untracked
    BY <2>2, <2>3, <1>a DEF Flush
  <2>5. \A a \in Attempts : ~completion[a].full
    BY <2>1
  <2> QED BY <2>3, <2>4, <2>5, <1>0 DEF Untracked
<1>1. ASSUME NEW why \in {"submit", "timer", "deadline", "cancel"}, ForceFlush(why),
             work.pc \in {"registered", "waiting"}
      PROVE  RegInv' /\ OneFlushPerRegistration'
  <2>1. CASE Tracks(Job(work.att))
    <3>1. Job(work.att) \in Jobs
      BY <1>0, <1>1
    <3>2. Flush(Job(work.att), "work") /\ work'.pc = "flushing" /\ work'.att = work.att
          /\ completion' = completion
      BY <2>1, <1>1 DEF ForceFlush, TypeOK
    <3>3. PICK g : flushes' = {g} /\ g.att = work.att /\ g.by = "work"
      BY <2>1, <3>1, <3>2, <1>a
    <3>4. current'.att = None /\ work.att \in Attempts
          /\ \A a \in Attempts : ~completion[a].full
      BY <2>1, <3>1, <3>2, <1>a
    <3>5. work'.pc # "idle" /\ work'.att # None
      BY <3>2, <3>4
    <3> QED BY <3>2, <3>3, <3>4, <3>5
  <2>2. CASE ~Tracks(Job(work.att))
    BY <2>2, <1>0, <1>1 DEF ForceFlush, Flush, Tracks, TypeOK, Idle
  <2> QED BY <2>1, <2>2
<1>2. ASSUME NEW n \in 0 .. MaxPlaces, SubmitJob(n)
      PROVE  RegInv' /\ OneFlushPerRegistration'
  BY <1>2, <1>0 DEF SubmitJob, TypeOK, Idle
<1>3. ASSUME NEW nil \in BOOLEAN, Return(nil), work.pc # "idle"
      PROVE  RegInv' /\ OneFlushPerRegistration'
  BY <1>3, <1>0 DEF Return, TypeOK, Idle, Empty
<1>4. CASE WorkStep
  <2>1. CASE SubmitStep
    BY <2>1, <1>1, <1>2 DEF SubmitStep, SubmitFails
  <2>2. CASE TimerFires
    BY <2>2, <1>1 DEF TimerFires
  <2>3. CASE \E why \in {"deadline", "cancel"} : CtxDone(why)
    BY <2>3, <1>1 DEF CtxDone
  <2>4. CASE WorkCompletes
    BY <2>4, <1>3, <1>0 DEF WorkCompletes, TypeOK
  <2>5. CASE WorkFlushed
    BY <2>5, <1>3, <1>0 DEF WorkFlushed, PartialSuccess, TypeOK
  <2> QED BY <1>4, <2>1, <2>2, <2>3, <2>4, <2>5 DEF WorkStep
<1>5. ASSUME NEW f \in flushes, NEW ok \in BOOLEAN, FlushEnds(f, ok)
      PROVE  RegInv' /\ OneFlushPerRegistration'
  BY <1>5, <1>0 DEF FlushEnds, TypeOK, FlushResult, Idle
<1>6. ASSUME NEW a \in Attempts, PlaceWritten(a)
      PROVE  RegInv' /\ OneFlushPerRegistration'
  BY <1>6, <1>0 DEF PlaceWritten, AddResult, TypeOK
<1>7. ASSUME NEW a \in Attempts, MonitorMarksDone(a)
      PROVE  RegInv' /\ OneFlushPerRegistration'
  <2>1. CASE Tracks(Job(a))
    <3>1. Flush(Job(a), "monitor") /\ work' = work /\ completion' = completion
      BY <1>7 DEF MonitorMarksDone
    <3>2. PICK g : flushes' = {g} /\ g.att = work.att /\ g.by = "monitor"
      BY <2>1, <3>1, <1>a
    <3>3. current'.att = None /\ work.att \in Attempts /\ work.pc \in {"registered", "waiting"}
          /\ \A b \in Attempts : ~completion[b].full
      BY <2>1, <3>1, <1>a
    <3> QED BY <3>1, <3>2, <3>3
  <2>2. CASE ~Tracks(Job(a))
    BY <2>2, <1>7 DEF MonitorMarksDone, Flush
  <2> QED BY <2>1, <2>2
<1>8. ASSUME NEW j \in Jobs, Fetch(j)
      PROVE  RegInv' /\ OneFlushPerRegistration'
  <2>1. <<j, attempt[j] + 1>> \in Attempts
    BY <1>8, AttemptsAssumption DEF Fetch, TypeOK, Attempts
  <2>2. work.att = None /\ flushes = {} /\ \A a \in Attempts : ~completion[a].full
    BY <1>8, <1>0 DEF Fetch, Idle
  <2>3. /\ work' = [pc |-> "registered", att |-> <<j, attempt[j] + 1>>, why |-> "none"]
        /\ current' = [att |-> <<j, attempt[j] + 1>>, entries |-> {}]
        /\ flushes' = flushes /\ completion' = completion
    BY <1>8 DEF Fetch, RegisterJob
  <2> QED BY <2>1, <2>2, <2>3 DEF Idle
<1>9. CASE Crash
  BY <1>9 DEF Crash, Idle, Untracked, Empty
<1>10. CASE UNCHANGED <<work, writer>>
  BY <1>10
<1> QED BY <1>4, <1>5, <1>6, <1>7, <1>8, <1>9, <1>10, OtherSteps DEF RegStep, FlushStep

----------------------------------------------------------------------------
\* A flush takes the tracked entries as they are, or changes nothing.
LEMMA FlushTakes ==
  ASSUME NEW j, NEW by, Flush(j, by)
  PROVE  \/ UNCHANGED <<flushes, current>>
         \/ /\ flushes' = flushes \cup
                  {[att |-> current.att, entries |-> current.entries, by |-> by]}
            /\ current' = Untracked
BY DEF Flush

\* Entries are only ever added to, and saved for, the job they belong to.
LEMMA CrossStep == TypeOK /\ NoCrossJobEntries /\ [Next]_vars => NoCrossJobEntries'
<1> SUFFICES ASSUME TypeOK, NoCrossJobEntries, [Next]_vars PROVE NoCrossJobEntries'
  OBVIOUS
<1> USE DEF NoCrossJobEntries
<1> DEFINE Same == UNCHANGED <<table, writer>>
<1>0. Same => NoCrossJobEntries'
  BY DEF writer
<1>1. ASSUME NEW j, NEW by, Flush(j, by), UNCHANGED table PROVE NoCrossJobEntries'
  BY <1>1, FlushTakes DEF Untracked
<1>2. CASE WorkStep
  <2>1. ASSUME NEW why, ForceFlush(why) PROVE NoCrossJobEntries'
    BY <2>1, <1>1 DEF ForceFlush, database
  <2>2. ASSUME NEW n, SubmitJob(n) PROVE NoCrossJobEntries'
    BY <2>2, <1>0 DEF SubmitJob, database
  <2>3. ASSUME NEW nil, Return(nil) PROVE NoCrossJobEntries'
    BY <2>3 DEF Return, database
  <2> QED BY <1>2, <2>1, <2>2, <2>3 DEF WorkStep, SubmitStep, SubmitFails, TimerFires,
             CtxDone, WorkCompletes, WorkFlushed
<1>3. ASSUME NEW f \in flushes, NEW ok \in BOOLEAN, FlushEnds(f, ok) PROVE NoCrossJobEntries'
  <2>1. current' = current /\ flushes' \subseteq flushes
    BY <1>3 DEF FlushEnds
  <2>2. ASSUME NEW j \in Jobs, NEW e \in table'[j].entries PROVE Job(e[1]) = j
    <3>1. CASE ok /\ j = Job(f.att)
      BY <3>1, <2>2, <1>3 DEF FlushEnds, TypeOK, Row
    <3>2. CASE ~ok \/ j # Job(f.att)
      BY <3>2, <2>2, <1>3 DEF FlushEnds, TypeOK
    <3> QED BY <3>1, <3>2
  <2> QED BY <2>1, <2>2
<1>4. ASSUME NEW a \in Attempts, PlaceWritten(a) PROVE NoCrossJobEntries'
  <2>1. flushes' = flushes /\ table' = table
    BY <1>4 DEF PlaceWritten, database
  <2>2. CASE Tracks(Job(a))
    <3>1. current' = [current EXCEPT !.entries = @ \cup {<<a, left[a]>>}]
          /\ Job(current.att) = Job(a)
      BY <2>2, <1>4 DEF PlaceWritten, AddResult, Tracks
    <3>2. current'.att = current.att /\ current'.entries = current.entries \cup {<<a, left[a]>>}
      BY <3>1 DEF TypeOK
    <3> QED BY <2>1, <3>1, <3>2
  <2>3. CASE ~Tracks(Job(a))
    BY <2>1, <2>3, <1>4 DEF PlaceWritten, AddResult
  <2> QED BY <2>2, <2>3
<1>5. ASSUME NEW a \in Attempts, MonitorMarksDone(a) PROVE NoCrossJobEntries'
  BY <1>5, <1>1 DEF MonitorMarksDone, database
<1>6. CASE \E a \in Attempts : PlaceFails(a) \/ MonitorReceives(a) \/ MonitorStops(a)
  BY <1>6, <1>0 DEF PlaceFails, MonitorReceives, MonitorStops, database
<1>7. ASSUME NEW j \in Jobs, RiverStep(j) PROVE NoCrossJobEntries'
  <2>1. CASE Fetch(j)
    BY <2>1 DEF Fetch, RegisterJob, database
  <2>2. CASE RetryDue(j) \/ PromoteLists(j) \/ PromoteRetries(j) \/ Rescue(j)
    BY <2>2, <1>0 DEF RetryDue, PromoteLists, PromoteRetries, Rescue, database
  <2> QED BY <1>7, <2>1, <2>2 DEF RiverStep
<1>8. ASSUME NEW j \in Deletable, DeletionStep(j) PROVE NoCrossJobEntries'
  <2>1. CASE DeleteResults(j)
    BY <2>1 DEF DeleteResults, Step, NoRow, writer, TypeOK
  <2>2. CASE ~DeleteResults(j)
    BY <2>2, <1>8, <1>0 DEF DeletionStep, DeleteReads, DeleteCancels, DeleteInserts,
                            DeleteRow, DeleteFails
  <2> QED BY <2>1, <2>2
<1>9. CASE Crash
  BY <1>9 DEF Crash, Untracked, database
<1>10. CASE UNCHANGED vars
  BY <1>10, <1>0 DEF vars, database
<1> QED BY <1>2, <1>3, <1>4, <1>5, <1>6, <1>7, <1>8, <1>9, <1>10
        DEF Next, FlushStep, ScrapeStep

----------------------------------------------------------------------------
\* Once the deletion worker has run, its job stays marked as being deleted.
LEMMA DeletingStays ==
  TypeOK /\ [Next]_vars => \A j \in Jobs : Deleting(j) => Deleting(j)'
<1> SUFFICES ASSUME TypeOK, [Next]_vars, NEW j \in Jobs, Deleting(j) PROVE Deleting(j)'
  OBVIOUS
<1>1. ASSUME UNCHANGED deletion PROVE Deleting(j)'
  BY <1>1 DEF Deleting
<1>2. ASSUME NEW i \in Deletable, DeletionStep(i) PROVE Deleting(j)'
  <2>1. ASSUME NEW from, NEW to, Step(i, from, to), i = j => to \in {"resultsGone", "retrying", "done", "gaveup"}
        PROVE  Deleting(j)'
    BY <2>1 DEF Step, Deleting, TypeOK
  <2>2. CASE i = j
    <3>1. ~DeleteReads(i) /\ \A ok \in BOOLEAN : ~DeleteCancels(i, ok) /\ ~DeleteInserts(i, ok)
      BY <2>2 DEF DeleteReads, DeleteCancels, DeleteInserts, Step, Deleting
    <3> QED BY <1>2, <2>1, <3>1 DEF DeletionStep, DeleteResults, DeleteRow, DeleteFails
  <2>3. CASE i # j
    BY <1>2, <2>1, <2>3 DEF DeletionStep, DeleteReads, DeleteCancels, DeleteInserts,
                            DeleteResults, DeleteRow, DeleteFails
  <2> QED BY <2>2, <2>3
<1>3. CASE WorkStep
  BY <1>1, <1>3 DEF WorkStep, SubmitStep, SubmitFails, SubmitJob, TimerFires, CtxDone,
     WorkCompletes, WorkFlushed, ForceFlush, Return, database
<1>4. CASE FlushStep
  BY <1>1, <1>4 DEF FlushStep, FlushEnds
<1>5. CASE \E a \in Attempts : ScrapeStep(a)
  BY <1>1, <1>5 DEF ScrapeStep, PlaceWritten, PlaceFails, MonitorReceives,
     MonitorMarksDone, MonitorStops, database
<1>6. CASE \E i \in Jobs : RiverStep(i)
  BY <1>1, <1>6 DEF RiverStep, Fetch, RetryDue, PromoteLists, PromoteRetries, Rescue, database
<1>7. CASE Crash \/ UNCHANGED vars
  BY <1>1, <1>7 DEF Crash, vars, database
<1> QED BY <1>2, <1>3, <1>4, <1>5, <1>6, <1>7 DEF Next

\* No step takes the row of a completed job away before its deletion does.
LEMMA RowStep ==
  TypeOK /\ RegInv /\ OneFlushPerRegistration /\ RowInv /\ [Next]_vars => RowInv'
<1> SUFFICES ASSUME TypeOK, RegInv, OneFlushPerRegistration, RowInv, [Next]_vars
             PROVE  RowInv'
  OBVIOUS
<1> USE AttemptFacts
<1>0. \A j \in Jobs : Deleting(j) => Deleting(j)'
  BY DeletingStays
<1>1. ASSUME UNCHANGED <<river, table, completion>> PROVE RowInv'
  BY <1>0, <1>1 DEF RowInv, CompletedHasRow
<1>2. ASSUME UNCHANGED <<table, completion>>,
             \A j \in Jobs : river'[j] = "completed" => river[j] = "completed"
      PROVE  RowInv'
  BY <1>0, <1>2 DEF RowInv, CompletedHasRow
<1>3. ASSUME NEW nil \in BOOLEAN, Return(nil), work.pc # "idle",
             nil => completion[work.att].ok
      PROVE  RowInv'
  <2>1. work.att \in Attempts
    BY <1>3 DEF RegInv, TypeOK
  <2>2. Job(work.att) \in Jobs
    BY <2>1
  <2>3. table' = table /\ completion[work.att].full
        /\ completion' = [completion EXCEPT ![work.att] = Empty]
        /\ river' = [river EXCEPT ![Job(work.att)] = Outcome(Job(work.att), nil)]
    BY <1>3 DEF Return, database
  <2>4. Outcome(Job(work.att), nil) = "completed" => nil \/ river[Job(work.att)] = "completed"
    BY <1>3 DEF Outcome
  <2>5. ASSUME NEW a \in Attempts, completion'[a].full, completion'[a].ok, ~Deleting(Job(a))'
        PROVE  table'[Job(a)].saved
    BY <2>1, <2>3, <2>5, <1>0 DEF RowInv, TypeOK, Empty
  <2>6. ASSUME NEW j \in Jobs, river'[j] = "completed", ~Deleting(j)'
        PROVE  table'[j].saved
    BY <2>1, <2>2, <2>3, <2>4, <2>6, <1>0, <1>3 DEF RowInv, CompletedHasRow, TypeOK
  <2> QED BY <2>5, <2>6 DEF RowInv, CompletedHasRow
<1>4. CASE WorkStep
  <2>1. ASSUME NEW why, ForceFlush(why) PROVE RowInv'
    BY <2>1, <1>1 DEF ForceFlush, queue, database
  <2>2. ASSUME NEW n, SubmitJob(n) PROVE RowInv'
    BY <2>2, <1>1 DEF SubmitJob, queue, database, writer
  <2>3. CASE WorkCompletes
    <3>1. completion[work.att].ok \in BOOLEAN
      BY <2>3 DEF WorkCompletes, RegInv, TypeOK
    <3> QED BY <2>3, <3>1, <1>3 DEF WorkCompletes
  <2>4. CASE WorkFlushed
    <3>1. completion[work.att].ok \in BOOLEAN
      BY <2>4 DEF WorkFlushed, RegInv, TypeOK
    <3> QED BY <2>4, <3>1, <1>3 DEF WorkFlushed, PartialSuccess
  <2> QED BY <1>4, <2>1, <2>2, <2>3, <2>4 DEF WorkStep, SubmitStep, SubmitFails,
             TimerFires, CtxDone
<1>5. ASSUME NEW f \in flushes, NEW ok \in BOOLEAN, FlushEnds(f, ok) PROVE RowInv'
  <2>1. f.att \in Attempts /\ Job(f.att) \in Jobs
    BY DEF TypeOK, FlushRecords
  <2>2. \A j \in Jobs : table[j].saved => table'[j].saved
    BY <1>5, <2>1 DEF FlushEnds, TypeOK, Row
  <2>3. ok => table'[Job(f.att)].saved
    BY <1>5, <2>1 DEF FlushEnds, TypeOK, Row
  <2>4. completion' = [completion EXCEPT ![f.att] = FlushResult(ok, Cardinality(f.entries))]
        /\ river' = river
    BY <1>5 DEF FlushEnds, queue
  <2>5. ASSUME NEW a \in Attempts, completion'[a].full, completion'[a].ok, ~Deleting(Job(a))'
        PROVE  table'[Job(a)].saved
    <3>1. CASE a = f.att
      BY <2>1, <2>3, <2>4, <2>5, <3>1 DEF TypeOK, FlushResult
    <3>2. CASE a # f.att
      BY <2>1, <2>2, <2>4, <2>5, <3>2, <1>0 DEF TypeOK, RowInv
    <3> QED BY <3>1, <3>2
  <2>6. ASSUME NEW j \in Jobs, river'[j] = "completed", ~Deleting(j)' PROVE table'[j].saved
    BY <2>2, <2>4, <2>6, <1>0 DEF RowInv, CompletedHasRow
  <2> QED BY <2>5, <2>6 DEF RowInv, CompletedHasRow
<1>6. ASSUME NEW a \in Attempts, ScrapeStep(a) PROVE RowInv'
  BY <1>1, <1>6 DEF ScrapeStep, PlaceWritten, PlaceFails, MonitorReceives,
     MonitorMarksDone, MonitorStops, queue, database, writer
<1>7. ASSUME NEW j \in Jobs, RiverStep(j) PROVE RowInv'
  <2>1. UNCHANGED <<table, completion>>
    BY <1>7 DEF RiverStep, Fetch, RetryDue, PromoteLists, PromoteRetries, Rescue,
            database, writer
  <2>2. CASE Fetch(j) \/ RetryDue(j) \/ PromoteLists(j) \/ PromoteRetries(j)
    BY <2>1, <2>2, <1>2 DEF Fetch, RetryDue, PromoteLists, PromoteRetries, TypeOK
  <2>3. CASE Rescue(j)
    BY <2>1, <2>3, <1>2 DEF Rescue, Outcome, TypeOK
  <2> QED BY <1>7, <2>2, <2>3 DEF RiverStep
<1>8. ASSUME NEW j \in Deletable, DeletionStep(j) PROVE RowInv'
  <2>0. j \in Jobs
    BY DeletableAssumption
  <2>1. CASE DeleteResults(j)
    <3>1. Deleting(j)'
      BY <2>0, <2>1 DEF DeleteResults, Step, Deleting, TypeOK
    <3>2. table' = [table EXCEPT ![j] = NoRow] /\ UNCHANGED <<river, completion>>
      BY <2>1 DEF DeleteResults, queue, writer
    <3> QED BY <2>0, <3>1, <3>2, <1>0 DEF RowInv, CompletedHasRow, TypeOK
  <2>2. CASE \E ok \in BOOLEAN : DeleteCancels(j, ok)
    BY <2>0, <2>2, <1>2 DEF DeleteCancels, writer, TypeOK
  <2>3. CASE DeleteRow(j)
    BY <2>0, <2>3, <1>2 DEF DeleteRow, writer, TypeOK
  <2>4. CASE DeleteReads(j) \/ DeleteFails(j) \/ \E ok \in BOOLEAN : DeleteInserts(j, ok)
    BY <2>4, <1>1 DEF DeleteReads, DeleteFails, DeleteInserts, queue, writer
  <2> QED BY <1>8, <2>1, <2>2, <2>3, <2>4 DEF DeletionStep
<1>9. CASE Crash
  <2>1. UNCHANGED <<river, table>> /\ \A a \in Attempts : ~completion'[a].full
    BY <1>9 DEF Crash, queue, database, Empty
  <2> QED BY <2>1, <1>0 DEF RowInv, CompletedHasRow
<1>10. CASE UNCHANGED vars
  BY <1>10, <1>1 DEF vars, queue, database, writer
<1> QED BY <1>4, <1>5, <1>6, <1>7, <1>8, <1>9, <1>10 DEF Next, FlushStep

----------------------------------------------------------------------------
\* The inductive invariant holds initially.
LEMMA InitIInv == Init => IInv
<1> SUFFICES ASSUME Init PROVE IInv
  OBVIOUS
<1> USE DEF Init
<1>1. TypeOK
  BY AttemptsAssumption, PlacesAssumption DEF TypeOK, Idle, Untracked, Empty, NoRow
<1>2. RegInv
  BY DEF RegInv, Idle, Untracked, Empty
<1>3. OneFlushPerRegistration /\ NoCrossJobEntries
  BY DEF OneFlushPerRegistration, NoCrossJobEntries, Untracked, NoRow
<1>4. RowInv
  BY DEF RowInv, CompletedHasRow, Empty
<1> QED BY <1>1, <1>2, <1>3, <1>4 DEF IInv

\* The inductive invariant is preserved by every step.
LEMMA NextIInv == IInv /\ [Next]_vars => IInv'
BY TypeStep, RegistrationStep, CrossStep, RowStep DEF IInv

\* The inductive invariant holds throughout.
THEOREM Invariance == Spec => []IInv
BY InitIInv, NextIInv, PTL DEF Spec

\* Every reachable state of the worker is well-typed.
THEOREM TypeCorrect == Spec => []TypeOK
<1>1. IInv => TypeOK
  BY DEF IInv
<1> QED BY <1>1, Invariance, PTL

\* However Work and the monitors of all attempts race, one flush takes a
\* registration, it is that of the attempt in execution, and its send on the
\* completion channel never blocks (centralwriter.go, Flush).
THEOREM SingleFlush == Spec => []OneFlushPerRegistration
<1>1. IInv => OneFlushPerRegistration
  BY DEF IInv
<1> QED BY <1>1, Invariance, PTL

\* An attempt that waits for its flush result has one on its way or in the
\* channel (rqueue.go, waitForFlushResult).
THEOREM ResultComes == Spec => []AwaitedResultComes
<1>1. IInv => AwaitedResultComes
  <2> SUFFICES ASSUME IInv, work.pc = "awaiting"
               PROVE  completion[work.att].full \/ \E f \in flushes : f.att = work.att
    BY DEF AwaitedResultComes
  <2>1. work.att # None /\ current.att = None
    BY DEF IInv, RegInv
  <2> QED BY <2>1 DEF IInv, RegInv
<1> QED BY <1>1, Invariance, PTL

\* Leftovers of earlier attempts and of other jobs never reach a job's buffer
\* or row (centralwriter.go, AddResult compares the job).
THEOREM NoCrossTalk == Spec => []NoCrossJobEntries
<1>1. IInv => NoCrossJobEntries
  BY DEF IInv
<1> QED BY <1>1, Invariance, PTL

\* A job River shows as completed has its results saved (rqueue.go, Work returns
\* nil only after a flush whose save succeeded).
THEOREM CompletedIsSaved == Spec => []CompletedHasRow
<1>1. IInv => CompletedHasRow
  BY DEF IInv, RowInv
<1> QED BY <1>1, Invariance, PTL


----------------------------------------------------------------------------
\* Some attempt of the job reported every place that it found.
AllReported(j) == \E a \in Attempts : Job(a) = j /\ mon[a] # "none" /\ left[a] = 0

\* An attempt is started once, and River knows that its job is running.
StartInv ==
  /\ \A a \in Attempts :
       /\ mon[a] # "none" => a[2] <= attempt[Job(a)]
       /\ mon[a] = "received" => left[a] = 0
  /\ work.pc # "idle" =>
       /\ work.att[2] <= attempt[Job(work.att)]
       /\ river[Job(work.att)] \in {"running", "deleted"}
  /\ work.pc = "registered" => mon[work.att] = "none"

\* What is known of the search when a flush, its result or its row is empty.
FoundInv ==
  /\ \A f \in flushes : f.by = "monitor" => AllReported(Job(f.att))
  /\ \A a \in Attempts : completion[a].full =>
       /\ completion[a].ok /\ ~Deleting(Job(a)) /\ table[Job(a)].entries = {} =>
            completion[a].count = 0
       /\ work.pc \in {"registered", "waiting"} => AllReported(Job(a))
  /\ EmptyMeansAllReported

----------------------------------------------------------------------------
\* Attempts are started in order, one at a time.
LEMMA StartStep == TypeOK /\ RegInv /\ StartInv /\ [Next]_vars => StartInv'
<1> SUFFICES ASSUME TypeOK, RegInv, StartInv, [Next]_vars PROVE StartInv'
  OBVIOUS
<1> USE AttemptFacts DEF StartInv
<1>0. /\ work.pc # "idle" => work.att \in Attempts /\ Job(work.att) \in Jobs
      /\ \A a \in Attempts : a[2] \in Nat /\ attempt[Job(a)] \in Nat
  BY AttemptsAssumption DEF TypeOK, RegInv, Attempts, Job
<1>1. ASSUME UNCHANGED <<river, attempt, work, left, mon>> PROVE StartInv'
  BY <1>1
<1>2. CASE WorkStep
  <2>1. ASSUME NEW why, ForceFlush(why), work.pc # "idle" PROVE StartInv'
    <3>1. UNCHANGED <<river, attempt, left, mon>>
          /\ work'.att = work.att /\ work'.pc \in {"flushing", "awaiting"}
      BY <2>1 DEF ForceFlush, queue, scrape, TypeOK
    <3> QED BY <2>1, <3>1
  <2>2. ASSUME NEW n \in 0 .. MaxPlaces, SubmitJob(n) PROVE StartInv'
    <3>1. work.att \in Attempts /\ UNCHANGED <<river, attempt>>
          /\ work'.att = work.att /\ work'.pc = "waiting"
      BY <2>2, <1>0 DEF SubmitJob, queue, TypeOK
    <3>2. mon' = [mon EXCEPT ![work.att] = "waiting"] /\ left' = [left EXCEPT ![work.att] = n]
          /\ work.pc = "registered"
      BY <2>2 DEF SubmitJob
    <3> QED BY <3>1, <3>2 DEF TypeOK
  <2>3. ASSUME NEW nil, Return(nil) PROVE StartInv'
    <3>1. work' = Idle /\ UNCHANGED <<attempt, left, mon>>
      BY <2>3 DEF Return, scrape
    <3> QED BY <3>1 DEF Idle
  <2> QED BY <1>2, <2>1, <2>2, <2>3 DEF WorkStep, SubmitStep, SubmitFails, TimerFires,
             CtxDone, WorkCompletes, WorkFlushed
<1>3. ASSUME NEW f \in flushes, NEW ok \in BOOLEAN, FlushEnds(f, ok) PROVE StartInv'
  <2>1. UNCHANGED <<river, attempt, left, mon>> /\ work'.att = work.att
    BY <1>3 DEF FlushEnds, queue, scrape, TypeOK
  <2>2. (work' = work) \/ (work.pc = "flushing" /\ work'.pc = "awaiting")
    BY <1>3 DEF FlushEnds, RegInv, TypeOK
  <2> QED BY <2>1, <2>2
<1>4. ASSUME NEW a \in Attempts, ScrapeStep(a) PROVE StartInv'
  <2>1. UNCHANGED <<river, attempt, work>>
    BY <1>4 DEF ScrapeStep, PlaceWritten, PlaceFails, MonitorReceives, MonitorMarksDone,
                MonitorStops, queue
  <2>2. CASE PlaceWritten(a) \/ PlaceFails(a)
    <3>1. left[a] > 0 /\ left' = [left EXCEPT ![a] = @ - 1] /\ mon' = mon
      BY <2>2 DEF PlaceWritten, PlaceFails
    <3>2. mon[a] # "received"
      BY <3>1
    <3> QED BY <2>1, <3>1, <3>2 DEF TypeOK
  <2>3. CASE MonitorReceives(a) \/ MonitorMarksDone(a) \/ MonitorStops(a)
    <3>1. left' = left /\ mon[a] \in {"waiting", "received"}
      BY <2>3 DEF MonitorReceives, MonitorMarksDone, MonitorStops
    <3>2. PICK m \in {"received", "ended"} :
            mon' = [mon EXCEPT ![a] = m] /\ (m = "received" => left[a] = 0)
      BY <2>3 DEF MonitorReceives, MonitorMarksDone, MonitorStops
    <3>3. work.pc = "registered" => work.att # a
      BY <3>1
    <3> QED BY <1>0, <2>1, <3>1, <3>2, <3>3 DEF TypeOK
  <2> QED BY <1>4, <2>2, <2>3 DEF ScrapeStep
<1>5. ASSUME NEW j \in Jobs, RiverStep(j) PROVE StartInv'
  <2>1. CASE Fetch(j)
    <3>1. /\ work' = [pc |-> "registered", att |-> <<j, attempt[j] + 1>>, why |-> "none"]
          /\ attempt' = [attempt EXCEPT ![j] = @ + 1] /\ river' = [river EXCEPT ![j] = "running"]
          /\ UNCHANGED <<left, mon>>
      BY <2>1 DEF Fetch, scrape
    <3>2. <<j, attempt[j] + 1>> \in Attempts /\ Job(<<j, attempt[j] + 1>>) = j
      BY <2>1, AttemptsAssumption DEF Fetch, TypeOK, Attempts, Job
    <3>3. attempt[j] \in Nat /\ mon[<<j, attempt[j] + 1>>] = "none"
      BY <3>2, <1>0 DEF TypeOK
    <3>4. \A i \in Jobs : attempt[i] \in Nat /\ attempt'[i] \in Nat /\ attempt[i] <= attempt'[i]
      BY <3>1, AttemptsAssumption DEF TypeOK
    <3>5. ASSUME NEW a \in Attempts, mon'[a] # "none" PROVE a[2] <= attempt'[Job(a)]
      BY <3>1, <3>4, <3>5, <1>0
    <3>6. work'.att[2] <= attempt'[Job(work'.att)] /\ river'[Job(work'.att)] = "running"
      BY <3>1, <3>2, <3>3 DEF TypeOK
    <3> QED BY <3>1, <3>3, <3>5, <3>6
  <2>2. CASE RetryDue(j) \/ PromoteLists(j) \/ PromoteRetries(j) \/ Rescue(j)
    <3>1. UNCHANGED <<attempt, work, left, mon>>
      BY <2>2 DEF RetryDue, PromoteLists, PromoteRetries, Rescue, scrape
    <3>2. river \in [Jobs -> {"available", "running", "retryable"} \cup Final]
      BY DEF TypeOK
    <3>3. CASE PromoteLists(j)
      BY <3>1, <3>3 DEF PromoteLists
    <3>4. CASE RetryDue(j) \/ PromoteRetries(j)
      BY <3>1, <3>2, <3>4, <1>0 DEF RetryDue, PromoteRetries
    <3>5. CASE Rescue(j)
      <4>1. work.pc # "idle" => Job(work.att) # j
        BY <3>5 DEF Rescue, Executes, Idle
      <4> QED BY <3>1, <3>2, <3>5, <4>1, <1>0 DEF Rescue
    <3> QED BY <2>2, <3>3, <3>4, <3>5
  <2> QED BY <1>5, <2>1, <2>2 DEF RiverStep
<1>6. ASSUME NEW j \in Deletable, DeletionStep(j) PROVE StartInv'
  <2>1. UNCHANGED <<attempt, work, left, mon>>
    BY <1>6 DEF DeletionStep, DeleteReads, DeleteCancels, DeleteInserts, DeleteResults,
                DeleteRow, DeleteFails, queue, scrape
  <2>2. work.pc # "idle" => river'[Job(work.att)] \in {river[Job(work.att)], "deleted"}
    BY <1>6, <1>0 DEF DeletionStep, DeleteReads, DeleteCancels, DeleteInserts, DeleteResults,
                DeleteRow, DeleteFails, queue, TypeOK
  <2> QED BY <2>1, <2>2
<1>7. CASE Crash
  BY <1>7 DEF Crash, Idle, queue, TypeOK
<1>8. CASE UNCHANGED vars
  BY <1>1, <1>8 DEF vars, queue, scrape
<1> QED BY <1>2, <1>3, <1>4, <1>5, <1>6, <1>7, <1>8 DEF Next, FlushStep

\* What was reported stays reported: a started attempt is never started again.
LEMMA ReportedStays ==
  TypeOK /\ RegInv /\ StartInv /\ [Next]_vars => \A j : AllReported(j) => AllReported(j)'
<1> SUFFICES ASSUME TypeOK, RegInv, StartInv, [Next]_vars,
                    NEW a \in Attempts, mon[a] # "none", left[a] = 0
             PROVE  mon'[a] # "none" /\ left'[a] = 0
  BY DEF AllReported
<1> USE DEF TypeOK
<1>1. CASE WorkStep
  <2>1. ASSUME NEW n \in 0 .. MaxPlaces, SubmitJob(n) PROVE mon'[a] # "none" /\ left'[a] = 0
    <3>1. work.att # a
      BY <2>1 DEF SubmitJob, StartInv
    <3> QED BY <2>1, <3>1 DEF SubmitJob
  <2> QED BY <1>1, <2>1 DEF WorkStep, SubmitStep, SubmitFails, TimerFires, CtxDone,
             WorkCompletes, WorkFlushed, ForceFlush, Return, scrape
<1>2. CASE FlushStep
  BY <1>2 DEF FlushStep, FlushEnds, scrape
<1>3. ASSUME NEW b \in Attempts, ScrapeStep(b) PROVE mon'[a] # "none" /\ left'[a] = 0
  BY <1>3 DEF ScrapeStep, PlaceWritten, PlaceFails, MonitorReceives, MonitorMarksDone, MonitorStops
<1>4. CASE \E j \in Jobs : RiverStep(j)
  BY <1>4 DEF RiverStep, Fetch, RetryDue, PromoteLists, PromoteRetries, Rescue, scrape
<1>5. CASE \E j \in Deletable : DeletionStep(j)
  BY <1>5 DEF DeletionStep, DeleteReads, DeleteCancels, DeleteInserts, DeleteResults,
              DeleteRow, DeleteFails, scrape
<1>6. CASE Crash \/ UNCHANGED vars
  BY <1>6 DEF Crash, vars, scrape
<1> QED BY <1>1, <1>2, <1>3, <1>4, <1>5, <1>6 DEF Next

\* No empty row of a completed job hides a search that was cut short.
LEMMA FoundStep == IInv /\ StartInv /\ FoundInv /\ [Next]_vars => FoundInv'
<1> SUFFICES ASSUME IInv, StartInv, FoundInv, [Next]_vars PROVE FoundInv'
  OBVIOUS
<1> USE AttemptFacts
<1>a. TypeOK /\ RegInv /\ OneFlushPerRegistration
  BY DEF IInv
<1>b. \A j : AllReported(j) => AllReported(j)'
  BY <1>a, ReportedStays
<1>c. \A j \in Jobs : Deleting(j) => Deleting(j)'
  BY <1>a, DeletingStays
<1>d. /\ work.pc # "idle" => work.att \in Attempts /\ Job(work.att) \in Jobs
      /\ \A f \in flushes : f.att \in Attempts /\ Job(f.att) \in Jobs
  BY <1>a DEF TypeOK, RegInv, FlushRecords
<1>e. EmptyMeansAllReported <=>
        \A j \in Jobs : river[j] = "completed" /\ ~Deleting(j) /\ table[j].entries = {} => AllReported(j)
  BY DEF EmptyMeansAllReported, AllReported
<1>f. EmptyMeansAllReported' <=>
        \A j \in Jobs : river'[j] = "completed" /\ ~Deleting(j)' /\ table'[j].entries = {} => AllReported(j)'
  BY DEF EmptyMeansAllReported, AllReported
<1>1. ASSUME \A j \in Jobs : river'[j] = "completed" => river[j] = "completed",
             \A j \in Jobs : table'[j] = table[j] \/ Deleting(j)'
      PROVE  EmptyMeansAllReported'
  BY <1>1, <1>b, <1>c, <1>e, <1>f DEF FoundInv
<1>2. ASSUME \A j \in Jobs : table'[j] = table[j] \/ Deleting(j)',
             UNCHANGED completion,
             work'.pc \in {"registered", "waiting"} => work.pc \in {"registered", "waiting"}
      PROVE  \A a \in Attempts : completion'[a].full =>
               /\ completion'[a].ok /\ ~Deleting(Job(a))' /\ table'[Job(a)].entries = {} =>
                    completion'[a].count = 0
               /\ work'.pc \in {"registered", "waiting"} => AllReported(Job(a))'
  BY <1>2, <1>b, <1>c DEF FoundInv
<1>3. ASSUME UNCHANGED flushes
      PROVE  \A f \in flushes' : f.by = "monitor" => AllReported(Job(f.att))'
  BY <1>3, <1>b DEF FoundInv
<1>4. ASSUME \A j \in Jobs : river'[j] = "completed" => river[j] = "completed",
             \A j \in Jobs : table'[j] = table[j] \/ Deleting(j)',
             UNCHANGED <<completion, flushes>>,
             work'.pc \in {"registered", "waiting"} => work.pc \in {"registered", "waiting"}
      PROVE  FoundInv'
  BY <1>1, <1>2, <1>3, <1>4 DEF FoundInv
<1>5. CASE WorkStep
  <2>1. ASSUME NEW why, ForceFlush(why) PROVE FoundInv'
    <3>1. UNCHANGED <<river, table, completion>> /\ work'.pc \in {"flushing", "awaiting"}
      BY <2>1, <1>a DEF ForceFlush, queue, database, TypeOK
    <3>2. \A f \in flushes' : f.by = "monitor" => f \in flushes
      BY <2>1 DEF ForceFlush, Flush
    <3>3. \A f \in flushes' : f.by = "monitor" => AllReported(Job(f.att))'
      BY <3>2, <1>b DEF FoundInv
    <3> QED BY <3>1, <3>3, <1>1, <1>2 DEF FoundInv
  <2>2. ASSUME NEW n, SubmitJob(n) PROVE FoundInv'
    BY <2>2, <1>4 DEF SubmitJob, queue, database, writer
  <2>3. ASSUME NEW nil \in BOOLEAN, Return(nil), work.pc # "idle",
               nil => \/ AllReported(Job(work.att))
                      \/ Deleting(Job(work.att))
                      \/ table[Job(work.att)].entries # {}
        PROVE  FoundInv'
    <3>1. /\ UNCHANGED <<table, flushes>> /\ work' = Idle
          /\ completion' = [completion EXCEPT ![work.att] = Empty]
          /\ river' = [river EXCEPT ![Job(work.att)] = Outcome(Job(work.att), nil)]
      BY <2>3 DEF Return, database
    <3>2. Outcome(Job(work.att), nil) = "completed" => nil
      BY <2>3 DEF Outcome, StartInv
    <3>3. EmptyMeansAllReported'
      BY <2>3, <3>1, <3>2, <1>a, <1>b, <1>c, <1>d, <1>e, <1>f DEF FoundInv, TypeOK
    <3>4. work'.pc \notin {"registered", "waiting"}
      BY <3>1 DEF Idle
    <3>5. ASSUME NEW a \in Attempts, completion'[a].full, completion'[a].ok, ~Deleting(Job(a))',
                 table'[Job(a)].entries = {}
          PROVE  completion'[a].count = 0
      BY <3>1, <3>5, <2>3, <1>a, <1>c, <1>d DEF FoundInv, TypeOK, Empty
    <3> QED BY <3>1, <3>3, <3>4, <3>5, <1>3 DEF FoundInv
  <2>4. CASE WorkCompletes
    <3>1. AllReported(Job(work.att)) /\ completion[work.att].ok \in BOOLEAN
      BY <2>4, <1>a, <1>d DEF WorkCompletes, Return, FoundInv, TypeOK
    <3> QED BY <2>4, <2>3, <3>1 DEF WorkCompletes
  <2>5. CASE WorkFlushed
    <3>1. work.att \in Attempts /\ completion[work.att].full /\ work.pc # "idle"
          /\ completion[work.att].ok \in BOOLEAN /\ completion[work.att].count \in Nat
      BY <2>5, <1>a, <1>d DEF WorkFlushed, Return, TypeOK
    <3>2. completion[work.att].ok /\ PartialSuccess =>
            Deleting(Job(work.att)) \/ table[Job(work.att)].entries # {}
      BY <3>1 DEF FoundInv, PartialSuccess
    <3> QED BY <2>5, <2>3, <3>1, <3>2 DEF WorkFlushed, PartialSuccess
  <2> QED BY <1>5, <2>1, <2>2, <2>4, <2>5 DEF WorkStep, SubmitStep, SubmitFails, TimerFires, CtxDone
<1>6. ASSUME NEW f \in flushes, NEW ok \in BOOLEAN, FlushEnds(f, ok) PROVE FoundInv'
  <2>1. f.att = work.att /\ flushes = {f} /\ work.pc # "idle"
    BY <1>a, <1>d DEF OneFlushPerRegistration, RegInv
  <2>2. /\ flushes' = {} /\ river' = river
        /\ table' = IF ok THEN [table EXCEPT ![Job(f.att)] = Row(f.entries)] ELSE table
        /\ completion' = [completion EXCEPT ![f.att] = FlushResult(ok, Cardinality(f.entries))]
        /\ work' = IF f.by = "work" THEN [work EXCEPT !.pc = "awaiting"] ELSE work
    BY <1>6, <2>1 DEF FlushEnds, queue
  <2>3. \A a \in Attempts : completion'[a].full => a = f.att
    BY <2>2, <1>a, <2>1 DEF RegInv, TypeOK
  <2>4. ASSUME completion'[f.att].ok, table'[Job(f.att)].entries = {}
        PROVE  completion'[f.att].count = 0
    <3>1. ok /\ completion'[f.att].count = Cardinality(f.entries)
      BY <2>4, <2>2, <1>a, <1>d DEF TypeOK, FlushResult
    <3>2. f.entries = {}
      BY <2>4, <2>2, <3>1, <1>a, <1>d DEF TypeOK, Row
    <3> QED BY <3>1, <3>2, FS_EmptySet
  <2>5. work'.pc \in {"registered", "waiting"} => AllReported(Job(f.att))'
    <3>1. f.by \in {"work", "monitor"}
      BY <1>a DEF TypeOK, FlushRecords
    <3> QED BY <2>2, <3>1, <1>a, <1>b DEF FoundInv, TypeOK
  <2>6. EmptyMeansAllReported'
    <3>1. river[Job(f.att)] # "completed"
      BY <2>1 DEF StartInv
    <3>2. \A j \in Jobs : j # Job(f.att) => table'[j] = table[j]
      BY <2>2, <1>a DEF TypeOK
    <3> QED BY <2>2, <3>1, <3>2, <1>b, <1>c, <1>e, <1>f DEF FoundInv
  <2> QED BY <2>2, <2>3, <2>4, <2>5, <2>6 DEF FoundInv
<1>7. ASSUME NEW a \in Attempts, ScrapeStep(a) PROVE FoundInv'
  <2>1. UNCHANGED <<river, table, work, completion>>
    BY <1>7 DEF ScrapeStep, PlaceWritten, PlaceFails, MonitorReceives, MonitorMarksDone,
                MonitorStops, queue, database, writer
  <2>2. CASE MonitorMarksDone(a)
    <3>1. AllReported(Job(a))
      BY <2>2 DEF MonitorMarksDone, StartInv, AllReported
    <3>2. Flush(Job(a), "monitor")
      BY <2>2 DEF MonitorMarksDone
    <3>3. \A f \in flushes' : f \in flushes \/ Job(f.att) = Job(a)
      BY <3>2 DEF Flush, Tracks
    <3>4. \A f \in flushes' : f.by = "monitor" => AllReported(Job(f.att))'
      BY <3>1, <3>3, <1>b DEF FoundInv
    <3> QED BY <2>1, <3>4, <1>1, <1>2 DEF FoundInv
  <2>3. CASE ~MonitorMarksDone(a)
    <3>1. UNCHANGED flushes
      BY <2>3, <1>7 DEF ScrapeStep, PlaceWritten, PlaceFails, MonitorReceives, MonitorStops, writer
    <3> QED BY <2>1, <3>1, <1>4
  <2> QED BY <2>2, <2>3
<1>8. ASSUME NEW j \in Jobs, RiverStep(j) PROVE FoundInv'
  <2>1. UNCHANGED <<table, flushes, completion>>
    BY <1>8 DEF RiverStep, Fetch, RetryDue, PromoteLists, PromoteRetries, Rescue,
                database, writer
  <2>2. CASE Fetch(j)
    <3>1. \A i \in Jobs : river'[i] = "completed" => river[i] = "completed"
      BY <2>2, <1>a DEF Fetch, TypeOK
    <3>2. \A a \in Attempts : ~completion'[a].full
      BY <2>2, <1>a, <2>1 DEF Fetch, RegInv, Idle
    <3> QED BY <2>1, <3>1, <3>2, <1>1, <1>3 DEF FoundInv
  <2>3. CASE RetryDue(j) \/ PromoteLists(j) \/ PromoteRetries(j) \/ Rescue(j)
    <3>1. work' = work
      BY <2>3 DEF RetryDue, PromoteLists, PromoteRetries, Rescue
    <3>2. \A i \in Jobs : river'[i] = "completed" => river[i] = "completed"
      BY <2>3, <1>a DEF RetryDue, PromoteLists, PromoteRetries, Rescue, Outcome, TypeOK
    <3> QED BY <2>1, <3>1, <3>2, <1>4
  <2> QED BY <1>8, <2>2, <2>3 DEF RiverStep
<1>9. ASSUME NEW j \in Deletable, DeletionStep(j) PROVE FoundInv'
  <2>1. j \in Jobs
    BY DeletableAssumption
  <2>2. UNCHANGED <<work, flushes, completion>>
    BY <1>9 DEF DeletionStep, DeleteReads, DeleteCancels, DeleteInserts, DeleteResults,
                DeleteRow, DeleteFails, writer
  <2>3. \A i \in Jobs : river'[i] = "completed" => river[i] = "completed"
    BY <1>9, <2>1, <1>a DEF DeletionStep, DeleteReads, DeleteCancels, DeleteInserts,
                DeleteResults, DeleteRow, DeleteFails, queue, TypeOK
  <2>4. \A i \in Jobs : table'[i] = table[i] \/ Deleting(i)'
    <3>1. CASE DeleteResults(j)
      BY <2>1, <3>1, <1>a DEF DeleteResults, Step, Deleting, TypeOK
    <3>2. CASE ~DeleteResults(j)
      BY <3>2, <1>9 DEF DeletionStep, DeleteReads, DeleteCancels, DeleteInserts,
                DeleteRow, DeleteFails
    <3> QED BY <3>1, <3>2
  <2> QED BY <2>2, <2>3, <2>4, <1>4
<1>10. CASE Crash
  <2>1. UNCHANGED <<river, table>> /\ flushes' = {}
        /\ \A a \in Attempts : ~completion'[a].full
    BY <1>10 DEF Crash, queue, database, Empty
  <2> QED BY <2>1, <1>1 DEF FoundInv
<1>11. CASE UNCHANGED vars
  BY <1>11, <1>4 DEF vars, queue, database, writer
<1> QED BY <1>5, <1>6, <1>7, <1>8, <1>9, <1>10, <1>11 DEF Next, FlushStep

\* A completed job without results had an attempt that reported every place it
\* found (rqueue.go, Work: a flush forced by a timer needs a result to succeed).
THEOREM EmptyIsAllReported == Spec => []EmptyMeansAllReported
<1> DEFINE J == IInv /\ StartInv /\ FoundInv
<1>1. Init => J
  <2>1. Init => StartInv /\ FoundInv
    BY DEF Init, StartInv, FoundInv, EmptyMeansAllReported, Idle, Empty
  <2> QED BY <2>1, InitIInv
<1>2. J /\ [Next]_vars => J'
  BY NextIInv, StartStep, FoundStep DEF IInv
<1>3. J => EmptyMeansAllReported
  BY DEF FoundInv
<1> QED
  <2> HIDE DEF J
  <2> QED BY <1>1, <1>2, <1>3, PTL DEF Spec

=============================================================================
