----------------------- MODULE EmailEnrichmentProofs -----------------------
(***************************************************************************)
(* Safety of the email enricher for any jobs, scrapes, queue and pool.  The *)
(* counter of a job equals its tasks between Submit and the end of process; *)
(* a job that was drained has none and, no longer being scraped, gets none, *)
(* so that its rows and its file stay as they are.                          *)
(***************************************************************************)
EXTENDS EmailEnrichment, FiniteSetTheorems, TLAPS

\* Only the writer of the job being scraped is inside Submit.
WriterInv == \A t \in In(InWriter) : phase[JobOf(t)] = "scraping"

\* A drained job has no task in the queue or in the pool, and gets none.
DrainedInv ==
  \A j \in drained : phase[j] \notin {"waiting", "scraping", "draining"} /\ Of(j, In(Counting)) = {}

\* The file is rewritten once, after the wait.
UnwrittenInv ==
  \A j \in Jobs : phase[j] \in {"waiting", "scraping", "draining", "drained"} => csv[j] = NoRows

States == {"new", "upserted", "refused", "finished", "dropped"} \cup Counting

IInv ==
  /\ TypeOK
  /\ CounterExact
  /\ WriterInv
  /\ DrainedInv
  /\ UnwrittenInv
  /\ DrainedFileIsFinal
  /\ PendingIsAccountedFor

----------------------------------------------------------------------------
\* Sets of tasks are finite.
LEMMA TasksFinite ==
  ASSUME NEW S, NEW j
  PROVE  IsFiniteSet(In(S)) /\ IsFiniteSet(Of(j, In(S)))
<1>1. In(S) \subseteq Emissions /\ Of(j, In(S)) \subseteq Emissions
  BY DEF In, Of
<1> QED BY <1>1, EmissionsAssumption, FS_Subset

\* A task that advances enters or leaves the sets of its states, no other does.
LEMMA AdvanceMoves ==
  ASSUME TypeOK, NEW t \in Emissions, NEW state \in States, Advance(t, state), NEW S
  PROVE  /\ task' \in [Emissions -> States]
         /\ task'[t] = state /\ \A u \in Emissions : u # t => task'[u] = task[u]
         /\ In(S)' = IF state \in S THEN In(S) \cup {t} ELSE In(S) \ {t}
         /\ \A j : Of(j, In(S))' = IF j # JobOf(t) THEN Of(j, In(S))
                                   ELSE IF state \in S THEN Of(j, In(S)) \cup {t}
                                   ELSE Of(j, In(S)) \ {t}
<1>1. task \in [Emissions -> States]
  BY DEF TypeOK, States
<1>2. /\ task' \in [Emissions -> States]
      /\ task'[t] = state /\ \A u \in Emissions : u # t => task'[u] = task[u]
  BY <1>1 DEF Advance
<1>3. In(S)' = IF state \in S THEN In(S) \cup {t} ELSE In(S) \ {t}
  BY <1>2 DEF In
<1>4. \A j : Of(j, In(S))' = IF j # JobOf(t) THEN Of(j, In(S))
                             ELSE IF state \in S THEN Of(j, In(S)) \cup {t}
                             ELSE Of(j, In(S)) \ {t}
  BY <1>3 DEF Of
<1> QED BY <1>2, <1>3, <1>4

\* How the size of a set of states follows the advance of one task.
LEMMA AdvanceCounts ==
  ASSUME TypeOK, NEW t \in Emissions, NEW state \in States, Advance(t, state), NEW S, NEW j
  PROVE  /\ Cardinality(In(S))' =
              Cardinality(In(S)) + (IF state \in S THEN (IF task[t] \in S THEN 0 ELSE 1)
                                    ELSE (IF task[t] \in S THEN -1 ELSE 0))
         /\ Cardinality(Of(j, In(S)))' =
              Cardinality(Of(j, In(S))) +
                (IF j # JobOf(t) THEN 0
                 ELSE IF state \in S THEN (IF task[t] \in S THEN 0 ELSE 1)
                 ELSE (IF task[t] \in S THEN -1 ELSE 0))
         /\ Cardinality(In(S)) \in Nat /\ Cardinality(Of(j, In(S))) \in Nat
<1>1. t \in In(S) <=> task[t] \in S
  BY DEF In
<1>2. JobOf(t) = j => (t \in Of(j, In(S)) <=> task[t] \in S)
  BY <1>1 DEF Of
<1>3. IsFiniteSet(In(S)) /\ IsFiniteSet(Of(j, In(S)))
  BY TasksFinite
<1>4. /\ In(S)' = IF state \in S THEN In(S) \cup {t} ELSE In(S) \ {t}
      /\ Of(j, In(S))' = IF j # JobOf(t) THEN Of(j, In(S))
                         ELSE IF state \in S THEN Of(j, In(S)) \cup {t}
                         ELSE Of(j, In(S)) \ {t}
  BY AdvanceMoves
<1>5. /\ Cardinality(In(S)) \in Nat /\ Cardinality(Of(j, In(S))) \in Nat
      /\ Cardinality(In(S) \cup {t}) = IF t \in In(S) THEN Cardinality(In(S)) ELSE Cardinality(In(S)) + 1
      /\ Cardinality(In(S) \ {t}) = IF t \in In(S) THEN Cardinality(In(S)) - 1 ELSE Cardinality(In(S))
      /\ Cardinality(Of(j, In(S)) \cup {t}) =
           IF t \in Of(j, In(S)) THEN Cardinality(Of(j, In(S))) ELSE Cardinality(Of(j, In(S))) + 1
      /\ Cardinality(Of(j, In(S)) \ {t}) =
           IF t \in Of(j, In(S)) THEN Cardinality(Of(j, In(S))) - 1 ELSE Cardinality(Of(j, In(S)))
  BY <1>3, FS_CardinalityType, FS_AddElement, FS_RemoveElement
<1>6. Cardinality(In(S))' = Cardinality(In(S)') /\ Cardinality(Of(j, In(S)))' = Cardinality(Of(j, In(S))')
  OBVIOUS
<1>7. Cardinality(In(S))' =
        Cardinality(In(S)) + (IF state \in S THEN (IF task[t] \in S THEN 0 ELSE 1)
                              ELSE (IF task[t] \in S THEN -1 ELSE 0))
  BY <1>1, <1>4, <1>5, <1>6
<1>8. Cardinality(Of(j, In(S)))' =
        Cardinality(Of(j, In(S))) +
          (IF j # JobOf(t) THEN 0
           ELSE IF state \in S THEN (IF task[t] \in S THEN 0 ELSE 1)
           ELSE (IF task[t] \in S THEN -1 ELSE 0))
  BY <1>2, <1>4, <1>5, <1>6
<1> QED BY <1>5, <1>7, <1>8

----------------------------------------------------------------------------
(* What the advance of one task keeps.                                      *)

\* A counter that follows its task stays exact.
LEMMA CountKept ==
  ASSUME TypeOK, CounterExact, NEW t \in Emissions, NEW state \in States, Advance(t, state),
         pending' = [pending EXCEPT ![JobOf(t)] =
           @ + (IF state \in Counting THEN 1 ELSE 0) - (IF task[t] \in Counting THEN 1 ELSE 0)]
  PROVE  CounterExact' /\ pending' \in [Jobs -> Nat]
<1>1. pending \in [Jobs -> Nat] /\ JobOf(t) \in Jobs
  BY EmissionsAssumption DEF TypeOK, JobOf
<1>2. ASSUME NEW j \in Jobs
      PROVE  pending'[j] = Cardinality(Of(j, In(Counting)))' /\ pending'[j] \in Nat
  <2>1. pending'[j] = IF j = JobOf(t)
          THEN pending[j] + (IF state \in Counting THEN 1 ELSE 0) - (IF task[t] \in Counting THEN 1 ELSE 0)
          ELSE pending[j]
    BY <1>1
  <2>2. pending[j] = Cardinality(Of(j, In(Counting))) /\ pending[j] \in Nat
    BY <1>1 DEF CounterExact
  <2>3. Cardinality(Of(j, In(Counting)))' =
          Cardinality(Of(j, In(Counting))) +
            (IF j # JobOf(t) THEN 0
             ELSE IF state \in Counting THEN (IF task[t] \in Counting THEN 0 ELSE 1)
             ELSE (IF task[t] \in Counting THEN -1 ELSE 0))
    BY AdvanceCounts
  <2>4. pending'[j] = Cardinality(Of(j, In(Counting)))'
    BY <2>1, <2>2, <2>3
  <2>5. Cardinality(Of(j, In(Counting)))' \in Nat
    <3>1. IsFiniteSet(Of(j, In(Counting)))'
      <4>1. Of(j, In(Counting))' \subseteq Emissions
        BY DEF Of, In
      <4> QED BY <4>1, EmissionsAssumption, FS_Subset
    <3> QED BY <3>1, FS_CardinalityType
  <2> QED BY <2>4, <2>5
<1>3. pending' = [j \in Jobs |-> pending'[j]]
  BY <1>1
<1>4. CounterExact'
  BY <1>2 DEF CounterExact
<1> QED BY <1>2, <1>3, <1>4

\* A drained job gets no task: those that begin belong to the job being scraped.
LEMMA DrainKept ==
  ASSUME TypeOK, DrainedInv, NEW t \in Emissions, NEW state \in States, Advance(t, state),
         UNCHANGED <<phase, drained>>,
         state \in Counting => task[t] \in Counting \/ phase[JobOf(t)] = "scraping"
  PROVE  DrainedInv'
<1> SUFFICES ASSUME NEW j \in drained
             PROVE  Of(j, In(Counting))' = {}
  BY DEF DrainedInv
<1>1. Of(j, In(Counting)) = {} /\ phase[j] # "scraping"
  BY DEF DrainedInv
<1>2. j = JobOf(t) => task[t] \notin Counting
  BY <1>1 DEF Of, In
<1>3. Of(j, In(Counting))' = IF j # JobOf(t) THEN Of(j, In(Counting))
                             ELSE IF state \in Counting THEN Of(j, In(Counting)) \cup {t}
                             ELSE Of(j, In(Counting)) \ {t}
  BY AdvanceMoves
<1> QED BY <1>1, <1>2, <1>3

\* The writer stays with the job being scraped.
LEMMA WriterKept ==
  ASSUME TypeOK, WriterInv, NEW t \in Emissions, NEW state \in States, Advance(t, state),
         UNCHANGED phase,
         state \in InWriter => task[t] \in InWriter \/ phase[JobOf(t)] = "scraping"
  PROVE  WriterInv'
<1>1. In(InWriter)' = IF state \in InWriter THEN In(InWriter) \cup {t} ELSE In(InWriter) \ {t}
  BY AdvanceMoves
<1>2. state \in InWriter => phase[JobOf(t)] = "scraping"
  BY DEF WriterInv, In
<1>3. ASSUME NEW u \in In(InWriter)'
      PROVE  phase'[JobOf(u)] = "scraping"
  <2>1. (u = t /\ state \in InWriter) \/ u \in In(InWriter)
    BY <1>1, <1>3
  <2>2. u \in In(InWriter) => phase[JobOf(u)] = "scraping"
    BY DEF WriterInv
  <2> QED BY <1>2, <2>1, <2>2
<1> QED BY <1>3 DEF WriterInv, JobOf

\* The queue and the pool keep to their sizes if the task that enters finds room.
LEMMA TypeKept ==
  ASSUME TypeOK, NEW t \in Emissions, NEW state \in States, Advance(t, state),
         UNCHANGED <<phase, drained, csv, down>>,
         pending' \in [Jobs -> Nat],
         row' \in [Jobs -> [Places -> Statuses \cup {"absent"}]],
         state = "queued" => Cardinality(In({"queued"})) < QueueCap,
         state \in InWorker => task[t] \in InWorker \/ Cardinality(In(InWorker)) < Workers
  PROVE  TypeOK'
<1>1. task' \in [Emissions -> {"new", "upserted", "refused", "finished", "dropped"} \cup Counting]
  BY AdvanceMoves DEF States
<1>2. /\ Cardinality(In({"queued"}))' <= Cardinality(In({"queued"})) + (IF state = "queued" THEN 1 ELSE 0)
      /\ Cardinality(In({"queued"})) \in Nat /\ Cardinality(In({"queued"}))' \in Int
  BY AdvanceCounts
<1>3. /\ Cardinality(In(InWorker))' <=
            Cardinality(In(InWorker)) + (IF state \in InWorker /\ task[t] \notin InWorker THEN 1 ELSE 0)
      /\ Cardinality(In(InWorker)) \in Nat /\ Cardinality(In(InWorker))' \in Int
  <2>1. /\ Cardinality(In(InWorker))' =
             Cardinality(In(InWorker)) + (IF state \in InWorker THEN (IF task[t] \in InWorker THEN 0 ELSE 1)
                                          ELSE (IF task[t] \in InWorker THEN -1 ELSE 0))
        /\ Cardinality(In(InWorker)) \in Nat
    BY AdvanceCounts
  <2> QED BY <2>1
<1>4. Cardinality(In({"queued"}))' <= QueueCap
  BY <1>2, CapAssumption DEF TypeOK
<1>5. Cardinality(In(InWorker))' <= Workers
  BY <1>3, PoolAssumption DEF TypeOK
<1> QED BY <1>1, <1>4, <1>5 DEF TypeOK

\* The states that account for a pending row.
Accounted == {"upserted", "counted", "queued", "taken", "refused", "unsaved", "dropped"}

\* A pending row keeps its account when no row changes.
LEMMA AccountKept ==
  ASSUME TypeOK, PendingIsAccountedFor, NEW t \in Emissions, NEW state \in States, Advance(t, state),
         UNCHANGED row, task[t] \in Accounted => state \in Accounted
  PROVE  PendingIsAccountedFor'
<1> SUFFICES ASSUME NEW j \in Jobs, NEW p \in Places, row[j][p] = "pending"
             PROVE  \E u \in Of(j, In(Accounted))' : Place(u) = p
  BY DEF PendingIsAccountedFor, Accounted
<1>1. PICK u \in Of(j, In(Accounted)) : Place(u) = p
  BY DEF PendingIsAccountedFor, Accounted
<1>2. u \in Emissions /\ JobOf(u) = j /\ task[u] \in Accounted
  BY <1>1 DEF Of, In
<1>3. task'[u] \in Accounted
  BY <1>2, AdvanceMoves
<1>4. u \in Of(j, In(Accounted))'
  BY <1>2, <1>3 DEF Of, In
<1> QED BY <1>1, <1>4

----------------------------------------------------------------------------
(* Every action keeps the invariant.                                        *)

LEMMA UpsertJobResultKeeps ==
  ASSUME IInv, NEW t \in Emissions, NEW initial \in {"pending", "skipped"}, UpsertJobResult(t, initial)
  PROVE  IInv'
<1> DEFINE state == IF initial = "pending" THEN "upserted" ELSE "finished"
           j == JobOf(t)
           p == Place(t)
<1>1. state \in States /\ Advance(t, state) /\ task[t] = "new" /\ phase[j] = "scraping"
  BY DEF UpsertJobResult, States, Counting
<1>2. j \in Jobs /\ p \in Places /\ j \notin drained
  BY <1>1, EmissionsAssumption DEF JobOf, Place, IInv, DrainedInv
<1>3. state \notin Counting /\ task[t] \notin Counting /\ state \notin InWorker /\ state # "queued"
  BY <1>1 DEF Counting, InWorker
<1>4. UNCHANGED <<phase, drained, csv, pending, down>> /\ row' = Stored(j, p, initial)
  BY DEF UpsertJobResult
<1>5. row \in [Jobs -> [Places -> Statuses \cup {"absent"}]]
  BY DEF IInv, TypeOK
<1>6. /\ row' \in [Jobs -> [Places -> Statuses \cup {"absent"}]]
      /\ \A k \in Jobs, q \in Places : row'[k][q] =
           IF k = j /\ q = p /\ row[j][p] = "absent" THEN initial ELSE row[k][q]
  BY <1>2, <1>4, <1>5 DEF Stored, Statuses
<1>7. \A k \in Jobs : k # j => row'[k] = row[k]
  BY <1>2, <1>4, <1>5 DEF Stored
<1> HIDE DEF state, j, p
<1>8. CounterExact' /\ pending' \in [Jobs -> Nat]
  <2>1. pending \in [Jobs -> Nat]
    BY DEF IInv, TypeOK
  <2>2. pending' = [pending EXCEPT ![JobOf(t)] =
           @ + (IF state \in Counting THEN 1 ELSE 0) - (IF task[t] \in Counting THEN 1 ELSE 0)]
    BY <1>2, <1>3, <1>4, <2>1 DEF j
  <2> QED BY <1>1, <2>2, CountKept DEF IInv
<1>9. TypeOK'
  BY <1>1, <1>3, <1>4, <1>6, <1>8, TypeKept DEF IInv
<1>10. WriterInv'
  BY <1>1, <1>4, WriterKept DEF IInv, j
<1>11. DrainedInv'
  BY <1>1, <1>3, <1>4, DrainKept DEF IInv
<1>12. DrainedFileIsFinal'
  BY <1>2, <1>4, <1>7 DEF IInv, DrainedFileIsFinal, TypeOK, NoRows
<1>13. PendingIsAccountedFor'
  <2> SUFFICES ASSUME NEW k \in Jobs, NEW q \in Places, row'[k][q] = "pending"
               PROVE  \E u \in Of(k, In(Accounted))' : Place(u) = q
    BY DEF PendingIsAccountedFor, Accounted
  <2>1. CASE row[k][q] = "pending"
    <3>1. PICK u \in Of(k, In(Accounted)) : Place(u) = q
      BY <2>1 DEF IInv, PendingIsAccountedFor, Accounted
    <3>2. u \in Emissions /\ u # t /\ JobOf(u) = k /\ task[u] \in Accounted
      BY <1>1, <3>1 DEF Of, In, Accounted
    <3>3. task'[u] = task[u]
      BY <1>1, <3>2, AdvanceMoves DEF IInv
    <3> QED BY <3>1, <3>2, <3>3 DEF Of, In
  <2>2. CASE row[k][q] # "pending"
    <3>1. k = j /\ q = p /\ initial = "pending"
      BY <1>6, <2>2
    <3>2. task'[t] = "upserted"
      BY <1>1, <3>1, AdvanceMoves DEF IInv, state
    <3> QED BY <3>1, <3>2 DEF Of, In, Accounted, j, p
  <2> QED BY <2>1, <2>2
<1>14. UnwrittenInv'
  BY <1>4 DEF IInv, UnwrittenInv, NoRows
<1> QED BY <1>8, <1>9, <1>10, <1>11, <1>12, <1>13, <1>14 DEF IInv

\* A step of one task that leaves the rows alone.
LEMMA TaskStepKeeps ==
  ASSUME IInv, NEW t \in Emissions, NEW state \in States, Advance(t, state),
         UNCHANGED <<phase, drained, row, csv, down>>,
         pending' = [pending EXCEPT ![JobOf(t)] =
           @ + (IF state \in Counting THEN 1 ELSE 0) - (IF task[t] \in Counting THEN 1 ELSE 0)],
         state = "queued" => Cardinality(In({"queued"})) < QueueCap,
         state \in InWorker => task[t] \in InWorker \/ Cardinality(In(InWorker)) < Workers,
         state \in InWriter => task[t] \in InWriter,
         state \in Counting => task[t] \in Counting \/ task[t] \in InWriter,
         task[t] \in Accounted => state \in Accounted
  PROVE  IInv'
<1>1. CounterExact' /\ pending' \in [Jobs -> Nat]
  BY CountKept DEF IInv
<1>2. row' \in [Jobs -> [Places -> Statuses \cup {"absent"}]]
  BY DEF IInv, TypeOK
<1>3. TypeOK'
  BY <1>1, <1>2, TypeKept DEF IInv
<1>4. WriterInv'
  BY WriterKept DEF IInv
<1>5. task[t] \in InWriter => phase[JobOf(t)] = "scraping"
  BY DEF IInv, WriterInv, In
<1>6. DrainedInv'
  BY <1>5, DrainKept DEF IInv
<1>7. DrainedFileIsFinal'
  BY DEF IInv, DrainedFileIsFinal
<1>8. PendingIsAccountedFor'
  BY AccountKept DEF IInv
<1>9. UnwrittenInv'
  BY DEF IInv, UnwrittenInv, NoRows
<1> QED BY <1>1, <1>3, <1>4, <1>6, <1>7, <1>8, <1>9 DEF IInv

\* A step that neither counts nor uncounts its task leaves the counters alone.
LEMMA SameCount ==
  ASSUME IInv, NEW t \in Emissions, NEW state \in States, UNCHANGED pending,
         state \in Counting <=> task[t] \in Counting
  PROVE  pending' = [pending EXCEPT ![JobOf(t)] =
           @ + (IF state \in Counting THEN 1 ELSE 0) - (IF task[t] \in Counting THEN 1 ELSE 0)]
<1>1. pending \in [Jobs -> Nat] /\ JobOf(t) \in Jobs
  BY EmissionsAssumption DEF IInv, TypeOK, JobOf
<1> QED BY <1>1

LEMMA SubmitCountsKeeps ==
  ASSUME IInv, NEW t \in Emissions, SubmitCounts(t)
  PROVE  IInv'
<1> DEFINE state == "counted"
<1>1. state \in States /\ Advance(t, state) /\ UNCHANGED <<phase, drained, row, csv, down>>
  BY DEF SubmitCounts, States, Counting
<1>2. /\ task[t] = "upserted" /\ task[t] \notin Counting /\ state \in Counting
      /\ state \in InWriter /\ task[t] \in InWriter /\ state \notin InWorker
      /\ state \in Accounted /\ state # "queued"
  BY DEF SubmitCounts, Counting, InWriter, InWorker, Accounted
<1>3. pending' = [pending EXCEPT ![JobOf(t)] =
        @ + (IF state \in Counting THEN 1 ELSE 0) - (IF task[t] \in Counting THEN 1 ELSE 0)]
  BY <1>2, EmissionsAssumption DEF SubmitCounts, IInv, TypeOK, JobOf
<1> HIDE DEF state
<1> QED BY <1>1, <1>2, <1>3, TaskStepKeeps

LEMMA SubmitSendsKeeps ==
  ASSUME IInv, NEW t \in Emissions, SubmitSends(t)
  PROVE  IInv'
<1>1. task[t] = "counted" /\ UNCHANGED <<phase, drained, row, csv, down>>
  BY DEF SubmitSends
<1>2. CASE Cardinality(In({"queued"})) < QueueCap
  <2> DEFINE state == "queued"
  <2>1. state \in States /\ Advance(t, state) /\ UNCHANGED pending
    BY <1>2 DEF SubmitSends, States, Counting
  <2>2. /\ task[t] \in Counting /\ state \in Counting /\ state \notin InWriter
        /\ state \notin InWorker /\ state \in Accounted
    BY <1>1 DEF Counting, InWriter, InWorker, Accounted
  <2> HIDE DEF state
  <2>3. pending' = [pending EXCEPT ![JobOf(t)] =
          @ + (IF state \in Counting THEN 1 ELSE 0) - (IF task[t] \in Counting THEN 1 ELSE 0)]
    BY <2>1, <2>2, SameCount
  <2> QED BY <1>1, <1>2, <2>1, <2>2, <2>3, TaskStepKeeps
<1>3. CASE ~(Cardinality(In({"queued"})) < QueueCap)
  <2> DEFINE state == "refused"
  <2>1. state \in States /\ Advance(t, state)
    BY <1>3 DEF SubmitSends, States
  <2>2. /\ task[t] \in Counting /\ state \notin Counting /\ state \notin InWriter
        /\ state \notin InWorker /\ state \in Accounted /\ state # "queued"
    BY <1>1 DEF Counting, InWriter, InWorker, Accounted
  <2>3. pending' = [pending EXCEPT ![JobOf(t)] =
          @ + (IF state \in Counting THEN 1 ELSE 0) - (IF task[t] \in Counting THEN 1 ELSE 0)]
    BY <1>3, <2>2, EmissionsAssumption DEF SubmitSends, IInv, TypeOK, JobOf
  <2> HIDE DEF state
  <2> QED BY <1>1, <2>1, <2>2, <2>3, TaskStepKeeps
<1> QED BY <1>2, <1>3

LEMMA WorkerTakesKeeps ==
  ASSUME IInv, NEW t \in Emissions, WorkerTakes(t)
  PROVE  IInv'
<1> DEFINE state == "taken"
<1>1. state \in States /\ Advance(t, state) /\ UNCHANGED <<phase, drained, row, csv, pending, down>>
  BY DEF WorkerTakes, States, Counting
<1>2. /\ task[t] \in Counting /\ state \in Counting /\ state \notin InWriter
      /\ state \in Accounted /\ state # "queued" /\ Cardinality(In(InWorker)) < Workers
  BY DEF WorkerTakes, Counting, InWriter, Accounted
<1> HIDE DEF state
<1>3. pending' = [pending EXCEPT ![JobOf(t)] =
        @ + (IF state \in Counting THEN 1 ELSE 0) - (IF task[t] \in Counting THEN 1 ELSE 0)]
  BY <1>1, <1>2, SameCount
<1> QED BY <1>1, <1>2, <1>3, TaskStepKeeps

LEMMA DecrementsKeeps ==
  ASSUME IInv, NEW t \in Emissions, Decrements(t)
  PROVE  IInv'
<1> DEFINE state == IF task[t] = "saved" THEN "finished" ELSE "dropped"
<1>1. state \in States /\ Advance(t, state) /\ UNCHANGED <<phase, drained, row, csv, down>>
  BY DEF Decrements, States
<1>2. /\ task[t] \in Counting /\ state \notin Counting /\ state \notin InWriter
      /\ state \notin InWorker /\ state # "queued"
      /\ task[t] \in Accounted => state \in Accounted
  BY DEF Decrements, Counting, InWriter, InWorker, Accounted
<1> HIDE DEF state
<1>3. pending' = [pending EXCEPT ![JobOf(t)] =
        @ + (IF state \in Counting THEN 1 ELSE 0) - (IF task[t] \in Counting THEN 1 ELSE 0)]
  <2>1. pending \in [Jobs -> Nat] /\ JobOf(t) \in Jobs
    BY EmissionsAssumption DEF IInv, TypeOK, JobOf
  <2>2. pending' = [pending EXCEPT ![JobOf(t)] = @ - 1]
    BY DEF Decrements
  <2>3. (IF state \in Counting THEN 1 ELSE 0) = 0 /\ (IF task[t] \in Counting THEN 1 ELSE 0) = 1
    BY <1>2
  <2>4. pending[JobOf(t)] + 0 - 1 = pending[JobOf(t)] - 1
    BY <2>1
  <2> QED BY <2>2, <2>3, <2>4
<1> QED BY <1>1, <1>2, <1>3, TaskStepKeeps

LEMMA PersistKeeps ==
  ASSUME IInv, NEW t \in Emissions, NEW status \in {"done", "empty", "failed"}, NEW ok \in BOOLEAN,
         Persist(t, status, ok)
  PROVE  IInv'
<1> DEFINE state == IF ok THEN "saved" ELSE "unsaved"
           j == JobOf(t)
           p == Place(t)
<1>1. /\ state \in States /\ Advance(t, state) /\ task[t] = "taken"
      /\ UNCHANGED <<phase, drained, csv, pending, down>>
  BY DEF Persist, States, Counting
<1>2. /\ task[t] \in Counting /\ state \in Counting /\ task[t] \in InWorker
      /\ state # "queued" /\ state \notin InWriter
  BY <1>1 DEF Counting, InWorker, InWriter
<1>3. j \in Jobs /\ p \in Places
  BY EmissionsAssumption DEF JobOf, Place
<1>4. j \notin drained
  BY <1>1, <1>2 DEF IInv, DrainedInv, Of, In
<1>5. row \in [Jobs -> [Places -> Statuses \cup {"absent"}]]
  BY DEF IInv, TypeOK
<1>6. row' = IF ok THEN [row EXCEPT ![j][p] = status] ELSE row
  BY DEF Persist
<1>7. /\ row' \in [Jobs -> [Places -> Statuses \cup {"absent"}]]
      /\ \A k \in Jobs, q \in Places : row'[k][q] = IF ok /\ k = j /\ q = p THEN status ELSE row[k][q]
  BY <1>3, <1>5, <1>6 DEF Statuses
<1>8. \A k \in Jobs : k # j => row'[k] = row[k]
  BY <1>3, <1>5, <1>6
<1>9. ~ok => state \in Accounted
  BY DEF Accounted
<1> HIDE DEF state, j, p
<1>10. CounterExact' /\ pending' \in [Jobs -> Nat]
  <2>1. pending' = [pending EXCEPT ![JobOf(t)] =
          @ + (IF state \in Counting THEN 1 ELSE 0) - (IF task[t] \in Counting THEN 1 ELSE 0)]
    BY <1>1, <1>2, SameCount
  <2> QED BY <1>1, <2>1, CountKept DEF IInv
<1>11. TypeOK'
  BY <1>1, <1>2, <1>7, <1>10, TypeKept DEF IInv
<1>12. WriterInv'
  BY <1>1, <1>2, WriterKept DEF IInv
<1>13. DrainedInv'
  BY <1>1, <1>2, DrainKept DEF IInv
<1>14. DrainedFileIsFinal'
  <2> SUFFICES ASSUME NEW k \in drained
               PROVE  csv[k] \in {NoRows, row'[k]}
    BY <1>1 DEF DrainedFileIsFinal, NoRows
  <2>1. k \in Jobs /\ csv[k] \in {NoRows, row[k]}
    BY DEF IInv, TypeOK, DrainedFileIsFinal
  <2> QED BY <1>4, <1>8, <2>1
<1>15. PendingIsAccountedFor'
  <2> SUFFICES ASSUME NEW k \in Jobs, NEW q \in Places, row'[k][q] = "pending"
               PROVE  \E u \in Of(k, In(Accounted))' : Place(u) = q
    BY DEF PendingIsAccountedFor, Accounted
  <2>1. row[k][q] = "pending" /\ ~(ok /\ k = j /\ q = p)
    BY <1>7
  <2>2. PICK u \in Of(k, In(Accounted)) : Place(u) = q
    BY <2>1 DEF IInv, PendingIsAccountedFor, Accounted
  <2>3. u \in Emissions /\ JobOf(u) = k /\ task[u] \in Accounted
    BY <2>2 DEF Of, In
  <2>4. u = t => ~ok
    BY <2>1, <2>2, <2>3 DEF j, p
  <2>5. task'[u] \in Accounted
    BY <1>1, <1>9, <2>3, <2>4, AdvanceMoves DEF IInv
  <2> QED BY <2>2, <2>3, <2>5 DEF Of, In
<1>16. UnwrittenInv'
  BY <1>1 DEF IInv, UnwrittenInv, NoRows
<1> QED BY <1>10, <1>11, <1>12, <1>13, <1>14, <1>15, <1>16 DEF IInv

\* A step of scrapeJob that leaves tasks, rows and counters alone.
LEMMA PhaseStepKeeps ==
  ASSUME IInv, NEW j \in Jobs, NEW to, UNCHANGED <<task, row, pending, down>>,
         to \in {"waiting", "scraping", "draining", "drained", "materialized", "ok", "failed"},
         phase' = [phase EXCEPT ![j] = to],
         phase[j] = "scraping" => In(InWriter) = {},
         to \in {"waiting", "scraping", "draining"} => phase[j] \in {"waiting", "scraping", "draining"},
         UNCHANGED drained \/ (drained' = drained \cup {j} /\ pending[j] = 0
                                /\ to \notin {"waiting", "scraping", "draining"}),
         csv' \in [Jobs -> [Places -> Statuses \cup {"absent"}]],
         \A k \in drained' : csv'[k] \in {NoRows, row[k]},
         \A k \in Jobs : k # j => csv'[k] = csv[k],
         to \in {"waiting", "scraping", "draining", "drained"} =>
           UNCHANGED csv /\ phase[j] \in {"waiting", "scraping", "draining", "drained"}
  PROVE  IInv'
<1>1. /\ TypeOK /\ CounterExact /\ WriterInv /\ DrainedInv /\ PendingIsAccountedFor
      /\ phase \in [Jobs -> {"waiting", "scraping", "draining", "drained", "materialized", "ok", "failed"}]
      /\ drained \subseteq Jobs
  BY DEF IInv, TypeOK
<1>2. \A S : In(S)' = In(S)
  BY DEF In
<1>3. \A k, S : Of(k, In(S))' = Of(k, In(S))
  BY <1>2 DEF Of
<1>4. \A k \in Jobs : k # j => phase'[k] = phase[k]
  BY <1>1
<1>5. phase'[j] = to
  BY <1>1
<1>6. TypeOK'
  BY <1>1 DEF TypeOK, In
<1>7. CounterExact'
  BY <1>1 DEF CounterExact, Of, In
<1>8. WriterInv'
  <2> SUFFICES ASSUME NEW u \in In(InWriter)
               PROVE  phase'[JobOf(u)] = "scraping"
    BY DEF WriterInv, In, JobOf
  <2>1. phase[JobOf(u)] = "scraping" /\ JobOf(u) \in Jobs
    BY <1>1, EmissionsAssumption DEF WriterInv, In, JobOf
  <2> QED BY <1>4, <2>1
<1>9. DrainedInv'
  <2> SUFFICES ASSUME NEW k \in drained'
               PROVE  phase'[k] \notin {"waiting", "scraping", "draining"} /\ Of(k, In(Counting)) = {}
    BY DEF DrainedInv, Of, In
  <2>1. CASE k \in drained
    <3>1. phase[k] \notin {"waiting", "scraping", "draining"} /\ Of(k, In(Counting)) = {} /\ k \in Jobs
      BY <1>1, <2>1 DEF DrainedInv
    <3> QED BY <1>4, <1>5, <3>1
  <2>2. CASE k \notin drained
    <3>1. k = j /\ pending[j] = 0 /\ to \notin {"waiting", "scraping", "draining"}
      BY <2>2
    <3>2. Cardinality(Of(j, In(Counting))) = 0
      BY <1>1, <3>1 DEF CounterExact
    <3>3. Of(j, In(Counting)) = {}
      BY <3>2, TasksFinite, FS_EmptySet
    <3> QED BY <1>5, <3>1, <3>3
  <2> QED BY <2>1, <2>2
<1>10. DrainedFileIsFinal'
  BY DEF DrainedFileIsFinal, NoRows
<1>11. PendingIsAccountedFor'
  BY <1>1 DEF PendingIsAccountedFor, Of, In
<1>12. UnwrittenInv'
  <2> SUFFICES ASSUME NEW k \in Jobs, phase'[k] \in {"waiting", "scraping", "draining", "drained"}
               PROVE  csv'[k] = NoRows
    BY DEF UnwrittenInv, NoRows
  <2>1. phase[k] \in {"waiting", "scraping", "draining", "drained"} /\ csv'[k] = csv[k]
    BY <1>4, <1>5
  <2> QED BY <2>1 DEF IInv, UnwrittenInv
<1> QED BY <1>6, <1>7, <1>8, <1>9, <1>10, <1>11, <1>12 DEF IInv

LEMMA ScrapeJobStepKeeps ==
  ASSUME IInv, NEW j \in Jobs,
         \/ ScrapeStarts(j) \/ UpsertFails(j) \/ ScrapeEnds(j)
         \/ WaitForJob(j) \/ WaitForJobGivesUp(j)
         \/ \E ok \in BOOLEAN : MaterializeJobCSV(j, ok) \/ RunEnds(j, ok)
  PROVE  IInv'
<1>1. /\ csv \in [Jobs -> [Places -> Statuses \cup {"absent"}]]
      /\ row \in [Jobs -> [Places -> Statuses \cup {"absent"}]]
      /\ drained \subseteq Jobs /\ \A k \in drained : csv[k] \in {NoRows, row[k]}
  BY DEF IInv, TypeOK, DrainedFileIsFinal
<1>2. CASE ScrapeStarts(j)
  BY <1>1, <1>2, PhaseStepKeeps DEF ScrapeStarts
<1>3. CASE UpsertFails(j)
  BY <1>1, <1>3, PhaseStepKeeps DEF UpsertFails
<1>4. CASE ScrapeEnds(j)
  BY <1>1, <1>4, PhaseStepKeeps DEF ScrapeEnds
<1>5. CASE WaitForJob(j)
  <2>1. csv[j] = NoRows
    BY <1>5 DEF WaitForJob, IInv, UnwrittenInv
  <2> QED BY <1>1, <1>5, <2>1, PhaseStepKeeps DEF WaitForJob, NonePending
<1>6. CASE WaitForJobGivesUp(j)
  BY <1>1, <1>6, PhaseStepKeeps DEF WaitForJobGivesUp
<1>7. ASSUME NEW ok \in BOOLEAN, MaterializeJobCSV(j, ok)
      PROVE  IInv'
  <2>1. /\ csv' \in [Jobs -> [Places -> Statuses \cup {"absent"}]]
        /\ \A k \in drained : csv'[k] \in {NoRows, row[k]}
    BY <1>1, <1>7 DEF MaterializeJobCSV
  <2> QED BY <1>7, <2>1, PhaseStepKeeps DEF MaterializeJobCSV
<1>8. ASSUME NEW ok \in BOOLEAN, RunEnds(j, ok)
      PROVE  IInv'
  BY <1>1, <1>8, PhaseStepKeeps DEF RunEnds
<1> QED BY <1>2, <1>3, <1>4, <1>5, <1>6, <1>7, <1>8

LEMMA InitIInv == Init => IInv
<1> SUFFICES ASSUME Init
             PROVE  IInv
  OBVIOUS
<1> USE DEF Init
<1>1. \A S : "new" \notin S => In(S) = {}
  BY DEF In
<1>2. /\ In({"queued"}) = {} /\ In(InWorker) = {} /\ In(InWriter) = {} /\ In(Counting) = {}
  BY <1>1 DEF InWorker, InWriter, Counting
<1>3. \A j : Of(j, In(Counting)) = {}
  BY <1>2 DEF Of
<1>4. Cardinality({}) = 0
  BY FS_EmptySet
<1>5. NoRows \in [Places -> Statuses \cup {"absent"}] /\ \A p \in Places : NoRows[p] # "pending"
  BY DEF NoRows
<1>6. TypeOK
  <2>1. Cardinality(In({"queued"})) <= QueueCap /\ Cardinality(In(InWorker)) <= Workers
    BY <1>2, <1>4, CapAssumption, PoolAssumption
  <2>2. row \in [Jobs -> [Places -> Statuses \cup {"absent"}]] /\ csv = row
    BY <1>5
  <2> QED BY <2>1, <2>2 DEF TypeOK
<1>7. CounterExact
  BY <1>3, <1>4 DEF CounterExact
<1>8. WriterInv
  BY <1>2 DEF WriterInv
<1>9. DrainedInv /\ DrainedFileIsFinal
  BY DEF DrainedInv, DrainedFileIsFinal
<1>10. UnwrittenInv
  BY DEF UnwrittenInv
<1>11. PendingIsAccountedFor
  BY <1>5 DEF PendingIsAccountedFor
<1> QED BY <1>6, <1>7, <1>8, <1>9, <1>10, <1>11 DEF IInv

LEMMA NextIInv == IInv /\ [Next]_vars => IInv'
<1> SUFFICES ASSUME IInv, [Next]_vars
             PROVE  IInv'
  OBVIOUS
<1>1. ASSUME NEW j \in Jobs, ScrapeStarts(j) \/ UpsertFails(j) \/ ScrapeEnds(j) \/ DrainStep(j)
      PROVE  IInv'
  BY <1>1, ScrapeJobStepKeeps DEF DrainStep
<1>2. ASSUME NEW t \in Emissions, NEW initial \in {"pending", "skipped"}, UpsertJobResult(t, initial)
      PROVE  IInv'
  BY <1>2, UpsertJobResultKeeps
<1>3. ASSUME NEW t \in Emissions, SubmitStep(t)
      PROVE  IInv'
  BY <1>3, SubmitCountsKeeps, SubmitSendsKeeps DEF SubmitStep
<1>4. ASSUME NEW t \in Emissions, WorkerStep(t)
      PROVE  IInv'
  <2>1. CASE WorkerTakes(t)
    BY <2>1, WorkerTakesKeeps
  <2>2. ASSUME NEW status \in {"done", "empty", "failed"}, NEW ok \in BOOLEAN, Persist(t, status, ok)
        PROVE  IInv'
    BY <2>2, PersistKeeps
  <2>3. CASE Decrements(t)
    BY <2>3, DecrementsKeeps
  <2> QED BY <1>4, <2>1, <2>2, <2>3 DEF WorkerStep
<1>5. CASE Shutdown
  BY <1>5 DEF Shutdown, IInv, TypeOK, CounterExact, WriterInv, DrainedInv, UnwrittenInv,
              DrainedFileIsFinal, PendingIsAccountedFor, Of, In, NoRows, JobOf, Place
<1>6. CASE UNCHANGED vars
  BY <1>6 DEF vars, IInv, TypeOK, CounterExact, WriterInv, DrainedInv, UnwrittenInv,
              DrainedFileIsFinal, PendingIsAccountedFor, Of, In, NoRows, JobOf, Place
<1> QED BY <1>1, <1>2, <1>3, <1>4, <1>5, <1>6 DEF Next

----------------------------------------------------------------------------
\* The inductive invariant holds in every reachable state.
THEOREM Invariance == Spec => []IInv
<1> QED BY InitIInv, NextIInv, PTL DEF Spec

\* Every reachable state is well typed: neither the queue nor the pool of workers
\* ever holds more tasks than its size.
THEOREM TypeCorrect == Spec => []TypeOK
<1>1. IInv => TypeOK
  BY DEF IInv
<1> QED BY <1>1, Invariance, PTL

\* The counter a run waits on is the number of the job's tasks that are queued or
\* in a worker, in every interleaving of Submit with the pool.
THEOREM CountExact == Spec => []CounterExact
<1>1. IInv => CounterExact
  BY DEF IInv
<1> QED BY <1>1, Invariance, PTL

\* A run that drained its tasks writes a file that no later email can outdate.
THEOREM DrainedFinal == Spec => []DrainedFileIsFinal
<1>1. IInv => DrainedFileIsFinal
  BY DEF IInv
<1> QED BY <1>1, Invariance, PTL

\* No row is left "pending" by a task that was processed and recorded.
THEOREM PendingAccounted == Spec => []PendingIsAccountedFor
<1>1. IInv => PendingIsAccountedFor
  BY DEF IInv
<1> QED BY <1>1, Invariance, PTL

=============================================================================
