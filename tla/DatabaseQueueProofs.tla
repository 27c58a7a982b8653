------------------------- MODULE DatabaseQueueProofs -------------------------
(***************************************************************************)
(* The table of jobs as a queue, for any jobs, processes and batch sizes:   *)
(* every job is handed out at most once and every entry stored at most once,*)
(* because a job that has left the table is in one place of one process at a*)
(* time, from the batch it was fetched with to the row of its entry.  With  *)
(* the sizes of batches, that makes every step one of the abstract JobTable.*)
(***************************************************************************)
EXTENDS DatabaseQueue, FiniteSetTheorems, TLAPS

\* Where the entry of a place is until its row is stored.
Underway(p) == working[p] \cup emitted[p] \cup buff[p]

\* A row is locked by one process and new; a job in the memory of a provider is
\* there only, is queued, and was not yet handed out.
FetchInv ==
  /\ \A p, q \in Processes, j \in Jobs : j \in locked[p] /\ j \in locked[q] => p = q
  /\ \A p \in Processes, j \in Jobs : j \in locked[p] => status[j] = "new"
  /\ \A p \in Processes, j \in Jobs : j \in InMemory(p) => status[j] = "queued" /\ handed[j] = 0
  /\ \A p, q \in Processes, j \in Jobs : j \in InMemory(p) /\ j \in InMemory(q) => p = q
  /\ \A p \in Processes : batch[p] \cap jobc[p] = {} /\ held[p] \notin batch[p] \cup jobc[p]
  /\ \A j \in Jobs : handed[j] <= 1 /\ (handed[j] = 1 => status[j] = "queued")

\* A job that was handed out is in one stage of one process, and it has no row
\* before the writer is through with it.
WriteInv ==
  /\ \A p \in Processes, j \in Jobs : j \in Underway(p) => handed[j] = 1
  /\ \A p, q \in Processes, j \in Jobs : j \in Underway(p) /\ j \in Underway(q) => p = q
  /\ \A p \in Processes : /\ working[p] \cap emitted[p] = {}
                          /\ (working[p] \cup emitted[p]) \cap buff[p] = {}
  /\ \A p \in Processes, j \in Places :
       j \in working[p] \cup emitted[p] \/ (j \in buff[p] /\ writer[p] = "running") => rows[j] = 0
  /\ \A j \in Places : rows[j] <= 1 /\ (rows[j] = 1 => handed[j] = 1)

IInv == TypeOK /\ FetchInv /\ WriteInv

-----------------------------------------------------------------------------
LEMMA InitIInv == Init => IInv
<1> SUFFICES ASSUME Init PROVE IInv
    OBVIOUS
<1>1. TypeOK
    BY DEF Init, TypeOK
<1>2. FetchInv
    BY NoneAssumption DEF Init, FetchInv, InMemory
<1>3. WriteInv
    BY DEF Init, WriteInv, Underway
<1> QED BY <1>1, <1>2, <1>3 DEF IInv

LEMMA TypeStep ==
  ASSUME TypeOK, [Next]_vars
  PROVE  TypeOK'
<1> USE DEF TypeOK, provider, writing, At
<1>1. ASSUME NEW s \in Seeds, Produce(s) PROVE TypeOK'
  BY <1>1 DEF Produce, Push
<1>2. ASSUME NEW p \in Processes, NEW B \in Batches, FetchSelects(p, B) PROVE TypeOK'
  BY <1>2 DEF FetchSelects, Batches, Free
<1>3. ASSUME NEW p \in Processes, FetchCommits(p) PROVE TypeOK'
  BY <1>3 DEF FetchCommits
<1>4. ASSUME NEW p \in Processes, NEW committed \in BOOLEAN, FetchFails(p, committed) PROVE TypeOK'
  BY <1>4 DEF FetchFails
<1>5. ASSUME NEW p \in Processes, NEW j \in Jobs, FetchSends(p, j) PROVE TypeOK'
  BY <1>5 DEF FetchSends
<1>6. ASSUME NEW p \in Processes, NEW j \in Jobs, ForwarderTakes(p, j) PROVE TypeOK'
  BY <1>6 DEF ForwarderTakes
<1>7. ASSUME NEW p \in Processes, ForwarderHands(p) PROVE TypeOK'
  <2>1. held[p] \in Jobs
    BY <1>7 DEF ForwarderHands
  <2> QED BY <1>7, <2>1 DEF ForwarderHands
<1>8. ASSUME NEW p \in Processes, ForwarderEnds(p) PROVE TypeOK'
  BY <1>8 DEF ForwarderEnds
<1>9. ASSUME NEW p \in Processes, NEW s \in Seeds, NEW found \in SUBSET Unfound,
             ProcessSeed(p, s, found)
      PROVE  TypeOK'
  BY <1>9 DEF ProcessSeed, Push
<1>10. ASSUME NEW p \in Processes, NEW j \in Places, NEW has \in BOOLEAN, ProcessPlace(p, j, has)
       PROVE  TypeOK'
  BY <1>10 DEF ProcessPlace
<1>11. ASSUME NEW p \in Processes, NEW j \in Places, NEW minute \in BOOLEAN,
              WriterReceives(p, j, minute)
       PROVE  TypeOK'
  <2>1. buff' \in [Processes -> SUBSET Places]
    BY <1>11 DEF WriterReceives, BatchSave, BatchSaveFails
  <2>2. rows' \in [Places -> Nat]
    BY <1>11 DEF WriterReceives, BatchSave, BatchSaveFails, Store
  <2> QED BY <1>11, <2>1, <2>2 DEF WriterReceives, BatchSave, BatchSaveFails
<1>12. ASSUME NEW p \in Processes, WriterFinishes(p) PROVE TypeOK'
  <2>1. rows' \in [Places -> Nat]
    BY <1>12 DEF WriterFinishes, BatchSave, BatchSaveFails, Store
  <2> QED BY <1>12, <2>1 DEF WriterFinishes, BatchSave, BatchSaveFails
<1>13. ASSUME NEW p \in Processes, Cancelled(p) PROVE TypeOK'
  BY <1>13 DEF Cancelled
<1>14. ASSUME NEW p \in Processes, Dies(p) PROVE TypeOK'
  BY <1>14 DEF Dies
<1>15. CASE UNCHANGED vars
  BY <1>15 DEF vars
<1> QED
  BY <1>1, <1>2, <1>3, <1>4, <1>5, <1>6, <1>7, <1>8, <1>9, <1>10, <1>11, <1>12, <1>13, <1>14, <1>15
  DEF Next, ProviderStep, WorkStep, WriterStep, FetchSelect, FetchSend, ForwarderTake

\* A push makes rows new that were not in the table: none of them is locked, in
\* memory or handed out.
LEMMA PushKeepsFetch ==
  ASSUME TypeOK, FetchInv, NEW S \in SUBSET Jobs, Push(S),
         UNCHANGED <<locked, batch, jobc, held, handed>>
  PROVE  FetchInv'
BY DEF TypeOK, FetchInv, Push, InMemory

\* A statement that takes effect moves its rows from the table into the memory of
\* the process that had locked them.
LEMMA CommitKeepsFetch ==
  ASSUME TypeOK, FetchInv, NEW p \in Processes,
         status' = [j \in Jobs |-> IF j \in locked[p] THEN "queued" ELSE status[j]],
         batch' = [batch EXCEPT ![p] = locked[p]],
         locked' = [locked EXCEPT ![p] = {}],
         UNCHANGED <<jobc, held, handed>>
  PROVE  FetchInv'
<1> USE DEF TypeOK, FetchInv, InMemory
<1>1. ASSUME NEW q \in Processes, NEW j \in Jobs, j \in InMemory(q)'
      PROVE  (q = p /\ j \in locked[p]) \/ (j \in InMemory(q) /\ j \notin locked[p])
  <2>1. CASE q = p /\ j \in batch'[q]
    BY <2>1
  <2>2. CASE q = p /\ j \notin batch'[q]
    BY <1>1, <2>2
  <2>3. CASE q # p
    <3>1. batch'[q] = batch[q]
      BY <2>3
    <3> QED BY <1>1, <3>1
  <2> QED BY <2>1, <2>2, <2>3
<1>2. \A q \in Processes, j \in Jobs : j \in InMemory(q) => j \notin locked[p]
  OBVIOUS
<1>3. \A q, r \in Processes, j \in Jobs : j \in locked'[q] /\ j \in locked'[r] => q = r
  OBVIOUS
<1>4. \A q \in Processes, j \in Jobs : j \in locked'[q] => status'[j] = "new"
  OBVIOUS
<1>5. \A q \in Processes, j \in Jobs :
         j \in InMemory(q)' => status'[j] = "queued" /\ handed'[j] = 0
  <2> SUFFICES ASSUME NEW q \in Processes, NEW j \in Jobs, j \in InMemory(q)'
               PROVE  status'[j] = "queued" /\ handed'[j] = 0
    OBVIOUS
  <2>1. handed[j] \in Nat
    OBVIOUS
  <2>2. CASE j \in locked[p]
    <3>1. status[j] = "new" /\ handed[j] <= 1 /\ handed[j] # 1
      BY <2>2
    <3>2. status'[j] = "queued" /\ handed' = handed
      BY <2>2
    <3> HIDE DEF TypeOK, FetchInv
    <3> QED BY <2>1, <3>1, <3>2
  <2>3. CASE j \notin locked[p]
    BY <1>1, <2>3
  <2> QED BY <2>2, <2>3
<1>6. \A q, r \in Processes, j \in Jobs : j \in InMemory(q)' /\ j \in InMemory(r)' => q = r
  <2> HIDE DEF InMemory
  <2> QED BY <1>1
<1>7. \A q \in Processes : batch'[q] \cap jobc'[q] = {} /\ held'[q] \notin batch'[q] \cup jobc'[q]
  <2> SUFFICES ASSUME NEW q \in Processes
               PROVE  batch'[q] \cap jobc'[q] = {} /\ held'[q] \notin batch'[q] \cup jobc'[q]
    OBVIOUS
  <2>1. CASE q = p
    <3>1. locked[p] \subseteq Jobs
      OBVIOUS
    <3>2. batch'[q] = locked[p]
      BY <2>1
    <3> QED BY <1>2, <2>1, <3>1, <3>2
  <2>2. CASE q # p
    BY <2>2
  <2> QED BY <2>1, <2>2
<1>8. \A j \in Jobs : handed'[j] <= 1 /\ (handed'[j] = 1 => status'[j] = "queued")
  OBVIOUS
<1> HIDE DEF InMemory
<1> QED BY <1>3, <1>4, <1>5, <1>6, <1>7, <1>8

LEMMA FetchStep ==
  ASSUME TypeOK, FetchInv, [Next]_vars
  PROVE  FetchInv'
<1> USE DEF FetchInv, InMemory, provider, writing, At
<1>1. ASSUME NEW s \in Seeds, Produce(s) PROVE FetchInv'
  BY <1>1, PushKeepsFetch DEF Produce, Jobs
<1>2. ASSUME NEW p \in Processes, NEW B \in Batches, FetchSelects(p, B) PROVE FetchInv'
  BY <1>2 DEF FetchSelects, Batches, Free, TypeOK
<1>3. ASSUME NEW p \in Processes, FetchCommits(p) PROVE FetchInv'
  BY <1>3, CommitKeepsFetch DEF FetchCommits
<1>4. ASSUME NEW p \in Processes, NEW committed \in BOOLEAN, FetchFails(p, committed) PROVE FetchInv'
  <2>1. CASE committed
    <3>1. /\ status' = [j \in Jobs |-> IF j \in locked[p] THEN "queued" ELSE status[j]]
          /\ batch' = [batch EXCEPT ![p] = locked[p]]
          /\ locked' = [locked EXCEPT ![p] = {}]
          /\ UNCHANGED <<jobc, held, handed>>
      BY <1>4, <2>1 DEF FetchFails
    <3> HIDE DEF FetchInv
    <3> QED BY <3>1, CommitKeepsFetch
  <2>2. CASE ~committed
    <3>1. status' = status
      BY <1>4, <2>2 DEF FetchFails, TypeOK
    <3> QED BY <1>4, <2>2, <3>1 DEF FetchFails, TypeOK
  <2> QED BY <2>1, <2>2
<1>5. ASSUME NEW p \in Processes, NEW j \in Jobs, FetchSends(p, j) PROVE FetchInv'
  BY <1>5 DEF FetchSends, TypeOK
<1>6. ASSUME NEW p \in Processes, NEW j \in Jobs, ForwarderTakes(p, j) PROVE FetchInv'
  BY <1>6 DEF ForwarderTakes, TypeOK
<1>7. ASSUME NEW p \in Processes, ForwarderHands(p) PROVE FetchInv'
  BY <1>7, NoneAssumption DEF ForwarderHands, TypeOK
<1>8. ASSUME NEW p \in Processes, NEW s \in Seeds, NEW found \in SUBSET Unfound,
             ProcessSeed(p, s, found)
      PROVE  FetchInv'
  BY <1>8, PushKeepsFetch DEF ProcessSeed, Jobs, Unfound
<1>9. ASSUME NEW p \in Processes, Cancelled(p) PROVE FetchInv'
  BY <1>9 DEF Cancelled, TypeOK
<1>10. ASSUME NEW p \in Processes, Dies(p) PROVE FetchInv'
  BY <1>10 DEF Dies, TypeOK
<1>11. CASE UNCHANGED <<status, locked, batch, jobc, held, handed>>
  BY <1>11
<1> QED
  <2>1. ASSUME NEW p \in Processes, NEW j \in Places, NEW minute \in BOOLEAN,
               WriterReceives(p, j, minute)
        PROVE  UNCHANGED <<status, locked, batch, jobc, held, handed>>
    BY <2>1 DEF WriterReceives
  <2>2. ASSUME NEW p \in Processes, NEW j \in Places, NEW has \in BOOLEAN, ProcessPlace(p, j, has)
        PROVE  UNCHANGED <<status, locked, batch, jobc, held, handed>>
    BY <2>2 DEF ProcessPlace
  <2>3. ASSUME NEW p \in Processes, WriterFinishes(p) \/ ForwarderEnds(p)
        PROVE  UNCHANGED <<status, locked, batch, jobc, held, handed>>
    BY <2>3 DEF WriterFinishes, ForwarderEnds
  <2>4. CASE UNCHANGED vars
    BY <1>11, <2>4 DEF vars
  <2> QED
    BY <1>1, <1>2, <1>3, <1>4, <1>5, <1>6, <1>7, <1>8, <1>9, <1>10, <1>11, <2>1, <2>2, <2>3, <2>4
    DEF Next, ProviderStep, WorkStep, WriterStep, FetchSelect, FetchSend, ForwarderTake

-----------------------------------------------------------------------------
(* The way of an entry                                                     *)

\* The writer of p saves some entries of S, which it has in hand and of which no
\* row exists, and goes on with none of them, or ends.
LEMMA SavingKeepsWrite ==
  ASSUME TypeOK, WriteInv, NEW p \in Processes, writer[p] = "running",
         NEW S \in SUBSET (emitted[p] \cup buff[p]), NEW saved \in SUBSET S,
         rows' = [j \in Places |-> IF j \in saved THEN rows[j] + 1 ELSE rows[j]],
         emitted'[p] \subseteq emitted[p] \ S,
         buff'[p] \subseteq buff[p],
         buff'[p] \cap S = {} \/ writer'[p] # "running",
         \A q \in Processes \ {p} :
            emitted'[q] = emitted[q] /\ buff'[q] = buff[q] /\ writer'[q] = writer[q],
         UNCHANGED <<handed, working>>
  PROVE  WriteInv'
<1>1. \A q \in Processes : /\ Underway(q)' \subseteq Underway(q)
                           /\ emitted'[q] \subseteq emitted[q] /\ buff'[q] \subseteq buff[q]
  BY DEF Underway
<1>2. \A j \in saved : j \in Places /\ j \in Jobs /\ j \in Underway(p)
  BY DEF TypeOK, Underway, Jobs
<1>3. \A j \in saved : rows[j] = 0 /\ handed[j] = 1
  BY <1>2 DEF WriteInv
<1>4. /\ \A q \in Processes, j \in Jobs : j \in Underway(q)' => handed'[j] = 1
      /\ \A q, r \in Processes, j \in Jobs : j \in Underway(q)' /\ j \in Underway(r)' => q = r
  BY <1>1 DEF WriteInv
<1>5. \A q \in Processes : /\ working'[q] \cap emitted'[q] = {}
                           /\ (working'[q] \cup emitted'[q]) \cap buff'[q] = {}
  BY <1>1 DEF WriteInv
<1>6. ASSUME NEW q \in Processes, NEW j \in Places,
             \/ j \in working'[q] \cup emitted'[q]
             \/ j \in buff'[q] /\ writer'[q] = "running"
      PROVE  rows'[j] = 0
  <2>1. j \notin saved
    <3>1. CASE q = p
      BY <1>6, <3>1 DEF WriteInv
    <3>2. CASE q # p
      <4>1. j \in Jobs /\ j \in Underway(q)
        BY <1>6, <3>2 DEF Underway, Jobs
      <4> QED BY <1>2, <3>2, <4>1 DEF WriteInv
    <3> QED BY <3>1, <3>2
  <2>2. j \in working[q] \cup emitted[q] \/ (j \in buff[q] /\ writer[q] = "running")
    BY <1>1, <1>6
  <2> QED BY <2>1, <2>2 DEF WriteInv
<1>7. \A j \in Places : rows'[j] <= 1 /\ (rows'[j] = 1 => handed'[j] = 1)
  BY <1>3 DEF WriteInv
<1> QED BY <1>4, <1>5, <1>6, <1>7 DEF WriteInv

\* What the writer may save of a batch.
LEMMA BatchSaveFailsSaves ==
  ASSUME NEW S \in SUBSET Places, NEW saved \in SUBSET S, BatchSaveFails(S, saved)
  PROVE  rows' = [j \in Places |-> IF j \in saved \ Unstorable THEN rows[j] + 1 ELSE rows[j]]
BY DEF BatchSaveFails, Store

LEMMA WriteStep ==
  ASSUME TypeOK, FetchInv, WriteInv, [Next]_vars
  PROVE  WriteInv'
<1>1. ASSUME NEW p \in Processes, ForwarderHands(p) PROVE WriteInv'
  <2>1. held[p] \in Jobs /\ handed[held[p]] = 0
    BY <1>1 DEF ForwarderHands, TypeOK, FetchInv, InMemory
  <2>2. \A q \in Processes : held[p] \notin Underway(q)
    BY <2>1 DEF WriteInv
  <2>3. held[p] \in Places => rows[held[p]] = 0
    <3> SUFFICES ASSUME held[p] \in Places PROVE rows[held[p]] = 0
      OBVIOUS
    <3>1. rows[held[p]] \in Nat /\ rows[held[p]] <= 1 /\ rows[held[p]] # 1
      BY <2>1 DEF WriteInv, TypeOK
    <3> QED BY <3>1
  <2>4. /\ working' = [working EXCEPT ![p] = @ \cup {held[p]}]
        /\ handed' = [handed EXCEPT ![held[p]] = @ + 1]
        /\ UNCHANGED <<emitted, buff, writer, rows>>
    BY <1>1 DEF ForwarderHands, At, writing
  <2>5. \A q \in Processes : Underway(q)' = Underway(q) \cup (IF q = p THEN {held[p]} ELSE {})
    BY <2>4 DEF TypeOK, Underway
  <2>6. \A j \in Jobs : handed'[j] = IF j = held[p] THEN 1 ELSE handed[j]
    BY <2>1, <2>4 DEF TypeOK
  <2>7. /\ \A q \in Processes, j \in Jobs : j \in Underway(q)' => handed'[j] = 1
        /\ \A q, r \in Processes, j \in Jobs : j \in Underway(q)' /\ j \in Underway(r)' => q = r
    BY <2>2, <2>5, <2>6 DEF WriteInv
  <2>8. \A q \in Processes : /\ working'[q] \cap emitted'[q] = {}
                             /\ (working'[q] \cup emitted'[q]) \cap buff'[q] = {}
    BY <2>2, <2>4 DEF WriteInv, Underway, TypeOK
  <2>9. \A q \in Processes, j \in Places :
          j \in working'[q] \cup emitted'[q] \/ (j \in buff'[q] /\ writer'[q] = "running")
            => rows'[j] = 0
    BY <2>3, <2>4 DEF WriteInv, TypeOK
  <2>10. \A j \in Places : rows'[j] <= 1 /\ (rows'[j] = 1 => handed'[j] = 1)
    BY <2>4, <2>6 DEF WriteInv, Jobs
  <2> QED BY <2>7, <2>8, <2>9, <2>10 DEF WriteInv
<1>2. ASSUME NEW p \in Processes, NEW s \in Seeds, NEW found \in SUBSET Unfound,
             ProcessSeed(p, s, found)
      PROVE  WriteInv'
  BY <1>2 DEF ProcessSeed, TypeOK, WriteInv, Underway, At, writing
<1>3. ASSUME NEW p \in Processes, NEW j \in Places, NEW has \in BOOLEAN, ProcessPlace(p, j, has)
      PROVE  WriteInv'
  <2>1. j \in working[p]
    BY <1>3 DEF ProcessPlace
  <2>2. /\ working' = [working EXCEPT ![p] = @ \ {j}]
        /\ emitted' = [emitted EXCEPT ![p] = @ \cup {j}] \/ emitted' = emitted
        /\ UNCHANGED <<handed, buff, writer, rows>>
    BY <1>3 DEF ProcessPlace, At
  <2>3. \A q \in Processes : /\ working'[q] \cup emitted'[q] \subseteq working[q] \cup emitted[q]
                             /\ Underway(q)' \subseteq Underway(q)
    BY <2>1, <2>2 DEF TypeOK, Underway
  <2>4. \A q \in Processes : working'[q] \cap emitted'[q] = {}
    BY <2>1, <2>2 DEF TypeOK, WriteInv
  <2> QED BY <2>2, <2>3, <2>4 DEF WriteInv
<1>4. ASSUME NEW p \in Processes, NEW j \in Places, NEW minute \in BOOLEAN,
             WriterReceives(p, j, minute)
      PROVE  WriteInv'
  <2> DEFINE S == buff[p] \cup {j}
  <2>1. /\ writer[p] = "running" /\ j \in emitted[p] /\ UNCHANGED <<handed, working>>
        /\ emitted' = [emitted EXCEPT ![p] = @ \ {j}]
    BY <1>4 DEF WriterReceives, At
  <2>2. emitted[p] \subseteq Places /\ buff[p] \subseteq Places
    BY DEF TypeOK
  <2>3. CASE buff' = [buff EXCEPT ![p] = S] /\ UNCHANGED <<writer, rows>>
    <3>1. \A q \in Processes : Underway(q)' = Underway(q)
      BY <2>1, <2>3 DEF TypeOK, Underway
    <3>2. \A q \in Processes : /\ working'[q] \cap emitted'[q] = {}
                               /\ (working'[q] \cup emitted'[q]) \cap buff'[q] = {}
      BY <2>1, <2>3 DEF TypeOK, WriteInv
    <3>3. \A q \in Processes, i \in Places :
            i \in working'[q] \cup emitted'[q] \/ (i \in buff'[q] /\ writer'[q] = "running")
              => rows'[i] = 0
      BY <2>1, <2>3 DEF TypeOK, WriteInv
    <3> QED BY <2>1, <2>3, <3>1, <3>2, <3>3 DEF WriteInv
  <2>4. CASE Store(S \ Unstorable) /\ buff' = [buff EXCEPT ![p] = {}] /\ UNCHANGED writer
    <3>1. /\ rows' = [i \in Places |-> IF i \in S \ Unstorable THEN rows[i] + 1 ELSE rows[i]]
          /\ writer' = [writer EXCEPT ![p] = "running"]
      BY <2>1, <2>4 DEF Store, TypeOK
    <3>2. S \in SUBSET (emitted[p] \cup buff[p]) /\ S \ Unstorable \in SUBSET S
      BY <2>1
    <3>3. /\ emitted'[p] \subseteq emitted[p] \ S
          /\ buff'[p] \subseteq buff[p] /\ buff'[p] \cap S = {}
          /\ \A q \in Processes \ {p} :
               emitted'[q] = emitted[q] /\ buff'[q] = buff[q] /\ writer'[q] = writer[q]
      BY <2>1, <2>4 DEF TypeOK, WriteInv
    <3> HIDE DEF S
    <3> QED BY <2>1, <3>1, <3>2, <3>3, SavingKeepsWrite
  <2>5. CASE /\ \E saved \in SUBSET S : BatchSaveFails(S, saved)
             /\ writer' = [writer EXCEPT ![p] = "failed"]
             /\ UNCHANGED buff
    <3>1. PICK saved \in SUBSET S : BatchSaveFails(S, saved)
      BY <2>5
    <3>2. rows' = [i \in Places |-> IF i \in saved \ Unstorable THEN rows[i] + 1 ELSE rows[i]]
      BY <2>1, <2>2, <3>1, BatchSaveFailsSaves
    <3>3. S \in SUBSET (emitted[p] \cup buff[p]) /\ saved \ Unstorable \in SUBSET S
      BY <2>1
    <3>4. /\ emitted'[p] \subseteq emitted[p] \ S /\ buff'[p] \subseteq buff[p]
          /\ writer'[p] # "running"
          /\ \A q \in Processes \ {p} :
               emitted'[q] = emitted[q] /\ buff'[q] = buff[q] /\ writer'[q] = writer[q]
      BY <2>1, <2>5 DEF TypeOK, WriteInv
    <3> HIDE DEF S
    <3> QED BY <2>1, <3>2, <3>3, <3>4, SavingKeepsWrite
  <2> QED BY <1>4, <2>3, <2>4, <2>5 DEF WriterReceives, BatchSave, At
<1>5. ASSUME NEW p \in Processes, WriterFinishes(p) PROVE WriteInv'
  <2>1. writer[p] = "running" /\ emitted[p] = {} /\ UNCHANGED <<handed, working, emitted>>
    BY <1>5 DEF WriterFinishes
  <2>2. buff[p] \subseteq Places
    BY DEF TypeOK
  <2>3. CASE /\ Store(buff[p] \ Unstorable) /\ buff' = [buff EXCEPT ![p] = {}]
             /\ writer' = [writer EXCEPT ![p] = "returned"]
    <3>1. rows' = [i \in Places |-> IF i \in buff[p] \ Unstorable THEN rows[i] + 1 ELSE rows[i]]
      BY <2>3 DEF Store
    <3>2. /\ buff[p] \in SUBSET (emitted[p] \cup buff[p])
          /\ buff[p] \ Unstorable \in SUBSET buff[p]
      OBVIOUS
    <3>3. /\ emitted'[p] \subseteq emitted[p] \ buff[p]
          /\ buff'[p] \subseteq buff[p] /\ buff'[p] \cap buff[p] = {}
          /\ \A q \in Processes \ {p} :
               emitted'[q] = emitted[q] /\ buff'[q] = buff[q] /\ writer'[q] = writer[q]
      BY <2>1, <2>3 DEF TypeOK
    <3> QED BY <2>1, <3>1, <3>2, <3>3, SavingKeepsWrite
  <2>4. CASE /\ \E saved \in SUBSET buff[p] : BatchSaveFails(buff[p], saved)
             /\ writer' = [writer EXCEPT ![p] = "failed"]
             /\ UNCHANGED buff
    <3>1. PICK saved \in SUBSET buff[p] : BatchSaveFails(buff[p], saved)
      BY <2>4
    <3>2. rows' = [i \in Places |-> IF i \in saved \ Unstorable THEN rows[i] + 1 ELSE rows[i]]
      BY <2>2, <3>1, BatchSaveFailsSaves
    <3>3. /\ buff[p] \in SUBSET (emitted[p] \cup buff[p])
          /\ saved \ Unstorable \in SUBSET buff[p]
      OBVIOUS
    <3>4. /\ emitted'[p] \subseteq emitted[p] \ buff[p] /\ buff'[p] \subseteq buff[p]
          /\ writer'[p] # "running"
          /\ \A q \in Processes \ {p} :
               emitted'[q] = emitted[q] /\ buff'[q] = buff[q] /\ writer'[q] = writer[q]
      BY <2>1, <2>4 DEF TypeOK
    <3> QED BY <2>1, <3>2, <3>3, <3>4, SavingKeepsWrite
  <2> QED BY <1>5, <2>3, <2>4 DEF WriterFinishes, BatchSave, At
<1>6. ASSUME NEW p \in Processes, Dies(p) PROVE WriteInv'
  <2>1. \A q \in Processes : Underway(q)' \subseteq Underway(q)
    BY <1>6 DEF Dies, At, TypeOK, Underway
  <2> QED BY <1>6, <2>1 DEF Dies, At, TypeOK, WriteInv
<1>7. CASE UNCHANGED <<handed, working, emitted, buff, writer, rows>>
  BY <1>7 DEF WriteInv, Underway
<1> QED
  <2>1. ASSUME NEW s \in Seeds, Produce(s)
        PROVE  UNCHANGED <<handed, working, emitted, buff, writer, rows>>
    BY <2>1 DEF Produce, writing
  <2>2. ASSUME NEW p \in Processes, NEW B \in Batches, FetchSelects(p, B)
        PROVE  UNCHANGED <<handed, working, emitted, buff, writer, rows>>
    BY <2>2 DEF FetchSelects, writing
  <2>3. ASSUME NEW p \in Processes, NEW j \in Jobs, FetchSends(p, j) \/ ForwarderTakes(p, j)
        PROVE  UNCHANGED <<handed, working, emitted, buff, writer, rows>>
    BY <2>3 DEF FetchSends, ForwarderTakes, writing
  <2>4. ASSUME NEW p \in Processes,
               \/ FetchCommits(p) \/ (\E committed \in BOOLEAN : FetchFails(p, committed))
               \/ ForwarderEnds(p) \/ Cancelled(p)
        PROVE  UNCHANGED <<handed, working, emitted, buff, writer, rows>>
    BY <2>4 DEF FetchCommits, FetchFails, ForwarderEnds, Cancelled, writing
  <2>5. CASE UNCHANGED vars
    BY <1>7, <2>5 DEF vars, writing
  <2> QED
    BY <1>1, <1>2, <1>3, <1>4, <1>5, <1>6, <1>7, <2>1, <2>2, <2>3, <2>4, <2>5
    DEF Next, ProviderStep, WorkStep, WriterStep, FetchSelect, FetchSend, ForwarderTake

LEMMA Invariance == Spec => []IInv
<1>1. IInv /\ [Next]_vars => IInv'
  BY TypeStep, FetchStep, WriteStep DEF IInv
<1> QED BY InitIInv, <1>1, PTL DEF Spec

-----------------------------------------------------------------------------

\* Type correctness.
THEOREM TypeCorrect == Spec => []TypeOK
<1>1. IInv => TypeOK
  BY DEF IInv
<1> QED BY Invariance, <1>1, PTL

\* No job is handed to scrapemate twice, whatever processes fetch, fail and die.
THEOREM HandedOnce == Spec => []NoJobTwice
<1>1. IInv => NoJobTwice
  BY DEF IInv, FetchInv, NoJobTwice
<1> QED BY Invariance, <1>1, PTL

\* No entry has two rows, although a refused batch is saved again row by row.
THEOREM RowOnce == Spec => []StoredOnce
<1>1. IInv => StoredOnce
  BY DEF IInv, WriteInv, StoredOnce
<1> QED BY Invariance, <1>1, PTL

\* A writer that lets go of a batch, or returns, has stored what can be stored.
THEOREM NothingDropped == Spec => ReturnedMeansStored
<1> DEFINE Kept ==
      \A p \in Processes :
        /\ writer[p] = "running" /\ writer'[p] = "returned" =>
             \A j \in buff[p] \ Unstorable : rows'[j] = 1
        /\ buff[p] # {} /\ buff'[p] = {} =>
             \A j \in buff[p] \ Unstorable : rows'[j] = 1
<1>1. IInv /\ [Next]_vars => [Kept]_vars
  <2> SUFFICES ASSUME TypeOK, WriteInv, [Next]_vars PROVE [Kept]_vars
    BY DEF IInv
  <2>1. ASSUME NEW p \in Processes, NEW S \in SUBSET Places, buff[p] \subseteq S,
               writer[p] = "running", Store(S \ Unstorable)
        PROVE  \A j \in buff[p] \ Unstorable : rows'[j] = 1
    BY <2>1 DEF Store, TypeOK, WriteInv
  <2>2. ASSUME NEW p \in Processes, NEW j \in Places, NEW minute \in BOOLEAN,
               WriterReceives(p, j, minute)
        PROVE  Kept
    <3> DEFINE S == buff[p] \cup {j}
    <3>1. S \in SUBSET Places /\ buff[p] \subseteq S /\ writer[p] = "running"
      BY <2>2 DEF WriterReceives, TypeOK
    <3>2. \A q \in Processes \ {p} : buff'[q] = buff[q] /\ writer'[q] = writer[q]
      BY <2>2 DEF WriterReceives, BatchSave, At, TypeOK
    <3>3. writer'[p] # "returned"
      BY <2>2, <3>1 DEF WriterReceives, BatchSave, At, TypeOK
    <3>4. Store(S \ Unstorable) \/ buff' = buff \/ buff'[p] = S
      BY <2>2 DEF WriterReceives, BatchSave, At, TypeOK
    <3>5. buff[p] # {} /\ buff'[p] = {} => \A i \in buff[p] \ Unstorable : rows'[i] = 1
      <4> HIDE DEF S
      <4> QED BY <2>1, <3>1, <3>4
    <3> QED BY <3>2, <3>3, <3>5
  <2>3. ASSUME NEW p \in Processes, WriterFinishes(p) PROVE Kept
    <3>1. buff[p] \in SUBSET Places /\ writer[p] = "running"
      BY <2>3 DEF WriterFinishes, TypeOK
    <3>2. \A q \in Processes \ {p} : buff'[q] = buff[q] /\ writer'[q] = writer[q]
      BY <2>3 DEF WriterFinishes, BatchSave, At, TypeOK
    <3>3. \/ Store(buff[p] \ Unstorable)
          \/ buff' = buff /\ writer'[p] # "returned"
      BY <2>3 DEF WriterFinishes, BatchSave, At, TypeOK
    <3>4. \/ \A i \in buff[p] \ Unstorable : rows'[i] = 1
          \/ buff' = buff /\ writer'[p] # "returned"
      BY <2>1, <3>1, <3>3
    <3> QED BY <3>2, <3>4
  <2>4. ASSUME NEW p \in Processes, Dies(p) PROVE Kept
    BY <2>4 DEF Dies, At, TypeOK
  <2>5. CASE UNCHANGED <<buff, writer>>
    BY <2>5
  <2>6. ASSUME NEW s \in Seeds, Produce(s) PROVE UNCHANGED <<buff, writer>>
    BY <2>6 DEF Produce, writing
  <2>7. ASSUME NEW p \in Processes, ProviderStep(p) \/ WorkStep(p) \/ Cancelled(p)
        PROVE  UNCHANGED <<buff, writer>>
    BY <2>7 DEF ProviderStep, WorkStep, Cancelled, FetchSelect, FetchSend, ForwarderTake, writing,
                FetchSelects, FetchCommits, FetchFails, FetchSends, ForwarderTakes, ForwarderHands,
                ForwarderEnds, ProcessSeed, ProcessPlace
  <2> HIDE DEF Kept
  <2> QED BY <2>2, <2>3, <2>4, <2>5, <2>6, <2>7 DEF Next, WriterStep
<1>2. Spec => [][Kept]_vars
  BY Invariance, <1>1, PTL DEF Spec
<1> QED BY <1>2 DEF ReturnedMeansStored

-----------------------------------------------------------------------------
(* The abstract table                                                      *)

Waiting == {j \in Jobs : status[j] = "new"}
Claimed == {j \in Jobs : status[j] = "queued" /\ handed[j] = 0}

\* A statement locks no more than a batch, and the writer keeps less than one in
\* its buffer.
SizeInv == \A p \in Processes : /\ Cardinality(locked[p]) <= BatchSize
                                /\ Cardinality(buff[p]) < MaxBatch

LEMMA InitSize == Init => SizeInv
BY FS_EmptySet, SizesAssumption DEF Init, SizeInv

LEMMA SizeStep ==
  ASSUME TypeOK, SizeInv, [Next]_vars
  PROVE  SizeInv'
<1> DEFINE Sized(p) == Cardinality(locked'[p]) <= BatchSize /\ Cardinality(buff'[p]) < MaxBatch
<1> USE DEF TypeOK, SizeInv, provider, writing, At
<1>0. Cardinality({}) <= BatchSize /\ Cardinality({}) < MaxBatch
  BY FS_EmptySet, SizesAssumption
<1>1. ASSUME NEW p \in Processes, NEW B \in Batches, FetchSelects(p, B) PROVE SizeInv'
  <2>1. Cardinality(B) <= BatchSize
    BY DEF Batches
  <2> QED BY <1>1, <2>1 DEF FetchSelects
<1>2. ASSUME NEW p \in Processes,
             \/ FetchCommits(p) \/ (\E committed \in BOOLEAN : FetchFails(p, committed))
             \/ Cancelled(p) \/ Dies(p)
      PROVE  SizeInv'
  <2>1. locked' = [locked EXCEPT ![p] = {}] /\ buff' = buff
    BY <1>2 DEF FetchCommits, FetchFails, Cancelled, Dies
  <2> QED BY <1>0, <2>1
<1>3. ASSUME NEW p \in Processes, NEW j \in Places, NEW minute \in BOOLEAN,
             WriterReceives(p, j, minute)
      PROVE  SizeInv'
  <2> DEFINE S == buff[p] \cup {j}
  <2>1. \/ buff' = [buff EXCEPT ![p] = S] /\ Cardinality(S) < MaxBatch
        \/ buff' = [buff EXCEPT ![p] = {}]
        \/ buff' = buff
    BY <1>3 DEF WriterReceives, BatchSave
  <2>2. locked' = locked
    BY <1>3 DEF WriterReceives
  <2> HIDE DEF S
  <2> QED BY <1>0, <2>1, <2>2
<1>4. ASSUME NEW p \in Processes, WriterFinishes(p) PROVE SizeInv'
  <2>1. buff' = [buff EXCEPT ![p] = {}] \/ buff' = buff
    BY <1>4 DEF WriterFinishes, BatchSave
  <2>2. locked' = locked
    BY <1>4 DEF WriterFinishes
  <2> QED BY <1>0, <2>1, <2>2
<1>5. CASE UNCHANGED <<locked, buff>>
  BY <1>5
<1> QED
  <2>1. ASSUME NEW s \in Seeds, Produce(s) PROVE UNCHANGED <<locked, buff>>
    BY <2>1 DEF Produce
  <2>2. ASSUME NEW p \in Processes, NEW j \in Jobs, FetchSends(p, j) \/ ForwarderTakes(p, j)
        PROVE  UNCHANGED <<locked, buff>>
    BY <2>2 DEF FetchSends, ForwarderTakes
  <2>3. ASSUME NEW p \in Processes, ForwarderHands(p) \/ ForwarderEnds(p) \/ WorkStep(p)
        PROVE  UNCHANGED <<locked, buff>>
    BY <2>3 DEF ForwarderHands, ForwarderEnds, WorkStep, ProcessSeed, ProcessPlace
  <2>4. CASE UNCHANGED vars
    BY <2>4 DEF vars
  <2> HIDE DEF TypeOK, SizeInv, provider, writing, At
  <2> QED
    BY <1>1, <1>2, <1>3, <1>4, <1>5, <2>1, <2>2, <2>3, <2>4
    DEF Next, ProviderStep, WriterStep, FetchSelect, FetchSend, ForwarderTake

\* The instance has a copy of FiniteSets of its own.
LEMMA SameCardinality == \A S : Table!Cardinality(S) = Cardinality(S)
BY DEF Cardinality, Table!Cardinality

\* The steps of the abstract table, in terms of the rows of the two tables and
\* of the history.
LEMMA TableSteps ==
  /\ \A S \in SUBSET Jobs :
       /\ S \cap (Waiting \cup Claimed) = {} /\ \A j \in S : handed[j] = 0
       /\ Waiting' = Waiting \cup S /\ Claimed' = Claimed /\ handed' = handed /\ rows' = rows
       => Table!Next
  /\ \A B \in SUBSET Jobs :
       /\ B \subseteq Waiting /\ Cardinality(B) <= BatchSize
       /\ Waiting' = Waiting \ B /\ Claimed' = Claimed \cup B /\ handed' = handed /\ rows' = rows
       => Table!Next
  /\ \A j \in Claimed :
       /\ Claimed' = Claimed \ {j} /\ handed' = [handed EXCEPT ![j] = @ + 1]
       /\ Waiting' = Waiting /\ rows' = rows
       => Table!Next
  /\ \A S \in SUBSET Places :
       /\ \A j \in S : handed[j] = 1 /\ rows[j] = 0
       /\ Cardinality(S) <= MaxBatch
       /\ rows' = [j \in Places |-> IF j \in S THEN 1 ELSE rows[j]]
       /\ Waiting' = Waiting /\ Claimed' = Claimed /\ handed' = handed
       => Table!Next
  /\ Waiting' = Waiting /\ Claimed' = Claimed /\ handed' = handed /\ rows' = rows
       => UNCHANGED Table!vars
<1> USE DEF Waiting, Claimed
<1>1. ASSUME NEW S \in SUBSET Jobs,
             S \cap (Waiting \cup Claimed) = {} /\ \A j \in S : handed[j] = 0,
             Waiting' = Waiting \cup S, Claimed' = Claimed /\ handed' = handed /\ rows' = rows
      PROVE  Table!Next
  <2>1. Table!Add(S)
    BY <1>1 DEF Table!Add
  <2> QED BY <2>1 DEF Table!Next
<1>2. ASSUME NEW B \in SUBSET Jobs, B \subseteq Waiting, Cardinality(B) <= BatchSize,
             Waiting' = Waiting \ B, Claimed' = Claimed \cup B, handed' = handed /\ rows' = rows
      PROVE  Table!Next
  <2>1. Table!Claim(B)
    BY <1>2, SameCardinality DEF Table!Claim
  <2> QED BY <2>1 DEF Table!Next
<1>3. ASSUME NEW j \in Claimed, Claimed' = Claimed \ {j},
             handed' = [handed EXCEPT ![j] = @ + 1], Waiting' = Waiting /\ rows' = rows
      PROVE  Table!Next
  <2>1. Table!Deliver(j)
    BY <1>3 DEF Table!Deliver
  <2> QED BY <2>1 DEF Table!Next
<1>4. ASSUME NEW S \in SUBSET Places, \A j \in S : handed[j] = 1 /\ rows[j] = 0,
             Cardinality(S) <= MaxBatch,
             rows' = [j \in Places |-> IF j \in S THEN 1 ELSE rows[j]],
             Waiting' = Waiting /\ Claimed' = Claimed /\ handed' = handed
      PROVE  Table!Next
  <2>1. Table!StoreResults(S)
    BY <1>4, SameCardinality DEF Table!StoreResults
  <2> QED BY <2>1 DEF Table!Next
<1>5. ASSUME Waiting' = Waiting /\ Claimed' = Claimed /\ handed' = handed /\ rows' = rows
      PROVE  UNCHANGED Table!vars
  BY <1>5 DEF Table!vars
<1> HIDE DEF Waiting, Claimed
<1> QED BY <1>1, <1>2, <1>3, <1>4, <1>5

\* A push adds the jobs that are not in the table; it may add none.
LEMMA PushAdds ==
  ASSUME IInv, NEW S \in SUBSET Jobs, Push(S), UNCHANGED <<handed, rows>>
  PROVE  Table!Next
<1> DEFINE New == {j \in S : status[j] = "none"}
<1>1. New \in SUBSET Jobs /\ New \cap (Waiting \cup Claimed) = {}
  BY DEF Waiting, Claimed
<1>2. \A j \in New : handed[j] = 0
  <2> SUFFICES ASSUME NEW j \in New PROVE handed[j] = 0
    OBVIOUS
  <2>1. j \in Jobs /\ handed[j] \in Nat /\ handed[j] <= 1 /\ handed[j] # 1
    BY DEF IInv, TypeOK, FetchInv
  <2> QED BY <2>1
<1>3. \A j \in Jobs : status'[j] = IF j \in New THEN "new" ELSE status[j]
  BY DEF Push, IInv, TypeOK
<1>4. Waiting' = Waiting \cup New /\ Claimed' = Claimed
  BY <1>1, <1>3 DEF Waiting, Claimed
<1> HIDE DEF New
<1> QED BY <1>1, <1>2, <1>4, TableSteps

\* A statement that takes effect claims its rows.
LEMMA CommitClaims ==
  ASSUME IInv, SizeInv, NEW p \in Processes,
         status' = [j \in Jobs |-> IF j \in locked[p] THEN "queued" ELSE status[j]],
         UNCHANGED <<handed, rows>>
  PROVE  Table!Next
<1>1. locked[p] \in SUBSET Jobs /\ Cardinality(locked[p]) <= BatchSize
  BY DEF IInv, TypeOK, SizeInv
<1>2. \A j \in locked[p] : status[j] = "new" /\ handed[j] = 0
  <2> SUFFICES ASSUME NEW j \in locked[p] PROVE status[j] = "new" /\ handed[j] = 0
    OBVIOUS
  <2>1. j \in Jobs /\ status[j] = "new"
    BY <1>1 DEF IInv, FetchInv
  <2>2. handed[j] \in Nat /\ handed[j] <= 1 /\ handed[j] # 1
    BY <2>1 DEF IInv, TypeOK, FetchInv
  <2> QED BY <2>1, <2>2
<1>3. locked[p] \subseteq Waiting
  BY <1>1, <1>2 DEF Waiting
<1>4. Waiting' = Waiting \ locked[p] /\ Claimed' = Claimed \cup locked[p]
  BY <1>1, <1>2 DEF Waiting, Claimed
<1> QED BY <1>1, <1>3, <1>4, TableSteps

\* What the writer saves of the entries it has in hand, a batch at most, is stored
\* for the first time.
LEMMA SaveStores ==
  ASSUME IInv, NEW p \in Processes, writer[p] = "running",
         NEW S \in SUBSET (emitted[p] \cup buff[p]), IsFiniteSet(S), Cardinality(S) <= MaxBatch,
         NEW saved \in SUBSET S,
         rows' = [j \in Places |-> IF j \in saved THEN rows[j] + 1 ELSE rows[j]],
         UNCHANGED <<status, handed>>
  PROVE  Table!Next
<1>1. \A j \in saved : j \in Places /\ handed[j] = 1 /\ rows[j] = 0
  BY DEF IInv, TypeOK, WriteInv, Underway, Jobs
<1>2. Cardinality(saved) <= MaxBatch
  <2>1. Cardinality(saved) \in Nat /\ Cardinality(S) \in Nat /\ Cardinality(saved) <= Cardinality(S)
    BY FS_Subset, FS_CardinalityType
  <2> QED BY <2>1, SizesAssumption
<1>3. rows' = [j \in Places |-> IF j \in saved THEN 1 ELSE rows[j]]
  BY <1>1
<1>4. Waiting' = Waiting /\ Claimed' = Claimed
  BY DEF Waiting, Claimed
<1>5. saved \in SUBSET Places
  BY <1>1
<1> QED BY <1>1, <1>2, <1>3, <1>4, <1>5, TableSteps

\* Every step of the processes is a step of the abstract table or a stutter.
LEMMA StepRefines == IInv /\ SizeInv /\ [Next]_vars => [Table!Next]_(Table!vars)
<1> SUFFICES ASSUME IInv, SizeInv, [Next]_vars PROVE [Table!Next]_(Table!vars)
  OBVIOUS
<1>0. UNCHANGED <<status, handed, rows>> => UNCHANGED Table!vars
  <2> SUFFICES ASSUME UNCHANGED <<status, handed, rows>> PROVE UNCHANGED Table!vars
    OBVIOUS
  <2>1. Waiting' = Waiting /\ Claimed' = Claimed
    BY DEF Waiting, Claimed
  <2> QED BY <2>1, TableSteps
<1>1. ASSUME NEW s \in Seeds, Produce(s) PROVE Table!Next
  BY <1>1, PushAdds DEF Produce, Jobs, writing
<1>2. ASSUME NEW p \in Processes, FetchCommits(p) PROVE Table!Next
  BY <1>2, CommitClaims DEF FetchCommits, writing
<1>3. ASSUME NEW p \in Processes, NEW committed \in BOOLEAN, FetchFails(p, committed)
      PROVE  [Table!Next]_(Table!vars)
  <2>1. CASE committed
    BY <1>3, <2>1, CommitClaims DEF FetchFails, writing
  <2>2. CASE ~committed
    <3>1. status' = status
      BY <1>3, <2>2 DEF FetchFails, IInv, TypeOK
    <3> QED BY <1>0, <1>3, <3>1 DEF FetchFails, writing
  <2> QED BY <2>1, <2>2
<1>4. ASSUME NEW p \in Processes, ForwarderHands(p) PROVE Table!Next
  <2> DEFINE j == held[p]
  <2>1. j \in Jobs /\ status[j] = "queued" /\ handed[j] = 0
    BY <1>4 DEF ForwarderHands, IInv, TypeOK, FetchInv, InMemory
  <2>2. handed' = [handed EXCEPT ![j] = @ + 1] /\ UNCHANGED <<status, rows>>
    BY <1>4 DEF ForwarderHands, writing
  <2> HIDE DEF j
  <2>3. j \in Claimed /\ Waiting' = Waiting
    BY <2>1, <2>2 DEF Claimed, Waiting
  <2>4. \A i \in Jobs : handed'[i] = IF i = j THEN 1 ELSE handed[i]
    BY <2>1, <2>2 DEF IInv, TypeOK
  <2>5. Claimed' = Claimed \ {j}
    BY <2>2, <2>4 DEF Claimed
  <2> QED BY <2>2, <2>3, <2>5, TableSteps
<1>5. ASSUME NEW p \in Processes, NEW s \in Seeds, NEW found \in SUBSET Unfound,
             ProcessSeed(p, s, found)
      PROVE  Table!Next
  BY <1>5, PushAdds DEF ProcessSeed, Unfound, Jobs, writing
<1>6. ASSUME NEW p \in Processes, NEW j \in Places, NEW minute \in BOOLEAN,
             WriterReceives(p, j, minute)
      PROVE  [Table!Next]_(Table!vars)
  <2> DEFINE S == buff[p] \cup {j}
  <2>1. writer[p] = "running" /\ j \in emitted[p] /\ UNCHANGED <<status, handed>>
    BY <1>6 DEF WriterReceives
  <2>2. S \in SUBSET (emitted[p] \cup buff[p]) /\ S \subseteq Places /\ buff[p] \subseteq Jobs
    BY <2>1 DEF IInv, TypeOK, Jobs
  <2>3. IsFiniteSet(S) /\ Cardinality(S) <= MaxBatch
    <3>1. IsFiniteSet(buff[p])
      BY <2>2, FS_Subset, JobsAssumption
    <3>2. Cardinality(buff[p]) \in Nat /\ Cardinality(buff[p]) < MaxBatch
      BY <3>1, FS_CardinalityType DEF SizeInv
    <3>3. IsFiniteSet(S) /\ Cardinality(S) <= Cardinality(buff[p]) + 1 /\ Cardinality(S) \in Nat
      <4>1. /\ IsFiniteSet(S)
            /\ Cardinality(S) = IF j \in buff[p] THEN Cardinality(buff[p])
                               ELSE Cardinality(buff[p]) + 1
        BY <3>1, FS_AddElement
      <4> HIDE DEF S
      <4> QED BY <3>2, <4>1
    <3> QED BY <3>2, <3>3, SizesAssumption
  <2>4. \/ rows' = rows
        \/ \E saved \in SUBSET S :
             rows' = [i \in Places |-> IF i \in saved THEN rows[i] + 1 ELSE rows[i]]
    <3>1. CASE Store(S \ Unstorable)
      BY <3>1 DEF Store
    <3>2. ASSUME NEW saved \in SUBSET S, BatchSaveFails(S, saved)
          PROVE  \E s \in SUBSET S :
                   rows' = [i \in Places |-> IF i \in s THEN rows[i] + 1 ELSE rows[i]]
      <4>1. rows' = [i \in Places |-> IF i \in saved \ Unstorable THEN rows[i] + 1 ELSE rows[i]]
        BY <2>2, <3>2, BatchSaveFailsSaves
      <4> QED BY <4>1
    <3> HIDE DEF S
    <3> QED BY <1>6, <3>1, <3>2 DEF WriterReceives, BatchSave, S
  <2> HIDE DEF S
  <2> QED BY <1>0, <2>1, <2>2, <2>3, <2>4, SaveStores
<1>7. ASSUME NEW p \in Processes, WriterFinishes(p) PROVE [Table!Next]_(Table!vars)
  <2>1. writer[p] = "running" /\ UNCHANGED <<status, handed>>
    BY <1>7 DEF WriterFinishes
  <2>2. buff[p] \in SUBSET (emitted[p] \cup buff[p]) /\ buff[p] \subseteq Jobs /\ buff[p] \subseteq Places
    BY DEF IInv, TypeOK, Jobs
  <2>3. IsFiniteSet(buff[p]) /\ Cardinality(buff[p]) <= MaxBatch
    <3>1. IsFiniteSet(buff[p])
      BY <2>2, FS_Subset, JobsAssumption
    <3>2. Cardinality(buff[p]) \in Nat /\ Cardinality(buff[p]) < MaxBatch
      BY <3>1, FS_CardinalityType DEF SizeInv
    <3> QED BY <3>1, <3>2, SizesAssumption
  <2>4. \E saved \in SUBSET buff[p] :
          rows' = [i \in Places |-> IF i \in saved THEN rows[i] + 1 ELSE rows[i]]
    <3>1. CASE Store(buff[p] \ Unstorable)
      BY <3>1 DEF Store
    <3>2. ASSUME NEW saved \in SUBSET buff[p], BatchSaveFails(buff[p], saved)
          PROVE  \E s \in SUBSET buff[p] :
                   rows' = [i \in Places |-> IF i \in s THEN rows[i] + 1 ELSE rows[i]]
      <4>1. rows' = [i \in Places |-> IF i \in saved \ Unstorable THEN rows[i] + 1 ELSE rows[i]]
        BY <2>2, <3>2, BatchSaveFailsSaves
      <4> QED BY <4>1
    <3> QED BY <1>7, <3>1, <3>2 DEF WriterFinishes, BatchSave
  <2> QED BY <2>1, <2>2, <2>3, <2>4, SaveStores
<1> QED
  <2>1. ASSUME NEW p \in Processes, NEW B \in Batches, FetchSelects(p, B)
        PROVE  UNCHANGED <<status, handed, rows>>
    BY <2>1 DEF FetchSelects, writing
  <2>2. ASSUME NEW p \in Processes, NEW j \in Jobs, FetchSends(p, j) \/ ForwarderTakes(p, j)
        PROVE  UNCHANGED <<status, handed, rows>>
    BY <2>2 DEF FetchSends, ForwarderTakes, writing
  <2>3. ASSUME NEW p \in Processes,
               \/ ForwarderEnds(p) \/ Cancelled(p) \/ Dies(p)
               \/ \E j \in Places, has \in BOOLEAN : ProcessPlace(p, j, has)
        PROVE  UNCHANGED <<status, handed, rows>>
    BY <2>3 DEF ForwarderEnds, Cancelled, Dies, ProcessPlace, writing
  <2>4. CASE UNCHANGED vars
    BY <1>0, <2>4 DEF vars, writing
  <2> QED
    BY <1>0, <1>1, <1>2, <1>3, <1>4, <1>5, <1>6, <1>7, <2>1, <2>2, <2>3, <2>4
    DEF Next, ProviderStep, WorkStep, WriterStep, FetchSelect, FetchSend, ForwarderTake

\* The processes that share gmaps_jobs and results implement the abstract table
\* (provider.go, resultwriter.go): claims of at most a batch, deliveries and
\* results at most once, in that order.
THEOREM ImplementsJobTable == Spec => ImplementsTable
<1>1. Init => Table!Init
  BY DEF Init, Table!Init
<1>2. TypeOK /\ SizeInv /\ [Next]_vars => SizeInv'
  BY SizeStep
<1>3. IInv => TypeOK
  BY DEF IInv
<1>4. IInv /\ SizeInv /\ [Next]_vars => [Table!Next]_(Table!vars)
  BY StepRefines
<1> QED BY <1>1, <1>2, <1>3, <1>4, InitSize, Invariance, PTL DEF Spec, ImplementsTable, Table!Spec

=============================================================================
