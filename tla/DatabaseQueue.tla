---------------------------- MODULE DatabaseQueue ----------------------------
(***************************************************************************)
(* The database mode: processes that share the table gmaps_jobs as a queue  *)
(* (postgres/provider.go), started with runner/databaserunner to produce    *)
(* seed jobs or to scrape, and their writers of results                     *)
(* (postgres/resultwriter.go).  In each process a fetcher marks batches of   *)
(* rows as queued and sends the jobs into jobc, a forwarder passes them to   *)
(* scrapemate, whose workers push the jobs they find and emit entries.       *)
(***************************************************************************)
EXTENDS Integers, FiniteSets

CONSTANTS
  Seeds,       \* seed jobs; their ids may be given in the input ("#!#")
  Places,      \* the jobs the seeds may find
  Processes,   \* the scraping processes
  BatchSize,   \* batchSize of the provider
  MaxBatch,    \* maxBatchSize of the result writer
  Unstorable,  \* the places whose entry PostgreSQL refuses (22P05)
  None         \* no job

Jobs == Seeds \cup Places

ASSUME JobsAssumption == IsFiniteSet(Jobs) /\ Seeds \cap Places = {} /\ Unstorable \subseteq Places
ASSUME NoneAssumption == None \notin Jobs
ASSUME SizesAssumption == BatchSize \in Nat \ {0} /\ MaxBatch \in Nat \ {0}

VARIABLES
  status,    \* status of the row of each job in gmaps_jobs
  locked,    \* rows locked by the UPDATE of each process
  fetcher,   \* fetchJobs
  batch,     \* fetched jobs that are not yet in jobc
  jobc,      \* the jobs in jobc
  forwarder, \* the goroutine of Jobs
  held,      \* the job the forwarder is about to hand over
  handed,    \* how often each job was handed to scrapemate
  working,   \* the jobs scrapemate works on
  emitted,   \* entries in the channel of the results
  buff,      \* the writer's buff
  writer,    \* resultWriter.Run
  rows       \* how many rows of each entry are in the table results

provider == <<locked, fetcher, batch, jobc, forwarder, held>>
writing == <<emitted, buff, writer, rows>>
vars == <<status, provider, handed, working, writing>>

At(f, p, v) == [f EXCEPT ![p] = v]

----------------------------------------------------------------------------
(* Push: INSERT ... ON CONFLICT DO NOTHING with status 'new'.               *)

Push(S) == status' = [j \in Jobs |-> IF j \in S /\ status[j] = "none" THEN "new" ELSE status[j]]

\* produceSeedJobs, which may be run again with the same input and may fail
\* between two jobs.
Produce(s) ==
  /\ Push({s})
  /\ UNCHANGED <<provider, handed, working, writing>>

----------------------------------------------------------------------------
(* fetchJobs                                                                *)

\* Mutant: the rows are selected without a lock.
FreeOrLocked == {j \in Jobs : status[j] = "new"}

\* The rows the SELECT ... FOR UPDATE SKIP LOCKED may take.
Free == {j \in Jobs : status[j] = "new" /\ \A p \in Processes : j \notin locked[p]}

\* A batch is as large as BatchSize and the free rows allow; seeds (priority 0)
\* come before places (priority 1).
Batches ==
  {B \in SUBSET Free :
     /\ B # {}
     /\ Cardinality(B) <= BatchSize
     /\ Cardinality(B) < BatchSize => B = Free
     /\ B \cap Places # {} => Free \cap Seeds \subseteq B}

FetchSelects(p, B) ==
  /\ fetcher[p] = "running" /\ locked[p] = {} /\ batch[p] = {}
  /\ locked' = At(locked, p, B)
  /\ UNCHANGED <<status, fetcher, batch, jobc, forwarder, held, handed, working, writing>>

\* The statement ends: its rows are queued, and they are read and decoded.
FetchCommits(p) ==
  /\ locked[p] # {}
  /\ status' = [j \in Jobs |-> IF j \in locked[p] THEN "queued" ELSE status[j]]
  /\ batch' = At(batch, p, locked[p])
  /\ locked' = At(locked, p, {})
  /\ UNCHANGED <<fetcher, jobc, forwarder, held, handed, working, writing>>

\* An error of the statement, of the connection, of Scan or of decodeJob: the
\* whole batch stays behind in a fetcher that has ended, or the statement had no effect.
FetchFails(p, committed) ==
  /\ fetcher[p] = "running" /\ batch[p] = {}
  /\ fetcher' = At(fetcher, p, "failed")
  /\ status' = [j \in Jobs |-> IF committed /\ j \in locked[p] THEN "queued" ELSE status[j]]
  /\ batch' = IF committed THEN At(batch, p, locked[p]) ELSE batch
  /\ locked' = At(locked, p, {})
  /\ UNCHANGED <<jobc, forwarder, held, handed, working, writing>>

FetchSends(p, j) ==
  /\ fetcher[p] = "running"
  /\ j \in batch[p]
  /\ Cardinality(jobc[p]) < 2 * BatchSize
  /\ batch' = At(batch, p, batch[p] \ {j})
  /\ jobc' = At(jobc, p, jobc[p] \cup {j})
  /\ UNCHANGED <<status, locked, fetcher, forwarder, held, handed, working, writing>>

----------------------------------------------------------------------------
(* Jobs                                                                     *)

\* Mutant: the job is taken while another one waits to be handed over.
ForwarderOvertakes(p, j) ==
  /\ forwarder[p] = "running"
  /\ j \in jobc[p]
  /\ jobc' = At(jobc, p, jobc[p] \ {j})
  /\ held' = At(held, p, j)
  /\ UNCHANGED <<status, locked, fetcher, batch, forwarder, handed, working, writing>>

ForwarderTakes(p, j) ==
  /\ forwarder[p] = "running"
  /\ held[p] = None
  /\ j \in jobc[p]
  /\ jobc' = At(jobc, p, jobc[p] \ {j})
  /\ held' = At(held, p, j)
  /\ UNCHANGED <<status, locked, fetcher, batch, forwarder, handed, working, writing>>

ForwarderHands(p) ==
  /\ forwarder[p] = "running"
  /\ held[p] # None
  /\ handed' = [handed EXCEPT ![held[p]] = @ + 1]
  /\ working' = At(working, p, working[p] \cup {held[p]})
  /\ held' = At(held, p, None)
  /\ UNCHANGED <<status, locked, fetcher, batch, jobc, forwarder, writing>>

\* errc is closed with the fetcher: the error, or its end, may be seen before
\* what is still in jobc.
ForwarderEnds(p) ==
  /\ forwarder[p] = "running"
  /\ held[p] = None
  /\ fetcher[p] # "running"
  /\ forwarder' = At(forwarder, p, "ended")
  /\ UNCHANGED <<status, locked, fetcher, batch, jobc, held, handed, working, writing>>

----------------------------------------------------------------------------
(* The process: scrapemate's workers, cancellation and death.               *)

\* A seed is processed and the places it found are pushed.
ProcessSeed(p, s, found) ==
  /\ s \in working[p] \cap Seeds
  /\ working' = At(working, p, working[p] \ {s})
  /\ Push(found)
  /\ UNCHANGED <<provider, handed, writing>>

\* A place is processed and its entry, if it has one, goes to the results.
ProcessPlace(p, j, has) ==
  /\ j \in working[p] \cap Places
  /\ working' = At(working, p, working[p] \ {j})
  /\ emitted' = IF has THEN At(emitted, p, emitted[p] \cup {j}) ELSE emitted
  /\ UNCHANGED <<status, provider, handed, buff, writer, rows>>

\* The context ends: an error of the provider or of the writer, inactivity or a signal.
Cancelled(p) ==
  /\ fetcher[p] = "running" \/ forwarder[p] = "running"
  /\ fetcher' = At(fetcher, p, IF fetcher[p] = "running" THEN "stopped" ELSE fetcher[p])
  /\ forwarder' = At(forwarder, p, "ended")
  /\ locked' = At(locked, p, {})
  /\ UNCHANGED <<status, batch, jobc, held, handed, working, writing>>

\* The process dies with everything in its memory; PostgreSQL drops its locks.
Dies(p) ==
  /\ writer[p] # "dead"
  /\ fetcher' = At(fetcher, p, "stopped")
  /\ forwarder' = At(forwarder, p, "ended")
  /\ writer' = At(writer, p, "dead")
  /\ locked' = At(locked, p, {})
  /\ working' = At(working, p, {})
  /\ emitted' = At(emitted, p, {})
  /\ UNCHANGED <<status, batch, jobc, held, handed, buff, rows>>

----------------------------------------------------------------------------
(* resultWriter.Run                                                         *)

Store(S) == rows' = [j \in Places |-> IF j \in S THEN rows[j] + 1 ELSE rows[j]]

\* Mutants: a refused batch is given up; or saved again on top of what was inserted.
BatchSaveSkips(S, rest) ==
  /\ Store(IF S \cap Unstorable = {} THEN S ELSE {})
  /\ rest
BatchSaveTwice(S, rest) ==
  /\ rows' = [j \in Places |-> rows[j] + (IF j \notin S \ Unstorable THEN 0
                                          ELSE IF S \cap Unstorable = {} THEN 1 ELSE 2)]
  /\ rest

\* batchSave: all rows in one transaction; if PostgreSQL refuses one of them,
\* the transaction is rolled back and the others are saved one by one.
BatchSave(S, rest) ==
  /\ Store(S \ Unstorable)
  /\ rest

\* An error: nothing was saved, or (an error of Commit, an error in the middle
\* of saveRowsOneByOne) some of it.
BatchSaveFails(S, saved) ==
  /\ saved = {} \/ saved = S \/ (S \cap Unstorable # {} /\ saved \subseteq S \ Unstorable)
  /\ Store(saved \ Unstorable)

\* An entry is received; the batch is saved if it is full or a minute has passed
\* since the writer was started.
WriterReceives(p, j, minute) ==
  LET S == buff[p] \cup {j}
  IN  /\ writer[p] = "running"
      /\ j \in emitted[p]
      /\ emitted' = At(emitted, p, emitted[p] \ {j})
      /\ IF Cardinality(S) < MaxBatch /\ ~minute
           THEN buff' = At(buff, p, S) /\ UNCHANGED <<writer, rows>>
           ELSE \/ BatchSave(S, buff' = At(buff, p, {}) /\ UNCHANGED writer)
                \/ /\ \E saved \in SUBSET S : BatchSaveFails(S, saved)
                   /\ writer' = At(writer, p, "failed")
                   /\ UNCHANGED buff
      /\ UNCHANGED <<status, provider, handed, working>>

\* The channel is closed once the workers have ended: the rest is saved.
WriterFinishes(p) ==
  /\ writer[p] = "running"
  /\ forwarder[p] = "ended" /\ working[p] = {} /\ emitted[p] = {}
  /\ \/ BatchSave(buff[p], buff' = At(buff, p, {}) /\ writer' = At(writer, p, "returned"))
     \/ /\ \E saved \in SUBSET buff[p] : BatchSaveFails(buff[p], saved)
        /\ writer' = At(writer, p, "failed")
        /\ UNCHANGED buff
  /\ UNCHANGED <<status, provider, handed, working, emitted>>

----------------------------------------------------------------------------
Init ==
  /\ status = [j \in Jobs |-> "none"]
  /\ locked = [p \in Processes |-> {}]
  /\ fetcher = [p \in Processes |-> "running"]
  /\ batch = [p \in Processes |-> {}]
  /\ jobc = [p \in Processes |-> {}]
  /\ forwarder = [p \in Processes |-> "running"]
  /\ held = [p \in Processes |-> None]
  /\ handed = [j \in Jobs |-> 0]
  /\ working = [p \in Processes |-> {}]
  /\ emitted = [p \in Processes |-> {}]
  /\ buff = [p \in Processes |-> {}]
  /\ writer = [p \in Processes |-> "running"]
  /\ rows = [j \in Places |-> 0]

\* Bound: a place is found once; the ids of found places are new UUIDs.
Unfound == {j \in Places : status[j] = "none"}

FetchSelect(p) == \E B \in Batches : FetchSelects(p, B)
FetchSend(p) == \E j \in Jobs : FetchSends(p, j)
ForwarderTake(p) == \E j \in Jobs : ForwarderTakes(p, j)

ProviderStep(p) ==
  \/ FetchSelect(p)
  \/ FetchCommits(p)
  \/ \E committed \in BOOLEAN : FetchFails(p, committed)
  \/ FetchSend(p)
  \/ ForwarderTake(p)
  \/ ForwarderHands(p)
  \/ ForwarderEnds(p)

WorkStep(p) ==
  \/ \E s \in Seeds, found \in SUBSET Unfound : ProcessSeed(p, s, found)
  \/ \E j \in Places, has \in BOOLEAN : ProcessPlace(p, j, has)

WriterStep(p) ==
  \/ \E j \in Places, minute \in BOOLEAN : WriterReceives(p, j, minute)
  \/ WriterFinishes(p)

Next ==
  \/ \E s \in Seeds : Produce(s)
  \/ \E p \in Processes :
       ProviderStep(p) \/ WorkStep(p) \/ WriterStep(p) \/ Cancelled(p) \/ Dies(p)

\* The two goroutines of every provider run; nothing is assumed of the workers,
\* of the writer or of the end of a process.
Fairness ==
  \A p \in Processes :
    /\ WF_vars(FetchSelect(p))
    /\ WF_vars(FetchCommits(p))
    /\ WF_vars(FetchSend(p))
    /\ WF_vars(ForwarderTake(p))
    /\ WF_vars(ForwarderHands(p))

Spec == Init /\ [][Next]_vars /\ Fairness

----------------------------------------------------------------------------
\* Type invariant.
TypeOK ==
  /\ status \in [Jobs -> {"none", "new", "queued"}]
  /\ locked \in [Processes -> SUBSET Jobs]
  /\ fetcher \in [Processes -> {"running", "failed", "stopped"}]
  /\ batch \in [Processes -> SUBSET Jobs]
  /\ jobc \in [Processes -> SUBSET Jobs]
  /\ forwarder \in [Processes -> {"running", "ended"}]
  /\ held \in [Processes -> Jobs \cup {None}]
  /\ handed \in [Jobs -> Nat]
  /\ working \in [Processes -> SUBSET Jobs]
  /\ emitted \in [Processes -> SUBSET Places]
  /\ buff \in [Processes -> SUBSET Places]
  /\ writer \in [Processes -> {"running", "failed", "returned", "dead"}]
  /\ rows \in [Places -> Nat]

\* Processes that fetch from one table at the same time, seeds that are produced
\* again, errors and deaths: no job is handed out twice.
NoJobTwice == \A j \in Jobs : handed[j] <= 1

\* No entry is stored twice, although a refused batch is saved again row by row.
StoredOnce == \A j \in Places : rows[j] <= 1

Stopped(p) == fetcher[p] # "running" \/ forwarder[p] # "running"
InMemory(p) == batch[p] \cup jobc[p] \cup {held[p]}

\* Every new job is handed out, unless the process that fetched it has ended with
\* the job in its memory, or every process has ended.
EventuallyHandedOut ==
  \A j \in Jobs :
    status[j] = "new" ~>
      \/ handed[j] > 0
      \/ \E p \in Processes : Stopped(p) /\ j \in InMemory(p)
      \/ \A p \in Processes : Stopped(p)

\* The writer lets go of a batch without an error, or returns, only when every
\* entry of it that PostgreSQL takes is in the table: one that it refuses does not
\* take its neighbours along.
ReturnedMeansStored ==
  [][\A p \in Processes :
       /\ writer[p] = "running" /\ writer'[p] = "returned" =>
            \A j \in buff[p] \ Unstorable : rows'[j] = 1
       /\ buff[p] # {} /\ buff'[p] = {} =>
            \A j \in buff[p] \ Unstorable : rows'[j] = 1]_vars

\* The abstract table, over the rows of both tables and the history.
Table == INSTANCE JobTable WITH
  waiting <- {j \in Jobs : status[j] = "new"},
  claimed <- {j \in Jobs : status[j] = "queued" /\ handed[j] = 0},
  delivered <- handed,
  stored <- rows

\* With a statement that locks rows, two goroutines per process, errors and
\* deaths at any point, the processes do what the abstract table allows: a batch
\* of rows is claimed at once, each of its jobs is delivered at most once, and an
\* entry is stored after that, once, in a bounded transaction.
ImplementsTable == Table!Spec

=============================================================================
