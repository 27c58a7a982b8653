------------------------------- MODULE JobTable -------------------------------
(***************************************************************************)
(* What a table of jobs shared by processes promises, without the          *)
(* processes, their channels, locks and buffers: a job that was added is   *)
(* claimed with at most a batch of others, delivered at most once, and only*)
(* then may its result be stored, once, in a transaction of bounded size.  *)
(* No order is promised, nor that a claimed job is delivered: the process  *)
(* that holds it may end.                                                  *)
(***************************************************************************)
EXTENDS Naturals, FiniteSets

CONSTANTS
  Jobs, Places, \* the jobs, and those of them that have a result
  BatchSize,    \* the most jobs that are claimed at once
  MaxBatch      \* the most results that are stored at once

VARIABLES
  waiting,      \* the jobs that were added and not yet claimed
  claimed,      \* the jobs that were claimed and not yet delivered
  delivered,    \* how often each job was delivered
  stored        \* how many results of each place were stored

vars == <<waiting, claimed, delivered, stored>>

Init ==
  /\ waiting = {} /\ claimed = {}
  /\ delivered = [j \in Jobs |-> 0]
  /\ stored = [j \in Places |-> 0]

\* What was added before is not added again.
Add(S) ==
  /\ \A j \in S : j \notin waiting \cup claimed /\ delivered[j] = 0
  /\ waiting' = waiting \cup S
  /\ UNCHANGED <<claimed, delivered, stored>>

Claim(B) ==
  /\ B \subseteq waiting
  /\ Cardinality(B) <= BatchSize
  /\ waiting' = waiting \ B
  /\ claimed' = claimed \cup B
  /\ UNCHANGED <<delivered, stored>>

Deliver(j) ==
  /\ j \in claimed
  /\ claimed' = claimed \ {j}
  /\ delivered' = [delivered EXCEPT ![j] = @ + 1]
  /\ UNCHANGED <<waiting, stored>>

StoreResults(S) ==
  /\ \A j \in S : delivered[j] = 1 /\ stored[j] = 0
  /\ Cardinality(S) <= MaxBatch
  /\ stored' = [j \in Places |-> IF j \in S THEN 1 ELSE stored[j]]
  /\ UNCHANGED <<waiting, claimed, delivered>>

Next ==
  \/ \E S \in SUBSET Jobs : Add(S)
  \/ \E B \in SUBSET Jobs : Claim(B)
  \/ \E j \in Jobs : Deliver(j)
  \/ \E S \in SUBSET Places : StoreResults(S)

Spec == Init /\ [][Next]_vars

=============================================================================
