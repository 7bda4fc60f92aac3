------------------------------- MODULE Batches -------------------------------
(***************************************************************************)
(* _execution_batches, step by step: the order in which the board says     *)
(* tasks can be executed, for any set of tasks of a graph (ids in          *)
(* blocked_by may be of tasks that are gone).                              *)
(*                                                                         *)
(* A batch is a set: in which order its tasks are counted off is left open *)
(* (the code sorts them by priority).                                      *)
(***************************************************************************)
EXTENDS Integers, Sequences, FiniteSets, Blockers

VARIABLES
  tasks,     \* the tasks on the board
  indegree,  \* of every task, the blockers that are not yet counted off
  ready,     \* the next batch, as far as it is known
  batch,     \* of the batch that is taken, the tasks to be counted off
  batches    \* those taken so far

ordering == <<tasks, indegree, ready, batch, batches>>

\* Mutant of Degree: ids without a task count as well.
DegreeOfAll(t) == Cardinality(by[t])

Degree(t) == Cardinality(by[t] \cap tasks)

OrderInit ==
  /\ by \in [Nodes -> SUBSET Nodes]
  /\ tasks \in SUBSET Nodes /\ IsFiniteSet(tasks)
  /\ indegree = [t \in tasks |-> Degree(t)]
  /\ ready = {t \in tasks : indegree[t] = 0}
  /\ batch = {} /\ batches = <<>>

TakeBatch ==
  /\ batch = {} /\ ready # {}
  /\ batch' = ready /\ batches' = Append(batches, ready)
  /\ ready' = {}
  /\ UNCHANGED <<by, tasks, indegree>>

\* Mutant of CountOff: a task is ready as soon as one of its blockers is over.
CountOffEager ==
  \E t \in batch :
    /\ batch' = batch \ {t}
    /\ indegree' = [d \in tasks |-> IF t \in by[d] THEN indegree[d] - 1 ELSE indegree[d]]
    /\ ready' = ready \cup {d \in tasks : t \in by[d]}
    /\ UNCHANGED <<by, tasks, batches>>

\* The dependents of a task count down, and those at zero come next.
CountOff ==
  \E t \in batch :
    /\ batch' = batch \ {t}
    /\ indegree' = [d \in tasks |-> IF t \in by[d] THEN indegree[d] - 1 ELSE indegree[d]]
    /\ ready' = ready \cup {d \in tasks : t \in by[d] /\ indegree'[d] = 0}
    /\ UNCHANGED <<by, tasks, batches>>

OrderNext == TakeBatch \/ CountOff

OrderSpec == OrderInit /\ [][OrderNext]_<<by, ordering>>

-----------------------------------------------------------------------------
\* The list is returned.
Returned == batch = {} /\ ready = {}

Batched == {t \in tasks : \E i \in DOMAIN batches : t \in batches[i]}

\* GET /tasks/execution-order: whatever the graph, cycles included, and whichever
\* tasks are gone, a task is in one batch only, after the batches of all its
\* blockers and right after that of one of them; and what is missing in the end
\* waits, directly or not, for a cycle of tasks that are all on the board.
OrderRight ==
  /\ \A i \in DOMAIN batches : \A t \in batches[i] :
       /\ \A j \in DOMAIN batches : t \in batches[j] => j = i
       /\ \A b \in by[t] \cap tasks : \E j \in 1..(i - 1) : b \in batches[j]
       /\ i > 1 => by[t] \cap batches[i - 1] # {}
  /\ Returned => Stuck(by, tasks \ Batched)
=============================================================================
