------------------------------ MODULE TaskGraph ------------------------------
(***************************************************************************)
(* The graph of blockers: by[t] is the set of tasks that t waits for,      *)
(* Task.blocked_by.  What it means for tasks to wait for each other, in    *)
(* terms of sets, so that the code's algorithms can be compared with it.   *)
(***************************************************************************)

\* S contains whatever waits, directly, for one of its tasks.
Closed(by, S) == \A t \in DOMAIN by : by[t] \cap S # {} => t \in S

\* b waits for a, directly or through others, or is a.
WaitsFor(by, b, a) ==
  \A S \in SUBSET DOMAIN by : a \in S /\ Closed(by, S) => b \in S

\* Every task of S waits for one of S: none of them can ever be the first.
Stuck(by, S) == \A t \in S : by[t] \cap S # {}

\* Among the tasks of T none waits for itself.
Acyclic(by, T) == \A S \in SUBSET T : Stuck(by, S) => S = {}

\* One more blocker.
WithEdge(by, from, to) == [by EXCEPT ![to] = @ \cup {from}]
=============================================================================
