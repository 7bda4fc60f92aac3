------------------------------ MODULE MCGraph ------------------------------
(***************************************************************************)
(* The two algorithms on the graph of blockers, for TLC: every graph of a  *)
(* few tasks, every edge, every set of tasks on the board.                 *)
(***************************************************************************)
EXTENDS CycleCheck, Batches

Both == <<vars, ordering>>

BothInit == Init /\ OrderInit

Search == Next /\ UNCHANGED ordering

Order == OrderNext /\ UNCHANGED searching

BothSpec ==
  /\ BothInit
  /\ [][Search \/ Order]_Both
  /\ WF_Both(Search) /\ WF_Both(Order)

\* Neither goes on for ever, cycles in the graph or not: the search remembers
\* where it has been, and every batch is of tasks that were in none before.
Answers == <>(answer # "unknown") /\ <>Returned
=============================================================================
