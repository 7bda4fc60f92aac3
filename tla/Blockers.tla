------------------------------ MODULE Blockers ------------------------------
(***************************************************************************)
(* The tasks of a board and their blockers, as the two algorithms on that  *)
(* graph are given them: _has_cycle and _execution_batches.                *)
(***************************************************************************)
EXTENDS TaskGraph

CONSTANT Nodes  \* task ids

VARIABLE by  \* blocked_by of every task
=============================================================================
