------------------------------ MODULE MCControl ------------------------------
(***************************************************************************)
(* Instances of Control: one or two tasks, one or two limits, two or three *)
(* jobs at a time.                                                         *)
(***************************************************************************)
EXTENDS Control, TLC

MCAll == {"pause", "resume", "drain", "stop", "settings", "section", "run", "queue", "shutdown"}
MCDrain == {"pause", "drain", "section", "run", "queue"}
MCFlow == {"resume", "drain", "queue"}

\* Which task and which job is which does not matter.
MCSymmetry == Permutations(Tasks) \cup Permutations(Jobs)
=============================================================================
