---------------------------- MODULE MCDispatch ----------------------------
(***************************************************************************)
(* Small instances of Dispatch: two tasks, independent or the second       *)
(* blocked by the first, and up to four job slots.                         *)
(***************************************************************************)
EXTENDS Dispatch, TLC

CONSTANTS t1, t2

Independent == [t \in {t1, t2} |-> {}]
Chain == (t1 :> {}) @@ (t2 :> {t1})
Alone == [t \in {t1} |-> {}]

SomeOps == Ops \ {"approve_review", "request_changes"}

JobSymmetry == Permutations(Jobs)
===========================================================================
