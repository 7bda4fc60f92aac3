----------------------------- MODULE RunLedger -----------------------------
(***************************************************************************)
(* What the run records of a task promise: runs are opened one after       *)
(* another, the run of an execution is closed once, by that execution, and *)
(* a closed run never changes.  A run whose execution is lost stays open   *)
(* until a restart interrupts it.                                          *)
(***************************************************************************)
EXTENDS Naturals, Sequences

VARIABLES
  ledger,   \* the statuses of the task's runs, oldest first
  active    \* an execution is going to close the last of them

Result == {"done", "in_review", "blocked"}

Init == ledger = <<>> /\ active = FALSE

Open ==
  /\ ~active
  /\ ledger' = Append(ledger, "in_progress")
  /\ active' = TRUE

Close ==
  /\ active
  /\ ledger[Len(ledger)] = "in_progress"
  /\ \E r \in Result : ledger' = [ledger EXCEPT ![Len(ledger)] = r]
  /\ active' = FALSE

\* An exception, or the death of the process before the task was blocked.
Lose == active /\ active' = FALSE /\ UNCHANGED ledger

Interrupt ==
  /\ ledger' = [k \in DOMAIN ledger |->
       IF ledger[k] = "in_progress" THEN "interrupted" ELSE ledger[k]]
  /\ active' = FALSE

Next == Open \/ Close \/ Lose \/ Interrupt

Spec == Init /\ [][Next]_<<ledger, active>>
=============================================================================
