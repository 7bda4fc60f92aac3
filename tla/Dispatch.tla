------------------------------ MODULE Dispatch ------------------------------
(***************************************************************************)
(* How tasks reach the worker pool, and what becomes of the one copy of a  *)
(* task in tasks.yaml while several threads each hold a snapshot of it.    *)
(*                                                                         *)
(* Actors: the scheduler loop ("loop"), the server's event loop ("api",    *)
(* every handler is an async def that never awaits, so handlers exclude    *)
(* each other but not the other threads), and the pool threads, one per    *)
(* job, a job being one submitted call of _execute_task.                   *)
(*                                                                         *)
(* tasks.yaml is read and written one call at a time under its lock, and   *)
(* every write replaces the whole task.  Whatever happens between a read   *)
(* and the write that follows it is therefore a pair of actions here.      *)
(*                                                                         *)
(* Abstracted: the order in which claimable tasks are picked (any of them  *)
(* may be first), the names of gates (only whether one is pending) and the *)
(* pipeline itself, reduced to Steps steps; module Pipeline has it whole.  *)
(***************************************************************************)
EXTENDS Integers, FiniteSets

CONSTANTS
  Tasks,          \* task ids
  Jobs,           \* slots for submitted jobs; a slot is reused when forgotten
  None, Kept,     \* model values: no value; a branch without its worktree
  BlockedBy,      \* Task.blocked_by of every task
  MaxInProgress,  \* orchestrator.concurrency, read at each tick
  PoolSize,       \* orchestrator.concurrency when the pool was made
  Steps,          \* pipeline steps of a job
  InGit,          \* the project directory has a .git
  Gated,          \* the tasks' hitl_mode gates every step
  ApiOps,         \* the endpoints the clients use
  CanCrash        \* the server process may die

Terminal == {"done", "cancelled"}
Status == {"backlog", "ready", "in_progress", "in_review", "blocked"} \cup Terminal
Ops == {"patch", "transition", "retry", "cancel", "approve_gate",
        "approve_review", "request_changes", "run"}

\* The fields of a Task that dispatching reads: its status, whether
\* pending_gate is set, and whether metadata holds a worktree_dir.
TaskRec == [status : Status, gate : BOOLEAN, wt : BOOLEAN]

ASSUME DispatchAssumption ==
  /\ BlockedBy \in [Tasks -> SUBSET Tasks]
  /\ MaxInProgress \in Nat \ {0}
  /\ PoolSize \in Nat \ {0}
  /\ Steps \in Nat
  /\ InGit \in BOOLEAN /\ Gated \in BOOLEAN /\ CanCrash \in BOOLEAN
  /\ ApiOps \subseteq Ops
  /\ None \notin Tasks \cup Jobs /\ Kept \notin Jobs /\ None # Kept
  /\ None \notin TaskRec

\* The endpoints that neither write back a status they did not decide on (as
\* patch and approve_gate do) nor set in_progress (as transition can).
OwnedOps == {"retry", "cancel", "approve_review", "request_changes", "run"}

VARIABLES
  up,       \* the server process is alive
  store,    \* tasks.yaml
  branch,   \* per task: the job whose worktree and branch exist, None, or Kept
  futures,  \* OrchestratorService._futures
  th,       \* the two threads that submit jobs: "loop" and "api"
  job       \* the pool's jobs

vars == <<up, store, branch, futures, th, job>>

Submitters == {"loop", "api"}
ThreadPC == {"idle", "write", "upsert", "submit", "register", "lookup", "join", "await"}
JobPC == {"queued", "started", "working", "approved", "waiting", "resolving",
          "merged", "closing", "unwinding", "excepted", "finished"}

IdleThread == [pc |-> "idle", task |-> None, rec |-> None, job |-> None]
NoJob == [pc |-> "finished", task |-> None, rec |-> None, left |-> 0]

Init ==
  /\ up = TRUE
  /\ store \in [Tasks -> [status : {"backlog", "ready"}, gate : {FALSE}, wt : {FALSE}]]
  /\ branch = [t \in Tasks |-> None]
  /\ futures = [t \in Tasks |-> None]
  /\ th = [d \in Submitters |-> IdleThread]
  /\ job = [j \in Jobs |-> NoJob]

-----------------------------------------------------------------------------
(* What every thread needs: blockers, submission, registration.            *)

\* Every blocker exists and is done or cancelled.
BlockersResolved(t) == \A b \in BlockedBy[t] : store[b].status \in Terminal

\* A slot nothing refers to any more.
FreeSlot(j) ==
  /\ job[j].pc = "finished"
  /\ \A t \in Tasks : futures[t] # j
  /\ \A d \in Submitters : th[d].job # j

\* self._get_pool().submit(self._execute_task, task): the job gets the
\* submitter's in-memory task, not a fresh copy.
Submit(d, j) ==
  /\ th[d].pc = "submit"
  /\ FreeSlot(j)
  /\ job' = [job EXCEPT ![j] =
       [pc |-> "queued", task |-> th[d].task, rec |-> th[d].rec, left |-> Steps]]
  /\ th' = [th EXCEPT ![d].pc = "register", ![d].job = j, ![d].rec = None]
  /\ UNCHANGED <<up, store, branch, futures>>

\* self._futures[task_id] = future, whatever was there before.  The loop goes
\* back to its ticks, run_task waits for the future.
Register(d) ==
  /\ th[d].pc = "register"
  /\ futures' = [futures EXCEPT ![th[d].task] = th[d].job]
  /\ th' = [th EXCEPT ![d] =
       IF d = "loop" THEN IdleThread ELSE [th[d] EXCEPT !.pc = "await"]]
  /\ UNCHANGED <<up, store, branch, job>>

-----------------------------------------------------------------------------
(* The scheduler loop.                                                     *)

Swept ==
  [t \in Tasks |-> IF futures[t] # None /\ job[futures[t]].pc = "finished"
                     THEN None ELSE futures[t]]

\* Mutant of Claimable: blocked_by is not looked at.
ClaimableIgnoringBlockers(t) ==
  /\ Cardinality({u \in Tasks : store[u].status = "in_progress"}) < MaxInProgress
  /\ store[t].status = "ready"
  /\ ~store[t].gate

\* claim_next_runnable finds a task it may claim.
Claimable(t) ==
  /\ Cardinality({u \in Tasks : store[u].status = "in_progress"}) < MaxInProgress
  /\ store[t].status = "ready"
  /\ ~store[t].gate
  /\ BlockersResolved(t)

\* A tick that claims t: the check and the change of status are one locked
\* read-modify-write.
LoopClaim(t) ==
  /\ up /\ th["loop"].pc = "idle"
  /\ futures' = Swept
  /\ Claimable(t)
  /\ LET rec == [store[t] EXCEPT !.status = "in_progress"]
     IN  /\ store' = [store EXCEPT ![t] = rec]
         /\ th' = [th EXCEPT !["loop"] =
              [pc |-> "submit", task |-> t, rec |-> rec, job |-> None]]
  /\ UNCHANGED <<up, branch, job>>

\* A tick that finds nothing to claim.
LoopIdle ==
  /\ up /\ th["loop"].pc = "idle"
  /\ \A t \in Tasks : ~Claimable(t)
  /\ futures' = Swept
  /\ UNCHANGED <<up, store, branch, th, job>>

-----------------------------------------------------------------------------
(* The API: a handler reads the task, decides, and writes its copy back.   *)

ApiRead(op, t, rec) ==
  /\ up /\ th["api"].pc = "idle"
  /\ op \in ApiOps
  /\ th' = [th EXCEPT !["api"] =
       [pc |-> "write", task |-> t, rec |-> rec, job |-> None]]
  /\ UNCHANGED <<up, store, branch, futures, job>>

ApiWrite ==
  /\ th["api"].pc = "write"
  /\ store' = [store EXCEPT ![th["api"].task] = th["api"].rec]
  /\ th' = [th EXCEPT !["api"] = IdleThread]
  /\ UNCHANGED <<up, branch, futures, job>>

\* PATCH changes no field kept here.
Patch(t) == ApiRead("patch", t, store[t])

ValidTransitions ==
  [backlog     |-> {"ready", "cancelled"},
   ready       |-> {"in_progress", "blocked", "backlog", "cancelled"},
   in_progress |-> {"in_review", "blocked", "ready", "cancelled"},
   in_review   |-> {"done", "in_progress", "blocked", "cancelled"},
   blocked     |-> {"ready", "cancelled", "backlog"},
   done        |-> {"ready"},
   cancelled   |-> {"backlog"}]

Transition(t) ==
  \E target \in ValidTransitions[store[t].status] :
    /\ target \in {"ready", "in_progress"} => BlockersResolved(t)
    /\ ApiRead("transition", t, [store[t] EXCEPT !.status = target])

\* Retry has no condition on the status, and clears the gate.
Retry(t) ==
  /\ BlockersResolved(t)
  /\ ApiRead("retry", t, [store[t] EXCEPT !.status = "ready", !.gate = FALSE])

Cancel(t) == ApiRead("cancel", t, [store[t] EXCEPT !.status = "cancelled"])

ApproveGate(t) ==
  /\ store[t].gate
  /\ ApiRead("approve_gate", t, [store[t] EXCEPT !.gate = FALSE])

ApproveReview(t) ==
  /\ store[t].status = "in_review"
  /\ ApiRead("approve_review", t, [store[t] EXCEPT !.status = "done"])

RequestChanges(t) ==
  /\ store[t].status = "in_review"
  /\ ApiRead("request_changes", t, [store[t] EXCEPT !.status = "ready"])

-----------------------------------------------------------------------------
(* POST /tasks/{id}/run calls run_task on the event loop: until it returns *)
(* no other handler runs.                                                  *)

RunTask(t) ==
  /\ up /\ th["api"].pc = "idle"
  /\ "run" \in ApiOps
  /\ store[t].gate => store[t].status = "in_progress"
  /\ store[t].status \notin {"in_review", "done", "cancelled"}
  /\ \/ /\ store[t].status = "in_progress"
        /\ th' = [th EXCEPT !["api"] =
             [pc |-> "lookup", task |-> t, rec |-> None, job |-> None]]
     \/ /\ store[t].status # "in_progress"
        /\ BlockersResolved(t)
        /\ th' = [th EXCEPT !["api"] =
             [pc |-> "upsert", task |-> t,
              rec |-> [store[t] EXCEPT !.status = "ready"], job |-> None]]
  /\ UNCHANGED <<up, store, branch, futures, job>>

\* The snapshot goes back as "ready", then to the pool.
RunUpsert ==
  /\ th["api"].pc = "upsert"
  /\ store' = [store EXCEPT ![th["api"].task] = th["api"].rec]
  /\ th' = [th EXCEPT !["api"].pc = "submit"]
  /\ UNCHANGED <<up, branch, futures, job>>

\* wait_existing: with no future registered the call returns at once.
RunLookup ==
  /\ th["api"].pc = "lookup"
  /\ LET f == futures[th["api"].task]
     IN  th' = [th EXCEPT !["api"] =
           IF f = None THEN IdleThread ELSE [th["api"] EXCEPT !.pc = "join", !.job = f]]
  /\ UNCHANGED <<up, store, branch, futures, job>>

\* future.result() returns; a call that submitted the job also drops the
\* task's entry, even if it is by now another job's.
RunReturn ==
  /\ th["api"].pc \in {"join", "await"}
  /\ job[th["api"].job].pc = "finished"
  /\ futures' = IF th["api"].pc = "await"
                  THEN [futures EXCEPT ![th["api"].task] = None] ELSE futures
  /\ th' = [th EXCEPT !["api"] = IdleThread]
  /\ UNCHANGED <<up, store, branch, job>>

-----------------------------------------------------------------------------
(* A job: _execute_task on a pool thread.                                  *)

Goto(j, pc) ==
  /\ job' = [job EXCEPT ![j].pc = pc]
  /\ UNCHANGED store

\* self.container.tasks.upsert(task), task being the job's own object.
Upsert(j, rec, pc) ==
  /\ job' = [job EXCEPT ![j].pc = pc, ![j].rec = rec]
  /\ store' = [store EXCEPT ![job[j].task] = rec]

Running == {j \in Jobs : job[j].pc \notin {"queued", "finished"}}

\* Mutant of JobStart: an existing branch and worktree are taken over.
JobStartTakesOver(j) ==
  LET t == job[j].task IN
  /\ job[j].pc = "queued"
  /\ Cardinality(Running) < PoolSize
  /\ branch' = IF InGit THEN [branch EXCEPT ![t] = j] ELSE branch
  /\ Upsert(j, [job[j].rec EXCEPT !.wt = InGit], "started")
  /\ UNCHANGED <<up, futures, th>>

\* git worktree add -b fails while the task's branch exists; outside git there
\* is no worktree and nothing to fail.
JobStart(j) ==
  LET t == job[j].task IN
  /\ job[j].pc = "queued"
  /\ Cardinality(Running) < PoolSize
  /\ \/ /\ InGit /\ branch[t] = None
        /\ branch' = [branch EXCEPT ![t] = j]
        /\ Upsert(j, [job[j].rec EXCEPT !.wt = TRUE], "started")
     \/ /\ InGit /\ branch[t] # None
        /\ Goto(j, "unwinding")
        /\ UNCHANGED branch
     \/ /\ ~InGit
        /\ Goto(j, "started")
        /\ UNCHANGED branch
  /\ UNCHANGED <<up, futures, th>>

JobBegin(j) ==
  /\ job[j].pc = "started"
  /\ Upsert(j, [job[j].rec EXCEPT !.status = "in_progress"], "working")
  /\ UNCHANGED <<up, branch, futures, th>>

\* _wait_for_gate writes the gate and polls.
JobGate(j) ==
  /\ Gated /\ job[j].pc = "working" /\ job[j].left > 0
  /\ Upsert(j, [job[j].rec EXCEPT !.gate = TRUE], "waiting")
  /\ UNCHANGED <<up, branch, futures, th>>

\* The poll finds the gate cleared.  The job's own object keeps it.
JobApproved(j) ==
  /\ job[j].pc = "waiting"
  /\ store[job[j].task].status # "cancelled"
  /\ ~store[job[j].task].gate
  /\ Goto(j, "approved")
  /\ UNCHANGED <<up, branch, futures, th>>

\* Mutant of JobAbort: the wait has no deadline.
JobAbortOnCancelOnly(j) ==
  /\ job[j].pc = "waiting"
  /\ store[job[j].task].status = "cancelled"
  /\ Upsert(j, [job[j].rec EXCEPT !.status = "blocked", !.gate = FALSE], "closing")
  /\ UNCHANGED <<up, branch, futures, th>>

\* The poll finds the task cancelled, the deadline passes or the server is
\* stopping: _abort_for_gate.
JobAbort(j) ==
  /\ job[j].pc = "waiting"
  /\ Upsert(j, [job[j].rec EXCEPT !.status = "blocked", !.gate = FALSE], "closing")
  /\ UNCHANGED <<up, branch, futures, th>>

\* The job may run its next step.
AtStep(j) ==
  /\ job[j].left > 0
  /\ job[j].pc = IF Gated THEN "approved" ELSE "working"

\* A step ends well: the object is written back as it is.
JobStep(j) ==
  /\ AtStep(j)
  /\ job' = [job EXCEPT ![j].pc = "working", ![j].left = @ - 1]
  /\ store' = [store EXCEPT ![job[j].task] = job[j].rec]
  /\ UNCHANGED <<up, branch, futures, th>>

\* A step fails, or asks for a human (which sets the intervention gate).
JobFail(j) ==
  /\ AtStep(j)
  /\ \E human \in BOOLEAN :
       Upsert(j, [job[j].rec EXCEPT !.status = "blocked", !.gate = human], "closing")
  /\ UNCHANGED <<up, branch, futures, th>>

\* A step raises.
JobRaise(j) ==
  /\ AtStep(j)
  /\ Goto(j, "unwinding")
  /\ UNCHANGED <<up, branch, futures, th>>

\* The pipeline's steps are over and the branch is being merged.
Merging(j) == job[j].pc = "resolving" \/ (job[j].pc = "working" /\ job[j].left = 0)

\* A merge with conflicts asks the worker to resolve them; the object written
\* first has no worktree, so that the worker runs in the project directory.
JobResolve(j) ==
  /\ InGit /\ job[j].pc = "working" /\ job[j].left = 0
  /\ job' = [job EXCEPT ![j].pc = "resolving"]
  /\ store' = [store EXCEPT ![job[j].task] = [job[j].rec EXCEPT !.wt = FALSE]]
  /\ UNCHANGED <<up, branch, futures, th>>

\* Commit, merge and removal of the worktree; the branch goes unless the merge
\* failed, which blocks the task.
JobMerge(j) ==
  /\ Merging(j)
  /\ \/ /\ branch' = IF InGit THEN [branch EXCEPT ![job[j].task] = None] ELSE branch
        /\ Goto(j, "merged")
     \/ /\ InGit
        /\ branch' = [branch EXCEPT ![job[j].task] = Kept]
        /\ Upsert(j, [job[j].rec EXCEPT !.status = "blocked"], "closing")
  /\ UNCHANGED <<up, futures, th>>

\* The last write of a completed pipeline: done (auto_approve) or in_review.
JobComplete(j) ==
  /\ job[j].pc = "merged"
  /\ \E s \in {"done", "in_review"} :
       Upsert(j, [job[j].rec EXCEPT !.status = s, !.wt = FALSE], "closing")
  /\ UNCHANGED <<up, branch, futures, th>>

\* Mutant of Cleanup: the worktree stays.
CleanupLeaksWorktree(j, pc) ==
  LET rec == [job[j].rec EXCEPT !.wt = FALSE]
  IN  /\ store' = IF job[j].rec.wt THEN [store EXCEPT ![job[j].task] = rec] ELSE store
      /\ job' = [job EXCEPT ![j] = IF pc = "finished" THEN NoJob
                                   ELSE [@ EXCEPT !.pc = pc, !.rec = rec]]
      /\ UNCHANGED <<up, branch, futures, th>>

\* The finally block: drop the worktree this job made and, when the metadata
\* still names one, write the object once more.
Cleanup(j, pc) ==
  LET t == job[j].task
      rec == [job[j].rec EXCEPT !.wt = FALSE]
  IN  /\ branch' = IF branch[t] = j THEN [branch EXCEPT ![t] = None] ELSE branch
      /\ store' = IF job[j].rec.wt THEN [store EXCEPT ![t] = rec] ELSE store
      /\ job' = [job EXCEPT ![j] = IF pc = "finished" THEN NoJob
                                   ELSE [@ EXCEPT !.pc = pc, !.rec = rec]]
      /\ UNCHANGED <<up, futures, th>>

JobClose(j)  == job[j].pc = "closing" /\ Cleanup(j, "finished")
JobUnwind(j) == job[j].pc = "unwinding" /\ Cleanup(j, "excepted")

\* Mutant of JobExcept: the exception is only logged.
JobExceptSilent(j) ==
  /\ job[j].pc = "excepted"
  /\ job' = [job EXCEPT ![j] = NoJob]
  /\ UNCHANGED <<up, store, branch, futures, th>>

\* The except clause of _execute_task.
JobExcept(j) ==
  /\ job[j].pc = "excepted"
  /\ store' = [store EXCEPT ![job[j].task] = [job[j].rec EXCEPT !.status = "blocked"]]
  /\ job' = [job EXCEPT ![j] = NoJob]
  /\ UNCHANGED <<up, branch, futures, th>>

-----------------------------------------------------------------------------
(* The process dies; a new one recovers the store before its loop starts.  *)

\* A job killed between the removal of its worktree and of its branch leaves
\* the branch alone.
Crash ==
  /\ CanCrash /\ up
  /\ up' = FALSE
  /\ branch' \in {b \in [Tasks -> Jobs \cup {None, Kept}] :
       \A t \in Tasks : \/ b[t] = branch[t]
                        \/ /\ branch[t] \in Jobs /\ b[t] = Kept
                           /\ \/ job[branch[t]].pc \in {"closing", "unwinding"}
                              \/ Merging(branch[t])}
  /\ futures' = [t \in Tasks |-> None]
  /\ th' = [d \in Submitters |-> IdleThread]
  /\ job' = [j \in Jobs |-> NoJob]
  /\ UNCHANGED store

\* Mutant of Restart: every task is queued again.
RestartResetsAll ==
  /\ ~up
  /\ up' = TRUE
  /\ store' = [t \in Tasks |-> [store[t] EXCEPT !.status = "ready", !.gate = FALSE]]
  /\ branch' = [t \in Tasks |-> IF branch[t] = Kept THEN Kept ELSE None]
  /\ UNCHANGED <<futures, th, job>>

\* _recover_in_progress_tasks, then _cleanup_orphaned_worktrees, which goes
\* by the directories: a branch that has none is not seen.
Restart ==
  /\ ~up
  /\ up' = TRUE
  /\ store' = [t \in Tasks |->
       IF store[t].status = "in_progress"
         THEN [store[t] EXCEPT !.status = "ready", !.gate = FALSE] ELSE store[t]]
  /\ branch' = [t \in Tasks |-> IF branch[t] = Kept THEN Kept ELSE None]
  /\ UNCHANGED <<futures, th, job>>

-----------------------------------------------------------------------------
LoopStep == LoopIdle \/ \E t \in Tasks : LoopClaim(t)

SubmitStep == \E d \in Submitters : Register(d) \/ \E j \in Jobs : Submit(d, j)

Request(t) == \/ Patch(t) \/ Transition(t) \/ Retry(t) \/ Cancel(t) \/ ApproveGate(t)
              \/ ApproveReview(t) \/ RequestChanges(t) \/ RunTask(t)

ApiStep == ApiWrite \/ RunUpsert \/ RunLookup \/ RunReturn

JobAction(j) ==
  \/ JobStart(j) \/ JobBegin(j) \/ JobGate(j) \/ JobApproved(j) \/ JobAbort(j)
  \/ JobStep(j) \/ JobFail(j) \/ JobRaise(j) \/ JobResolve(j) \/ JobMerge(j)
  \/ JobComplete(j) \/ JobClose(j) \/ JobUnwind(j) \/ JobExcept(j)

Next == \/ LoopStep \/ SubmitStep \/ ApiStep
        \/ \E t \in Tasks : Request(t)
        \/ \E j \in Jobs : JobAction(j)
        \/ Crash \/ Restart

Spec == Init /\ [][Next]_vars

\* The loop thread, the event loop inside a handler and the pool threads keep
\* running; clients owe nothing.  A gate nobody answers times out, so JobAbort
\* is among what a waiting job is sure to do.
Fairness ==
  /\ WF_vars(LoopStep) /\ WF_vars(ApiStep)
  /\ \A d \in Submitters : WF_vars(Register(d) \/ \E j \in Jobs : Submit(d, j))
  /\ \A j \in Jobs : WF_vars(JobAction(j))

FairSpec == Spec /\ Fairness

-----------------------------------------------------------------------------
(* Properties.                                                             *)

ThreadRec ==
  [pc : ThreadPC, task : Tasks \cup {None},
   rec : TaskRec \cup {None}, job : Jobs \cup {None}]

JobRec == [pc : JobPC, task : Tasks \cup {None}, rec : TaskRec \cup {None}, left : 0..Steps]

\* A thread past "idle" works on a task, carries a copy of it while it has one
\* to write or submit, and knows its job once that is submitted.
ThreadOK(d) ==
  /\ th[d].pc # "idle" => th[d].task \in Tasks
  /\ th[d].pc \in {"write", "upsert", "submit"} => th[d].rec \in TaskRec
  /\ th[d].pc \in {"register", "join", "await"} => th[d].job \in Jobs

\* A job that is not over has a task and its own copy of it.
JobOK(j) == job[j].pc # "finished" => job[j].task \in Tasks /\ job[j].rec \in TaskRec

\* Types.  The part a wrong step could break: a job or a thread that is busy
\* always holds a task object to write.
TypeOK ==
  /\ up \in BOOLEAN
  /\ store \in [Tasks -> TaskRec]
  /\ branch \in [Tasks -> Jobs \cup {None, Kept}]
  /\ futures \in [Tasks -> Jobs \cup {None}]
  /\ th \in [Submitters -> ThreadRec] /\ \A d \in Submitters : ThreadOK(d)
  /\ job \in [Jobs -> JobRec] /\ \A j \in Jobs : JobOK(j)

\* The job's pipeline is running.
InPipeline(j) ==
  job[j].pc \in {"started", "working", "approved", "waiting", "resolving"}

\* In a git project no two executions of a task run its pipeline at once,
\* however often loop and clients submit it: git worktree add -b lets one pass.
OneExecutionPerTask ==
  InGit => \A j, k \in Jobs :
    InPipeline(j) /\ InPipeline(k) /\ job[j].task = job[k].task => j = k

\* A worktree belongs to a job that is still going to remove it: no path out
\* of an execution leaks one, short of the death of the process.
WorktreeHasOwner ==
  up => \A t \in Tasks : branch[t] \in Jobs =>
    /\ job[branch[t]].task = t
    /\ InPipeline(branch[t]) \/ job[branch[t]].pc \in {"closing", "unwinding"}

\* What makes the two above inductive: an execution past git worktree add holds
\* its task's branch, and a dead process has neither jobs nor busy threads.
WorktreeInv ==
  /\ ~up => /\ \A j \in Jobs : job[j].pc = "finished"
            /\ \A d \in Submitters : th[d].pc = "idle"
  /\ InGit => \A j \in Jobs : InPipeline(j) => branch[job[j].task] = j
  /\ ~InGit => \A t \in Tasks : branch[t] = None
  /\ WorktreeHasOwner

\* The job will still write a status other than in_progress.
Live(j) == job[j].pc \notin {"closing", "finished"}

\* A task that says in_progress is somebody's: the loop has just claimed it or
\* a job is going to settle it.  A task without an owner would hold one of the
\* MaxInProgress places for ever, and nothing but a restart looks for it.
InProgressHasOwner ==
  up => \A t \in Tasks : store[t].status = "in_progress" =>
    \/ \E j \in Jobs : Live(j) /\ job[j].task = t
    \/ th["loop"].pc = "submit" /\ th["loop"].task = t

\* What makes it inductive where every request is one of OwnedOps: nobody else
\* is about to write in_progress.
OwnedInv ==
  /\ InProgressHasOwner
  /\ \A j \in Jobs : job[j].pc = "closing" => job[j].rec.status # "in_progress"
  /\ th["api"].pc \in {"write", "upsert"} => th["api"].rec.status # "in_progress"

\* No job works on a task that has an unresolved blocker (USER_GUIDE.md:61).
BlockersFinishFirst ==
  \A j \in Jobs : job[j].pc # "finished" => BlockersResolved(job[j].task)

\* The requests that write only what they found in review.
ReviewOps == {"approve_review", "request_changes"}

\* The job is going to write its task again.
Writer(j) == Live(j) \/ (job[j].pc = "closing" /\ job[j].rec.wt)

\* What makes BlockersFinishFirst inductive, and DoneIsFinal a consequence,
\* where every request is one of ReviewOps: whoever is going to write a task
\* (the loop's claim, one job, or the handler of a review) is the only one,
\* and the task has a status at which nobody else takes it up.
SettledInv ==
  /\ BlockersFinishFirst
  /\ th["api"].pc \in {"idle", "write"} /\ th["loop"].pc \in {"idle", "submit", "register"}
  /\ th["api"].pc = "write" => /\ store[th["api"].task].status = "in_review"
                               /\ th["api"].rec.status \in {"ready", "done"}
  /\ th["loop"].pc = "submit" =>
       /\ store[th["loop"].task].status = "in_progress" /\ th["loop"].rec.status = "in_progress"
       /\ BlockersResolved(th["loop"].task)
       /\ \A j \in Jobs : Writer(j) => job[j].task # th["loop"].task
  /\ \A j \in Jobs : Writer(j) =>
       /\ job[j].rec.status = IF Live(j) THEN "in_progress" ELSE "blocked"
       /\ store[job[j].task].status = job[j].rec.status
       /\ \A k \in Jobs : Writer(k) /\ job[k].task = job[j].task => k = j

\* Nothing takes a done task back, short of the requests that mean to: no late
\* write of a job or of a handler finds it done.
DoneIsFinal ==
  [][\A t \in Tasks : store[t].status = "done" => store'[t].status = "done"]_vars

\* A runnable task settles: it is claimed, runs, and comes to rest, unless one
\* of its blockers is meanwhile taken back or the server dies.
RunnableSettles ==
  \A t \in Tasks :
    (store[t].status = "ready" /\ ~store[t].gate /\ BlockersResolved(t))
      ~> (store[t].status \notin {"ready", "in_progress"} \/ ~BlockersResolved(t) \/ ~up)

\* POST /run comes back, although it holds the event loop, and with it the
\* approve-gate endpoint, while it waits for a job that may stand at a gate.
RunReturns == th["api"].pc # "idle" ~> th["api"].pc = "idle"

\* router.py:183, VALID_TRANSITIONS: a cancelled task can only go to backlog.
CancelledOnlyToBacklog ==
  [][\A t \in Tasks : store[t].status = "cancelled" =>
       store'[t].status \in {"cancelled", "backlog"}]_vars
=============================================================================
