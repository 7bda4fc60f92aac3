------------------------------ MODULE Pipeline ------------------------------
(***************************************************************************)
(* One task's executions in full: _execute_task from the claim to the      *)
(* finally block, with gates, the review loop, commit, merge and the       *)
(* RunRecord, while users approve, cancel and retry, and the server is     *)
(* killed and restarted.                                                   *)
(*                                                                         *)
(* The executing job holds its own object of the task (task) and of the    *)
(* run (run); every upsert writes the whole object over what is stored.    *)
(* The handlers' own staleness, and two executions at once, are module     *)
(* Dispatch's subject: here a handler is one step, and the next execution  *)
(* starts when the last is over.                                           *)
(*                                                                         *)
(* Abstracted: what steps say and findings hold (an outcome, a decision),  *)
(* names of gates (whether one is pending), agents, child tasks, events.   *)
(***************************************************************************)
EXTENDS Integers, Sequences, FiniteSets, PipelineCatalog

CONSTANTS
  Types,          \* task types that may be executed
  Modes,          \* hitl_mode of the task
  Approvals,      \* approval_mode of the task
  Gits,           \* whether the project directory has a .git: FALSE, TRUE or both
  MaxReview,      \* orchestrator.max_review_attempts
  MaxRuns,        \* bound: run records made
  MaxRetries,     \* bound: Task.retry_count when an execution or a retry starts
  UserOps,        \* what users do: "approve_gate", "cancel", "retry", "review", "drop_branch"
  CommitFails,    \* git commit may fail
  CanRaise,       \* a worker or a file access may raise
  CanCrash        \* the server process may die and be restarted

ASSUME PipelineAssumption ==
  /\ Gits \subseteq BOOLEAN /\ CommitFails \in BOOLEAN /\ CanRaise \in BOOLEAN /\ CanCrash \in BOOLEAN
  /\ MaxReview \in Nat \ {0} /\ MaxRuns \in Nat /\ MaxRetries \in Nat
  /\ Approvals \subseteq {"human_review", "auto_approve"}

Status == {"ready", "in_progress", "in_review", "done", "blocked", "cancelled"}
RunStatus == {"in_progress", "in_review", "done", "blocked", "interrupted"}

\* Task: status, pending_gate set, metadata.worktree_dir set,
\* metadata.merge_conflict set, retry_count.
TaskRec == [status : Status, gate : BOOLEAN, wt : BOOLEAN, conflict : BOOLEAN, retries : Nat]

\* RunRecord: status, finished_at set.
RunRec == [status : RunStatus, finished : BOOLEAN]

VARIABLES
  plan,     \* what the task is: its steps, mode and approval, in git or not
  store,    \* the task in tasks.yaml
  runs,     \* its run records in runs.yaml
  git,      \* its worktree, its branch and whether its work landed
  pc,       \* where the execution is; "idle" between executions
  task, run, log,             \* its objects: task, run, run.steps
  at, step, attempt,          \* loop over the first steps, step, review_attempt
  dir, mergeFailed, raised    \* worktree_dir, merge_failed, an exception is on its way

place == <<at, step, attempt>>
local == <<dir, mergeFailed, raised>>
vars == <<plan, store, runs, git, pc, task, run, log, place, local>>

\* Git as the execution sees it: the worktree, edits in it not committed, the
\* branch, commits on it not merged, whether this execution's work has been
\* merged into the run branch, and whether users ever took the branch away.
Git == [tree : BOOLEAN, dirty : BOOLEAN, branch : BOOLEAN, ahead : BOOLEAN, landed : BOOLEAN,
        byHand : BOOLEAN]

NoRun == [status |-> "in_progress", finished |-> FALSE]

Has(s) == \E i \in DOMAIN plan.steps : plan.steps[i] = s

\* Where the steps of phase 1 stand that come after position i.
Later(i) == {k \in DOMAIN plan.steps : k > i /\ plan.steps[k] \notin Late}

Init ==
  /\ plan \in {[steps |-> StepsOf(ty), mode |-> m, approval |-> a, git |-> g] :
                 ty \in Types, m \in Modes, a \in Approvals, g \in Gits}
  /\ store = [status |-> "ready", gate |-> FALSE, wt |-> FALSE, conflict |-> FALSE, retries |-> 0]
  /\ runs = <<>>
  /\ git = [tree |-> FALSE, dirty |-> FALSE, branch |-> FALSE, ahead |-> FALSE, landed |-> FALSE,
            byHand |-> FALSE]
  /\ pc = "idle" /\ task = store /\ run = NoRun /\ log = <<>>
  /\ at = 0 /\ step = "none" /\ attempt = 0
  /\ dir = FALSE /\ mergeFailed = FALSE /\ raised = FALSE

-----------------------------------------------------------------------------
(* Building blocks.                                                        *)

\* self.container.tasks.upsert(task)
Write(rec) == task' = rec /\ store' = rec

\* An execution ends early: the task is blocked, then the run record is.
Block(gate) ==
  /\ Write([task EXCEPT !.status = "blocked", !.gate = gate])
  /\ run' = [status |-> "blocked", finished |-> TRUE]
  /\ pc' = "saving"

\* step is next, unless its gate holds it up.
Enter(s) ==
  /\ step' = s
  /\ pc' = IF GatedStep(plan.mode, s) THEN "gate" ELSE "run"

\* What follows the step at position i of phase 1.
AfterPrep(i) ==
  \/ \E k \in Later(i) :
       /\ \A l \in Later(i) : k <= l
       /\ Enter(plan.steps[k])
       /\ at' = k
  \/ /\ Later(i) = {} /\ Has("review")
     /\ Enter("review")
     /\ at' = i
  \/ /\ Later(i) = {} /\ ~Has("review") /\ Has("commit")
     /\ Enter("commit")
     /\ at' = i
  \/ /\ Later(i) = {} /\ ~Has("review") /\ ~Has("commit")
     /\ pc' = "finished"
     /\ step' = step /\ at' = i

Outcomes == {"ok", "error", "human"}

\* _run_non_review_step up to its decision: the worker has edited the tree,
\* the step is logged and the task written.
Worked(s, outcome) ==
  /\ git' = [git EXCEPT !.dirty = @ \/ (dir /\ s \in Editing)]
  /\ log' = Append(log, <<s, outcome>>)

-----------------------------------------------------------------------------
(* Start.                                                                  *)

\* The loop or run_task takes the task.
Claim ==
  /\ pc = "idle" /\ store.status = "ready" /\ ~store.gate
  /\ Len(runs) < MaxRuns /\ store.retries <= MaxRetries
  /\ Write([store EXCEPT !.status = "in_progress"])
  /\ pc' = "create"
  /\ log' = <<>> /\ run' = NoRun
  /\ at' = 0 /\ step' = "none" /\ attempt' = 0
  /\ dir' = FALSE /\ mergeFailed' = FALSE /\ raised' = FALSE
  /\ git' = [git EXCEPT !.landed = FALSE]
  /\ UNCHANGED <<plan, runs>>

\* git worktree add -b, and the directory's name in the task's metadata.
CreateWorktree ==
  /\ pc = "create" /\ plan.git /\ ~git.branch
  /\ git' = [git EXCEPT !.tree = TRUE, !.branch = TRUE]
  /\ Write([task EXCEPT !.wt = TRUE])
  /\ dir' = TRUE
  /\ pc' = "open"
  /\ UNCHANGED <<plan, runs, run, log, place, mergeFailed, raised>>

NoWorktree ==
  /\ pc = "create" /\ ~plan.git
  /\ pc' = "open"
  /\ UNCHANGED <<plan, store, runs, git, task, run, log, place, local>>

\* The branch exists already: check=True raises.
WorktreeFails ==
  /\ pc = "create" /\ plan.git /\ git.branch
  /\ pc' = "closing" /\ raised' = TRUE
  /\ UNCHANGED <<plan, store, runs, git, task, run, log, place, dir, mergeFailed>>

OpenRun ==
  /\ pc = "open"
  /\ runs' = Append(runs, NoRun)
  /\ run' = NoRun
  /\ pc' = "begin"
  /\ UNCHANGED <<plan, store, git, task, log, place, local>>

Begin ==
  /\ pc = "begin"
  /\ Write([task EXCEPT !.status = "in_progress"])
  /\ AfterPrep(0)
  /\ UNCHANGED <<plan, runs, git, run, log, attempt, local>>

-----------------------------------------------------------------------------
(* Gates.                                                                  *)

WaitForGate ==
  /\ pc = "gate"
  /\ Write([task EXCEPT !.gate = TRUE])
  /\ pc' = "waiting"
  /\ UNCHANGED <<plan, runs, git, run, log, place, local>>

\* The poll sees the stored gate cleared; the job's object keeps it.
GateApproved ==
  /\ pc = "waiting"
  /\ store.status # "cancelled" /\ ~store.gate
  /\ pc' = "run"
  /\ UNCHANGED <<plan, store, runs, git, task, run, log, place, local>>

\* Mutant of GateAborted: the run record is forgotten.
GateAbortedQuietly ==
  /\ pc = "waiting"
  /\ Write([task EXCEPT !.status = "blocked", !.gate = FALSE])
  /\ pc' = "saving"
  /\ UNCHANGED <<plan, runs, git, run, log, place, local>>

\* Mutant of GateAborted: the wait has no deadline.
GateAbortedOnCancel ==
  /\ pc = "waiting" /\ store.status = "cancelled"
  /\ Block(FALSE)
  /\ UNCHANGED <<plan, runs, git, log, place, local>>

\* The task is found cancelled, the deadline passes or the service stops.
GateAborted ==
  /\ pc = "waiting"
  /\ Block(FALSE)
  /\ UNCHANGED <<plan, runs, git, log, place, local>>

-----------------------------------------------------------------------------
(* Phase 1: every step but review and commit.                              *)

PrepOk ==
  /\ pc = "run" /\ step \notin Late
  /\ Worked(step, "ok")
  /\ store' = task
  /\ AfterPrep(at)
  /\ UNCHANGED <<plan, runs, task, run, attempt, local>>

PrepFails ==
  /\ pc = "run" /\ step \notin Late
  /\ \E outcome \in Outcomes \ {"ok"} :
       Worked(step, outcome) /\ Block(outcome = "human")
  /\ UNCHANGED <<plan, runs, place, local>>

-----------------------------------------------------------------------------
(* Phase 2: review, and fixes for what it finds.                           *)

StartReview ==
  /\ pc = "run" /\ step = "review"
  /\ attempt' = attempt + 1
  /\ store' = task
  /\ pc' = "reviewing"
  /\ UNCHANGED <<plan, runs, git, task, run, log, at, step, local>>

\* The review step itself fails or asks for a human; neither is logged.
ReviewFails ==
  /\ pc = "reviewing"
  /\ \E human \in BOOLEAN : Block(human)
  /\ UNCHANGED <<plan, runs, git, log, place, local>>

ReviewApproves ==
  /\ pc = "reviewing"
  /\ log' = Append(log, <<"review", "approved">>)
  /\ IF Has("commit") THEN Enter("commit") ELSE pc' = "finished" /\ UNCHANGED step
  /\ UNCHANGED <<plan, store, runs, git, task, run, at, attempt, local>>

\* Mutant of ReviewRejects: the last attempt counts as passed.
ReviewRejectsOnce ==
  /\ pc = "reviewing"
  /\ log' = Append(log, <<"review", "changes_requested">>)
  /\ \/ /\ attempt < MaxReview
        /\ pc' = "fix" /\ step' = FixSteps[1]
     \/ /\ attempt >= MaxReview
        /\ IF Has("commit") THEN Enter("commit") ELSE pc' = "finished" /\ UNCHANGED step
  /\ UNCHANGED <<plan, store, runs, git, task, run, at, attempt, local>>

\* Mutant of ReviewRejects: the cap is checked one attempt late.
ReviewRejectsLate ==
  /\ pc = "reviewing"
  /\ log' = Append(log, <<"review", "changes_requested">>)
  /\ \/ /\ attempt <= MaxReview
        /\ pc' = "fix" /\ step' = FixSteps[1]
        /\ UNCHANGED <<store, task, run>>
     \/ /\ attempt > MaxReview
        /\ Block(task.gate)
        /\ UNCHANGED step
  /\ UNCHANGED <<plan, runs, git, at, attempt, local>>

\* Open findings beyond the quality gate: fix them, or give up at the cap.
ReviewRejects ==
  /\ pc = "reviewing"
  /\ log' = Append(log, <<"review", "changes_requested">>)
  /\ \/ /\ attempt < MaxReview
        /\ pc' = "fix" /\ step' = FixSteps[1]
        /\ UNCHANGED <<store, task, run>>
     \/ /\ attempt >= MaxReview
        /\ Block(task.gate)
        /\ UNCHANGED step
  /\ UNCHANGED <<plan, runs, git, at, attempt, local>>

StartFix ==
  /\ pc = "fix"
  /\ Write([task EXCEPT !.retries = @ + 1])
  /\ pc' = "fixing"
  /\ UNCHANGED <<plan, runs, git, run, log, place, local>>

\* Mutant of FixOk: the fix is not verified before the next review.
FixUnverified ==
  /\ pc = "fixing"
  /\ Worked(step, "ok")
  /\ store' = task
  /\ step' = "review" /\ pc' = "run"
  /\ UNCHANGED <<plan, runs, task, run, at, attempt, local>>

FixOk ==
  /\ pc = "fixing"
  /\ Worked(step, "ok")
  /\ store' = task
  /\ IF step = FixSteps[1] THEN step' = FixSteps[2] /\ pc' = "fix"
                           ELSE step' = "review" /\ pc' = "run"
  /\ UNCHANGED <<plan, runs, task, run, at, attempt, local>>

FixFails ==
  /\ pc = "fixing"
  /\ \E outcome \in Outcomes \ {"ok"} :
       Worked(step, outcome) /\ Block(outcome = "human")
  /\ UNCHANGED <<plan, runs, place, local>>

-----------------------------------------------------------------------------
(* Phase 3: commit, merge, and the end of the worktree.                    *)

\* A failed git commit yields no sha and nothing else.
Commit ==
  /\ pc = "run" /\ step = "commit"
  /\ log' = Append(log, <<"commit", "ok">>)
  /\ git' \in {IF dir THEN [git EXCEPT !.dirty = FALSE, !.ahead = TRUE] ELSE git}
              \cup (IF CommitFails THEN {git} ELSE {})
  /\ pc' = IF dir THEN "merge" ELSE "settle"
  /\ UNCHANGED <<plan, store, runs, task, run, place, local>>

Land == git' = [git EXCEPT !.landed = git.ahead, !.ahead = FALSE]

MergeOk ==
  /\ pc = "merge"
  /\ Land
  /\ pc' = "leaving"
  /\ UNCHANGED <<plan, store, runs, task, run, log, place, local>>

\* The worker gets a task without worktree_dir to work in the project itself.
MergeConflict ==
  /\ pc = "merge" /\ git.ahead
  /\ store' = [task EXCEPT !.wt = FALSE]
  /\ pc' = "resolving"
  /\ UNCHANGED <<plan, runs, git, task, run, log, place, local>>

\* Mutant of Resolved: the conflict has been noted and is not taken back.
ResolvedButNoted ==
  /\ pc = "resolving"
  /\ Land
  /\ task' = [task EXCEPT !.conflict = TRUE]
  /\ pc' = "leaving"
  /\ UNCHANGED <<plan, store, runs, run, log, place, local>>

Resolved ==
  /\ pc = "resolving"
  /\ Land
  /\ pc' = "leaving"
  /\ UNCHANGED <<plan, store, runs, task, run, log, place, local>>

\* The merge fails for another reason, or the worker does, or raises.
Unresolved ==
  /\ pc = "resolving" \/ (pc = "merge" /\ git.ahead)
  /\ task' = [task EXCEPT !.conflict = TRUE]
  /\ mergeFailed' = TRUE
  /\ pc' = "leaving"
  /\ UNCHANGED <<plan, store, runs, git, run, log, place, dir, raised>>

\* A pipeline without commit has nothing to merge.
SkipCommit ==
  /\ pc = "finished"
  /\ pc' = IF dir THEN "leaving" ELSE "settle"
  /\ UNCHANGED <<plan, store, runs, git, task, run, log, place, local>>

\* git worktree remove --force: in the pipeline, or in the finally block.
RemoveTree ==
  /\ \/ pc = "leaving" /\ pc' = "pruning"
     \/ pc = "closing" /\ dir /\ git.tree /\ pc' = "sweeping"
  /\ git' = [git EXCEPT !.tree = FALSE, !.dirty = FALSE]
  /\ UNCHANGED <<plan, store, runs, task, run, log, place, local>>

\* Mutant of PruneBranch: the branch goes whether or not it was merged.
PruneBranchAlways ==
  /\ pc = "pruning"
  /\ git' = [git EXCEPT !.branch = FALSE, !.ahead = FALSE]
  /\ dir' = FALSE
  /\ pc' = "settle"
  /\ UNCHANGED <<plan, store, runs, task, run, log, place, mergeFailed, raised>>

\* git branch -D, unless the branch is to be recovered by hand.
PruneBranch ==
  /\ pc = "pruning"
  /\ git' = IF mergeFailed THEN git ELSE [git EXCEPT !.branch = FALSE, !.ahead = FALSE]
  /\ dir' = FALSE
  /\ pc' = "settle"
  /\ UNCHANGED <<plan, store, runs, task, run, log, place, mergeFailed, raised>>

\* The task's metadata says the merge failed, now or in an earlier execution.
SettleConflict ==
  /\ pc = "settle" /\ Has("commit") /\ task.conflict
  /\ Block(task.gate)
  /\ UNCHANGED <<plan, runs, git, log, place, local>>

\* Mutant of Settle: a merge that failed does not matter.
SettleAnyway ==
  /\ pc = "settle"
  /\ LET s == IF Has("commit") /\ plan.approval = "human_review" THEN "in_review" ELSE "done"
     IN  /\ Write([task EXCEPT !.status = s, !.wt = FALSE])
         /\ run' = [status |-> s, finished |-> TRUE]
  /\ pc' = "saving"
  /\ UNCHANGED <<plan, runs, git, log, place, local>>

Settle ==
  /\ pc = "settle" /\ ~(Has("commit") /\ task.conflict)
  /\ LET s == IF Has("commit") /\ plan.approval = "human_review" THEN "in_review" ELSE "done"
     IN  /\ Write([task EXCEPT !.status = s, !.wt = FALSE])
         /\ run' = [status |-> s, finished |-> TRUE]
  /\ pc' = "saving"
  /\ UNCHANGED <<plan, runs, git, log, place, local>>

-----------------------------------------------------------------------------
(* The end of every execution.                                             *)

SaveRun ==
  /\ pc = "saving"
  /\ runs' = [runs EXCEPT ![Len(runs)] = run]
  /\ pc' = "closing"
  /\ UNCHANGED <<plan, store, git, task, run, log, place, local>>

\* A worker raises, or a file cannot be read or written.
Raise ==
  /\ CanRaise
  /\ pc \in {"open", "begin", "run", "reviewing", "fixing"}
  /\ pc' = "closing" /\ raised' = TRUE
  /\ UNCHANGED <<plan, store, runs, git, task, run, log, place, dir, mergeFailed>>

\* Mutant of SweepBranch: only the directory goes.
SweepBranchNot ==
  /\ pc = "sweeping"
  /\ pc' = "leftover"
  /\ UNCHANGED <<plan, store, runs, git, task, run, log, place, local>>

SweepBranch ==
  /\ pc = "sweeping"
  /\ git' = [git EXCEPT !.branch = FALSE, !.ahead = FALSE]
  /\ pc' = "leftover"
  /\ UNCHANGED <<plan, store, runs, task, run, log, place, local>>

\* Mutant of CloseTask: worktree_dir stays in the metadata.
CloseTaskKeepsDir ==
  /\ pc = "leftover" \/ (pc = "closing" /\ ~(dir /\ git.tree))
  /\ pc' = IF raised THEN "failed" ELSE "idle"
  /\ UNCHANGED <<plan, store, runs, git, task, run, log, place, local>>

\* The metadata still names the worktree after a failure.
CloseTask ==
  /\ pc = "leftover" \/ (pc = "closing" /\ ~(dir /\ git.tree))
  /\ IF task.wt THEN Write([task EXCEPT !.wt = FALSE]) ELSE UNCHANGED <<task, store>>
  /\ pc' = IF raised THEN "failed" ELSE "idle"
  /\ UNCHANGED <<plan, runs, git, run, log, place, local>>

\* The except clause of _execute_task.
Except ==
  /\ pc = "failed"
  /\ Write([task EXCEPT !.status = "blocked"])
  /\ pc' = "idle"
  /\ UNCHANGED <<plan, runs, git, run, log, place, local>>

-----------------------------------------------------------------------------
(* Users, at any time.                                                     *)

User(op, rec) ==
  /\ op \in UserOps
  /\ store' = rec
  /\ UNCHANGED <<plan, runs, git, pc, task, run, log, place, local>>

ApproveGate == store.gate /\ User("approve_gate", [store EXCEPT !.gate = FALSE])

Cancel == User("cancel", [store EXCEPT !.status = "cancelled"])

Retry ==
  /\ store.retries < MaxRetries
  /\ User("retry", [store EXCEPT !.status = "ready", !.gate = FALSE, !.retries = @ + 1])

ApproveReview == store.status = "in_review" /\ User("review", [store EXCEPT !.status = "done"])

RequestChanges == store.status = "in_review" /\ User("review", [store EXCEPT !.status = "ready"])

\* By hand: the preserved branch is merged or thrown away.
DropBranch ==
  /\ "drop_branch" \in UserOps /\ pc = "idle" /\ git.branch
  /\ git' = [git EXCEPT !.branch = FALSE, !.ahead = FALSE, !.byHand = TRUE]
  /\ UNCHANGED <<plan, store, runs, pc, task, run, log, place, local>>

-----------------------------------------------------------------------------
\* Mutant of Restart: closed run records are interrupted too.
RestartInterruptsAll ==
  /\ CanCrash
  /\ IF store.status = "in_progress"
       THEN /\ store' = [store EXCEPT !.status = "ready", !.gate = FALSE]
            /\ runs' = [k \in DOMAIN runs |-> [status |-> "interrupted", finished |-> TRUE]]
       ELSE UNCHANGED <<store, runs>>
  /\ git' = IF git.tree
              THEN [git EXCEPT !.tree = FALSE, !.dirty = FALSE, !.branch = FALSE, !.ahead = FALSE]
              ELSE git
  /\ pc' = "idle"
  /\ UNCHANGED <<plan, task, run, log, place, local>>

\* The process dies and another starts: _recover_in_progress_tasks and
\* _cleanup_orphaned_worktrees, which goes by the directories it finds.
Restart ==
  /\ CanCrash
  /\ IF store.status = "in_progress"
       THEN /\ store' = [store EXCEPT !.status = "ready", !.gate = FALSE]
            /\ runs' = [k \in DOMAIN runs |->
                 IF runs[k] = NoRun THEN [status |-> "interrupted", finished |-> TRUE] ELSE runs[k]]
       ELSE UNCHANGED <<store, runs>>
  /\ git' = IF git.tree
              THEN [git EXCEPT !.tree = FALSE, !.dirty = FALSE, !.branch = FALSE, !.ahead = FALSE]
              ELSE git
  /\ pc' = "idle"
  /\ UNCHANGED <<plan, task, run, log, place, local>>

-----------------------------------------------------------------------------
Execute ==
  \/ CreateWorktree \/ NoWorktree \/ WorktreeFails \/ OpenRun \/ Begin
  \/ WaitForGate \/ GateApproved \/ GateAborted
  \/ PrepOk \/ PrepFails
  \/ StartReview \/ ReviewFails \/ ReviewApproves \/ ReviewRejects
  \/ StartFix \/ FixOk \/ FixFails
  \/ Commit \/ MergeOk \/ MergeConflict \/ Resolved \/ Unresolved \/ SkipCommit
  \/ RemoveTree \/ PruneBranch \/ SettleConflict \/ Settle
  \/ SaveRun \/ Raise \/ SweepBranch \/ CloseTask \/ Except

Users == ApproveGate \/ Cancel \/ Retry \/ ApproveReview \/ RequestChanges \/ DropBranch

Next == Claim \/ Execute \/ Users \/ Restart

Spec == Init /\ [][Next]_vars

\* A pool thread keeps running, worker calls return, gates time out.
FairSpec == Spec /\ WF_vars(Execute)

-----------------------------------------------------------------------------
(* Properties.                                                             *)

PC == {"idle", "create", "open", "begin", "gate", "waiting", "run", "reviewing", "fix",
       "fixing", "merge", "resolving", "finished", "leaving", "pruning", "settle",
       "saving", "closing", "sweeping", "leftover", "failed"}

\* Types, and where the loops may stand: the position in phase 1 and the number
\* of reviews never run past their ends.
TypeOK ==
  /\ store \in TaskRec /\ task \in TaskRec
  /\ runs \in Seq(RunRec) /\ run \in RunRec
  /\ git \in Git
  /\ pc \in PC
  /\ at \in 0..Len(plan.steps) /\ attempt \in 0..MaxReview
  /\ dir \in BOOLEAN /\ mergeFailed \in BOOLEAN /\ raised \in BOOLEAN
  /\ pc \in {"gate", "waiting", "run"} => Has(step)
  /\ pc \in {"fix", "fixing"} => step \in {"implement_fix", "verify"}

\* Where a template reviews, nothing is committed that the last review did not
\* approve: the step before a commit is an approved review, whatever was fixed
\* before that.
ReviewedCommit ==
  \A i \in DOMAIN log : log[i][1] = "commit" /\ Has("review") =>
    i > 1 /\ log[i - 1] = <<"review", "approved">>

\* After a review that asked for changes comes nothing but a fix, and the next
\* review comes only once the fix has been verified.
FixesBetweenReviews ==
  \A i \in DOMAIN log : log[i] = <<"review", "changes_requested">> =>
    /\ i < Len(log) => log[i + 1][1] = "implement_fix"
    /\ i + 1 < Len(log) => log[i + 1][2] = "ok" /\ log[i + 2][1] = "verify"
    /\ i + 2 < Len(log) => log[i + 2][2] = "ok" /\ log[i + 3][1] = "review"

\* A task is reviewed at most max_review_attempts times in one execution.
ReviewsBounded == Cardinality({i \in DOMAIN log : log[i][1] = "review"}) <= MaxReview

\* An execution that no exception ended leaves its run record finished, with
\* the status it gave the task.
RunMatchesTask ==
  pc = "closing" /\ ~raised =>
    Len(runs) > 0 /\ runs[Len(runs)] = [status |-> task.status, finished |-> TRUE]

\* A branch whose merge failed stays for recovery (test_orchestrator_worktree.py:271)
\* through retries, exceptions and restarts, until users take it away.
BranchKept == store.conflict => (git.branch /\ git.ahead) \/ git.byHand

\* test_orchestrator_worktree.py:147: "After task completes, its commits appear
\* on the run branch."
CompletedMeansLanded ==
  pc = "closing" /\ ~raised /\ plan.git /\ Has("commit") /\ task.status \in {"in_review", "done"}
    => git.landed

\* What was merged is not held against the task: an execution whose work landed
\* ends in review or done, even if an earlier one had a conflict, unless users
\* took the branch of that one away, for nothing else clears merge_conflict.
LandedSettles ==
  pc = "closing" /\ ~raised /\ git.landed /\ ~git.byHand => task.status \in {"in_review", "done"}

\* An execution, however it ends, leaves no worktree, and short of the death of
\* the process no name of one in the task (test_orchestrator_worktree.py:289, 436).
\* The branch goes with its worktree: an execution that got one leaves a branch
\* only for recovery, and a restart only if the process died between the removals.
NothingLeftBehind ==
  [][pc # "idle" /\ pc' = "idle" =>
       /\ ~git'.tree /\ (store'.wt => Restart)
       /\ git'.branch => store'.conflict \/ (raised /\ ~dir) \/ (Restart /\ ~git.tree)]_vars

\* The run records alone.
Ledger == INSTANCE RunLedger WITH
  ledger <- [k \in DOMAIN runs |-> runs[k].status],
  active <- pc \notin {"idle", "create", "open", "closing", "sweeping", "leftover", "failed"}

\* Pipeline implements RunLedger: no path opens a run while one is active,
\* closes a run twice or changes a closed one.
LedgerKept == Ledger!Spec

\* An execution ends: gates time out and reviews are bounded.
Ends == pc # "idle" ~> pc = "idle"
=============================================================================
