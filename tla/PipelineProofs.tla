--------------------------- MODULE PipelineProofs ---------------------------
(***************************************************************************)
(* Proofs about Pipeline for any task types, modes and limits.  The        *)
(* inductive invariant is a conjunction of parts, each preserved by every  *)
(* action given the parts before it: TypesInv, then RunInv and RecordsInv  *)
(* for the run records, TreeInv, ConflictInv, LandedInv and CompletedInv   *)
(* for git, PhaseInv, OpenInv and CountInv for the log of the steps.       *)
(***************************************************************************)
EXTENDS Pipeline, FiniteSetTheorems, TLAPS

\* A step of a template is held at a gate or run at these places.
Gates == {"gate", "waiting", "run"}

\* Every step of a template, the fix, and what stands there before the first.
Step ==
  {"none", "plan", "plan_impl", "implement", "verify", "review", "commit", "reproduce", "diagnose",
   "analyze", "gather", "summarize", "report", "scan", "generate_tasks", "scan_deps", "scan_code",
   "profile", "benchmark", "prototype", "implement_fix"}

\* What a step or a review is logged with.
Said == {"ok", "error", "human", "approved", "changes_requested"}

Entry == Step \X Said

\* The types of the objects and the records.
Typed ==
  /\ plan.steps \in Seq(Step) /\ plan.git \in BOOLEAN
  /\ store \in TaskRec /\ task \in TaskRec
  /\ runs \in Seq(RunRec) /\ run \in RunRec
  /\ git \in Git
  /\ log \in Seq(Entry)
  /\ dir \in BOOLEAN /\ mergeFailed \in BOOLEAN /\ raised \in BOOLEAN

\* The types of the places.
Placed ==
  /\ pc \in PC /\ step \in Step
  /\ at \in 0..Len(plan.steps) /\ attempt \in 0..MaxReview

\* Which step stands where, and how many reviews there have been by then.
Stepping ==
  /\ pc \in Gates => Has(step)
  /\ pc \in {"fix", "fixing"} => step \in {"implement_fix", "verify"}
  /\ pc \in {"create", "open", "begin"} => attempt = 0
  /\ pc \in Gates /\ step \notin Late => attempt = 0
  /\ pc \in Gates /\ step = "review" => attempt < MaxReview
  /\ pc \in {"fix", "fixing"} => attempt < MaxReview
  /\ pc \in {"reviewing", "fix", "fixing"} => Has("review")

TypesInv == Typed /\ Placed /\ Stepping

\* A run record is finished exactly when it is no longer in progress.
RecordsInv == \A k \in DOMAIN runs : runs[k].status = "in_progress" <=> ~runs[k].finished

\* Places between the opening of a run record and its closing.
Working == {"begin", "gate", "waiting", "run", "reviewing", "fix", "fixing", "merge", "resolving",
            "finished", "leaving", "pruning", "settle", "saving"}

Result == {"done", "in_review", "blocked"}

\* The last record is open while an execution works, and closed by it with the
\* status of the task.
RunInv ==
  /\ pc \in Working => Len(runs) > 0 /\ runs[Len(runs)] = NoRun
  /\ pc = "saving" => run = [status |-> task.status, finished |-> TRUE] /\ run.status \in Result
  /\ RunMatchesTask

\* Places before the worktree is removed.
WithTree == {"open", "begin", "gate", "waiting", "run", "reviewing", "fix", "fixing", "merge",
             "resolving", "finished", "leaving"}

\* Where the worktree and its branch are.
TreeInv ==
  /\ git.branch => plan.git
  /\ git.tree => dir
  /\ pc \in {"idle", "create", "pruning", "settle", "sweeping", "leftover", "failed"} => ~git.tree
  /\ pc \in WithTree \cup {"saving", "closing"} => (dir => git.tree /\ git.branch)
  /\ pc \in WithTree => (dir <=> plan.git)
  /\ pc \in {"merge", "resolving", "leaving", "pruning"} => dir /\ git.branch
  /\ pc \in {"create", "settle"} => ~dir
  /\ pc \in {"sweeping", "leftover"} => dir
  /\ pc = "leftover" => ~git.branch
  /\ pc = "failed" => raised /\ (git.branch => ~dir)
  /\ pc \in WithTree \cup {"create", "pruning", "settle", "saving"} => ~raised
  /\ pc # "idle" => (store.wt => task.wt)
  /\ pc = "failed" => ~task.wt

\* Who knows of a conflict, and what is still on the branch then.
ConflictInv ==
  /\ BranchKept
  /\ pc # "idle" /\ store.conflict => task.conflict
  /\ pc \notin {"idle", "leaving", "pruning", "settle"} /\ task.conflict => store.conflict
  /\ pc # "idle" /\ mergeFailed => task.conflict /\ Has("commit")
  /\ pc \in (WithTree \cup {"create", "sweeping", "leftover"}) \ {"leaving"} => ~mergeFailed
  /\ pc \in {"saving", "closing"} /\ dir => ~mergeFailed
  /\ pc # "idle" /\ dir /\ ~mergeFailed /\ ~git.byHand => ~task.conflict
  /\ pc # "idle" /\ dir /\ ~git.byHand => ~store.conflict
  /\ pc # "idle" /\ task.conflict /\ ~git.byHand => git.branch /\ git.ahead
  /\ pc = "resolving" => git.ahead
  /\ pc \in {"merge", "resolving"} => Has("commit")
  /\ pc = "settle" /\ git.branch => mergeFailed
  /\ pc \in {"saving", "closing"} /\ git.branch /\ ~dir => raised \/ store.conflict

\* Places from the merge on.
Merged == {"leaving", "pruning", "settle", "saving", "closing", "sweeping", "leftover", "failed"}

\* What has landed, and what becomes of the task then.
LandedInv ==
  /\ pc \notin Merged \cup {"idle"} => ~git.landed
  /\ pc \in {"leaving", "pruning"} /\ git.landed => ~mergeFailed
  /\ pc = "settle" /\ git.landed /\ ~git.byHand => ~task.conflict
  /\ pc \in {"saving", "closing"} /\ ~raised /\ git.landed /\ ~git.byHand =>
       task.status \in {"in_review", "done"}

\* Commits that succeed leave something to merge, and it lands or the merge fails.
CompletedInv ==
  /\ pc \in {"merge", "resolving"} => git.ahead
  /\ pc = "finished" => ~Has("commit")
  /\ pc \in {"leaving", "pruning"} /\ Has("commit") => git.landed \/ mergeFailed
  /\ pc = "settle" /\ plan.git /\ Has("commit") => git.landed \/ task.conflict
  /\ pc \in {"saving", "closing"} /\ ~raised /\ plan.git /\ Has("commit")
       /\ task.status \in {"in_review", "done"} => git.landed

\* The reviews in the log, and what a review that asked for changes leaves there.
Reviews == {i \in DOMAIN log : log[i][1] = "review"}
Open == <<"review", "changes_requested">>

\* A review is about to start.
ToReview == (pc \in Gates /\ step = "review") \/ pc = "reviewing"
Fixing == pc \in {"fix", "fixing"}

\* What is logged in each phase.
PhaseInv ==
  /\ pc \in {"create", "open", "begin"} => log = <<>>
  /\ pc \in Gates /\ step \notin Late => \A i \in DOMAIN log : log[i][1] \notin Late
  /\ (pc \in Gates /\ step = "commit") \/ ToReview \/ Fixing =>
       \A i \in DOMAIN log : log[i][1] # "commit"
  /\ pc \in Gates /\ step = "commit" /\ Has("review") =>
       Len(log) > 0 /\ log[Len(log)] = <<"review", "approved">>

\* How far back the reviews that asked for changes are.
OpenInv ==
  \A i \in DOMAIN log : log[i] = Open =>
    /\ ToReview => i + 2 < Len(log) \/ (i + 2 = Len(log) /\ log[Len(log)][2] = "ok")
    /\ pc \in Gates /\ step = "commit" => i + 2 < Len(log)
    /\ Fixing /\ step = "implement_fix" => i + 2 < Len(log) \/ i = Len(log)
    /\ Fixing /\ step = "verify" =>
         i + 2 < Len(log) \/ (i + 1 = Len(log) /\ log[Len(log)][2] = "ok")

\* An entry e is what each review that asked for changes waits for, if it does.
Awaits(e) ==
  \A i \in DOMAIN log : log[i] = Open =>
    \/ i + 2 < Len(log)
    \/ i + 2 = Len(log) /\ log[Len(log)][2] = "ok" /\ e[1] = "review"
    \/ i + 1 = Len(log) /\ log[Len(log)][2] = "ok" /\ e[1] = "verify"
    \/ i = Len(log) /\ e[1] = "implement_fix"

\* Places before the first step, and places of a review and its fixes.
Early == {"create", "open", "begin"}
Reviewing == {"reviewing", "fix", "fixing"}

\* A review is counted in review_attempt before it is logged.
CountInv ==
  /\ Cardinality(Reviews) <= attempt
  /\ pc = "reviewing" => Cardinality(Reviews) < attempt

\* The ledger that the run records are, and whether an execution will close its last.
Statuses == [k \in DOMAIN runs |-> runs[k].status]
Active == pc \notin {"idle", "create", "open", "closing", "sweeping", "leftover", "failed"}

\* An execution is blocked before its review could end it.
Blocking == GateAborted \/ PrepFails \/ ReviewFails \/ FixFails \/ SettleConflict

-----------------------------------------------------------------------------
(* The operators of the model.                                             *)

\* Short sequences of elements of a set are sequences over it.
LEMMA Short ==
  ASSUME NEW S, NEW a \in S, NEW b \in S, NEW c \in S, NEW d \in S
  PROVE  <<a, b>> \in Seq(S) /\ <<a, b, c>> \in Seq(S) /\ <<a, b, c, d>> \in Seq(S)
OBVIOUS

\* The longer ones likewise.
LEMMA Long ==
  ASSUME NEW S, NEW a \in S, NEW b \in S, NEW c \in S, NEW d \in S, NEW e \in S, NEW f \in S
  PROVE  <<a, b, c, d, e>> \in Seq(S) /\ <<a, b, c, d, e, f>> \in Seq(S)
OBVIOUS

\* The steps of a task, whatever its type, are a sequence of steps (registry.py).
LEMMA TemplateSteps == ASSUME NEW type PROVE StepsOf(type) \in Seq(Step)
<1>1. DOMAIN Template =
        {"feature", "bug_fix", "refactor", "research", "docs", "test", "repo_review",
         "security_audit", "review", "performance", "hotfix", "spike", "chore", "plan_only",
         "decompose", "verify_only"}
  BY DEF Template
<1>2. Template.feature \in Seq(Step)
  BY Long DEF Template, Step
<1>3. Template.bug_fix \in Seq(Step)
  BY Long DEF Template, Step
<1>4. Template.refactor \in Seq(Step)
  BY Long DEF Template, Step
<1>5. Template.research \in Seq(Step)
  BY Short DEF Template, Step
<1>6. Template.docs \in Seq(Step)
  BY Short DEF Template, Step
<1>7. Template.test \in Seq(Step)
  BY Long DEF Template, Step
<1>8. Template.repo_review \in Seq(Step)
  BY Short DEF Template, Step
<1>9. Template.security_audit \in Seq(Step)
  BY Short DEF Template, Step
<1>10. Template.review \in Seq(Step)
  BY Short DEF Template, Step
<1>11. Template.performance \in Seq(Step)
  BY Long DEF Template, Step
<1>12. Template.hotfix \in Seq(Step)
  BY Short DEF Template, Step
<1>13. Template.spike \in Seq(Step)
  BY Short DEF Template, Step
<1>14. Template.chore \in Seq(Step)
  BY Short DEF Template, Step
<1>15. Template.plan_only \in Seq(Step)
  BY Short DEF Template, Step
<1>16. Template.decompose \in Seq(Step)
  BY Short DEF Template, Step
<1>17. Template.verify_only \in Seq(Step)
  BY Short DEF Template, Step
<1>18. \A t \in DOMAIN Template : Template[t] \in Seq(Step)
  BY <1>1, <1>2, <1>3, <1>4, <1>5, <1>6, <1>7, <1>8, <1>9, <1>10, <1>11, <1>12, <1>13, <1>14,
     <1>15, <1>16, <1>17
<1>19. \A t \in DOMAIN Alias : Alias[t] \in DOMAIN Template
  BY <1>1 DEF Alias
<1> QED
  BY <1>1, <1>18, <1>19 DEF StepsOf

\* Asking whether the task has a step gives the same answer after a step that
\* leaves the plan.
LEMMA HasStays ==
  ASSUME plan' = plan
  PROVE  /\ Has(step)' <=> Has(step')
         /\ Has("review")' <=> Has("review")
         /\ Has("commit")' <=> Has("commit")
BY DEF Has

\* No step changes the plan of the task.
LEMMA PlanStays == ASSUME [Next]_vars PROVE plan' = plan
BY DEF Next, Execute, Users, vars, Claim, CreateWorktree, NoWorktree, WorktreeFails, OpenRun,
   Begin, WaitForGate, GateApproved, GateAborted, PrepOk, PrepFails, StartReview, ReviewFails,
   ReviewApproves, ReviewRejects, StartFix, FixOk, FixFails, Commit, MergeOk, MergeConflict,
   Resolved, Unresolved, SkipCommit, RemoveTree, PruneBranch, SettleConflict, Settle, SaveRun,
   Raise, SweepBranch, CloseTask, Except, ApproveGate, Cancel, Retry, ApproveReview,
   RequestChanges, DropBranch, Restart, User

\* AfterPrep goes to a step of the task, to review or commit, or to the end.
LEMMA AfterPrepEffect ==
  ASSUME plan.steps \in Seq(Step), NEW i \in 0..Len(plan.steps), AfterPrep(i)
  PROVE  /\ at' \in 0..Len(plan.steps)
         /\ \/ pc' = "finished" /\ step' = step /\ ~Has("review") /\ ~Has("commit")
            \/ /\ pc' \in {"gate", "run"} /\ step' \in Step /\ Has(step')
               /\ step' = "commit" => ~Has("review")
<1>1. ASSUME NEW k \in Later(i), Enter(plan.steps[k]), at' = k
      PROVE  /\ at' \in 0..Len(plan.steps) /\ pc' \in {"gate", "run"}
             /\ step' \in Step /\ Has(step') /\ step' \notin Late
  BY <1>1 DEF Later, Enter, Has
<1>2. ASSUME NEW s \in Step, Enter(s)
      PROVE  pc' \in {"gate", "run"} /\ step' = s
  BY <1>2 DEF Enter
<1>3. "review" \in Step /\ "commit" \in Step
  BY DEF Step
<1>4. CASE \E k \in Later(i) : Enter(plan.steps[k]) /\ at' = k
  BY <1>1, <1>4 DEF Late
<1>5. CASE Has("review") /\ Enter("review") /\ at' = i
  <2>1. pc' \in {"gate", "run"} /\ step' = "review"
    BY <1>2, <1>3, <1>5
  <2> QED
    BY <1>3, <1>5, <2>1
<1>6. CASE ~Has("review") /\ Has("commit") /\ Enter("commit") /\ at' = i
  <2>1. pc' \in {"gate", "run"} /\ step' = "commit"
    BY <1>2, <1>3, <1>6
  <2> QED
    BY <1>3, <1>6, <2>1
<1>7. CASE ~Has("review") /\ ~Has("commit") /\ pc' = "finished" /\ step' = step /\ at' = i
  BY <1>7
<1> QED
  BY <1>4, <1>5, <1>6, <1>7 DEF AfterPrep

\* Where AfterPrep goes, whatever position it starts from.
LEMMA AfterPrepStep ==
  ASSUME NEW i, AfterPrep(i)
  PROVE  \/ pc' = "finished" /\ step' = step /\ ~Has("review") /\ ~Has("commit")
         \/ pc' \in {"gate", "run"} /\ (step' = "commit" => ~Has("review"))
BY DEF AfterPrep, Enter, Later, Late

\* Blocking a task keeps its type.
LEMMA Blocked ==
  ASSUME task \in TaskRec, NEW gate \in BOOLEAN, Block(gate)
  PROVE  store' \in TaskRec /\ task' \in TaskRec
BY DEF Block, Write, TaskRec, Status

\* Blocking a task keeps what it knows of its worktree and of a conflict, and
\* closes the run with it.
LEMMA BlockEffect ==
  ASSUME task \in TaskRec, NEW gate, Block(gate)
  PROVE  /\ pc' = "saving" /\ run' = [status |-> "blocked", finished |-> TRUE] /\ store' = task'
         /\ task'.status = "blocked" /\ task'.wt = task.wt /\ task'.conflict = task.conflict
BY DEF Block, Write

\* The steps that do nothing but block the task, short of an edit in the tree.
LEMMA BlockingEffect ==
  ASSUME Typed, Blocking
  PROVE  /\ pc \in {"waiting", "run", "reviewing", "fixing", "settle"}
         /\ pc = "settle" => task.conflict
         /\ pc' = "saving" /\ run' = [status |-> "blocked", finished |-> TRUE] /\ store' = task'
         /\ task'.status = "blocked" /\ task'.wt = task.wt /\ task'.conflict = task.conflict
         /\ git'.tree = git.tree /\ git'.branch = git.branch /\ git'.ahead = git.ahead
         /\ git'.landed = git.landed /\ git'.byHand = git.byHand
         /\ UNCHANGED <<plan, runs, local>>
<1>1. /\ pc \in {"waiting", "run", "reviewing", "fixing", "settle"}
      /\ pc = "settle" => task.conflict
      /\ \E gate : Block(gate)
      /\ git' = git \/ git' = [git EXCEPT !.dirty = @ \/ (dir /\ step \in Editing)]
      /\ UNCHANGED <<plan, runs, local>>
  BY DEF Blocking, GateAborted, PrepFails, ReviewFails, FixFails, SettleConflict, Worked
<1>2. /\ git'.tree = git.tree /\ git'.branch = git.branch /\ git'.ahead = git.ahead
      /\ git'.landed = git.landed /\ git'.byHand = git.byHand
  BY <1>1 DEF Typed, Git
<1> QED
  BY <1>1, <1>2, BlockEffect DEF Typed

\* A user's request changes the stored task alone, and not what it knows of git.
LEMMA UserEffect ==
  ASSUME Typed, ApproveGate \/ Cancel \/ Retry \/ ApproveReview \/ RequestChanges
  PROVE  /\ store'.wt = store.wt /\ store'.conflict = store.conflict
         /\ UNCHANGED <<plan, runs, git, pc, task, run, log, place, local>>
<1>1. CASE ApproveGate
  BY <1>1 DEF ApproveGate, User
<1>2. CASE Cancel
  BY <1>2 DEF Cancel, User
<1>3. CASE Retry
  BY <1>3 DEF Retry, User
<1>4. CASE ApproveReview \/ RequestChanges
  BY <1>4 DEF ApproveReview, RequestChanges, User, Typed, TaskRec
<1> QED
  BY <1>1, <1>2, <1>3, <1>4

\* Appending an entry to the log.
LEMMA Appended ==
  ASSUME log \in Seq(Entry), NEW e \in Entry, log' = Append(log, e)
  PROVE  /\ Len(log) \in Nat /\ DOMAIN log = 1..Len(log)
         /\ Len(log') = Len(log) + 1 /\ DOMAIN log' = 1..(Len(log) + 1)
         /\ \A i \in 1..Len(log) : log'[i] = log[i]
         /\ log'[Len(log) + 1] = e
OBVIOUS

\* A logged step is an entry, so the log keeps its type.
LEMMA Logged ==
  ASSUME log \in Seq(Entry), NEW s \in Step, NEW o \in Said, log' = Append(log, <<s, o>>)
  PROVE  log' \in Seq(Entry)
<1>1. <<s, o>> \in Entry
  BY DEF Entry
<1> QED
  BY <1>1

\* Running a step logs it with its outcome.
LEMMA WorkLogged ==
  ASSUME log \in Seq(Entry), step \in Step, NEW o \in Said, Worked(step, o)
  PROVE  \E e \in Entry : log' = Append(log, e) /\ e[1] = step /\ e[2] = o
<1>1. <<step, o>> \in Entry /\ <<step, o>>[1] = step /\ <<step, o>>[2] = o
  BY DEF Entry
<1> QED
  BY <1>1 DEF Worked

\* The reviews in a log can be counted.
LEMMA ReviewsFinite ==
  ASSUME log \in Seq(Entry)
  PROVE  IsFiniteSet(Reviews) /\ Cardinality(Reviews) \in Nat
<1>1. IsFiniteSet(1..Len(log))
  BY FS_Interval
<1>2. Reviews \subseteq 1..Len(log)
  BY DEF Reviews
<1> QED
  BY <1>1, <1>2, FS_Subset, FS_CardinalityType

\* An entry adds one to the reviews if it is a review, and nothing otherwise.
LEMMA Counted ==
  ASSUME log \in Seq(Entry), NEW e \in Entry, log' = Append(log, e)
  PROVE  /\ e[1] = "review" => Cardinality(Reviews') = Cardinality(Reviews) + 1
         /\ e[1] # "review" => Reviews' = Reviews
<1>1. e[1] # "review" => Reviews' = Reviews
  BY Appended DEF Reviews
<1>2. ASSUME e[1] = "review" PROVE Cardinality(Reviews') = Cardinality(Reviews) + 1
  <2>1. Reviews' = Reviews \cup {Len(log) + 1} /\ Len(log) + 1 \notin Reviews
    BY <1>2, Appended DEF Reviews
  <2> QED
    BY ReviewsFinite, <2>1, FS_AddElement
<1> QED
  BY <1>1, <1>2

-----------------------------------------------------------------------------
(* Types.                                                                  *)

\* The stored task and the job's task keep their type.
LEMMA TaskStep ==
  ASSUME Typed, [Next]_vars
  PROVE  store' \in TaskRec /\ task' \in TaskRec
<1> USE DEF Typed
<1>1. CASE Claim
  BY <1>1 DEF Claim, Write, TaskRec, Status
<1>2. CASE CreateWorktree
  BY <1>2 DEF CreateWorktree, Write, TaskRec, Status
<1>3. CASE Begin
  BY <1>3 DEF Begin, Write, TaskRec, Status
<1>4. CASE WaitForGate
  BY <1>4 DEF WaitForGate, Write, TaskRec, Status
<1>5. CASE StartFix
  BY <1>5 DEF StartFix, Write, TaskRec, Status
<1>6. CASE MergeConflict
  BY <1>6 DEF MergeConflict, TaskRec, Status
<1>7. CASE Unresolved
  BY <1>7 DEF Unresolved, TaskRec, Status
<1>8. CASE Settle
  BY <1>8 DEF Settle, Write, TaskRec, Status
<1>9. CASE CloseTask
  <2>1. [task EXCEPT !.wt = FALSE] \in TaskRec
    BY DEF TaskRec
  <2> QED
    BY <1>9, <2>1 DEF CloseTask, Write
<1>10. CASE Except
  BY <1>10 DEF Except, Write, TaskRec, Status
<1>11. CASE ApproveGate
  BY <1>11 DEF ApproveGate, User, TaskRec, Status
<1>12. CASE Cancel
  BY <1>12 DEF Cancel, User, TaskRec, Status
<1>13. CASE Retry
  <2>1. store.retries + 1 \in Nat
    BY DEF TaskRec
  <2>2. store' = [status |-> "ready", gate |-> FALSE, wt |-> store.wt,
                  conflict |-> store.conflict, retries |-> store.retries + 1]
    BY <1>13 DEF Retry, User, TaskRec
  <2> QED
    BY <1>13, <2>1, <2>2 DEF Retry, User, TaskRec, Status
<1>14. CASE ApproveReview
  BY <1>14 DEF ApproveReview, User, TaskRec, Status
<1>15. CASE RequestChanges
  BY <1>15 DEF RequestChanges, User, TaskRec, Status
<1>16. CASE Restart
  <2>1. [store EXCEPT !.status = "ready", !.gate = FALSE] \in TaskRec
    BY DEF TaskRec, Status
  <2> QED
    BY <1>16, <2>1 DEF Restart
<1>17. CASE GateAborted
  BY <1>17, Blocked DEF GateAborted
<1>18. CASE PrepFails
  BY <1>18, Blocked DEF PrepFails, Outcomes
<1>19. CASE ReviewFails
  BY <1>19, Blocked DEF ReviewFails
<1>20. CASE ReviewRejects
  BY <1>20, Blocked DEF ReviewRejects, TaskRec
<1>21. CASE FixFails
  BY <1>21, Blocked DEF FixFails, Outcomes
<1>22. CASE SettleConflict
  BY <1>22, Blocked DEF SettleConflict, TaskRec
<1>23. CASE NoWorktree \/ WorktreeFails \/ OpenRun \/ GateApproved \/ PrepOk \/
             StartReview \/ ReviewApproves \/ FixOk \/ Commit \/ MergeOk \/ Resolved \/
             SkipCommit \/ RemoveTree \/ PruneBranch \/ SaveRun \/ Raise \/ SweepBranch \/
             DropBranch
  BY <1>23 DEF NoWorktree, WorktreeFails, OpenRun, GateApproved, PrepOk, StartReview,
     ReviewApproves, Enter, FixOk, Commit, MergeOk, Resolved, SkipCommit, RemoveTree, PruneBranch,
     SaveRun, Raise, SweepBranch, DropBranch, Status
<1>24. CASE UNCHANGED vars
  BY <1>24 DEF vars
<1> QED
  BY <1>1, <1>2, <1>3, <1>4, <1>5, <1>6, <1>7, <1>8, <1>9, <1>10, <1>11, <1>12, <1>13, <1>14,
     <1>15, <1>16, <1>17, <1>18, <1>19, <1>20, <1>21, <1>22, <1>23, <1>24 DEF Next, Execute, Users

\* The stored runs and the job's run keep their type.
LEMMA RunsStep ==
  ASSUME Typed, [Next]_vars
  PROVE  runs' \in Seq(RunRec) /\ run' \in RunRec
<1>0. [status |-> "blocked", finished |-> TRUE] \in RunRec
  BY DEF RunRec, RunStatus
<1> USE DEF Typed
<1>1. CASE Claim
  BY <1>1 DEF Claim, NoRun, RunRec, RunStatus
<1>2. CASE OpenRun
  BY <1>2 DEF OpenRun, NoRun, RunRec, RunStatus
<1>3. CASE Settle
  BY <1>3 DEF Settle, RunRec, RunStatus
<1>4. CASE SaveRun
  <2>1. Len(runs) \in Nat /\ runs \in [1..Len(runs) -> RunRec]
    OBVIOUS
  <2>2. runs' \in [1..Len(runs) -> RunRec]
    BY <1>4, <2>1 DEF SaveRun
  <2>3. runs' \in Seq(RunRec)
    BY <2>1, <2>2
  <2> QED
    BY <1>4, <2>1, <2>3 DEF SaveRun
<1>5. CASE Restart
  <2>1. Len(runs) \in Nat /\ runs \in [1..Len(runs) -> RunRec]
    OBVIOUS
  <2>2. CASE store.status = "in_progress"
    <3>1. \A k \in 1..Len(runs) :
            (IF runs[k] = NoRun THEN [status |-> "interrupted", finished |-> TRUE] ELSE runs[k])
              \in RunRec
      BY <2>1 DEF RunRec, RunStatus
    <3>2. runs' \in [1..Len(runs) -> RunRec]
      BY <1>5, <2>1, <2>2, <3>1 DEF Restart
    <3> QED
      BY <1>5, <2>1, <3>2 DEF Restart
  <2> QED
    BY <1>5, <2>2 DEF Restart
<1>6. CASE GateAborted
  BY <1>6, <1>0 DEF GateAborted, Block
<1>7. CASE PrepFails
  BY <1>7, <1>0 DEF PrepFails, Block
<1>8. CASE ReviewFails
  BY <1>8, <1>0 DEF ReviewFails, Block
<1>9. CASE ReviewRejects
  BY <1>9, <1>0 DEF ReviewRejects, Block
<1>10. CASE FixFails
  BY <1>10, <1>0 DEF FixFails, Block
<1>11. CASE SettleConflict
  BY <1>11, <1>0 DEF SettleConflict, Block
<1>12. CASE CreateWorktree \/ NoWorktree \/ WorktreeFails \/ Begin \/ WaitForGate \/
             GateApproved \/ PrepOk \/ StartReview \/ ReviewApproves \/ StartFix \/ FixOk
             \/ Commit \/ MergeOk \/ MergeConflict \/ Resolved \/ Unresolved \/ SkipCommit
             \/ RemoveTree \/ PruneBranch \/ Raise \/ SweepBranch \/ CloseTask \/ Except
             \/ ApproveGate \/ Cancel \/ Retry \/ ApproveReview \/ RequestChanges \/
             DropBranch
  BY <1>12 DEF CreateWorktree, NoWorktree, WorktreeFails, Begin, WaitForGate, GateApproved,
     PrepOk, StartReview, ReviewApproves, Enter, StartFix, FixOk, Commit, MergeOk, MergeConflict,
     Resolved, Unresolved, SkipCommit, RemoveTree, PruneBranch, Raise, SweepBranch, CloseTask,
     Except, ApproveGate, User, Cancel, Retry, ApproveReview, RequestChanges, DropBranch
<1>13. CASE UNCHANGED vars
  BY <1>13 DEF vars
<1> QED
  BY <1>1, <1>2, <1>3, <1>4, <1>5, <1>6, <1>7, <1>8, <1>9, <1>10, <1>11, <1>12, <1>13 DEF Next,
     Execute, Users

\* The log keeps its type.
LEMMA LogStep ==
  ASSUME Typed, step \in Step, [Next]_vars
  PROVE  log' \in Seq(Entry)
<1> USE DEF Typed
<1>1. CASE Claim
  BY <1>1 DEF Claim
<1>2. CASE PrepOk
  BY <1>2, Logged DEF PrepOk, Worked, Outcomes, Said
<1>3. CASE PrepFails
  BY <1>3, Logged DEF PrepFails, Worked, Outcomes, Said
<1>4. CASE ReviewApproves
  BY <1>4, Logged DEF ReviewApproves, Step, Said
<1>5. CASE ReviewRejects
  BY <1>5, Logged DEF ReviewRejects, Step, Said
<1>6. CASE FixOk
  BY <1>6, Logged DEF FixOk, Worked, Outcomes, Said
<1>7. CASE FixFails
  BY <1>7, Logged DEF FixFails, Worked, Outcomes, Said
<1>8. CASE Commit
  BY <1>8, Logged DEF Commit, Step, Said
<1>9. CASE CreateWorktree \/ NoWorktree \/ WorktreeFails \/ OpenRun \/ Begin \/
             WaitForGate \/ GateApproved \/ GateAborted \/ StartReview \/ ReviewFails \/
             StartFix \/ MergeOk \/ MergeConflict \/ Resolved \/ Unresolved \/ SkipCommit
             \/ RemoveTree \/ PruneBranch \/ SettleConflict \/ Settle \/ SaveRun \/ Raise
             \/ SweepBranch \/ CloseTask \/ Except \/ ApproveGate \/ Cancel \/ Retry \/
             ApproveReview \/ RequestChanges \/ DropBranch \/ Restart
  BY <1>9 DEF CreateWorktree, NoWorktree, WorktreeFails, OpenRun, Begin, WaitForGate,
     GateApproved, GateAborted, Block, StartReview, ReviewFails, StartFix, MergeOk, MergeConflict,
     Resolved, Unresolved, SkipCommit, RemoveTree, PruneBranch, SettleConflict, Settle, SaveRun,
     Raise, SweepBranch, CloseTask, Except, ApproveGate, User, Cancel, Retry, ApproveReview,
     RequestChanges, DropBranch, Restart
<1>10. CASE UNCHANGED vars
  BY <1>10 DEF vars
<1> QED
  BY <1>1, <1>2, <1>3, <1>4, <1>5, <1>6, <1>7, <1>8, <1>9, <1>10 DEF Next, Execute, Users

\* Git and the job's flags keep their types.
LEMMA GitStep ==
  ASSUME Typed, [Next]_vars
  PROVE  git' \in Git /\ dir' \in BOOLEAN /\ mergeFailed' \in BOOLEAN /\ raised' \in BOOLEAN
<1> USE DEF Typed
<1>1. CASE Claim
  BY <1>1 DEF Claim, Git
<1>2. CASE CreateWorktree
  BY <1>2 DEF CreateWorktree, Git
<1>3. CASE PrepOk
  BY <1>3 DEF PrepOk, Worked, Git, local
<1>4. CASE PrepFails
  BY <1>4 DEF PrepFails, Block, Worked, Git, local
<1>5. CASE FixOk
  BY <1>5 DEF FixOk, Worked, Git, local
<1>6. CASE FixFails
  BY <1>6 DEF FixFails, Block, Worked, Git, local
<1>7. CASE Commit
  BY <1>7 DEF Commit, Git, local
<1>8. CASE MergeOk
  BY <1>8 DEF MergeOk, Land, Git, local
<1>9. CASE Resolved
  BY <1>9 DEF Resolved, Land, Git, local
<1>10. CASE RemoveTree
  BY <1>10 DEF RemoveTree, Git, local
<1>11. CASE PruneBranch
  BY <1>11 DEF PruneBranch, Git, local
<1>12. CASE SweepBranch
  BY <1>12 DEF SweepBranch, Git, local
<1>13. CASE DropBranch
  BY <1>13 DEF DropBranch, Git, local
<1>14. CASE Restart
  BY <1>14 DEF Restart, Git, local
<1>15. CASE NoWorktree \/ WorktreeFails \/ OpenRun \/ Begin \/ WaitForGate \/ GateApproved
             \/ GateAborted \/ StartReview \/ ReviewFails \/ ReviewApproves \/
             ReviewRejects \/ StartFix \/ MergeConflict \/ Unresolved \/ SkipCommit \/
             SettleConflict \/ Settle \/ SaveRun \/ Raise \/ CloseTask \/ Except \/
             ApproveGate \/ Cancel \/ Retry \/ ApproveReview \/ RequestChanges
  BY <1>15 DEF NoWorktree, WorktreeFails, OpenRun, Begin, WaitForGate, GateApproved, GateAborted,
     Block, StartReview, ReviewFails, ReviewApproves, Enter, ReviewRejects, StartFix,
     MergeConflict, Unresolved, SkipCommit, SettleConflict, Settle, SaveRun, Raise, CloseTask,
     Except, ApproveGate, User, Cancel, Retry, ApproveReview, RequestChanges, local
<1>16. CASE UNCHANGED vars
  BY <1>16 DEF vars, local
<1> QED
  BY <1>1, <1>2, <1>3, <1>4, <1>5, <1>6, <1>7, <1>8, <1>9, <1>10, <1>11, <1>12, <1>13, <1>14,
     <1>15, <1>16 DEF Next, Execute, Users

\* The places keep their types: no loop runs past its end.
LEMMA PlacedStep ==
  ASSUME TypesInv, [Next]_vars
  PROVE  Placed'
<1> USE PipelineAssumption, PlanStays DEF TypesInv, Typed, Placed, PC
<1>1. CASE Claim
  BY <1>1 DEF Claim, Step
<1>2. CASE OpenRun
  BY <1>2 DEF OpenRun, place
<1>3. CASE Begin
  BY <1>3, AfterPrepEffect DEF Begin
<1>4. CASE GateApproved
  BY <1>4 DEF GateApproved, place
<1>5. CASE PrepOk
  BY <1>5, AfterPrepEffect DEF PrepOk
<1>6. CASE StartReview
  BY <1>6 DEF StartReview, place, Stepping, Gates
<1>7. CASE ReviewApproves
  BY <1>7 DEF ReviewApproves, Enter, place, Step
<1>8. CASE ReviewRejects
  BY <1>8 DEF ReviewRejects, Block, FixSteps, Step
<1>9. CASE StartFix
  BY <1>9 DEF StartFix, place
<1>10. CASE FixOk
  BY <1>10 DEF FixOk, FixSteps, Step
<1>11. CASE SkipCommit
  BY <1>11 DEF SkipCommit, place
<1>12. CASE Raise
  BY <1>12 DEF Raise, place
<1>13. CASE Commit
  BY <1>13 DEF Commit, place
<1>14. CASE CreateWorktree \/ NoWorktree
  BY <1>14 DEF CreateWorktree, NoWorktree, place
<1>15. CASE WaitForGate
  BY <1>15 DEF WaitForGate, place
<1>16. CASE WorktreeFails \/ GateAborted \/ PrepFails \/ ReviewFails \/ FixFails
  BY <1>16 DEF WorktreeFails, GateAborted, Block, PrepFails, Worked, ReviewFails, FixFails, place
<1>17. CASE MergeOk \/ MergeConflict \/ Resolved \/ Unresolved \/ RemoveTree \/ PruneBranch
  BY <1>17 DEF MergeOk, Land, MergeConflict, Resolved, Unresolved, RemoveTree, PruneBranch, place
<1>18. CASE SettleConflict \/ Settle \/ SaveRun \/ SweepBranch \/ CloseTask \/ Except
  BY <1>18 DEF SettleConflict, Block, Settle, SaveRun, SweepBranch, CloseTask, Except, place
<1>19. CASE Users \/ Restart
  BY <1>19 DEF Users, ApproveGate, User, Cancel, Retry, ApproveReview, RequestChanges, DropBranch,
     Restart, place
<1>20. CASE UNCHANGED vars
  BY <1>20 DEF vars, place
<1> QED
  BY <1>1, <1>2, <1>3, <1>4, <1>5, <1>6, <1>7, <1>8, <1>9, <1>10, <1>11, <1>12, <1>13, <1>14,
     <1>15, <1>16, <1>17, <1>18, <1>19, <1>20 DEF Next, Execute, Users

\* Each step stands where it may, and a review is only started while attempts are
\* left.
LEMMA SteppingStep ==
  ASSUME TypesInv, [Next]_vars
  PROVE  Stepping'
<1> USE PipelineAssumption, PlanStays, HasStays DEF TypesInv, Typed, Placed, Stepping, Gates,
  Late, PC
<1>1. CASE Claim
  BY <1>1 DEF Claim
<1>2. CASE OpenRun
  BY <1>2 DEF OpenRun, place
<1>3. CASE Begin
  <2>1. 0 \in 0..Len(plan.steps) /\ AfterPrep(0) /\ attempt = 0 /\ attempt' = 0
    BY <1>3 DEF Begin
  <2> QED
    BY <2>1, AfterPrepEffect
<1>4. CASE GateApproved
  BY <1>4 DEF GateApproved, place
<1>5. CASE PrepOk
  BY <1>5, AfterPrepEffect DEF PrepOk
<1>6. CASE StartReview
  BY <1>6 DEF StartReview, place
<1>7. CASE ReviewApproves
  BY <1>7 DEF ReviewApproves, Enter, place
<1>8. CASE ReviewRejects
  BY <1>8 DEF ReviewRejects, Block, FixSteps
<1>9. CASE StartFix
  BY <1>9 DEF StartFix, place
<1>10. CASE FixOk
  BY <1>10 DEF FixOk, FixSteps
<1>11. CASE SkipCommit
  BY <1>11 DEF SkipCommit
<1>12. CASE Raise
  BY <1>12 DEF Raise
<1>13. CASE Commit
  BY <1>13 DEF Commit
<1>14. CASE CreateWorktree \/ NoWorktree
  BY <1>14 DEF CreateWorktree, NoWorktree, place
<1>15. CASE WaitForGate
  BY <1>15 DEF WaitForGate, place
<1>16. CASE ApproveGate \/ Cancel \/ Retry \/ ApproveReview \/ RequestChanges \/
             DropBranch
  BY <1>16 DEF ApproveGate, User, Cancel, Retry, ApproveReview, RequestChanges, DropBranch, place
<1>17. CASE WorktreeFails \/ GateAborted \/ PrepFails \/ ReviewFails \/ FixFails \/
             MergeOk \/ MergeConflict \/ Resolved \/ Unresolved \/ RemoveTree \/
             PruneBranch \/ SettleConflict \/ Settle \/ SaveRun \/ SweepBranch \/
             CloseTask \/ Except \/ Restart
  BY <1>17 DEF WorktreeFails, GateAborted, Block, PrepFails, ReviewFails, FixFails, MergeOk,
     MergeConflict, Resolved, Unresolved, RemoveTree, PruneBranch, SettleConflict, Settle,
     SaveRun, SweepBranch, CloseTask, Except, Restart
<1>18. CASE UNCHANGED vars
  BY <1>18 DEF vars, place
<1> QED
  BY <1>1, <1>2, <1>3, <1>4, <1>5, <1>6, <1>7, <1>8, <1>9, <1>10, <1>11, <1>12, <1>13, <1>14,
     <1>15, <1>16, <1>17, <1>18 DEF Next, Execute, Users

\* The type invariant is inductive.
LEMMA TypesStep ==
  ASSUME TypesInv, [Next]_vars
  PROVE  TypesInv'
<1>1. Typed'
  BY TaskStep, RunsStep, LogStep, GitStep, PlanStays DEF TypesInv, Typed, Placed
<1> QED
  BY <1>1, PlacedStep, SteppingStep DEF TypesInv

\* The type invariant holds at the start.
LEMMA TypesInit == Init => TypesInv
<1> SUFFICES ASSUME Init PROVE TypesInv
  OBVIOUS
<1>1. plan.steps \in Seq(Step) /\ plan.git \in BOOLEAN
  BY TemplateSteps, PipelineAssumption DEF Init
<1>2. store \in TaskRec /\ task \in TaskRec
  BY DEF Init, TaskRec, Status
<1>3. runs \in Seq(RunRec) /\ run \in RunRec /\ git \in Git
  BY DEF Init, RunRec, RunStatus, NoRun, Git
<1>4. log \in Seq(Entry)
  BY DEF Init
<1>5. dir \in BOOLEAN /\ mergeFailed \in BOOLEAN /\ raised \in BOOLEAN
  BY DEF Init
<1>6. Placed
  BY <1>1, PipelineAssumption DEF Init, Placed, PC, Step
<1>7. Stepping
  BY DEF Init, Stepping, Gates
<1> QED
  BY <1>1, <1>2, <1>3, <1>4, <1>5, <1>6, <1>7 DEF TypesInv, Typed

\* The types hold, the position in phase 1 stays within the steps of the task and
\* review_attempt within max_review_attempts, for every task type, mode and limit
\* (service.py:901-1007).
THEOREM TypeCorrect == Spec => []TypeOK
<1>1. TypesInv => TypeOK
  BY DEF TypesInv, Typed, Placed, Stepping, TypeOK, Gates
<1> QED
  BY <1>1, TypesInit, TypesStep, PTL DEF Spec

\* The type invariant holds throughout.
THEOREM TypesAlways == Spec => []TypesInv
  BY TypesInit, TypesStep, PTL DEF Spec

-----------------------------------------------------------------------------
(* Run records.                                                            *)

\* An execution keeps its run record open until it saves it, with the status of
\* the task.
LEMMA RunStep ==
  ASSUME TypesInv, RunInv, [Next]_vars
  PROVE  RunInv'
<1> USE PlanStays DEF RunInv, RunMatchesTask, Working
<1>1. CASE Claim
  BY <1>1 DEF Claim
<1>2. CASE CreateWorktree
  BY <1>2 DEF CreateWorktree
<1>3. CASE NoWorktree
  BY <1>3 DEF NoWorktree
<1>4. CASE WorktreeFails \/ Raise
  BY <1>4 DEF WorktreeFails, Raise
<1>5. CASE OpenRun
  BY <1>5 DEF OpenRun
<1>6. CASE Begin
  BY <1>6, AfterPrepStep DEF Begin
<1>7. CASE WaitForGate
  BY <1>7 DEF WaitForGate
<1>8. CASE GateApproved
  BY <1>8 DEF GateApproved
<1>9. CASE Blocking
  BY <1>9, BlockingEffect DEF TreeInv, ConflictInv, TypesInv, Result
<1>10. CASE PrepOk
  BY <1>10, AfterPrepStep DEF PrepOk
<1>11. CASE StartReview \/ ReviewApproves
  BY <1>11 DEF StartReview, ReviewApproves, Enter
<1>12. CASE ReviewRejects
  <2>1. CASE attempt < MaxReview
    BY <1>12, <2>1, PipelineAssumption DEF ReviewRejects, TypesInv, Placed
  <2>2. CASE attempt >= MaxReview
    <3>1. Block(task.gate) /\ runs' = runs /\ pc = "reviewing"
      BY <1>12, <2>2, PipelineAssumption DEF ReviewRejects, TypesInv, Placed
    <3>2. task' = [task EXCEPT !.status = "blocked", !.gate = task.gate]
      BY <3>1 DEF Block, Write
    <3>3. task'.status = "blocked"
      BY <3>2 DEF TypesInv
    <3> QED
      BY <1>12, <3>1, <3>3 DEF Block, Result
  <2> QED
    BY <2>1, <2>2, PipelineAssumption DEF TypesInv, Placed
<1>13. CASE StartFix
  BY <1>13 DEF StartFix
<1>14. CASE FixOk
  BY <1>14 DEF FixOk
<1>15. CASE Commit
  BY <1>15 DEF Commit
<1>16. CASE MergeOk
  BY <1>16 DEF MergeOk
<1>17. CASE Resolved
  BY <1>17 DEF Resolved
<1>18. CASE MergeConflict \/ Unresolved
  BY <1>18 DEF MergeConflict, Unresolved
<1>19. CASE SkipCommit
  BY <1>19 DEF SkipCommit
<1>20. CASE RemoveTree
  BY <1>20 DEF RemoveTree
<1>21. CASE PruneBranch
  BY <1>21 DEF PruneBranch
<1>22. CASE Settle
  BY <1>22 DEF Settle, Write, Result
<1>23. CASE SaveRun
  <2>1. runs' = [runs EXCEPT ![Len(runs)] = run] /\ Len(runs) > 0 /\ Len(runs) \in Nat
    BY <1>23 DEF SaveRun
  <2>2. Len(runs') = Len(runs) /\ runs'[Len(runs)] = run
    BY <2>1 DEF TypesInv
  <2> QED
    BY <1>23, <2>1, <2>2 DEF SaveRun
<1>24. CASE SweepBranch
  BY <1>24 DEF SweepBranch
<1>25. CASE CloseTask \/ Except
  BY <1>25 DEF CloseTask, Except
<1>26. CASE ApproveGate \/ Cancel \/ Retry \/ ApproveReview \/ RequestChanges
  BY <1>26, UserEffect DEF TypesInv, local
<1>27. CASE DropBranch
  BY <1>27 DEF DropBranch
<1>28. CASE Restart
  BY <1>28 DEF Restart
<1>29. CASE UNCHANGED vars
  BY <1>29 DEF vars, local
<1> QED
  BY <1>1, <1>2, <1>3, <1>4, <1>5, <1>6, <1>7, <1>8, <1>9, <1>10, <1>11, <1>12, <1>13, <1>14,
     <1>15, <1>16, <1>17, <1>18, <1>19, <1>20, <1>21, <1>22, <1>23, <1>24, <1>25, <1>26, <1>27,
     <1>28, <1>29 DEF Next, Execute, Users, Blocking

\* What an execution that no exception ended leaves in runs.yaml is finished and
\* has the task's status.
THEOREM RunsMatch == Spec => []RunMatchesTask
<1>1. Init => RunInv
  BY DEF Init, RunInv, Working, RunMatchesTask
<1>2. RunInv => RunMatchesTask
  BY DEF RunInv
<1> QED
  BY <1>1, <1>2, TypesAlways, RunStep, PTL DEF Spec

\* The steps that change the records, or whether one is being worked on.
LEMMA KeepsRuns ==
  ASSUME Typed, [Next]_vars
  PROVE  OpenRun \/ SaveRun \/ Raise \/ Restart \/ (runs' = runs /\ Active' = Active)
<1>1. CASE Begin \/ PrepOk
  BY <1>1, AfterPrepStep DEF Begin, PrepOk, Active
<1>2. CASE Blocking
  BY <1>2, BlockingEffect DEF Active
<1>3. CASE ReviewRejects
  BY <1>3 DEF ReviewRejects, Block, Active
<1>4. CASE ApproveGate \/ Cancel \/ Retry \/ ApproveReview \/ RequestChanges
  BY <1>4, UserEffect DEF Active
<1>5. CASE Claim \/ CreateWorktree \/ NoWorktree \/ WorktreeFails \/ WaitForGate \/
             GateApproved \/ StartReview \/ ReviewApproves \/ StartFix \/ FixOk \/ Commit \/
             MergeOk \/ MergeConflict \/ Resolved \/ Unresolved \/ SkipCommit \/ RemoveTree
             \/ PruneBranch \/ Settle \/ SweepBranch \/ CloseTask \/ Except \/ DropBranch
  BY <1>5 DEF Active, Claim, CreateWorktree, NoWorktree, WorktreeFails, WaitForGate, GateApproved,
     StartReview, ReviewApproves, Enter, StartFix, FixOk, Commit, MergeOk, MergeConflict,
     Resolved, Unresolved, SkipCommit, RemoveTree, PruneBranch, Settle, SweepBranch, CloseTask,
     Except, DropBranch
<1>6. CASE UNCHANGED vars
  BY <1>6 DEF vars, Active
<1> QED
  BY <1>1, <1>2, <1>3, <1>4, <1>5, <1>6 DEF Next, Execute, Users, Blocking

\* A record is finished exactly when it is no longer in progress, throughout.
LEMMA RecordsStep ==
  ASSUME TypesInv, RunInv, RecordsInv, [Next]_vars
  PROVE  RecordsInv'
<1> USE DEF TypesInv, Typed, RecordsInv
<1>1. CASE OpenRun
  BY <1>1 DEF OpenRun, NoRun
<1>2. CASE SaveRun
  BY <1>2 DEF SaveRun, RunInv, Working, Result
<1>3. CASE Restart
  BY <1>3 DEF Restart
<1>4. CASE Raise
  BY <1>4 DEF Raise
<1> QED
  BY <1>1, <1>2, <1>3, <1>4, KeepsRuns

\* The statuses of a task's run records, as a sequence.
LEMMA StatusesSeq ==
  ASSUME runs \in Seq(RunRec)
  PROVE  /\ Len(runs) \in Nat /\ DOMAIN runs = 1..Len(runs)
         /\ Statuses \in Seq(RunStatus) /\ Len(Statuses) = Len(runs)
         /\ DOMAIN Statuses = 1..Len(runs)
         /\ \A k \in 1..Len(runs) : Statuses[k] = runs[k].status
<1>1. Len(runs) \in Nat /\ runs \in [1..Len(runs) -> RunRec]
  OBVIOUS
<1>2. Statuses \in [1..Len(runs) -> RunStatus]
  BY <1>1 DEF Statuses, RunRec
<1>3. Statuses \in Seq(RunStatus) /\ Len(Statuses) = Len(runs)
  BY <1>1, <1>2
<1> QED
  BY <1>1, <1>2, <1>3 DEF Statuses

\* Opening a run opens it in the ledger.
LEMMA OpenLedger ==
  ASSUME runs \in Seq(RunRec), runs' = Append(runs, NoRun)
  PROVE  Statuses' = Append(Statuses, "in_progress")
<1>1. runs' \in Seq(RunRec) /\ Len(runs') = Len(runs) + 1 /\ DOMAIN runs' = 1..Len(runs) + 1
  BY DEF RunRec, RunStatus, NoRun
<1>2. DOMAIN Statuses' = 1..Len(runs) + 1
  BY <1>1 DEF Statuses
<1>3. Append(Statuses, "in_progress") \in Seq(RunStatus)
      /\ DOMAIN Append(Statuses, "in_progress") = 1..Len(runs) + 1
  BY StatusesSeq DEF RunStatus
<1>4. \A k \in 1..Len(runs) + 1 : Statuses'[k] = Append(Statuses, "in_progress")[k]
  BY <1>1, StatusesSeq DEF Statuses, NoRun
<1>5. Statuses' = [k \in 1..Len(runs)+1 |-> Statuses'[k]]
  BY <1>1 DEF Statuses
<1> QED
  BY <1>2, <1>3, <1>4, <1>5

\* Closing the last run closes it in the ledger.
LEMMA CloseLedger ==
  ASSUME runs \in Seq(RunRec), Len(runs) > 0, run \in RunRec,
         runs' = [runs EXCEPT ![Len(runs)] = run]
  PROVE  Statuses' = [Statuses EXCEPT ![Len(Statuses)] = run.status]
<1>1. /\ DOMAIN runs' = 1..Len(runs)
      /\ \A k \in 1..Len(runs) : runs'[k] = IF k = Len(runs) THEN run ELSE runs[k]
  BY StatusesSeq
<1> QED
  BY <1>1, StatusesSeq DEF Statuses

\* Interrupting the open runs, and no others, interrupts those in progress.
LEMMA InterruptLedger ==
  ASSUME runs \in Seq(RunRec), RecordsInv,
         runs' = [k \in DOMAIN runs |->
                   IF runs[k] = NoRun THEN [status |-> "interrupted", finished |-> TRUE]
                   ELSE runs[k]]
  PROVE  Statuses' = [k \in DOMAIN Statuses |->
                       IF Statuses[k] = "in_progress" THEN "interrupted" ELSE Statuses[k]]
<1>1. \A r \in RunRec : r.status = "in_progress" /\ ~r.finished <=> r = NoRun
  BY DEF RunRec, NoRun
<1>2. \A k \in DOMAIN runs : runs[k] = NoRun <=> runs[k].status = "in_progress"
  BY <1>1, StatusesSeq DEF RecordsInv
<1> QED
  BY <1>2, StatusesSeq DEF Statuses

\* The run records start as an empty ledger.
LEMMA LedgerInit == Init => Ledger!Init
<1> SUFFICES ASSUME Init PROVE [k \in DOMAIN runs |-> runs[k].status] = <<>> /\ ~Active
  BY DEF Ledger!Init, Active
<1>1. runs = <<>> /\ pc = "idle"
  BY DEF Init
<1> QED
  BY <1>1 DEF Active

\* Each step of an execution, of a user or of a restart is a step of the ledger,
\* or none.
LEMMA LedgerStep ==
  ASSUME TypesInv, RunInv, RecordsInv, [Next]_vars
  PROVE  [Ledger!Next]_<<[k \in DOMAIN runs |-> runs[k].status],
                         pc \notin {"idle", "create", "open", "closing", "sweeping", "leftover",
                           "failed"}>>
<1>1. CASE OpenRun
  <2>1. Statuses' = Append(Statuses, "in_progress") /\ ~Active /\ Active'
    BY <1>1, OpenLedger DEF OpenRun, Active, TypesInv, Typed
  <2> QED
    BY <2>1 DEF Ledger!Next, Ledger!Open, Statuses, Active
<1>2. CASE SaveRun
  <2>1. /\ Active /\ ~Active'
        /\ Len(runs) > 0 /\ runs[Len(runs)] = NoRun /\ run.status \in Result
    BY <1>2 DEF SaveRun, Active, RunInv, Working
  <2>2. Statuses' = [Statuses EXCEPT ![Len(Statuses)] = run.status]
    BY <1>2, <2>1, CloseLedger DEF SaveRun, TypesInv, Typed
  <2>3. Statuses[Len(Statuses)] = "in_progress"
    BY <2>1, StatusesSeq DEF NoRun, TypesInv, Typed
  <2> QED
    BY <2>1, <2>2, <2>3 DEF Ledger!Next, Ledger!Close, Ledger!Result, Result, Statuses, Active
<1>3. CASE Raise \/ (Restart /\ runs' = runs)
  <2>1. Statuses' = Statuses /\ ~Active'
    BY <1>3 DEF Raise, Restart, Active, Statuses
  <2> QED
    BY <2>1 DEF Ledger!Next, Ledger!Lose, Statuses, Active
<1>4. CASE Restart /\ runs' # runs
  <2>1. runs' = [k \in DOMAIN runs |->
                  IF runs[k] = NoRun THEN [status |-> "interrupted", finished |-> TRUE]
                  ELSE runs[k]]
        /\ ~Active'
    BY <1>4 DEF Restart, Active
  <2>2. Statuses' = [k \in DOMAIN Statuses |->
                      IF Statuses[k] = "in_progress" THEN "interrupted" ELSE Statuses[k]]
    BY <2>1, InterruptLedger DEF TypesInv, Typed
  <2> QED
    BY <2>1, <2>2 DEF Ledger!Next, Ledger!Interrupt, Statuses, Active
<1>5. CASE runs' = runs /\ Active' = Active
  BY <1>5 DEF Active
<1> QED
  BY <1>1, <1>2, <1>3, <1>4, <1>5, KeepsRuns DEF TypesInv

\* Pipeline implements RunLedger: whatever gates, failures, exceptions and
\* restarts come in between, no run is opened while another is worked on, closed
\* twice or changed once closed.
THEOREM LedgerImplemented == Spec => LedgerKept
<1>1. Init => RunInv /\ RecordsInv
  BY DEF Init, RunInv, RecordsInv, Working, RunMatchesTask
<1> QED
  BY <1>1, LedgerInit, TypesAlways, RunStep, RecordsStep, LedgerStep, PTL DEF Spec, LedgerKept,
     Ledger!Spec

-----------------------------------------------------------------------------
(* Worktrees, branches and merges.                                         *)

\* Where the worktree and its branch are, at each place.
LEMMA TreeStep ==
  ASSUME TypesInv, TreeInv, [Next]_vars
  PROVE  TreeInv'
<1> USE PlanStays DEF TreeInv, WithTree
<1>1. CASE Claim
  BY <1>1 DEF Claim, Write
<1>2. CASE CreateWorktree
  BY <1>2 DEF CreateWorktree, Write
<1>3. CASE NoWorktree
  BY <1>3 DEF NoWorktree, local
<1>4. CASE WorktreeFails \/ Raise
  BY <1>4 DEF WorktreeFails, Raise
<1>5. CASE OpenRun
  BY <1>5 DEF OpenRun, local
<1>6. CASE Begin
  BY <1>6, AfterPrepStep DEF Begin, Write, local
<1>7. CASE WaitForGate
  BY <1>7 DEF WaitForGate, Write, local
<1>8. CASE GateApproved
  BY <1>8 DEF GateApproved, local
<1>9. CASE Blocking
  BY <1>9, BlockingEffect DEF TreeInv, ConflictInv, TypesInv, local
<1>10. CASE PrepOk
  BY <1>10, AfterPrepStep DEF PrepOk, Worked, local
<1>11. CASE StartReview \/ ReviewApproves
  BY <1>11 DEF StartReview, ReviewApproves, Enter, place, local
<1>12. CASE ReviewRejects
  BY <1>12 DEF ReviewRejects, Block, Write, local
<1>13. CASE StartFix
  BY <1>13 DEF StartFix, Write, local
<1>14. CASE FixOk
  BY <1>14 DEF FixOk, Worked, local
<1>15. CASE Commit
  BY <1>15 DEF Commit, local, Typed, TypesInv, Git
<1>16. CASE MergeOk
  BY <1>16 DEF MergeOk, Land, local
<1>17. CASE Resolved
  BY <1>17 DEF Resolved, Land, local
<1>18. CASE MergeConflict \/ Unresolved
  BY <1>18 DEF MergeConflict, Unresolved, local, Typed, TypesInv, TaskRec
<1>19. CASE SkipCommit
  BY <1>19 DEF SkipCommit, local
<1>20. CASE RemoveTree
  BY <1>20 DEF RemoveTree, local
<1>21. CASE PruneBranch
  BY <1>21 DEF PruneBranch
<1>22. CASE Settle
  BY <1>22 DEF Settle, Write, local
<1>23. CASE SaveRun
  BY <1>23 DEF SaveRun, local
<1>24. CASE SweepBranch
  BY <1>24 DEF SweepBranch, local
<1>25. CASE CloseTask \/ Except
  BY <1>25 DEF CloseTask, Write, Except, local, Typed, TypesInv, TaskRec
<1>26. CASE ApproveGate \/ Cancel \/ Retry \/ ApproveReview \/ RequestChanges
  BY <1>26, UserEffect DEF TypesInv, local
<1>27. CASE DropBranch
  BY <1>27 DEF DropBranch
<1>28. CASE Restart
  BY <1>28 DEF Restart
<1>29. CASE UNCHANGED vars
  BY <1>29 DEF vars, local
<1> QED
  BY <1>1, <1>2, <1>3, <1>4, <1>5, <1>6, <1>7, <1>8, <1>9, <1>10, <1>11, <1>12, <1>13, <1>14,
     <1>15, <1>16, <1>17, <1>18, <1>19, <1>20, <1>21, <1>22, <1>23, <1>24, <1>25, <1>26, <1>27,
     <1>28, <1>29 DEF Next, Execute, Users, Blocking

\* Who knows of a conflict, and that its branch is still there.
LEMMA ConflictStep ==
  ASSUME TypesInv, TreeInv, ConflictInv, [Next]_vars
  PROVE  ConflictInv'
<1> USE PlanStays, HasStays DEF ConflictInv, BranchKept, WithTree
<1>1. CASE Claim
  BY <1>1 DEF Claim, Write
<1>2. CASE CreateWorktree
  BY <1>2 DEF CreateWorktree, Write
<1>3. CASE NoWorktree
  BY <1>3 DEF NoWorktree, local
<1>4. CASE WorktreeFails \/ Raise
  BY <1>4 DEF WorktreeFails, Raise
<1>5. CASE OpenRun
  BY <1>5 DEF OpenRun, local
<1>6. CASE Begin
  BY <1>6, AfterPrepStep DEF Begin, Write, local
<1>7. CASE WaitForGate
  BY <1>7 DEF WaitForGate, Write, local
<1>8. CASE GateApproved
  BY <1>8 DEF GateApproved, local
<1>9. CASE Blocking
  BY <1>9, BlockingEffect DEF TreeInv, ConflictInv, TypesInv, local
<1>10. CASE PrepOk
  BY <1>10, AfterPrepStep DEF PrepOk, Worked, local
<1>11. CASE StartReview \/ ReviewApproves
  BY <1>11 DEF StartReview, ReviewApproves, Enter, place, local
<1>12. CASE ReviewRejects
  BY <1>12 DEF ReviewRejects, Block, Write, local, TreeInv, Typed, TypesInv, TaskRec
<1>13. CASE StartFix
  BY <1>13 DEF StartFix, Write, local
<1>14. CASE FixOk
  BY <1>14 DEF FixOk, Worked, local
<1>15. CASE Commit
  <2>1. git'.branch = git.branch /\ git'.byHand = git.byHand /\ (git.ahead => git'.ahead)
    BY <1>15 DEF Commit, TypesInv, Typed, Git
  <2> QED
    BY <1>15, <2>1 DEF Commit, local, TreeInv, TypesInv, Stepping, Gates
<1>16. CASE MergeOk
  BY <1>16 DEF MergeOk, Land, local, TreeInv
<1>17. CASE Resolved
  BY <1>17 DEF Resolved, Land, local, TreeInv
<1>18. CASE MergeConflict \/ Unresolved
  BY <1>18 DEF MergeConflict, Unresolved, local, TreeInv, Typed, TypesInv, TaskRec
<1>19. CASE SkipCommit
  BY <1>19 DEF SkipCommit, local, TreeInv
<1>20. CASE RemoveTree
  BY <1>20 DEF RemoveTree, local
<1>21. CASE PruneBranch
  BY <1>21 DEF PruneBranch, TreeInv
<1>22. CASE Settle
  BY <1>22 DEF Settle, Write, local
<1>23. CASE SaveRun
  BY <1>23 DEF SaveRun, local
<1>24. CASE SweepBranch
  BY <1>24 DEF SweepBranch, local, TreeInv
<1>25. CASE CloseTask \/ Except
  BY <1>25 DEF CloseTask, Write, Except, local, Typed, TypesInv, TaskRec, Git
<1>26. CASE ApproveGate \/ Cancel \/ Retry \/ ApproveReview \/ RequestChanges
  BY <1>26, UserEffect DEF TypesInv, local
<1>27. CASE DropBranch
  BY <1>27 DEF DropBranch
<1>28. CASE Restart
  BY <1>28 DEF Restart, TreeInv, Typed, TypesInv, TaskRec, Git
<1>29. CASE UNCHANGED vars
  BY <1>29 DEF vars, local
<1> QED
  BY <1>1, <1>2, <1>3, <1>4, <1>5, <1>6, <1>7, <1>8, <1>9, <1>10, <1>11, <1>12, <1>13, <1>14,
     <1>15, <1>16, <1>17, <1>18, <1>19, <1>20, <1>21, <1>22, <1>23, <1>24, <1>25, <1>26, <1>27,
     <1>28, <1>29 DEF Next, Execute, Users, Blocking

\* Worktree and conflict invariants hold throughout.
LEMMA GitAlways == Spec => [](TreeInv /\ ConflictInv)
<1>1. Init => TreeInv /\ ConflictInv
  BY DEF Init, TreeInv, ConflictInv, BranchKept, WithTree
<1> QED
  BY <1>1, TypesAlways, TreeStep, ConflictStep, PTL DEF Spec

\* A branch whose merge failed is there, with its commits, for as long as the
\* stored task says so, or users took it away: no retry, exception, restart or
\* clean-up removes it.
THEOREM BranchSurvives == Spec => []BranchKept
<1>1. ConflictInv => BranchKept
  BY DEF ConflictInv
<1> QED
  BY <1>1, GitAlways, PTL

\* An execution comes to its end in one of three steps.
LEMMA LeavingStep ==
  ASSUME [Next]_vars, pc # "idle", pc' = "idle"
  PROVE  CloseTask \/ Except \/ Restart
<1>1. CASE Begin \/ PrepOk
  BY <1>1, AfterPrepStep DEF Begin, PrepOk
<1>2. CASE Execute /\ ~Begin /\ ~PrepOk
  BY <1>2 DEF Execute, Claim, CreateWorktree, NoWorktree, WorktreeFails, OpenRun, WaitForGate,
     GateApproved, GateAborted, Block, PrepFails, StartReview, ReviewFails, ReviewApproves, Enter,
     ReviewRejects, StartFix, FixOk, FixFails, Commit, MergeOk, MergeConflict, Resolved,
     Unresolved, SkipCommit, RemoveTree, PruneBranch, SettleConflict, Settle, SaveRun, Raise,
     SweepBranch, ApproveGate, User, Cancel, Retry, ApproveReview, RequestChanges, DropBranch
<1>3. CASE Claim \/ Users
  BY <1>3 DEF Users, Claim, DropBranch, User, ApproveGate, Cancel, Retry, ApproveReview,
     RequestChanges
<1>4. CASE UNCHANGED vars
  BY <1>4 DEF vars
<1> QED
  BY <1>1, <1>2, <1>3, <1>4 DEF Next

\* None of them leaves a worktree, its name, or a branch that is not kept for
\* recovery.
LEMMA LeavesNothing ==
  ASSUME TypesInv, TreeInv, ConflictInv, [Next]_vars, pc # "idle", pc' = "idle"
  PROVE  /\ ~git'.tree /\ (store'.wt => Restart)
         /\ git'.branch => store'.conflict \/ (raised /\ ~dir) \/ (Restart /\ ~git.tree)
<1> USE DEF TypesInv, Typed, TreeInv, ConflictInv, WithTree
<1>1. CASE CloseTask
  BY <1>1 DEF CloseTask, Write, TaskRec
<1>2. CASE Except
  BY <1>2 DEF Except, Write
<1>3. CASE Restart
  BY <1>3 DEF Restart
<1> QED
  BY <1>1, <1>2, <1>3, LeavingStep

\* An execution leaves no worktree and no branch but those NothingLeftBehind
\* names, however it ends (the finally block of _execute_task).
THEOREM LeavesNothingBehind == Spec => NothingLeftBehind
<1>1. TypesInv /\ TreeInv /\ ConflictInv /\ [Next]_vars =>
        [pc # "idle" /\ pc' = "idle" =>
           /\ ~git'.tree /\ (store'.wt => Restart)
           /\ git'.branch => store'.conflict \/ (raised /\ ~dir) \/ (Restart /\ ~git.tree)]_vars
  BY LeavesNothing
<1> QED
  BY <1>1, TypesAlways, GitAlways, PTL DEF Spec, NothingLeftBehind

\* What has landed is not held against the task, step by step.
LEMMA LandedStep ==
  ASSUME TypesInv, TreeInv, ConflictInv, LandedInv, [Next]_vars
  PROVE  LandedInv'
<1> USE PlanStays, HasStays DEF LandedInv, Merged
<1>1. CASE Claim
  BY <1>1 DEF Claim
<1>2. CASE CreateWorktree
  BY <1>2 DEF CreateWorktree
<1>3. CASE NoWorktree
  BY <1>3 DEF NoWorktree
<1>4. CASE WorktreeFails \/ Raise
  BY <1>4 DEF WorktreeFails, Raise
<1>5. CASE OpenRun
  BY <1>5 DEF OpenRun
<1>6. CASE Begin
  BY <1>6, AfterPrepStep DEF Begin
<1>7. CASE WaitForGate
  BY <1>7 DEF WaitForGate
<1>8. CASE GateApproved
  BY <1>8 DEF GateApproved
<1>9. CASE Blocking
  BY <1>9, BlockingEffect DEF TreeInv, TypesInv
<1>10. CASE PrepOk
  BY <1>10, AfterPrepStep DEF PrepOk, Worked
<1>11. CASE StartReview \/ ReviewApproves
  BY <1>11 DEF StartReview, ReviewApproves, Enter
<1>12. CASE ReviewRejects
  BY <1>12 DEF ReviewRejects, Block
<1>13. CASE StartFix
  BY <1>13 DEF StartFix
<1>14. CASE FixOk
  BY <1>14 DEF FixOk, Worked
<1>15. CASE Commit
  BY <1>15 DEF Commit, Typed, TypesInv, Git
<1>16. CASE MergeOk
  BY <1>16 DEF MergeOk, local, ConflictInv, WithTree
<1>17. CASE Resolved
  BY <1>17 DEF Resolved, local, ConflictInv, WithTree
<1>18. CASE MergeConflict \/ Unresolved
  BY <1>18 DEF MergeConflict, Unresolved
<1>19. CASE SkipCommit
  BY <1>19 DEF SkipCommit
<1>20. CASE RemoveTree
  BY <1>20 DEF RemoveTree, local
<1>21. CASE PruneBranch
  BY <1>21 DEF PruneBranch, TreeInv, ConflictInv
<1>22. CASE Settle
  BY <1>22 DEF Settle, Write
<1>23. CASE SaveRun
  BY <1>23 DEF SaveRun, TreeInv
<1>24. CASE SweepBranch
  BY <1>24 DEF SweepBranch
<1>25. CASE CloseTask \/ Except
  BY <1>25 DEF CloseTask, Except
<1>26. CASE ApproveGate \/ Cancel \/ Retry \/ ApproveReview \/ RequestChanges
  BY <1>26, UserEffect DEF TypesInv, local
<1>27. CASE DropBranch
  BY <1>27 DEF DropBranch
<1>28. CASE Restart
  BY <1>28 DEF Restart
<1>29. CASE UNCHANGED vars
  BY <1>29 DEF vars, local
<1> QED
  BY <1>1, <1>2, <1>3, <1>4, <1>5, <1>6, <1>7, <1>8, <1>9, <1>10, <1>11, <1>12, <1>13, <1>14,
     <1>15, <1>16, <1>17, <1>18, <1>19, <1>20, <1>21, <1>22, <1>23, <1>24, <1>25, <1>26, <1>27,
     <1>28, <1>29 DEF Next, Execute, Users, Blocking

\* An execution whose work was merged ends in review or done, even if an earlier
\* one had a conflict, unless users took its branch away.
THEOREM LandedIsSettled == Spec => []LandedSettles
<1>1. Init => LandedInv
  BY DEF Init, LandedInv, Merged
<1>2. LandedInv => LandedSettles
  BY DEF LandedInv, LandedSettles
<1> QED
  BY <1>1, <1>2, TypesAlways, GitAlways, LandedStep, PTL DEF Spec

\* What is committed lands, or the merge fails and the task knows, step by step,
\* as long as git commit does not fail.
LEMMA CompletedStep ==
  ASSUME CommitFails = FALSE, TypesInv, TreeInv, ConflictInv, CompletedInv, [Next]_vars
  PROVE  CompletedInv'
<1> USE PlanStays, HasStays DEF CompletedInv
<1>1. CASE Claim
  BY <1>1 DEF Claim
<1>2. CASE CreateWorktree
  BY <1>2 DEF CreateWorktree
<1>3. CASE NoWorktree
  BY <1>3 DEF NoWorktree
<1>4. CASE WorktreeFails \/ Raise
  BY <1>4 DEF WorktreeFails, Raise
<1>5. CASE OpenRun
  BY <1>5 DEF OpenRun
<1>6. CASE Begin
  BY <1>6, AfterPrepStep DEF Begin
<1>7. CASE WaitForGate
  BY <1>7 DEF WaitForGate
<1>8. CASE GateApproved
  BY <1>8 DEF GateApproved
<1>9. CASE Blocking
  BY <1>9, BlockingEffect DEF TreeInv, TypesInv
<1>10. CASE PrepOk
  BY <1>10, AfterPrepStep DEF PrepOk
<1>11. CASE StartReview \/ ReviewApproves
  BY <1>11 DEF StartReview, ReviewApproves, Enter
<1>12. CASE ReviewRejects
  BY <1>12 DEF ReviewRejects, Block, Write, Typed, TypesInv, TaskRec
<1>13. CASE StartFix
  BY <1>13 DEF StartFix
<1>14. CASE FixOk
  BY <1>14 DEF FixOk
<1>15. CASE Commit
  BY <1>15 DEF Commit, TreeInv, WithTree, Typed, TypesInv, Git
<1>16. CASE MergeOk
  BY <1>16 DEF MergeOk, Land
<1>17. CASE Resolved
  BY <1>17 DEF Resolved, Land
<1>18. CASE MergeConflict \/ Unresolved
  BY <1>18 DEF MergeConflict, Unresolved
<1>19. CASE SkipCommit
  BY <1>19 DEF SkipCommit
<1>20. CASE RemoveTree
  BY <1>20 DEF RemoveTree, local
<1>21. CASE PruneBranch
  BY <1>21 DEF PruneBranch, ConflictInv
<1>22. CASE Settle
  BY <1>22 DEF Settle
<1>23. CASE SaveRun
  BY <1>23 DEF SaveRun, TreeInv
<1>24. CASE SweepBranch
  BY <1>24 DEF SweepBranch
<1>25. CASE CloseTask \/ Except
  BY <1>25 DEF CloseTask, Except
<1>26. CASE ApproveGate \/ Cancel \/ Retry \/ ApproveReview \/ RequestChanges
  BY <1>26, UserEffect DEF TypesInv, local
<1>27. CASE DropBranch
  BY <1>27 DEF DropBranch
<1>28. CASE Restart
  BY <1>28 DEF Restart
<1>29. CASE UNCHANGED vars
  BY <1>29 DEF vars, local
<1> QED
  BY <1>1, <1>2, <1>3, <1>4, <1>5, <1>6, <1>7, <1>8, <1>9, <1>10, <1>11, <1>12, <1>13, <1>14,
     <1>15, <1>16, <1>17, <1>18, <1>19, <1>20, <1>21, <1>22, <1>23, <1>24, <1>25, <1>26, <1>27,
     <1>28, <1>29 DEF Next, Execute, Users, Blocking

\* A task with a commit step that ends in review or done has its work on the run
\* branch, provided that git commit does not fail: that a commit fails goes
\* unnoticed in the code.
THEOREM CompletedHasLanded ==
  ASSUME CommitFails = FALSE
  PROVE  Spec => []CompletedMeansLanded
<1>1. Init => CompletedInv
  BY DEF Init, CompletedInv
<1>2. CompletedInv => CompletedMeansLanded
  BY DEF CompletedInv, CompletedMeansLanded
<1>3. TypesInv /\ TreeInv /\ ConflictInv /\ CompletedInv /\ [Next]_vars => CompletedInv'
  BY CompletedStep
<1> QED
  BY <1>1, <1>2, <1>3, TypesAlways, GitAlways, PTL DEF Spec

-----------------------------------------------------------------------------
(* Reviews and fixes.                                                      *)

\* What is in the log in each phase.
LEMMA PhaseStep ==
  ASSUME TypesInv, PhaseInv, [Next]_vars
  PROVE  PhaseInv'
<1> USE PlanStays, HasStays DEF TypesInv, Typed, Placed, Stepping, Gates, Late, PhaseInv,
  ToReview, Fixing
<1>1. CASE Claim
  BY <1>1 DEF Claim
<1>2. CASE CreateWorktree \/ NoWorktree \/ OpenRun
  BY <1>2 DEF CreateWorktree, NoWorktree, OpenRun
<1>3. CASE Begin
  BY <1>3, AfterPrepStep DEF Begin, place
<1>4. CASE WaitForGate \/ GateApproved \/ StartFix
  BY <1>4 DEF WaitForGate, GateApproved, StartFix, place
<1>5. CASE StartReview
  BY <1>5 DEF StartReview, place
<1>6. CASE PrepOk
  <2>1. PICK e \in Entry : log' = Append(log, e) /\ e[1] = step /\ e[2] = "ok"
    BY <1>6, WorkLogged DEF PrepOk, Said
  <2> QED
    BY <1>6, <2>1, Appended, AfterPrepStep DEF PrepOk
<1>7. CASE PrepFails
  <2>1. PICK e \in Entry : log' = Append(log, e) /\ e[1] = step
    BY <1>7, WorkLogged DEF PrepFails, Outcomes, Said
  <2> QED
    BY <1>7, <2>1, Appended DEF PrepFails, Block
<1>8. CASE ReviewApproves
  <2>1. PICK e \in Entry : log' = Append(log, e) /\ e = <<"review", "approved">>
    BY <1>8 DEF ReviewApproves, Entry, Step, Said
  <2> QED
    BY <1>8, <2>1, Appended DEF ReviewApproves, Enter, place
<1>9. CASE ReviewRejects
  <2>1. PICK e \in Entry : log' = Append(log, e) /\ e = <<"review", "changes_requested">>
    BY <1>9 DEF ReviewRejects, Entry, Step, Said
  <2> QED
    BY <1>9, <2>1, Appended DEF ReviewRejects, Block
<1>10. CASE FixOk
  <2>1. PICK e \in Entry : log' = Append(log, e) /\ e[1] = step /\ e[2] = "ok"
    BY <1>10, WorkLogged DEF FixOk, Said
  <2> QED
    BY <1>10, <2>1, Appended DEF FixOk
<1>11. CASE FixFails
  <2>1. PICK e \in Entry : log' = Append(log, e) /\ e[1] = step
    BY <1>11, WorkLogged DEF FixFails, Outcomes, Said
  <2> QED
    BY <1>11, <2>1, Appended DEF FixFails, Block
<1>12. CASE Commit
  <2>1. PICK e \in Entry : log' = Append(log, e) /\ e = <<"commit", "ok">>
    BY <1>12 DEF Commit, Entry, Step, Said
  <2> QED
    BY <1>12, <2>1, Appended DEF Commit
<1>13. CASE WorktreeFails \/ GateAborted \/ ReviewFails \/ MergeOk \/ MergeConflict \/
             Resolved \/ Unresolved \/ SkipCommit \/ RemoveTree \/ PruneBranch \/
             SettleConflict \/ Settle \/ SaveRun \/ Raise \/ SweepBranch \/ CloseTask \/
             Except \/ Restart
  <2>1. log' = log /\ pc' \notin Gates \cup Early \cup Reviewing
    BY <1>13 DEF Early, Reviewing, WorktreeFails, GateAborted, Block, ReviewFails, MergeOk,
       MergeConflict, Resolved, Unresolved, SkipCommit, RemoveTree, PruneBranch, SettleConflict,
       Settle, SaveRun, Raise, SweepBranch, CloseTask, Except, Restart
  <2> QED
    BY <2>1 DEF Early, Reviewing
<1>14. CASE ApproveGate \/ Cancel \/ Retry \/ ApproveReview \/ RequestChanges \/
             DropBranch
  <2>1. UNCHANGED <<log, pc, step>>
    BY <1>14, UserEffect DEF DropBranch, place
  <2> QED
    BY <2>1
<1>15. CASE UNCHANGED vars
  BY <1>15 DEF vars, place
<1> QED
  BY <1>1, <1>2, <1>3, <1>4, <1>5, <1>6, <1>7, <1>8, <1>9, <1>10, <1>11, <1>12, <1>13, <1>14,
     <1>15 DEF Next, Execute, Users

\* How far back reviews that asked for changes are.
LEMMA OpenStep ==
  ASSUME TypesInv, PhaseInv, OpenInv, [Next]_vars
  PROVE  OpenInv'
<1> USE PlanStays, HasStays DEF TypesInv, Typed, Placed, Stepping, Gates, Late, PhaseInv,
  OpenInv, Open, ToReview, Fixing
<1>1. CASE Claim
  BY <1>1 DEF Claim
<1>2. CASE CreateWorktree \/ NoWorktree \/ OpenRun
  BY <1>2 DEF CreateWorktree, NoWorktree, OpenRun
<1>3. CASE Begin
  BY <1>3, AfterPrepStep DEF Begin, place
<1>4. CASE WaitForGate \/ GateApproved \/ StartFix
  BY <1>4 DEF WaitForGate, GateApproved, StartFix, place
<1>5. CASE StartReview
  BY <1>5 DEF StartReview, place
<1>6. CASE PrepOk
  <2>1. PICK e \in Entry : log' = Append(log, e) /\ e[1] = step /\ e[2] = "ok"
    BY <1>6, WorkLogged DEF PrepOk, Said
  <2> QED
    BY <1>6, <2>1, Appended, AfterPrepStep DEF PrepOk
<1>7. CASE PrepFails
  <2>1. PICK e \in Entry : log' = Append(log, e) /\ e[1] = step
    BY <1>7, WorkLogged DEF PrepFails, Outcomes, Said
  <2> QED
    BY <1>7, <2>1, Appended DEF PrepFails, Block
<1>8. CASE ReviewApproves
  <2>1. PICK e \in Entry : log' = Append(log, e) /\ e = <<"review", "approved">>
    BY <1>8 DEF ReviewApproves, Entry, Step, Said
  <2>2. pc' \in {"gate", "run", "finished"} /\ (pc' # "finished" => step' = "commit")
    BY <1>8 DEF ReviewApproves, Enter
  <2>3. \A i \in DOMAIN log : log[i] = Open => i + 2 < Len(log) \/ i + 2 = Len(log)
    BY <1>8 DEF ReviewApproves
  <2>4. e # Open
    BY <2>1
  <2> HIDE DEF OpenInv, PhaseInv, Open
  <2>5. \A i \in DOMAIN log' : log'[i] = Open => i + 2 < Len(log')
    BY <2>1, <2>3, <2>4, Appended
  <2> QED
    BY <2>2, <2>5 DEF OpenInv
<1>9. CASE ReviewRejects
  <2>1. PICK e \in Entry : log' = Append(log, e) /\ e = <<"review", "changes_requested">>
    BY <1>9 DEF ReviewRejects, Entry, Step, Said
  <2>2. pc' = "saving" \/ (pc' = "fix" /\ step' = "implement_fix")
    BY <1>9 DEF ReviewRejects, Block, FixSteps
  <2>3. \A i \in DOMAIN log : log[i] = Open => i + 2 < Len(log) \/ i + 2 = Len(log)
    BY <1>9 DEF ReviewRejects
  <2> HIDE DEF OpenInv, PhaseInv, Open
  <2>4. \A i \in DOMAIN log' : log'[i] = Open => i + 2 < Len(log') \/ i = Len(log')
    BY <2>1, <2>3, Appended
  <2> QED
    BY <2>2, <2>4 DEF OpenInv
<1>10. CASE FixOk
  <2>1. PICK e \in Entry : log' = Append(log, e) /\ e[1] = step /\ e[2] = "ok"
    BY <1>10, WorkLogged DEF FixOk, Said
  <2>2. e # Open
    BY <2>1
  <2>3. CASE step = "implement_fix"
    <3>1. pc' = "fix" /\ step' = "verify"
      BY <1>10, <2>3 DEF FixOk, FixSteps
    <3>2. \A i \in DOMAIN log : log[i] = Open => i + 2 < Len(log) \/ i = Len(log)
      BY <1>10, <2>3 DEF FixOk
    <3> HIDE DEF OpenInv, PhaseInv, Open
    <3>3. \A i \in DOMAIN log' : log'[i] = Open => i + 2 < Len(log') \/ i + 1 = Len(log')
      BY <2>1, <2>2, <3>2, Appended
    <3>4. log'[Len(log')][2] = "ok"
      BY <2>1, Appended
    <3> QED
      BY <3>1, <3>3, <3>4 DEF OpenInv
  <2>4. CASE step = "verify"
    <3>1. pc' = "run" /\ step' = "review"
      BY <1>10, <2>4 DEF FixOk, FixSteps
    <3>2. \A i \in DOMAIN log : log[i] = Open => i + 2 < Len(log) \/ i + 1 = Len(log)
      BY <1>10, <2>4 DEF FixOk
    <3> HIDE DEF OpenInv, PhaseInv, Open
    <3>3. \A i \in DOMAIN log' : log'[i] = Open => i + 2 < Len(log') \/ i + 2 = Len(log')
      BY <2>1, <2>2, <3>2, Appended
    <3>4. log'[Len(log')][2] = "ok"
      BY <2>1, Appended
    <3> QED
      BY <3>1, <3>3, <3>4 DEF OpenInv
  <2> QED
    BY <1>10, <2>3, <2>4 DEF FixOk
<1>11. CASE FixFails
  <2>1. PICK e \in Entry : log' = Append(log, e) /\ e[1] = step
    BY <1>11, WorkLogged DEF FixFails, Outcomes, Said
  <2> QED
    BY <1>11, <2>1, Appended DEF FixFails, Block
<1>12. CASE Commit
  <2>1. PICK e \in Entry : log' = Append(log, e) /\ e = <<"commit", "ok">>
    BY <1>12 DEF Commit, Entry, Step, Said
  <2> QED
    BY <1>12, <2>1, Appended DEF Commit
<1>13. CASE WorktreeFails \/ GateAborted \/ ReviewFails \/ MergeOk \/ MergeConflict \/
             Resolved \/ Unresolved \/ SkipCommit \/ RemoveTree \/ PruneBranch \/
             SettleConflict \/ Settle \/ SaveRun \/ Raise \/ SweepBranch \/ CloseTask \/
             Except \/ Restart
  <2>1. log' = log /\ pc' \notin Gates \cup Early \cup Reviewing
    BY <1>13 DEF Early, Reviewing, WorktreeFails, GateAborted, Block, ReviewFails, MergeOk,
       MergeConflict, Resolved, Unresolved, SkipCommit, RemoveTree, PruneBranch, SettleConflict,
       Settle, SaveRun, Raise, SweepBranch, CloseTask, Except, Restart
  <2> QED
    BY <2>1 DEF Early, Reviewing
<1>14. CASE ApproveGate \/ Cancel \/ Retry \/ ApproveReview \/ RequestChanges \/
             DropBranch
  <2>1. UNCHANGED <<log, pc, step>>
    BY <1>14, UserEffect DEF DropBranch, place
  <2> QED
    BY <2>1
<1>15. CASE UNCHANGED vars
  BY <1>15 DEF vars, place
<1> QED
  BY <1>1, <1>2, <1>3, <1>4, <1>5, <1>6, <1>7, <1>8, <1>9, <1>10, <1>11, <1>12, <1>13, <1>14,
     <1>15 DEF Next, Execute, Users

\* Log and open reviews, throughout.
LEMMA LogAlways == Spec => [](PhaseInv /\ OpenInv)
<1>1. Init => PhaseInv /\ OpenInv
  BY DEF Init, PhaseInv, OpenInv, ToReview, Fixing
<1> QED
  BY <1>1, TypesAlways, PhaseStep, OpenStep, PTL DEF Spec

\* Only a commit that an approved review precedes is added to the log of a task
\* with reviews.
LEMMA ReviewedStep ==
  ASSUME TypesInv, PhaseInv, ReviewedCommit, [Next]_vars
  PROVE  ReviewedCommit'
<1> USE PlanStays, HasStays DEF TypesInv, Typed, Placed, Stepping, Gates, Late
<1>1. CASE Claim
  BY <1>1 DEF Claim, ReviewedCommit
<1>2. CASE PrepOk
  <2>1. PICK e \in Entry : log' = Append(log, e) /\ e[1] = step /\ e[2] = "ok"
    BY <1>2, WorkLogged DEF PrepOk, Said
  <2> QED
    BY <1>2, <2>1, Appended DEF PrepOk, ReviewedCommit, PhaseInv, ToReview, Fixing
<1>3. CASE PrepFails
  <2>1. PICK e \in Entry : log' = Append(log, e) /\ e[1] = step
    BY <1>3, WorkLogged DEF PrepFails, Outcomes, Said
  <2> QED
    BY <1>3, <2>1, Appended DEF PrepFails, Block, ReviewedCommit, PhaseInv, ToReview, Fixing
<1>4. CASE ReviewApproves
  <2>1. PICK e \in Entry : log' = Append(log, e) /\ e = <<"review", "approved">>
    BY <1>4 DEF ReviewApproves, Entry, Step, Said
  <2> QED
    BY <1>4, <2>1, Appended DEF ReviewApproves, Enter, place, ReviewedCommit, PhaseInv, ToReview,
       Fixing
<1>5. CASE ReviewRejects
  <2>1. PICK e \in Entry : log' = Append(log, e) /\ e = <<"review", "changes_requested">>
    BY <1>5 DEF ReviewRejects, Entry, Step, Said
  <2> QED
    BY <1>5, <2>1, Appended DEF ReviewRejects, Block, ReviewedCommit, PhaseInv, ToReview, Fixing
<1>6. CASE FixOk
  <2>1. PICK e \in Entry : log' = Append(log, e) /\ e[1] = step /\ e[2] = "ok"
    BY <1>6, WorkLogged DEF FixOk, Said
  <2> QED
    BY <1>6, <2>1, Appended DEF FixOk, ReviewedCommit, PhaseInv, ToReview, Fixing
<1>7. CASE FixFails
  <2>1. PICK e \in Entry : log' = Append(log, e) /\ e[1] = step
    BY <1>7, WorkLogged DEF FixFails, Outcomes, Said
  <2> QED
    BY <1>7, <2>1, Appended DEF FixFails, Block, ReviewedCommit, PhaseInv, ToReview, Fixing
<1>8. CASE Commit
  <2>1. PICK e \in Entry : log' = Append(log, e) /\ e = <<"commit", "ok">>
    BY <1>8 DEF Commit, Entry, Step, Said
  <2> QED
    BY <1>8, <2>1, Appended DEF Commit, ReviewedCommit, PhaseInv, ToReview, Fixing
<1>9. CASE CreateWorktree \/ NoWorktree \/ WorktreeFails \/ OpenRun \/ Begin \/
             WaitForGate \/ GateApproved \/ GateAborted \/ StartReview \/ ReviewFails \/
             StartFix \/ MergeOk \/ MergeConflict \/ Resolved \/ Unresolved \/ SkipCommit
             \/ RemoveTree \/ PruneBranch \/ SettleConflict \/ Settle \/ SaveRun \/ Raise
             \/ SweepBranch \/ CloseTask \/ Except \/ ApproveGate \/ Cancel \/ Retry \/
             ApproveReview \/ RequestChanges \/ DropBranch \/ Restart
  BY <1>9 DEF CreateWorktree, NoWorktree, WorktreeFails, OpenRun, Begin, WaitForGate,
     GateApproved, GateAborted, Block, StartReview, ReviewFails, StartFix, MergeOk, MergeConflict,
     Resolved, Unresolved, SkipCommit, RemoveTree, PruneBranch, SettleConflict, Settle, SaveRun,
     Raise, SweepBranch, CloseTask, Except, ApproveGate, User, Cancel, Retry, ApproveReview,
     RequestChanges, DropBranch, Restart, ReviewedCommit
<1>10. CASE UNCHANGED vars
  BY <1>10 DEF vars, ReviewedCommit
<1> QED
  BY <1>1, <1>2, <1>3, <1>4, <1>5, <1>6, <1>7, <1>8, <1>9, <1>10 DEF Next, Execute, Users

\* Where a template reviews, every commit directly follows a review that
\* approved.
THEOREM CommitsAreReviewed == Spec => []ReviewedCommit
<1>1. Init => ReviewedCommit
  BY DEF Init, ReviewedCommit
<1> QED
  BY <1>1, TypesAlways, LogAlways, ReviewedStep, PTL DEF Spec

\* An entry keeps the order of fixes if it is what each review that asked for
\* changes still waits for.
LEMMA FixesAppended ==
  ASSUME log \in Seq(Entry), FixesBetweenReviews, NEW e \in Entry, log' = Append(log, e),
         Awaits(e)
  PROVE  FixesBetweenReviews'
<1> SUFFICES ASSUME NEW i \in DOMAIN log', log'[i] = Open
             PROVE  /\ i < Len(log') => log'[i + 1][1] = "implement_fix"
                    /\ i + 1 < Len(log') => log'[i + 1][2] = "ok" /\ log'[i + 2][1] = "verify"
                    /\ i + 2 < Len(log') => log'[i + 2][2] = "ok" /\ log'[i + 3][1] = "review"
  BY DEF FixesBetweenReviews, Open
<1> USE Appended
<1>1. CASE i = Len(log) + 1
  BY <1>1
<1>2. CASE i # Len(log) + 1
  <2>1. i \in 1..Len(log) /\ log[i] = Open
    BY <1>2
  <2>2. /\ i < Len(log) => log[i + 1][1] = "implement_fix"
        /\ i + 1 < Len(log) => log[i + 1][2] = "ok" /\ log[i + 2][1] = "verify"
        /\ i + 2 < Len(log) => log[i + 2][2] = "ok" /\ log[i + 3][1] = "review"
    BY <2>1 DEF FixesBetweenReviews, Open
  <2>3. CASE i + 2 < Len(log)
    BY <2>1, <2>2, <2>3 DEF Awaits
  <2>4. CASE i + 2 = Len(log)
    BY <2>1, <2>2, <2>4 DEF Awaits
  <2>5. CASE i + 1 = Len(log)
    BY <2>1, <2>2, <2>5 DEF Awaits
  <2>6. CASE i = Len(log)
    BY <2>1, <2>2, <2>6 DEF Awaits
  <2> QED
    BY <2>1, <2>3, <2>4, <2>5, <2>6 DEF Awaits
<1> QED
  BY <1>1, <1>2

\* Every step logs what the last review that asked for changes waits for.
LEMMA FixesStep ==
  ASSUME TypesInv, PhaseInv, OpenInv, FixesBetweenReviews, [Next]_vars
  PROVE  FixesBetweenReviews'
<1> USE DEF TypesInv, Typed, Placed, Stepping
<1>1. CASE Claim
  BY <1>1 DEF Claim, FixesBetweenReviews
<1>2. CASE PrepOk
  <2>1. PICK e \in Entry : log' = Append(log, e) /\ e[1] = step /\ e[2] = "ok"
    BY <1>2, WorkLogged DEF PrepOk, Said
  <2>2. Awaits(e)
    BY <1>2, <2>1 DEF PrepOk, Awaits, PhaseInv, OpenInv, Open, ToReview, Fixing, Gates, Late
  <2> QED
    BY <2>1, <2>2, FixesAppended
<1>3. CASE PrepFails
  <2>1. PICK e \in Entry : log' = Append(log, e) /\ e[1] = step
    BY <1>3, WorkLogged DEF PrepFails, Outcomes, Said
  <2>2. Awaits(e)
    BY <1>3, <2>1 DEF PrepFails, Awaits, PhaseInv, OpenInv, Open, ToReview, Fixing, Gates, Late
  <2> QED
    BY <2>1, <2>2, FixesAppended
<1>4. CASE ReviewApproves
  <2>1. PICK e \in Entry : log' = Append(log, e) /\ e = <<"review", "approved">>
    BY <1>4 DEF ReviewApproves, Entry, Step, Said
  <2>2. Awaits(e)
    BY <1>4, <2>1 DEF ReviewApproves, Awaits, PhaseInv, OpenInv, Open, ToReview, Fixing
  <2> QED
    BY <2>1, <2>2, FixesAppended
<1>5. CASE ReviewRejects
  <2>1. PICK e \in Entry : log' = Append(log, e) /\ e = <<"review", "changes_requested">>
    BY <1>5 DEF ReviewRejects, Entry, Step, Said
  <2>2. Awaits(e)
    BY <1>5, <2>1 DEF ReviewRejects, Awaits, PhaseInv, OpenInv, Open, ToReview, Fixing
  <2> QED
    BY <2>1, <2>2, FixesAppended
<1>6. CASE FixOk
  <2>1. PICK e \in Entry : log' = Append(log, e) /\ e[1] = step /\ e[2] = "ok"
    BY <1>6, WorkLogged DEF FixOk, Said
  <2>2. Awaits(e)
    BY <1>6, <2>1 DEF FixOk, Awaits, PhaseInv, OpenInv, Open, ToReview, Fixing
  <2> QED
    BY <2>1, <2>2, FixesAppended
<1>7. CASE FixFails
  <2>1. PICK e \in Entry : log' = Append(log, e) /\ e[1] = step
    BY <1>7, WorkLogged DEF FixFails, Outcomes, Said
  <2>2. Awaits(e)
    BY <1>7, <2>1 DEF FixFails, Awaits, PhaseInv, OpenInv, Open, ToReview, Fixing
  <2> QED
    BY <2>1, <2>2, FixesAppended
<1>8. CASE Commit
  <2>1. PICK e \in Entry : log' = Append(log, e) /\ e = <<"commit", "ok">>
    BY <1>8 DEF Commit, Entry, Step, Said
  <2>2. Awaits(e)
    BY <1>8, <2>1 DEF Commit, Awaits, PhaseInv, OpenInv, Open, ToReview, Fixing, Gates
  <2> QED
    BY <2>1, <2>2, FixesAppended
<1>9. CASE CreateWorktree \/ NoWorktree \/ WorktreeFails \/ OpenRun \/ Begin \/
             WaitForGate \/ GateApproved \/ GateAborted \/ StartReview \/ ReviewFails \/
             StartFix \/ MergeOk \/ MergeConflict \/ Resolved \/ Unresolved \/ SkipCommit
             \/ RemoveTree \/ PruneBranch \/ SettleConflict \/ Settle \/ SaveRun \/ Raise
             \/ SweepBranch \/ CloseTask \/ Except \/ ApproveGate \/ Cancel \/ Retry \/
             ApproveReview \/ RequestChanges \/ DropBranch \/ Restart
  BY <1>9 DEF CreateWorktree, NoWorktree, WorktreeFails, OpenRun, Begin, WaitForGate,
     GateApproved, GateAborted, Block, StartReview, ReviewFails, StartFix, MergeOk, MergeConflict,
     Resolved, Unresolved, SkipCommit, RemoveTree, PruneBranch, SettleConflict, Settle, SaveRun,
     Raise, SweepBranch, CloseTask, Except, ApproveGate, User, Cancel, Retry, ApproveReview,
     RequestChanges, DropBranch, Restart, FixesBetweenReviews
<1>10. CASE UNCHANGED vars
  BY <1>10 DEF vars, FixesBetweenReviews
<1> QED
  BY <1>1, <1>2, <1>3, <1>4, <1>5, <1>6, <1>7, <1>8, <1>9, <1>10 DEF Next, Execute, Users

\* A review that asked for changes is followed by a fix, its verification and
\* only then by the next review, each once the one before went well.
THEOREM FixesComeBetween == Spec => []FixesBetweenReviews
<1>1. Init => FixesBetweenReviews
  BY DEF Init, FixesBetweenReviews
<1> QED
  BY <1>1, TypesAlways, LogAlways, FixesStep, PTL DEF Spec

\* No more reviews are logged than were started.
LEMMA CountStep ==
  ASSUME TypesInv, CountInv, [Next]_vars
  PROVE  CountInv'
<1> USE PipelineAssumption DEF TypesInv, Typed, Placed, CountInv, Stepping, Late, Gates
<1>1. CASE Claim
  <2>1. Reviews' = {} /\ attempt' = 0 /\ pc' # "reviewing"
    BY <1>1 DEF Claim, Reviews
  <2> QED
    BY <2>1, FS_EmptySet
<1>2. CASE StartReview
  <2>1. Reviews' = Reviews
    BY <1>2 DEF StartReview, Reviews
  <2> QED
    BY <1>2, <2>1, ReviewsFinite DEF StartReview
<1>3. CASE PrepOk
  <2>1. PICK e \in Entry : log' = Append(log, e) /\ e[1] = step /\ e[2] = "ok"
    BY <1>3, WorkLogged DEF PrepOk, Said
  <2> QED
    BY <1>3, <2>1, Counted, ReviewsFinite, AfterPrepStep DEF PrepOk
<1>4. CASE PrepFails
  <2>1. PICK e \in Entry : log' = Append(log, e) /\ e[1] = step
    BY <1>4, WorkLogged DEF PrepFails, Outcomes, Said
  <2> QED
    BY <1>4, <2>1, Counted, ReviewsFinite DEF PrepFails, Block, place
<1>5. CASE ReviewApproves
  <2>1. PICK e \in Entry : log' = Append(log, e) /\ e = <<"review", "approved">>
    BY <1>5 DEF ReviewApproves, Entry, Step, Said
  <2> QED
    BY <1>5, <2>1, Counted, ReviewsFinite DEF ReviewApproves, Enter, place
<1>6. CASE ReviewRejects
  <2>1. PICK e \in Entry : log' = Append(log, e) /\ e = <<"review", "changes_requested">>
    BY <1>6 DEF ReviewRejects, Entry, Step, Said
  <2> QED
    BY <1>6, <2>1, Counted, ReviewsFinite DEF ReviewRejects, Block
<1>7. CASE FixOk
  <2>1. PICK e \in Entry : log' = Append(log, e) /\ e[1] = step /\ e[2] = "ok"
    BY <1>7, WorkLogged DEF FixOk, Said
  <2> QED
    BY <1>7, <2>1, Counted, ReviewsFinite DEF FixOk
<1>8. CASE FixFails
  <2>1. PICK e \in Entry : log' = Append(log, e) /\ e[1] = step
    BY <1>8, WorkLogged DEF FixFails, Outcomes, Said
  <2> QED
    BY <1>8, <2>1, Counted, ReviewsFinite DEF FixFails, Block, place
<1>9. CASE Commit
  <2>1. PICK e \in Entry : log' = Append(log, e) /\ e = <<"commit", "ok">>
    BY <1>9 DEF Commit, Entry, Step, Said
  <2> QED
    BY <1>9, <2>1, Counted, ReviewsFinite DEF Commit, place
<1>10. CASE CreateWorktree \/ NoWorktree \/ WorktreeFails \/ OpenRun \/ Begin \/
             WaitForGate \/ GateApproved \/ GateAborted \/ ReviewFails \/ StartFix \/
             MergeOk \/ MergeConflict \/ Resolved \/ Unresolved \/ SkipCommit \/
             RemoveTree \/ PruneBranch \/ SettleConflict \/ Settle \/ SaveRun \/ Raise \/
             SweepBranch \/ CloseTask \/ Except \/ ApproveGate \/ Cancel \/ Retry \/
             ApproveReview \/ RequestChanges \/ DropBranch \/ Restart
  <2>1. log' = log /\ attempt' = attempt /\ (pc' = "reviewing" => pc = "reviewing")
    BY <1>10 DEF place, CreateWorktree, NoWorktree, WorktreeFails, OpenRun, Begin, WaitForGate,
       GateApproved, GateAborted, Block, ReviewFails, StartFix, MergeOk, MergeConflict, Resolved,
       Unresolved, SkipCommit, RemoveTree, PruneBranch, SettleConflict, Settle, SaveRun, Raise,
       SweepBranch, CloseTask, Except, ApproveGate, User, Cancel, Retry, ApproveReview,
       RequestChanges, DropBranch, Restart, AfterPrep, Enter
  <2>2. Reviews' = Reviews
    BY <2>1 DEF Reviews
  <2> QED
    BY <2>1, <2>2
<1>11. CASE UNCHANGED vars
  <2>1. log' = log /\ attempt' = attempt /\ pc' = pc
    BY <1>11 DEF vars, place
  <2>2. Reviews' = Reviews
    BY <2>1 DEF Reviews
  <2> QED
    BY <2>1, <2>2
<1> QED
  BY <1>1, <1>2, <1>3, <1>4, <1>5, <1>6, <1>7, <1>8, <1>9, <1>10, <1>11 DEF Next, Execute, Users

\* An execution reviews at most max_review_attempts times.
THEOREM ReviewsAreBounded == Spec => []ReviewsBounded
<1>1. Init => CountInv
  <2> SUFFICES ASSUME Init PROVE CountInv
    OBVIOUS
  <2>1. Reviews = {} /\ attempt = 0 /\ pc = "idle"
    BY DEF Init, Reviews
  <2> QED
    BY <2>1, FS_EmptySet DEF CountInv
<1>2. TypesInv /\ CountInv => ReviewsBounded
  BY ReviewsFinite, PipelineAssumption DEF TypesInv, Typed, Placed, CountInv, ReviewsBounded,
     Reviews
<1> QED
  BY <1>1, <1>2, TypesAlways, CountStep, PTL DEF Spec
=============================================================================
