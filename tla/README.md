# A verification project for the agent orchestrator

The repository is a local orchestrator of coding agents: tasks sit on a board kept in YAML files, a scheduler loop
claims them, a thread pool runs each through a pipeline of steps (plan, implement, verify, review, commit), each step
being a call of a worker process, and a REST API and a command line change tasks and control the loop meanwhile. This
directory holds TLA+ models of its control logic, the TLC runs that check them, and TLAPS proofs of what matters most.

Paths below are relative to `src/src/agent_orchestrator/`; `service` is `runtime/orchestrator/service.py`, `repos` is
`runtime/storage/file_repos.py`, `router` is `runtime/api/router.py`.

    tlc -config DispatchChain.cfg MCDispatch.tla      # a run; PROJECT.json lists module, cfg and properties of each
    tlapm DispatchProofs.tla                          # the proofs

## 1. Inventory

### 1.1 Components

| component | state | operations | module |
|---|---|---|---|
| Scheduler loop and task dispatch (`service` 174-263, `repos` 133-166) | `_futures`, `_pool`; status, gate and worktree of each task | `tick_once`, `run_task`, `claim_next_runnable`, submission and sweeping of futures | Dispatch, Control |
| Task endpoints (`router` 704-800, 1318-1350) | tasks.yaml | patch, transition, retry, cancel, run, approve-gate, review approve and request-changes | Dispatch, Pipeline |
| Pipeline executor (`service` 456-524, 614-716, 855-1090) | the job's own Task and RunRecord, local flags | steps, gates, review loop, commit, merge, settling, `finally` | Pipeline |
| Templates and HITL modes (`pipelines/registry.py`, `collaboration/modes.py`) | tables | the steps of a type, the gates of a mode | PipelineCatalog |
| Git worktrees (`service` 265-408) | branch, worktree, run branch | create, merge, resolve, remove, orphan cleanup | Pipeline, Dispatch |
| Run records and recovery (`repos` 169-196, `service` 145-172) | runs.yaml | open, close, interrupt at start | RunLedger, Pipeline |
| Orchestrator control (`service` 76-143, 254-263; `server/api.py`; `cli.py` 119-128) | config.yaml, `_stop`, `_drain`, the loop thread | pause, resume, drain, stop, settings, shutdown, restart | Control |
| Dependency analysis (`service` 718-853) and endpoints (`router` 802-869) | `blocked_by`, `blocks`, `inferred_deps`, `deps_analyzed` | analyse, apply edges, add, remove, reset | Dependencies, TaskGraph |
| Cycle check (`service` 21-36) | stack, visited | `_has_cycle` | CycleCheck |
| Execution order (`router` 404-426) | indegree, ready, batches | `_execution_batches` | Batches |
| Storage (`runtime/storage/*`, `io_utils.py`) | YAML files and lock files | get, list, upsert, claim | as atomic steps, everywhere |
| PRD imports (`router` 917-965) | tasks; import jobs, kept in config.yaml | preview, commit, pruning | Dependencies, Control |
| Generated and child tasks (`service` 526-612) | tasks | `_create_child_tasks`, `generate_tasks_from_plan` | Dependencies |
| Quick actions (`runtime/quick_actions/`, `router` 1266-1316) | quick_actions.yaml, threads | create, execute, promote | QuickActions |
| Event bus and WebSocket hub (`runtime/events/`) | clients, their subscriptions | publish, subscribe, disconnect | EventHub |
| Worker processes (`worker.py`, `workers/run.py`) | a subprocess or a stream, its last sign of life | start, poll, time out, terminate, read | Worker |
| Settings, agents, feedback, comments (`router` 1178-1264, 1368-1494) | sections of config.yaml, records | one handler each | Control |
| Worker adapter (`live_worker_adapter.py`), diagnostics | none | `run_step`, `_map_result`; prompts and parsing of answers | Worker; text is left out |
| Web dashboard (`src/web`) | | a client of the API | not modelled |

### 1.2 How they interact

There is one server process. In it run:

- **the loop thread** (`_loop`): a tick reads config.yaml, sweeps finished futures, analyses dependencies (a worker
  call that may take minutes), claims one task, submits a job to the pool and registers its future;
- **the server's event loop**: the handlers are `async def` and never await, so one handler excludes all others, *but
  not the threads*; `POST /tasks/{id}/run` and `POST /tasks/analyze-dependencies` hold it for as long as a job or a
  worker takes, `approve-gate` included;
- **pool threads**: a job executes one task with *its own copy* of the Task, and writes that copy back whole after
  every step.

A command line is a process of its own with an `OrchestratorService` of its own, which shares only the files.

All of them share the YAML files. Each repository call is atomic (a file lock and a rename), but no lock spans a read
and the write that depends on it, except in `claim_next_runnable`; and every write replaces a whole object. Nearly
everything that is hard here comes from these two facts.

### 1.3 What is hard, and what makes each component right

- *Dispatch*: the loop, `run_task` and handlers act on one task at once, each with a snapshot. Right when no task is
  executed twice at a time, a task in progress has an owner, blockers finish first, what is done stays done, and what
  can run does run.
- *Pipeline*: many exits (gate refused, step failed, human needed, review cap, merge conflict, exception, crash), each
  of which must settle the task, close the record and remove the worktree, yet keep a branch with unmerged work.
- *Control*: pause, drain and stop race a tick that has already read the configuration, and jobs whose futures are
  registered after they were submitted, one for each task, although a task may be claimed again while it runs.
- *Dependencies*: edges found in a snapshot are written to tasks that moved on; cycles mean tasks that are never
  claimed; two ends of an edge are written by two upserts; a task that is made ready while it runs gets a second job,
  whose copy differs from that of the first.
- *Workers*: a subprocess owes nothing: it may be silent, talk for ever, ignore SIGTERM, or obey it and exit with 0.
  A model's server may drip bytes, and each recv has a timeout of its own. Right when a step ends soon after its
  timeout wherever the code enforces one, nothing of it runs then, and success means that the worker finished.
- *Tasks made by requests*: a new task, an import, a plan's tasks are each written more than once, from memory, while
  the loop may already have claimed them.
- *Quick actions*: the thread that executes a run and the request that promotes it write it from copies of their own.
  Right when a run that is queued ends, is promoted once, and no more pend than the limit allows.
- *Hub*: a publication awaits a send to each client, and clients come and go during that. Right when a dashboard that
  stays subscribed comes to show what is stored.
- *Recovery*: a crash at any point; the next start takes tasks in progress back and removes worktrees it finds.

PROJECT.json, "hazards", lists the hazards with their lines and the properties that cover them, or why none does.

## 2. The modules

Each variable names its Python counterpart in a comment at its declaration; PROJECT.json, "map", gives the lines of
every definition. A definition called `SomethingElse` with a comment "Mutant of Something" is a plausible mistake in
the code; substituting it must break the property it belongs to, which shows that the property says something.

**Dispatch** (composed with `BlockedBy`, pool size and concurrency). `store` is tasks.yaml; `th["loop"]` and
`th["api"]` are the two threads that submit, with the snapshot they hold (`rec`) and the statement they are at (`pc`);
`job[j]` is a submitted call of `_execute_task` with its own copy; `branch[t]` says whose worktree exists. `ApiRead`
and `ApiWrite` are the two halves of every handler; `RunTask`, `RunUpsert`, `Submit`, `Register`, `RunReturn` are
`run_task` between two accesses of shared state; `LoopClaim` is the locked claim. `JobStart` to `JobExcept` are a job
with its pipeline reduced to `Steps` steps. `Crash` and `Restart` are the process's death and `ensure_worker`'s
recovery.

**Pipeline** with **PipelineCatalog**: one execution in full, for every built-in template, gate mode and approval mode;
`pc` follows `_execute_task_inner`, `task` and `run` are the job's own objects, `store` and `runs` the files, `git` the
worktree, its branch and whether the work has landed. Two executions at once are Dispatch's subject; here the next one
starts when the last is over. **RunLedger** is the abstract specification of the run records: opened one after another,
closed once, never changed afterwards. Pipeline implements it (`LedgerKept`, a refinement by `INSTANCE ... WITH`).

**Control**: config.yaml, `_stop`, `_drain`, the loop thread statement by statement, control requests split where the
code reads and writes config.yaml, the command line as a second process, jobs only as queued or running. `Queue` is a transition or
a retry, which may make a running task ready; `LoopClaim` then claims it again and `LoopRegister` overwrites its future,
as the code does, and the job that finds the worktree taken fails. `late` and `twice` are history variables: the claims
made since config.yaml last said running, and the tasks that were claimed or run while they had a job. Feedback, comments and import jobs are sections
of the same file; their handlers read it, change their section and write the whole (`Section`, `SectionSave`), and so
can undo a pause or a resume of another process.

**TaskGraph**: blockers as a graph, reachability, acyclicity; **Blockers**: the graph that an algorithm is given.
**CycleCheck**: `_has_cycle`, one iteration a step. **Batches**: `_execution_batches`, one task counted off a step.
**MCGraph** runs both over all graphs of three tasks.
**Dependencies**: who waits for whom. `loop` and `api` are the threads that analyse and edit, each with its snapshot of
the board and the upserts it has decided on (`writes`), which `LoopFlush` and `ApiFlush` make one at a time. `job[j]` is
a job with its task and its own copy of it, which `JobWrite` writes back whole with another status (`After`); a task may
have two jobs, since neither a claim nor `Queue` looks for one. An analysis is `Gather`, `Ask`, `Apply`, `Mark`; the
requests are `Queue` (a transition, or a retry of any task), `Run` to `RunReturn` (`POST /run`, which goes on while the
scheduler is paused), add, remove, reset, `Patch` (another blocked_by), analyse, and those that make tasks: `Create`
(one), `Import` (a chain, each task written a second time from memory), `Generate` to `CloseParent` (a plan's tasks,
wired up blocker by blocker). `before` and `raced` are history variables: what an import listed before a task and has
not been done yet, and the tasks whose ends a request changed while they had a job. `world` says which tasks there are
at first, which requests clients make, how many jobs there may be, and whether the scheduler is paused; a pause leaves
the jobs that run alone, so a paused world may begin with some.

**Worker**: one call of `run_step`, from the choice of a worker to its StepResult. `pc` follows `run_worker` and
`_map_result`; `check`, `wait`, `term`, `join` are the loop of `_run_codex_worker`, `connect`, `stream`, `read` that of
`_run_ollama_generate`. `proc` is the subprocess, which speaks, asks for a human and ends as it likes; `now` is the
clock, which only moves (`Tick`) while the code waits; `late`, `stalled`, `failed` are the fields of WorkerRunResult.
`broken` says that the stream has timed out once: the code goes on reading, but Python's socket file refuses to. The
socket's timeout is one for each recv: `Drag` is a part of a line, or of the headers, that puts the end of the wait off,
and `dragged` remembers it.

**EventHub**: the connections of dashboards (`conn`), publications that are handed to the event loop (`scheduled`) and
those that await a send (`pubs`). `Begin`, `SendOk` and `SendLost` go from one await to the next: the loop over the
dict of clients finds the next one (`NextSend`), ends and drops stale clients (`Finish`), or dies since the dict has
changed (`CutShort`: Python's RuntimeError). **QuickActions** extends it: `store` is quick_actions.yaml, `exec[q]` the
thread of a run with its own copy, `api` the request being served. `Create`, `QueueRun`, `Submit` are the three parts of
POST /quick-actions, `Start` to `Saved` the execution (`ExecuteShortcut`, `ExecuteAgent`), `Promote` to `Promoted` a
promotion, `Kept` the merge that the repository's upsert does. The event loop publishes and serves dashboards only
between requests (`api.pc = "idle"`), while threads write at any time. What a dashboard shows is history: `current`
says that it is what is stored, `missed` that an event may have passed it by since it read. `Follows` is a dashboard
that has been connected and subscribed since it read, `Coming` an event that it has heard or that is on its way to it.

The modules overlap on purpose. Each keeps in full what its properties are about and makes the rest coarser, never
absent: where Pipeline makes a handler one step, Dispatch splits it; where Dispatch has `Steps` equal steps, Pipeline
has the template. A single composition of Dispatch and Pipeline is beyond TLC already for one task.

## 3. The runs

| run | instance | checks |
|---|---|---|
| DispatchExclusive | one gated task in git, two jobs, six endpoints | `OneExecutionPerTask`, `WorktreeHasOwner`, `RunReturns` |
| DispatchChain | two tasks, one blocking the other, three jobs, no git, crashes, review endpoints | `InProgressHasOwner`, `BlockersFinishFirst`, `DoneIsFinal`, `RunnableSettles` |
| Pipeline | every shape of template, mode, approval, git or not; two executions, two reviews; exceptions, crashes, retries, cancels, branches removed by hand | `ReviewedCommit`, `FixesBetweenReviews`, `ReviewsBounded`, `CompletedMeansLanded`, `LandedSettles`, `RunMatchesTask`, `BranchKept`, `NothingLeftBehind`, `LedgerKept`, `Ends`, `TypeOK` |
| ControlDrain | two tasks, two jobs; pause and drain, `POST /run`, transitions and retries, sections of config.yaml, a command line that pauses and resumes, crash | `PauseTakesHold`, `DrainWaits` |
| ControlEnds | one task, two jobs, every request of the server | `StopEnds`, `DrainEnds` |
| Graph | all graphs of three tasks, all edges, all sets of tasks on the board | `AnswerRight`, `OrderRight`, `Answers` |
| Deps | nine worlds of at most three tasks: queued, reopened, analysed and executed by two jobs; created meanwhile; imported beside one job, beside two and beside `POST /run`; edited, reset and requeued while paused, with a job that was left or `POST /run`; generated, imported and edited while paused; patched | `NobodyWaitsForItself`, `EndsAgree`, `ImportInOrder`, `EveryTaskAnalysed`, `TypeOK` |
| Quick | five worlds: two dashboards and a run; a dashboard that changes its subscriptions; two runs, promotions and a crash; a server's run beside a command line's; a pattern that is no regular expression | `LimitHolds`, `PromotedOnce`, `RunEnds`, `EventOnItsWay`, `CatchesUp` |
| WorkerStep | one step, command line or model, of three categories, any output and silence | `RunBounded`, `SilenceEnds`, `NothingLeft`, `OkMeansFinished`, `Ends` |

Every module's type invariant is proved (section 4). It is run as well for Pipeline and Dependencies, whose types say
something of the code: no position beyond a template's steps, no more reviews than `MaxReview`, no dangling object in an
analysis.

Three runs show disagreements between the code and what the repository says of it:

| run | what it shows |
|---|---|
| DispatchCancelLost | A cancelled task leaves "cancelled" when its job writes back its own copy; VALID_TRANSITIONS allows only backlog. |
| WorkerUnheard | `run_worker` returns an empty `response_text` for codex and claude, so the edges that an analysis prints (as the findings of a review) never reach the pipeline; a comment says that the text is always parsed. |
| ControlResume | A drain or a stop ends the loop thread for good; a later resume writes "running" and nothing runs. The README lists resume as a control. |

### 3.1 What the restricted instances leave out

A property is checked where the code keeps it; each restriction below is a place where it does not, or where the state
space is too large, and says which.

- `OneExecutionPerTask` is a promise of git projects only: outside git nothing keeps two jobs of a task apart
  (`run_task` and the loop submit the same task; see the hazard at `service` 267). The property says `InGit =>`.
- `WorktreeHasOwner` and `OneExecutionPerTask` run without crashes for size; the theorems cover crashes.
- `DispatchChain` leaves out the endpoints that write back a stale task at will (patch, transition, retry, cancel,
  approve-gate, run): with them `DoneIsFinal` and `BlockersFinishFirst` do not hold, which the hazards at `service` 229
  and `repos` 150 describe, and `InProgressHasOwner` fails with transition, patch and approve-gate. It holds with all
  of `OwnedOps`; that is theorem `OwnedProgress`.
- `CompletedMeansLanded` assumes that git commits succeed (`CommitFails = FALSE` in Pipeline). `_commit_for_task`
  (`service` 473) turns a failed commit into None and nobody looks: the merge has nothing to do, the worktree is
  removed by force and the task is done without its work. With `CommitFails = TRUE` TLC shows it in a few steps.
- `NothingLeftBehind` has the exceptions that the code has. A restart removes the worktree but leaves its name in the
  task until the next execution. A branch stays for recovery after a conflict; when `git worktree add` failed, since it
  is not the execution's own; and when the process died after the worktree was removed and before its branch was: orphan
  cleanup goes by directories and does not see it, and the task's next `git worktree add -b` fails.
- `LandedSettles` leaves out branches that users took away by hand: metadata.merge_conflict is set by a conflict and
  never cleared, so if somebody merges the kept branch himself and retries the task, the execution that follows merges
  well and is blocked all the same.
- `RunBounded` and `Ends` are stated for prompts that the worker's pipe takes (`PromptFits`): the prompt is written
  before the watch begins, and a worker that does not read blocks the write without a timeout. And they exempt a model
  server that sends a part of a line, or of its headers, and not the rest (`dragged`): the timeout of `workers/run.py`
  207-222 is one for each recv, so `readline` and `urlopen` have no end while bytes drip in. The step is then bounded by
  one recv after the latest bytes, which is what `RunBounded` says of it.
- `NothingLeft` is about watches that end without an exception. `_load_data` raises UnicodeDecodeError when it reads
  progress.json while the worker writes it and the text ends within a character; `run_step` turns that into an error,
  and the worker goes on (`Abandon`, after which `pc` is "abandoned"). `test_worker` may raise as well (`ProbeRaises`).
- `NothingLeft` is also about the worker's own process: what it has started is not terminated by the code.
- `DrainWaits` exempts the tasks of `twice`: a task has one future. A retry of a running task, or a transition from
  in_progress to ready (`router` 179, 754-772), lets the loop claim it again and overwrite its future (`service` 200-202);
  `POST /run` drops, when it returns, whichever future is registered (`service` 248). A drain then ends while the first
  job runs, against the comment at `test_orchestrator_parallel.py` 258. Without the exemption TLC shows it.
- `DrainEnds` exempts clients that queue or run tasks for ever: each claim is a tick that handled something, so the drain
  does not end (`service` 256-259).
- `NobodyWaitsForItself` is stated for worlds where clients make tasks, queue those that wait and reopen those that are
  done. The rest lets cycles in. TLC finds one for `POST dependencies` and for plans, which look for none; for a second
  analysis, since each looks in its own snapshot; for PATCH beneath a job, which brings back the edge that another analysis, not having seen it, contradicts;
  and for two tasks made ready while they run (`router` 179), each with two jobs and two copies, the older of which
  brings back an edge. Remove and reset undo an edge beneath a job as PATCH does; imports make running tasks ready by
  their second upsert and write their tasks from memory: for these three no counterexample was found on the small
  boards that were tried, and nothing is claimed. All tasks count in it, those that are done too.
- `ImportInOrder` asks that everything listed before a task has been done *once* when the task gets a job. An import's
  second upsert makes a task ready that runs or is done by then, so it may run again while the later ones do; the code
  allows that. It is stated for worlds without requests that take dependencies away (remove, reset, patch), which means
  to change the order, or write a task they read long before (analyses by request, plans).
- `EndsAgree` is stated while the scheduler is paused, since an analysis writes back what it read long before. Jobs go on
  then, those of `POST /run` among them, and write their tasks whole: the property exempts the tasks of `raced`, whose
  ends a request changed while they had a job that takes the change back. It is also without `POST /tasks` and PATCH,
  which take blocked_by as the client sends it and tell no blocker.
- `LimitHolds` counts the server's runs: a command line does not look at the limit.
- `PromotedOnce` allows one more task for each death: a server that dies between the task and the link leaves a run that
  can be promoted again.
- `RunEnds` leaves out what the code does not do: runs of a dead server stay as they are for ever (and count against the
  limit), a promotion writes back the run it read, so one that has ended meanwhile may say running again, and a
  user's pattern that is no regular expression makes `match_prompt` raise outside the `try` of the executor.
- `EventOnItsWay` is the safety core of `CatchesUp`; both say nothing of a dashboard that a publication did not reach because it was cut short (`missed`): the
  code loses that event for it, until the next one or a reload. EventHub also takes `id(websocket)`, the key of a
  client, as never used twice.

### 3.2 Bounds

- Dispatch: job slots are reused once nothing refers to them; one more than the submitters that can hold one lets a
  queued, a running and a finished job of a task coexist. One pipeline step is enough to have a write before and after
  a gate. Two tasks are enough for a blocker and its dependant, and for two places of concurrency.
- Pipeline: `MaxReview` 2 gives a first and a last review with a fix between them; `MaxRuns` 2 and `MaxRetries` 1 give
  an execution after one that failed, was cancelled or was interrupted. Modes are all there are but review_only, whose
  gates are collaborative's; types are all whose gates, edits, review and commit lie differently (`MCTypes`).
- Worker: a unit of time is 5 s. Poll, grace and the socket's timeout are 15 s (3), the time to terminate 5 s (1), as
  in the code; the timeout of 35 s (7) gives two polls before it and one that straddles it.
- Control: one limit suffices, since a settings request is interesting for the status it writes back; `late` counts to
  two only if the property fails. A job's slot is free again when nothing refers to it; two jobs are the least for a task
  that is claimed again while it runs.
- Graph: three tasks contain self-loops, two-cycles, three-cycles, diamonds of two paths, and missing blockers.
- Dependencies: two tasks that are there are the least that can wait for each other, by an edge that an analysis finds
  and one that a job, another analysis's memory or a reopened task holds; a third is the new task of a request. A chain
  of three imports has a task that is both a blocker and blocked. Two jobs let one task have two. One edge an analysis
  finds is enough beside them: that an edge is checked against those found before it in the same analysis is asked, for
  graphs of three tasks, by `Graph`, and proved for any number. One run with nine worlds asks of each combination of
  requests what can go wrong in it; all requests on one board are beyond TLC, and are what the proofs are for.
- Worker: `Horizon` is when a prompt being written, or a line being dragged on, ends at the latest, after the timeout;
  no property depends on its ending (`Ends` and `RunBounded` exempt both).
- Quick: `MaxPending` 1 of 32 puts the second run at the limit; `MaxArrivals` 2 lets a client come while a publication
  goes through the dict, or one come back; `MaxPubs` 2 lets two publications overlap. Dashboards and crashes are in
  different worlds: a crash drops all connections, and nothing of the runs depends on them.

### 3.3 Fairness

- The loop thread (`WF` of its steps): a daemon thread that only sleeps a second and reads files.
- Pool threads (`WF` per job): worker calls return. `run_worker` times out, but for two cases that are assumed away here
  and modelled in Worker: a subprocess that does not read its prompt, and a model server that drips a line for ever
  (section 3.1). Gates end after at most 3600 s, which is an action of the job (`JobAbort`, `GateAborted`), so nobody has
  to answer.
- A handler that has been entered goes on (`WF` of `Serve`, `ApiWrite` and the like), and so does a command.
- In MCGraph both algorithms go on: each is a plain function of one request or tick.
- In Worker the thread goes on when it can, and time passes when it cannot; neither a subprocess nor a server owes
  anything.
- In Dependencies the loop goes on; jobs and requests owe nothing, even half-way.
- In QuickActions the event loop goes on (`Serve \/ Publish`), a thread that executes a run goes on, since its worker
  call or command ends (both have timeouts), and a dashboard that heard an event reads again: the web client does so for
  every event. No dashboard has to connect, subscribe, stay or reload.
- Clients owe nothing: no request has fairness. Neither have a crash and a restart.
- Nothing is strongly fair.

`DrainEnds` is stated for the case that clients do not queue or run tasks for ever: each such task keeps a drain waiting.
`RunnableSettles` allows for blockers being taken back and for the death of the server.

## 4. The proofs

TLAPS proves these for every value of the constants that the named assumptions admit (any sets of tasks, jobs, runs
and limits; `DispatchAssumption`, `ControlAssumption`, `QuickAssumption`, ...). TLC evaluates the assumptions in every run.

**DispatchProofs**
- `TypeCorrect`: `Spec => []TypeOK`. Its substance is that a busy thread always holds a whole task to write.
- `ExecutionsExclude`, `WorktreesOwned`: `OneExecutionPerTask` is not inductive, since two jobs may be between the
  claim and the worktree. `WorktreeInv` adds that an execution past `git worktree add` is the one its task's branch
  names, that outside git there are no branches, and that a dead process has no busy threads. Two such executions name
  the same branch, hence are one. This is the argument on which the code relies, without saying so, in git projects.
- `OwnedProgress`: assuming `ApiOps \subseteq OwnedOps`. `OwnedInv` adds that neither a closing job nor a handler is
  about to write in_progress.
- `WritersExclude`, `BlockersFirst` (`BlockersFinishFirst`), `DoneStays` (`DoneIsFinal`): assuming
  `ApiOps \subseteq ReviewOps`, the requests that write only what they found in review; section 3.1 says what the others
  do. `SettledInv` says that each task has at most one writer (the loop's claim, one job, or the handler of a review) and
  what status the task has then, at which nobody else takes it up. So a job that writes finds its task in progress, and
  no late write finds one that is done; and blockers that were done at the claim stay done while the job works. Deaths
  of the server are included: recovery writes only tasks in progress, and a dead process has no writers.

**PipelineProofs**, for any task types, modes, limits and numbers of executions. Each part of the invariant is
preserved by every action given the parts before it:
- `TypeCorrect`, `TypesAlways`: `TypesInv` adds to the types which step stands at which place.
- `RunsMatch` (`RunMatchesTask`): `RunInv`, the last record is open while an execution works and is saved with the
  status the task was given.
- `LedgerImplemented` (`LedgerKept`): the refinement of RunLedger. The mapping takes the statuses of the records and
  whether an execution is going to close the last of them; each step of Pipeline is then an opening, a closing, an
  interruption or a stutter (`LedgerStep`), given `RunInv` and `RecordsInv`.
- `BranchSurvives` (`BranchKept`), `LeavesNothingBehind` (`NothingLeftBehind`): `TreeInv` says at each place whether the
  worktree and its branch exist and who knows; `ConflictInv` that a conflict in the task, or in the file, stands for a
  branch with commits. One conjunct of it is there because metadata.merge_conflict is never cleared: an execution that
  starts with a worktree of its own can only do so if no stored conflict kept the branch.
- `LandedIsSettled` (`LandedSettles`), `CompletedHasLanded` (`CompletedMeansLanded`): the latter assumes
  `CommitFails = FALSE`, see section 3.1.
- `CommitsAreReviewed` (`ReviewedCommit`), `FixesComeBetween` (`FixesBetweenReviews`), `ReviewsAreBounded`
  (`ReviewsBounded`): `PhaseInv` says what is logged by each place, `OpenInv` how far behind a review that asked for
  changes lies (its fix and the verification come next, and nothing else), `CountInv` that a review is counted before it
  is logged.

**ControlProofs**
- `TypeCorrect`.
- `PauseHolds`: `PauseInv` adds that `late` is 0 while config.yaml says running, and while the loop stands between the
  configuration it read and the claim. Each write of config.yaml is a case of its own.
- `DrainHolds` (`DrainWaits`), for any requests: `DrainInv` adds that each job, but for the moment between submission and
  registration in which the loop cannot decide that the drain is over, is among the futures, unless its task was taken
  up while it had a job (`twice`); and that a task that is not in `twice` has one job at most, and none while the loop is
  going to submit it.

**GraphProofs**
- `SearchRight`: `_has_cycle` says yes exactly if there is a path from the dependant to its blocker. `SearchInv`: all
  that is on the stack or visited is reachable from the start, and the successors of what is visited are visited or on
  the stack; so when the stack is empty the visited tasks are a closed set without the goal.
- `AddingIsSafe`: an edge that is let pass keeps an acyclic graph acyclic (`EdgeKeepsAcyclic`, by closed sets: a
  path is characterised by the sets closed under successors, which avoids induction on its length).
- `BatchesRight` (`OrderRight`), for any finite board: `OrderInv` says that a counter counts the blockers that have not
  been counted off (`Left`), and that a task is in a batch, or in the next one, exactly as soon as none is left; so what
  is in no batch when the next one is empty has a blocker that is in none either.

**DependenciesProofs**, for any number of tasks, jobs, edges and imports:
- `Whole`, `TypeCorrect`: `TypesInv` says that every object in a thread's hands is a whole task and that inferred
  blockers are tasks that exist, a statement about four copies of the board (store, jobs, the two analyses) and the
  upserts between them.
- `NobodyWaits` (`NobodyWaitsForItself`), where requests make tasks, queue and reopen only: acyclicity of the store is
  not inductive, since a job or a pending upsert may write back edges from a copy. `CalmInv` says that the store and the
  board that the loop's analysis has in memory have no cycle (`Sane`), that each edge of the store is in that memory and
  nothing is ready there that is not so any more (`Ahead`), that what the analysis is going to write is what it has in
  memory (`WritesBack`), and that jobs (`Held`) and pending requests (`Pending`) have the blockers that the store has; so
  whichever object is written last, no edge appears that the memory had not checked. The lemmas `FewerEdges`, `NewEdge`,
  `WrittenOver` and `NewTaskAtEnd` carry `AddingIsSafe`'s argument on one graph over to boards that lag behind each other.
- `ImportsRunInOrder` (`ImportInOrder`): `OrderInv` is about `Copies`, all objects of a task wherever they are. Every
  imported task that waits for others hangs on the one listed before it in each of its copies (`Link`); a copy that has
  started belongs to a task that waits for nobody any more, and nobody waits for one of which a copy is done. Each step
  makes only copies that inherit from older ones (`Heir`) or are allowed to start or end (`Allowed`).
- `EndsKept` (`EndsAgree`): between the two upserts of a request the ends do differ, and an analysis keeps its own copy.
  `AgreeInv` is about the board to which the pending upserts lead (`Leads`: of every task the last that is written of
  it). Its dependencies have both their ends (`Agreeing`), but for the tasks of `raced` and for blockers that a removal
  or a reset has yet to tell; it has the ends of the board that an analysis holds (`SameBoard`); and it is without the
  one object that a plan or a reset still changes in memory, which is put in its place (`With`). A job's copy has the
  ends that the store has, or its task is in `raced` (`JobsAgree`), so that its writes change nothing that counts
  (`SameOn`). An upsert that is made changes nothing about where the request leads (`FlushLeads`), but may put its task
  in `raced` (`AgreeGrows`). A paused loop writes nothing (`PausedInv`).

**WorkerProofs**, for any timeout, grace, poll interval, time to terminate and socket timeout:
- `TypeCorrect`: types, and that no wait that the code has given an end is overdue; the end of a wait for a server's bytes
  is put off by each of them.
- `WorkerGone` (`NothingLeft`), `OkFinished` (`OkMeansFinished`): `PlaceInv` says what is known of the process at each
  place; past `term` it is gone, whether it went by itself or was killed.
- `Bounded` (`RunBounded`): `TimeInv` bounds the clock, or the end of the wait in progress, at each place: at most a
  poll beyond the timeout when it is noticed, three terminations more at the end; in a stream a recv beyond the timeout,
  or beyond the latest bytes of a server that drags.
- `SilenceNoticed` (`SilenceEnds`): no wait is begun that would outlast a grace and a poll (`SilenceInv`).

**EventHubProofs** and **QuickActionsProofs**, for any set of runs, dashboards and messages, and any limit:
- `TypeCorrect` (`RunsOK`: a thread or a request that is going to write a run holds a whole one), `LinkSurvives`
  (`LinkKept`: `Kept` carries the stored link over whatever copy is written).
- `PromotionOnce` (`PromotedOnce`): `PromotionInv` adds that a copy which knows of a promotion is of a run whose link is
  stored, that while a request promotes a run its link is not stored yet (handlers exclude each other, so nobody else
  promotes), and that a task beyond the crashes is linked, or about to be.
- `LimitIsKept` (`LimitHolds`): the bound itself is not inductive, since a run is counted in one step and written in
  another, and a promotion writes back a run that may have ended. `LimitInv` therefore bounds `Claims`: the runs that
  pend, the one a request has been let in for, and the one a promotion holds as pending. It adds that a thread that has
  not saved its result belongs to a run that pends, in the promotion's copy too, so that its write of "running" claims
  nothing new. Only `Create` makes `Claims` grow, and it has counted.
- `NobodyForgotten` (`ConnectedIsKnown`): a publication takes out the clients whose send failed at its end, after awaits
  in which clients came and went. `PlaceInv` says that no two connections have had the same place, and that what a
  publication holds to be stale is broken or gone. EventHubProofs shows that every step of a publication (`PublishGoes`
  brings its kinds into one form, `PublishEffect`) and of a connection (`ConnEffect`) keeps that.
- `NoEventLost` (`EventOnItsWay`): the same lemmas show that an event on its way to a dashboard that follows is still on
  its way, or heard, after each step of the hub: the next client a publication goes to has the least place among those
  ahead of it (`GoOnEffect`), and one that is cut short marks whom it misses. `DashInv` adds that who has written a run of
  the server is at a place before its event.
- `TypesRight` (`TypeOK`): includes that a publication which begins finds a free number (`FreeNumber`, by counting).

`AddingIsSafe`, `LinkSurvives`, `NobodyForgotten` and the types of Dispatch, Control, Worker and QuickActions have no run:
the proofs say more. The invariants that carry the proofs were checked by TLC on the instances of the runs before.

Only model-checked: liveness (`RunReturns`, `RunnableSettles`, `StopEnds`, `DrainEnds`, `Ends`, `EveryTaskAnalysed`,
`Answers`, `RunEnds`, `CatchesUp`), because the prover does not treat fairness and ENABLED. Every safety property of the
passing runs is proved.

## 5. Not modelled, and the plan

Not modelled for good: prompts, parsing, formatting and diagnostics (text); the dashboard (a client); argument parsing;
bootstrap and archiving of old state (pure I/O). Agents are records whose status one handler each sets; the executor
picks one that is running and nothing depends on which. Where the text of a section (settings, feedback, comments,
import jobs) does not matter, only the write of the whole configuration is modelled.

Left out of modelled components: the expiry and pruning of import jobs; children_ids and the generate_tasks step of a
pipeline, which calls the same function without depends_on; `auto_deps` switched off; sequence numbers and other
channels of the hub; templates registered at run time; several projects in one server, one service each.

What would extend the project, in this order:

1. **Worktrees**: merges of several tasks into one run branch under `_merge_lock`.
2. A second live server after a shutdown that did not wait long enough; storage failures (a raise in a tick ends the
   loop); a crash inside a write.

A run asks all the questions that one instance can answer, over several small worlds where that keeps it small.
