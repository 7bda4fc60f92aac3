------------------------------- MODULE Control -------------------------------
(***************************************************************************)
(* The scheduler's life: the loop thread, what pause, resume, drain and    *)
(* stop do to it, and config.yaml, which all of them read, change and      *)
(* write back whole.                                                       *)
(*                                                                         *)
(* Actors: the loop thread, the server's event loop ("api", one handler at *)
(* a time), a command line started beside the server ("cli", a process of  *)
(* its own with an OrchestratorService of its own that starts no loop),    *)
(* and the pool's jobs.                                                    *)
(*                                                                         *)
(* Abstracted: a job is only queued or running; handlers that touch tasks  *)
(* are one step (module Dispatch splits them); blockers, gates and the     *)
(* size of the pool are Dispatch's too; a POST /run that finds its task in *)
(* progress, and only waits for the job, is left out.  config.yaml is      *)
(* reduced to orchestrator.status and orchestrator.concurrency.            *)
(***************************************************************************)
EXTENDS Integers, FiniteSets

CONSTANTS
  Tasks,       \* task ids
  None,        \* model value: no value
  Jobs,        \* bound: jobs that somebody still refers to
  Limits,      \* values of orchestrator.concurrency
  ApiOps,      \* the requests clients make
  CliOps,      \* "agent-orchestrator orchestrator control ..."
  CanCrash     \* the server process may die

Actions == {"pause", "resume", "drain", "stop"}
Cfg == [status : {"running", "paused", "stopped"}, limit : Limits]
Status == {"backlog", "ready", "in_progress", "blocked", "done"}

ASSUME ControlAssumption ==
  /\ Limits \subseteq Nat \ {0}
  /\ ApiOps \subseteq Actions \cup {"settings", "section", "run", "queue", "shutdown"}
  /\ CliOps \subseteq Actions
  /\ CanCrash \in BOOLEAN
  /\ None \notin Tasks \cup Jobs \cup Cfg \cup Actions

VARIABLES
  cfg,         \* config.yaml
  late,        \* history: claims since config.yaml last said running
  stop, drain, \* OrchestratorService._stop, ._drain of the server
  loop,        \* the loop thread
  api, cli,    \* a request and a command being served
  task,        \* status of every task in tasks.yaml
  job,         \* the jobs in the pool
  futures,     \* _futures: which job of the task is registered
  twice        \* history: tasks claimed, or run by a request, while they may have
               \* a job already

flags == <<stop, drain>>
work == <<task, job, futures, twice>>
vars == <<cfg, late, flags, loop, api, cli, work>>

LoopStart == [pc |-> "top", snap |-> None, task |-> None, job |-> None, handled |-> FALSE, inflight |-> FALSE]
ApiIdle == [pc |-> "idle", op |-> None, snap |-> None, task |-> None, job |-> None]
CliIdle == [pc |-> "idle", op |-> None, snap |-> None]
NoJob == [pc |-> "none", task |-> None]
NoJobs == [j \in Jobs |-> NoJob]

Init ==
  /\ cfg \in [status : {"running"}, limit : Limits]
  /\ late = 0
  /\ stop = FALSE /\ drain = FALSE
  /\ loop = LoopStart /\ api = ApiIdle /\ cli = CliIdle
  /\ task \in [Tasks -> {"backlog", "ready"}]
  /\ job = NoJobs
  /\ futures = [t \in Tasks |-> None]
  /\ twice = {}

-----------------------------------------------------------------------------
(* config.yaml.                                                            *)

Save(c) ==
  /\ cfg' = c
  /\ late' = IF c.status = "running" THEN 0 ELSE late

Target == [pause |-> "paused", resume |-> "running", drain |-> "running", stop |-> "stopped"]

-----------------------------------------------------------------------------
(* The loop thread.                                                        *)

\* Mutant of LoopTop: _stop is not looked at.
LoopTopForever ==
  /\ loop.pc = "top"
  /\ loop' = [LoopStart EXCEPT !.pc = "tick"]
  /\ UNCHANGED <<cfg, late, flags, api, cli, work>>

\* while not self._stop.is_set()
LoopTop ==
  /\ loop.pc = "top"
  /\ loop' = [LoopStart EXCEPT !.pc = IF stop THEN "off" ELSE "tick"]
  /\ UNCHANGED <<cfg, late, flags, api, cli, work>>

Swept ==
  [t \in Tasks |-> IF futures[t] # None /\ job[futures[t]] = NoJob
                     THEN None ELSE futures[t]]

\* Mutant of LoopTick: finished futures are never dropped.
LoopTickUnswept ==
  /\ loop.pc = "tick"
  /\ loop' = IF cfg.status = "running" THEN [loop EXCEPT !.pc = "claim", !.snap = cfg]
                                       ELSE [loop EXCEPT !.pc = "count"]
  /\ UNCHANGED <<cfg, late, flags, api, cli, work>>

\* Mutant of LoopTick: a paused orchestrator only stops the analysis.
LoopTickPausedToo ==
  /\ loop.pc = "tick"
  /\ futures' = Swept
  /\ loop' = IF cfg.status # "stopped" THEN [loop EXCEPT !.pc = "claim", !.snap = cfg]
                                       ELSE [loop EXCEPT !.pc = "count"]
  /\ UNCHANGED <<cfg, late, flags, api, cli, task, job, twice>>

\* tick_once sweeps the futures and reads the configuration, which it goes by
\* until its end, after the dependency analysis.
LoopTick ==
  /\ loop.pc = "tick"
  /\ futures' = Swept
  /\ loop' = IF cfg.status = "running" THEN [loop EXCEPT !.pc = "claim", !.snap = cfg]
                                       ELSE [loop EXCEPT !.pc = "count"]
  /\ UNCHANGED <<cfg, late, flags, api, cli, task, job, twice>>

\* The tasks of which a job is in the pool.
Live == {t \in Tasks : \E j \in Jobs : job[j].pc # "none" /\ job[j].task = t}

InProgress == {t \in Tasks : task[t] = "in_progress"}
Claimable(t) == task[t] = "ready" /\ Cardinality(InProgress) < loop.snap.limit

LoopClaim(t) ==
  /\ loop.pc = "claim" /\ Claimable(t)
  /\ task' = [task EXCEPT ![t] = "in_progress"]
  /\ late' = IF cfg.status = "running" THEN 0 ELSE late + 1
  /\ loop' = [loop EXCEPT !.pc = "submit", !.task = t, !.snap = None]
  /\ twice' = IF t \in Live \/ api.task = t THEN twice \cup {t} ELSE twice \ {t}
  /\ UNCHANGED <<cfg, flags, api, cli, job, futures>>

LoopNothing ==
  /\ loop.pc = "claim"
  /\ loop' = [loop EXCEPT !.pc = "count", !.snap = None]
  /\ \A t \in Tasks : ~Claimable(t)
  /\ UNCHANGED <<cfg, late, flags, api, cli, work>>

\* Nobody refers to j.
Free(j) == job[j] = NoJob /\ j \notin {loop.job, api.job} /\ \A t \in Tasks : futures[t] # j

\* Whether the task has a job already is not looked at.
LoopSubmit ==
  /\ loop.pc = "submit"
  /\ \E j \in Jobs :
       /\ Free(j)
       /\ job' = [job EXCEPT ![j] = [pc |-> "queued", task |-> loop.task]]
       /\ loop' = [loop EXCEPT !.pc = "register", !.job = j]
  /\ UNCHANGED <<cfg, late, flags, api, cli, task, futures, twice>>

\* The future of an earlier job of the task is overwritten.
LoopRegister ==
  /\ loop.pc = "register"
  /\ futures' = [futures EXCEPT ![loop.task] = loop.job]
  /\ loop' = [loop EXCEPT !.pc = "count", !.task = None, !.job = None, !.handled = TRUE]
  /\ UNCHANGED <<cfg, late, flags, api, cli, task, job, twice>>

\* has_inflight = bool(self._futures)
LoopCount ==
  /\ loop.pc = "count"
  /\ loop' = [loop EXCEPT !.pc = "check", !.inflight = \E t \in Tasks : futures[t] # None]
  /\ UNCHANGED <<cfg, late, flags, api, cli, work>>

\* Mutant of LoopCheck: draining does not wait for the jobs.
LoopCheckHasty ==
  /\ loop.pc = "check"
  /\ loop' = IF drain /\ ~loop.handled
               THEN [loop EXCEPT !.pc = "pause"] ELSE LoopStart
  /\ UNCHANGED <<cfg, late, flags, api, cli, work>>

LoopCheck ==
  /\ loop.pc = "check"
  /\ loop' = IF drain /\ ~loop.handled /\ ~loop.inflight
               THEN [loop EXCEPT !.pc = "pause"] ELSE LoopStart
  /\ UNCHANGED <<cfg, late, flags, api, cli, work>>

\* self.control("pause"): the configuration is read ...
LoopPause ==
  /\ loop.pc = "pause"
  /\ loop' = [loop EXCEPT !.pc = "paused", !.snap = cfg]
  /\ UNCHANGED <<cfg, late, flags, api, cli, work>>

\* ... and written back.
LoopPaused ==
  /\ loop.pc = "paused"
  /\ loop' = [loop EXCEPT !.pc = "undrain", !.snap = None]
  /\ Save([loop.snap EXCEPT !.status = "paused"])
  /\ UNCHANGED <<flags, api, cli, work>>

\* self._drain = False; break
LoopUndrain ==
  /\ loop.pc = "undrain"
  /\ loop' = [LoopStart EXCEPT !.pc = "off"]
  /\ drain' = FALSE
  /\ UNCHANGED <<cfg, late, stop, api, cli, work>>

-----------------------------------------------------------------------------
(* Requests.  control() is called on the event loop: read, flag, write.    *)

Control(op) ==
  /\ api.pc = "idle" /\ op \in ApiOps \cap Actions
  /\ api' = [ApiIdle EXCEPT !.pc = "flag", !.op = op, !.snap = cfg]
  /\ UNCHANGED <<cfg, late, flags, loop, cli, work>>

ControlFlag ==
  /\ api.pc = "flag"
  /\ drain' = (drain \/ api.op = "drain")
  /\ stop' = (stop \/ api.op = "stop")
  /\ api' = [api EXCEPT !.pc = "save"]
  /\ UNCHANGED <<cfg, late, loop, cli, work>>

ControlSave ==
  /\ api.pc = "save" /\ api.op \in Actions
  /\ Save([api.snap EXCEPT !.status = Target[api.op]])
  /\ api' = ApiIdle
  /\ UNCHANGED <<flags, loop, cli, work>>

\* PATCH /settings, orchestrator section: the status stays what was read.
Settings ==
  /\ api.pc = "idle" /\ "settings" \in ApiOps
  /\ api' = [ApiIdle EXCEPT !.pc = "save", !.op = "settings", !.snap = cfg]
  /\ UNCHANGED <<cfg, late, flags, loop, cli, work>>

SettingsSave ==
  /\ api.pc = "save" /\ api.op = "settings"
  /\ \E l \in Limits : Save([api.snap EXCEPT !.limit = l])
  /\ api' = ApiIdle
  /\ UNCHANGED <<flags, loop, cli, work>>

\* Feedback, comments, pinned projects and import jobs are lists in config.yaml
\* too: it is read again, and written back with another list.
Section ==
  /\ api.pc = "idle" /\ "section" \in ApiOps
  /\ api' = [ApiIdle EXCEPT !.pc = "save", !.op = "section", !.snap = cfg]
  /\ UNCHANGED <<cfg, late, flags, loop, cli, work>>

SectionSave ==
  /\ api.pc = "save" /\ api.op = "section"
  /\ Save(api.snap)
  /\ api' = ApiIdle
  /\ UNCHANGED <<flags, loop, cli, work>>

\* A retry, which takes a task of any status, a transition, or any other request
\* that writes back a task it has read when it was ready.
Queue(t) ==
  /\ api.pc = "idle" /\ "queue" \in ApiOps
  /\ task' = [task EXCEPT ![t] = "ready"]
  /\ UNCHANGED <<cfg, late, flags, loop, api, cli, job, futures, twice>>

\* POST /run of a task that is not in progress.
Run(t) ==
  /\ api.pc = "idle" /\ "run" \in ApiOps
  /\ task[t] \in {"backlog", "ready", "blocked"}
  /\ task' = [task EXCEPT ![t] = "ready"]
  /\ api' = [ApiIdle EXCEPT !.pc = "submit", !.op = "run", !.task = t]
  /\ twice' = twice \cup {t}
  /\ UNCHANGED <<cfg, late, flags, loop, cli, job, futures>>

RunSubmit ==
  /\ api.pc = "submit"
  /\ \E j \in Jobs :
       /\ Free(j)
       /\ job' = [job EXCEPT ![j] = [pc |-> "asked", task |-> api.task]]
       /\ api' = [api EXCEPT !.pc = "register", !.job = j]
  /\ UNCHANGED <<cfg, late, flags, loop, cli, task, futures, twice>>

RunRegister ==
  /\ api.pc = "register"
  /\ futures' = [futures EXCEPT ![api.task] = api.job]
  /\ api' = [api EXCEPT !.pc = "await"]
  /\ UNCHANGED <<cfg, late, flags, loop, cli, task, job, twice>>

\* Whatever future the task has now is dropped.
RunReturn ==
  /\ api.pc = "await" /\ job[api.job] = NoJob
  /\ futures' = [futures EXCEPT ![api.task] = None]
  /\ api' = ApiIdle
  /\ UNCHANGED <<cfg, late, flags, loop, cli, task, job, twice>>

\* The application shuts down: no request is served any more.
Shutdown ==
  /\ api.pc = "idle" /\ "shutdown" \in ApiOps
  /\ stop' = TRUE
  /\ api' = [ApiIdle EXCEPT !.pc = "exiting"]
  /\ UNCHANGED <<cfg, late, drain, loop, cli, work>>

-----------------------------------------------------------------------------
(* The command line: the flags it sets are those of its own process.       *)

Cli(op) ==
  /\ cli.pc = "idle" /\ op \in CliOps
  /\ cli' = [pc |-> "save", op |-> op, snap |-> cfg]
  /\ UNCHANGED <<cfg, late, flags, loop, api, work>>

CliSave ==
  /\ cli.pc = "save"
  /\ Save([cli.snap EXCEPT !.status = Target[cli.op]])
  /\ cli' = CliIdle
  /\ UNCHANGED <<flags, loop, api, work>>

-----------------------------------------------------------------------------
(* Jobs.                                                                   *)

\* The worktree's name is written with the status the job's copy has: the loop's
\* is in progress, that of POST /run is still ready.
JobPrepare(j) ==
  /\ job[j].pc = "asked"
  /\ job' = [job EXCEPT ![j].pc = "queued"]
  /\ task' = [task EXCEPT ![job[j].task] = "ready"]
  /\ UNCHANGED <<cfg, late, flags, loop, api, cli, futures, twice>>

JobBegin(j) ==
  /\ job[j].pc = "queued"
  /\ job' = [job EXCEPT ![j].pc = "running"]
  /\ task' = [task EXCEPT ![job[j].task] = "in_progress"]
  /\ UNCHANGED <<cfg, late, flags, loop, api, cli, futures, twice>>

\* A job goes on after each write of its task, the one that ends it included.
JobWrite(j) ==
  /\ job[j].pc = "running"
  /\ \E s \in {"in_progress", "blocked", "done"} : task' = [task EXCEPT ![job[j].task] = s]
  /\ UNCHANGED <<cfg, late, flags, loop, api, cli, job, futures, twice>>

\* By a return or an exception, before the job has begun, too.
JobEnd(j) ==
  /\ job[j].pc # "none"
  /\ job' = [job EXCEPT ![j] = NoJob]
  /\ \E s \in {"blocked", "done"} : task' = [task EXCEPT ![job[j].task] = s]
  /\ UNCHANGED <<cfg, late, flags, loop, api, cli, futures, twice>>

\* The server process ends, killed, or shut down and its pool drained (the
\* loop is a daemon thread and ends anywhere), and another is started: it
\* recovers tasks, and config.yaml says what it said.
Restart ==
  /\ CanCrash \/ (api.pc = "exiting" /\ job = NoJobs)
  /\ task' = [t \in Tasks |-> IF task[t] = "in_progress" THEN "ready" ELSE task[t]]
  /\ stop' = FALSE /\ drain' = FALSE
  /\ loop' = LoopStart /\ api' = ApiIdle
  /\ job' = NoJobs
  /\ futures' = [t \in Tasks |-> None]
  /\ twice' = {}
  /\ UNCHANGED <<cfg, late, cli>>

-----------------------------------------------------------------------------
LoopStep ==
  \/ LoopTop \/ LoopTick \/ LoopNothing \/ LoopSubmit \/ LoopRegister \/ LoopCount
  \/ LoopCheck \/ LoopPause \/ LoopPaused \/ LoopUndrain
  \/ \E t \in Tasks : LoopClaim(t)

Request == Settings \/ Section \/ Shutdown \/ (\E op \in Actions : Control(op))
           \/ (\E t \in Tasks : Queue(t) \/ Run(t))

Serve == ControlFlag \/ ControlSave \/ SettingsSave \/ SectionSave \/ RunSubmit \/ RunRegister \/ RunReturn

JobStep(j) == JobPrepare(j) \/ JobBegin(j) \/ JobEnd(j)

Next == \/ LoopStep \/ Request \/ Serve
        \/ (\E op \in Actions : Cli(op)) \/ CliSave
        \/ (\E j \in Jobs : JobStep(j) \/ JobWrite(j))
        \/ Restart

Spec == Init /\ [][Next]_vars

\* The loop thread, a handler once entered, a command and the jobs keep running.
FairSpec ==
  /\ Spec
  /\ WF_vars(LoopStep) /\ WF_vars(Serve) /\ WF_vars(CliSave)
  /\ \A j \in Jobs : WF_vars(JobStep(j))

-----------------------------------------------------------------------------
(* Properties.                                                             *)

LoopPC == {"top", "tick", "claim", "submit", "register", "count", "check",
           "pause", "paused", "undrain", "off"}
ApiPC == {"idle", "flag", "save", "submit", "register", "await", "exiting"}

LoopRec == [pc : LoopPC, snap : Cfg \cup {None}, task : Tasks \cup {None},
            job : Jobs \cup {None}, handled : BOOLEAN, inflight : BOOLEAN]
ApiRec == [pc : ApiPC, op : Actions \cup {"settings", "section", "run", None},
           snap : Cfg \cup {None}, task : Tasks \cup {None}, job : Jobs \cup {None}]
JobRec == [pc : {"asked", "queued", "running"}, task : Tasks] \cup {NoJob}
CliRec == [pc : {"idle", "save"}, op : Actions \cup {None}, snap : Cfg \cup {None}]

\* Types: whoever is about to write config.yaml holds a whole configuration,
\* and whoever submits holds a task.
TypeOK ==
  /\ cfg \in Cfg /\ late \in Nat
  /\ stop \in BOOLEAN /\ drain \in BOOLEAN
  /\ loop \in LoopRec /\ api \in ApiRec /\ cli \in CliRec
  /\ task \in [Tasks -> Status]
  /\ job \in [Jobs -> JobRec]
  /\ futures \in [Tasks -> Jobs \cup {None}]
  /\ twice \subseteq Tasks
  /\ loop.pc \in {"claim", "paused"} => loop.snap \in Cfg
  /\ loop.pc \in {"submit", "register"} => loop.task \in Tasks
  /\ api.pc = "flag" => api.op \in Actions
  /\ api.pc = "save" => api.op \in Actions \cup {"settings", "section"}
  /\ api.pc \in {"flag", "save"} => api.snap \in Cfg
  /\ loop.pc = "register" => loop.job \in Jobs
  /\ api.pc \in {"submit", "register", "await"} => api.task \in Tasks
  /\ api.pc \in {"register", "await"} => api.job \in Jobs
  /\ cli.pc = "save" => cli.op \in Actions /\ cli.snap \in Cfg

\* Once config.yaml says paused or stopped, whoever wrote it, the loop claims
\* at most one more task, the one whose tick had read running before.
PauseTakesHold == late <= 1

\* What makes it inductive: after that claim the loop is no longer in a tick
\* that read running.
PauseInv ==
  /\ PauseTakesHold
  /\ cfg.status = "running" => late = 0
  /\ loop.pc = "claim" => late = 0

\* The loop has decided that draining is over.
Drained == loop.pc \in {"pause", "paused", "undrain"}

\* test_orchestrator_parallel.py:258: "Drain should not pause until all
\* in-flight tasks complete."  _futures keeps that promise, although jobs are
\* registered after they were submitted, for every task but one that was claimed
\* again, or run by a request, while it had a job: a task has one future only.
DrainWaits == Drained => Live \subseteq twice

\* What makes it inductive: but for the moment before it is registered the job
\* of any other task is in futures as long as it lives, and such a task is taken
\* up by nobody else.
DrainInv ==
  /\ DrainWaits
  /\ \A j \in Jobs : job[j].pc # "none" /\ job[j].task \notin twice =>
       futures[job[j].task] = j
       \/ (loop.pc = "register" /\ loop.job = j /\ loop.task = job[j].task)
  /\ loop.pc = "check" /\ ~loop.inflight => Live \subseteq twice
  /\ loop.pc = "submit" /\ loop.task \in Live => loop.task \in twice
  /\ loop.pc = "register" /\ loop.task \notin twice =>
       \A j \in Jobs : job[j].pc # "none" /\ job[j].task = loop.task => j = loop.job
  /\ api.pc \in {"submit", "register", "await"} => api.task \in twice

\* Draining ends: the loop runs out of tasks to claim, then of jobs, and exits,
\* unless requests make tasks ready, or run them, for ever: each claim puts the
\* end off, a claim of a task that cannot start, too.
DrainEnds ==
  \/ []<><<\E t \in Tasks : Queue(t) \/ Run(t)>>_vars
  \/ drain /\ loop.pc # "off" ~> loop.pc = "off" \/ ~drain

\* _stop ends the loop, whatever it was doing.
StopEnds == stop ~> loop.pc = "off" \/ ~stop

\* README.md:16: "Control orchestrator execution (`pause`, `resume`, `drain`,
\* `stop`)."  So with config.yaml at running a ready task does not wait for ever.
RunningRuns ==
  \A t \in Tasks : cfg.status = "running" /\ task[t] = "ready" ~>
    cfg.status # "running" \/ task[t] # "ready"
=============================================================================
