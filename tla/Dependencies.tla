---------------------------- MODULE Dependencies ----------------------------
(***************************************************************************)
(* Who waits for whom: the dependency analysis of the scheduler loop and   *)
(* of POST /tasks/analyze-dependencies, the dependency endpoints, those    *)
(* that make tasks (one, from a PRD, from a plan), and the jobs that       *)
(* meanwhile run the tasks.                                                *)
(*                                                                         *)
(* An analysis reads all tasks, asks a worker for edges, which takes long, *)
(* and then writes back the objects it read.  The endpoints read and write *)
(* two tasks; jobs write the object they were given; an import writes the  *)
(* objects it made, twice, and a generation the parent it read.  Every     *)
(* upsert is a step of its own.                                            *)
(*                                                                         *)
(* Abstracted: gates, the limit on tasks in progress and cancels (Dispatch *)
(* has them); a POST /run that only waits for a job; what a worker finds   *)
(* is any sequence of edges or new tasks; ids are the next that are free;  *)
(* parents are no blockers, and their children_ids are left out, as is all *)
(* that PATCH writes but blocked_by.                                       *)
(***************************************************************************)
EXTENDS Integers, Sequences, FiniteSets, TaskGraph

CONSTANTS
  Tasks,      \* task ids
  None,       \* model value: no value
  Jobs,       \* jobs
  Worlds      \* the surroundings the program may find itself in

\* Requests: transitions and retries, of a task that waits, of one that is done
\* and of any, with a job or not; those that run a task, write its dependencies,
\* or make tasks.
Ops == {"queue", "reopen", "requeue", "run", "add", "remove", "reset", "patch", "analyze",
        "create", "import", "generate"}

\* The tasks there are at first, whether an analysis found their edges, whether
\* the scheduler is paused and its last tick over, the requests that clients make,
\* and bounds: on the edges that one analysis finds, and the jobs at a time.
World == [there : SUBSET Tasks, found : BOOLEAN, paused : BOOLEAN, ops : SUBSET Ops,
          edges : Nat, jobs : SUBSET Jobs]

\* Task: status, blocked_by, blocks, metadata.inferred_deps, .deps_analyzed, and
\* whether source is "prd_import".  "backlog" is any status that waits for a
\* client: backlog, blocked and in_review.
TaskRec == [status : {"backlog", "ready", "in_progress", "done"}, by : SUBSET Tasks, blocks : SUBSET Tasks,
            inferred : SUBSET Tasks, analyzed : BOOLEAN, imported : BOOLEAN]

ASSUME DependenciesAssumption == Worlds \subseteq World /\ None \notin TaskRec

NewTask == [status |-> "backlog", by |-> {}, blocks |-> {}, inferred |-> {}, analyzed |-> FALSE,
            imported |-> FALSE]

VARIABLES
  world,     \* the surroundings of this behaviour
  store,     \* tasks.yaml
  job,       \* the jobs, with the task of each and the object it has of it
  loop, api, \* the two threads that analyse and that edit
  before,    \* history: of every task, those that its import listed before it and
             \* that no job has written as done yet
  raced      \* history: the tasks of which a request has written other ends while
             \* they had a job

history == <<before, raced>>
vars == <<world, store, job, loop, api, history>>

\* A thread: what it is doing, its snapshot of the tasks, the tasks and edges
\* still to see to, of a plan's tasks those that are made, those to be wired up
\* and the object of one, and the upserts it has decided on but not made.
Idle == [pc |-> "idle", task |-> None, dep |-> None, snap |-> None, todo |-> {}, edges |-> <<>>,
         made |-> {}, wire |-> <<>>, child |-> None, job |-> None, writes |-> <<>>]

Known(tasks) == {t \in Tasks : tasks[t] # None}

By(tasks) == [t \in Tasks |-> IF tasks[t] = None THEN {} ELSE tasks[t].by]

\* Tasks of any graph without cycles, whose edges an earlier analysis found or
\* clients asked for.
FirstTasks(by, running) ==
  [t \in Tasks |->
     IF t \in world.there
       THEN [NewTask EXCEPT !.status = IF t \in running THEN "in_progress" ELSE "backlog",
                            !.by = by[t], !.blocks = {u \in world.there : t \in by[u]},
                            !.inferred = IF world.found THEN by[t] ELSE {}]
       ELSE None]

\* A pause leaves the jobs that run alone.
Init ==
  /\ world \in Worlds
  /\ \E by \in [world.there -> SUBSET world.there], left \in [Jobs -> world.there \cup {None}] :
       /\ Acyclic(by, world.there)
       /\ \A j \in Jobs : left[j] # None =>
            world.paused /\ j \in world.jobs /\ \A k \in Jobs \ {j} : left[k] # left[j]
       /\ store = FirstTasks(by, {left[j] : j \in Jobs})
       /\ job = [j \in Jobs |-> IF left[j] = None THEN None ELSE [task |-> left[j], rec |-> store[left[j]]]]
  /\ loop = [Idle EXCEPT !.pc = "tick"] /\ api = Idle
  /\ before = [t \in Tasks |-> {}] /\ raced = {}

Has(t, status) == store[t] # None /\ store[t].status = status

\* A blocker that is not there blocks too.
Blockers(t) == {b \in store[t].by : ~Has(b, "done")}

-----------------------------------------------------------------------------
(* Upserts.                                                                *)

Write(t, rec) == <<[task |-> t, rec |-> rec]>>

\* The next upsert a thread has decided on: the whole object.
Flush(th, th1) ==
  /\ th.writes # <<>>
  /\ store' = [store EXCEPT ![Head(th.writes).task] = Head(th.writes).rec]
  /\ th1 = [th EXCEPT !.writes = Tail(@)]

-----------------------------------------------------------------------------
(* Analysis, by a thread whose record goes from th to th1.                 *)

Candidates == {t \in Known(store) : Has(t, "ready") /\ ~store[t].analyzed /\ ~store[t].imported}

\* The tasks are read; with fewer than two candidates there is nothing to ask.
Gather(th, th1, from) ==
  /\ th.pc = from /\ th.writes = <<>>
  /\ th1 = [th EXCEPT !.snap = store, !.todo = Candidates,
                      !.pc = IF Cardinality(Candidates) < 2 THEN "mark" ELSE "ask"]

EdgeSeqs == UNION {[1..n -> Tasks \X Tasks] : n \in 0..world.edges}

\* The worker answers, or fails: no edges.
Ask(th, th1) ==
  /\ th.pc = "ask"
  /\ \E edges \in EdgeSeqs : th1 = [th EXCEPT !.pc = "apply", !.edges = edges]

\* Mutant of Fits: edges are checked against the candidates' blockers only.
FitsDirectly(snap, from, to) == {from, to} \subseteq Known(snap) /\ from # to /\ to \notin snap[from].by

\* Both tasks are there and _has_cycle finds nothing against the edge.
Fits(snap, from, to) == {from, to} \subseteq Known(snap) /\ from # to /\ ~WaitsFor(By(snap), from, to)

\* The next edge: both ends are changed in memory, then written.
Apply(th, th1) ==
  /\ th.pc = "apply" /\ th.writes = <<>> /\ th.edges # <<>>
  /\ LET from == Head(th.edges)[1]
         to == Head(th.edges)[2]
         snap == [th.snap EXCEPT ![to].by = @ \cup {from}, ![to].inferred = @ \cup {from},
                                 ![from].blocks = @ \cup {to}]
     IN  th1 = IF Fits(th.snap, from, to)
                 THEN [th EXCEPT !.snap = snap, !.edges = Tail(@),
                                 !.writes = Write(from, snap[from]) \o Write(to, snap[to])]
                 ELSE [th EXCEPT !.edges = Tail(@)]

Applied(th, th1) ==
  /\ th.pc = "apply" /\ th.writes = <<>> /\ th.edges = <<>>
  /\ th1 = [th EXCEPT !.pc = "mark"]

\* Mutant of Mark: only candidates without blockers are marked.
MarkFree(th, th1) ==
  /\ th.pc = "mark" /\ th.writes = <<>>
  /\ \E t \in th.todo :
       th1 = [th EXCEPT !.todo = @ \ {t},
                        !.writes = IF th.snap[t].by = {} THEN Write(t, [th.snap[t] EXCEPT !.analyzed = TRUE])
                                   ELSE <<>>]

\* Every candidate is marked, whatever the worker said.
Mark(th, th1) ==
  /\ th.pc = "mark" /\ th.writes = <<>>
  /\ \E t \in th.todo :
       th1 = [th EXCEPT !.todo = @ \ {t}, !.writes = Write(t, [th.snap[t] EXCEPT !.analyzed = TRUE])]

Marked(th, th1, next) ==
  /\ th.pc = "mark" /\ th.writes = <<>> /\ th.todo = {}
  /\ th1 = [Idle EXCEPT !.pc = next]

Analyse(th, th1, next) ==
  Ask(th, th1) \/ Apply(th, th1) \/ Applied(th, th1) \/ Mark(th, th1) \/ Marked(th, th1, next)

-----------------------------------------------------------------------------
(* The loop: analysis, then a claim.                                       *)

LoopAnalyse ==
  /\ ~world.paused
  /\ Gather(loop, loop', "tick") \/ Analyse(loop, loop', "claim")
  /\ UNCHANGED <<world, store, job, api, history>>

LoopFlush ==
  /\ Flush(loop, loop')
  /\ UNCHANGED <<world, job, api, history>>

\* Whether a job of the task still runs is not looked at.
Runnable(t) == Has(t, "ready") /\ Blockers(t) = {}

\* The object that was claimed goes to a job.
LoopClaim ==
  /\ loop.pc = "claim"
  /\ \E t \in Tasks, j \in world.jobs :
       LET rec == [store[t] EXCEPT !.status = "in_progress"] IN
       /\ Runnable(t) /\ job[j] = None
       /\ store' = [store EXCEPT ![t] = rec]
       /\ job' = [job EXCEPT ![j] = [task |-> t, rec |-> rec]]
  /\ loop' = [Idle EXCEPT !.pc = "tick"]
  /\ UNCHANGED <<world, api, history>>

\* Nothing is runnable, or as many tasks are in progress as may be.
LoopPass ==
  /\ loop.pc = "claim"
  /\ loop' = [Idle EXCEPT !.pc = "tick"]
  /\ UNCHANGED <<world, store, job, api, history>>

-----------------------------------------------------------------------------
(* Jobs.                                                                   *)

Live(t) == \E j \in Jobs : job[j] # None /\ job[j].task = t

\* The statuses that a job gives its object after each: it begins, ends or fails,
\* and what it has ended or blocked it writes again.
After == [ready |-> {"ready", "in_progress", "backlog"}, in_progress |-> {"in_progress", "backlog", "done"},
          backlog |-> {"backlog"}, done |-> {"done", "backlog"}]

\* The object goes back whole.
JobWrite(j) ==
  /\ job[j] # None
  /\ \E s \in After[job[j].rec.status] :
       LET rec == [job[j].rec EXCEPT !.status = s] IN
       /\ store' = [store EXCEPT ![job[j].task] = rec]
       /\ job' = [job EXCEPT ![j] = [task |-> job[j].task, rec |-> rec]]
       /\ before' = [t \in Tasks |-> IF s = "done" THEN before[t] \ {job[j].task} ELSE before[t]]
  /\ UNCHANGED <<world, loop, api, raced>>

JobEnd(j) ==
  /\ job[j] # None /\ job[j].rec.status \in {"backlog", "done"}
  /\ job' = [job EXCEPT ![j] = None]
  /\ UNCHANGED <<world, store, loop, api, history>>

-----------------------------------------------------------------------------
(* Requests: one at a time.                                                *)

ApiFlush ==
  /\ Flush(api, api')
  /\ raced' = raced \cup
       {t \in Tasks : Live(t) /\ (store'[t].by # store[t].by \/ store'[t].blocks # store[t].blocks)}
  /\ UNCHANGED <<world, job, loop, before>>

ApiEnd ==
  /\ api.pc = "write" /\ api.writes = <<>>
  /\ api' = Idle
  /\ UNCHANGED <<world, store, job, loop, history>>

\* A retry, which takes a task of any status, or a transition to ready.
Queue(t) ==
  /\ api.pc = "idle" /\ store[t] # None /\ Blockers(t) = {}
  /\ \/ "requeue" \in world.ops
     \/ "queue" \in world.ops /\ Has(t, "backlog") /\ ~Live(t)
     \/ "reopen" \in world.ops /\ Has(t, "done") /\ ~Live(t)
  /\ api' = [Idle EXCEPT !.pc = "write", !.writes = Write(t, [store[t] EXCEPT !.status = "ready"])]
  /\ UNCHANGED <<world, store, job, loop, history>>

\* POST /run of a task that is not in progress: it is written as ready ...
Run(t) ==
  /\ api.pc = "idle" /\ "run" \in world.ops
  /\ (Has(t, "backlog") \/ Has(t, "ready")) /\ Blockers(t) = {}
  /\ LET rec == [store[t] EXCEPT !.status = "ready"] IN
     api' = [Idle EXCEPT !.pc = "run", !.task = t, !.snap = rec, !.writes = Write(t, rec)]
  /\ UNCHANGED <<world, store, job, loop, history>>

\* ... and the same object goes to a job, scheduler or not ...
RunSubmit ==
  /\ api.pc = "run" /\ api.writes = <<>>
  /\ \E j \in world.jobs :
       /\ job[j] = None
       /\ job' = [job EXCEPT ![j] = [task |-> api.task, rec |-> api.snap]]
       /\ api' = [Idle EXCEPT !.pc = "await", !.job = j]
  /\ UNCHANGED <<world, store, loop, history>>

\* ... for which the event loop waits.
RunReturn ==
  /\ api.pc = "await" /\ job[api.job] = None
  /\ api' = Idle
  /\ UNCHANGED <<world, store, job, loop, history>>

\* Both are read before either is written, and nothing looks for a cycle.
AddDependency(t, d) ==
  /\ api.pc = "idle" /\ "add" \in world.ops /\ {t, d} \subseteq Known(store)
  /\ api' = [Idle EXCEPT !.pc = "write",
       !.writes = Write(t, [store[t] EXCEPT !.by = @ \cup {d}])
                    \o Write(d, [store[d] EXCEPT !.blocks = @ \cup {t}])]
  /\ UNCHANGED <<world, store, job, loop, history>>

\* PATCH /tasks/{id} with another blocked_by tells no blocker.
Patch(t) ==
  /\ api.pc = "idle" /\ "patch" \in world.ops /\ store[t] # None
  /\ \E by \in SUBSET Known(store) :
       api' = [Idle EXCEPT !.pc = "write", !.writes = Write(t, [store[t] EXCEPT !.by = by])]
  /\ UNCHANGED <<world, store, job, loop, history>>

\* The blocker is read once the task has been written.
RemoveDependency(t, d) ==
  /\ api.pc = "idle" /\ "remove" \in world.ops /\ {t, d} \subseteq Known(store)
  /\ api' = [Idle EXCEPT !.pc = "unblock", !.task = t, !.dep = d,
       !.writes = Write(t, [store[t] EXCEPT !.by = @ \ {d}])]
  /\ UNCHANGED <<world, store, job, loop, history>>

\* Mutant of RemoveFromBlocker: it takes the wrong one of the two ids out.
RemoveItself ==
  /\ api.pc = "unblock" /\ api.writes = <<>>
  /\ api' = [Idle EXCEPT !.pc = "write",
       !.writes = Write(api.dep, [store[api.dep] EXCEPT !.blocks = @ \ {api.dep}])]
  /\ UNCHANGED <<world, store, job, loop, history>>

RemoveFromBlocker ==
  /\ api.pc = "unblock" /\ api.writes = <<>>
  /\ api' = [Idle EXCEPT !.pc = "write",
       !.writes = Write(api.dep, [store[api.dep] EXCEPT !.blocks = @ \ {api.task}])]
  /\ UNCHANGED <<world, store, job, loop, history>>

\* Mutant of Reset: a task without inferred blockers is not taken along.
ResetEmptyHanded(t) ==
  /\ api.pc = "idle" /\ "reset" \in world.ops /\ store[t] # None
  /\ api' = [Idle EXCEPT !.pc = "reset", !.task = t, !.todo = store[t].inferred,
       !.snap = IF store[t].inferred = {} THEN None
                ELSE [store[t] EXCEPT !.by = @ \ store[t].inferred, !.inferred = {}, !.analyzed = FALSE]]
  /\ UNCHANGED <<world, store, job, loop, history>>

\* reset-dep-analysis reads the task, takes the inferred blockers out of it,
\* sees to each of them and writes the task last.
Reset(t) ==
  /\ api.pc = "idle" /\ "reset" \in world.ops /\ store[t] # None
  /\ api' = [Idle EXCEPT !.pc = "reset", !.task = t, !.todo = store[t].inferred,
       !.snap = [store[t] EXCEPT !.by = @ \ store[t].inferred, !.inferred = {}, !.analyzed = FALSE]]
  /\ UNCHANGED <<world, store, job, loop, history>>

ResetBlocker ==
  /\ api.pc = "reset" /\ api.writes = <<>>
  /\ \E b \in api.todo :
       api' = [api EXCEPT !.todo = @ \ {b},
                          !.writes = Write(b, [store[b] EXCEPT !.blocks = @ \ {api.task}])]
  /\ UNCHANGED <<world, store, job, loop, history>>

ResetTask ==
  /\ api.pc = "reset" /\ api.writes = <<>> /\ api.todo = {}
  /\ api' = [Idle EXCEPT !.pc = "write", !.writes = Write(api.task, api.snap)]
  /\ UNCHANGED <<world, store, job, loop, history>>

\* analyze-dependencies runs the analysis on the event loop.
ApiAnalyse ==
  /\ \/ "analyze" \in world.ops /\ Gather(api, api', "idle")
     \/ Analyse(api, api', "idle")
  /\ UNCHANGED <<world, store, job, loop, history>>

-----------------------------------------------------------------------------
(* Requests that make tasks.                                               *)

\* Sequences of n new tasks.
News(n) == {s \in [1..n -> Tasks \ Known(store)] : \A i, k \in 1..n : i # k => s[i] # s[k]}

\* POST /tasks: blocked_by is what the client says, and no blocker hears of it.
Create ==
  /\ api.pc = "idle" /\ "create" \in world.ops
  /\ \E s \in News(1), by \in SUBSET Known(store) :
       api' = [Idle EXCEPT !.pc = "write", !.writes = Write(s[1], [NewTask EXCEPT !.by = by])]
  /\ UNCHANGED <<world, store, job, loop, history>>

\* The k-th task of an import, as it is made.
Item(s, k) ==
  [NewTask EXCEPT !.status = "ready", !.imported = TRUE, !.by = IF k = 1 THEN {} ELSE {s[k - 1]}]

\* Mutant of ImportWrites: the blocker is added when the task has been written.
ImportWritesLate(s) ==
  [i \in 1..(2 * Len(s) - 1) |->
     LET k == (i + 1) \div 2 IN
     [task |-> s[k], rec |-> IF i % 2 = 1 THEN [Item(s, k) EXCEPT !.by = {}]
                             ELSE [Item(s, k) EXCEPT !.blocks = {s[k + 1]}]]]

\* Every task, and before the next one the same task again, with it in blocks.
ImportWrites(s) ==
  [i \in 1..(2 * Len(s) - 1) |->
     LET k == (i + 1) \div 2 IN
     [task |-> s[k], rec |-> IF i % 2 = 1 THEN Item(s, k)
                             ELSE [Item(s, k) EXCEPT !.blocks = {s[k + 1]}]]]

\* Of every task, those that were listed before it, once an import has listed s.
Listed(s, n, old) ==
  [t \in Tasks |->
     IF \E k \in 1..n : s[k] = t THEN {s[i] : i \in {i \in 1..n : \E k \in (i+1)..n : s[k] = t}}
     ELSE old[t]]

\* POST /import/prd/commit never looks at what has become of its tasks.
Import ==
  /\ api.pc = "idle" /\ "import" \in world.ops
  /\ \E n \in 1..Cardinality(Tasks) : \E s \in News(n) :
       /\ api' = [Idle EXCEPT !.pc = "write", !.writes = ImportWrites(s)]
       /\ before' = Listed(s, n, before)
  /\ UNCHANGED <<world, store, job, loop, raced>>

\* POST /tasks/{id}/generate-tasks: the parent gets the plan and is written.
Generate(t) ==
  /\ api.pc = "idle" /\ "generate" \in world.ops /\ store[t] # None
  /\ api' = [Idle EXCEPT !.pc = "plan", !.task = t, !.snap = store[t], !.writes = Write(t, store[t])]
  /\ UNCHANGED <<world, store, job, loop, history>>

\* The worker fails, or finds nothing to do; the parent goes back as it was.
PlanFails ==
  /\ api.pc = "plan" /\ api.writes = <<>>
  /\ api' = [Idle EXCEPT !.pc = "write", !.writes = Write(api.task, api.snap)]
  /\ UNCHANGED <<world, store, job, loop, history>>

\* _create_child_tasks: every task is written.
MakeTasks ==
  /\ api.pc = "plan" /\ api.writes = <<>>
  /\ \E n \in 1..Cardinality(Tasks) : \E s \in News(n) :
       api' = [api EXCEPT !.pc = "wire", !.made = {s[k] : k \in 1..n}, !.wire = s,
                          !.writes = [k \in 1..n |-> [task |-> s[k], rec |-> NewTask]]]
  /\ UNCHANGED <<world, store, job, loop, history>>

\* The next task is read, if it has a depends_on.
WireTask ==
  /\ api.pc = "wire" /\ api.writes = <<>> /\ api.wire # <<>>
  /\ LET t == Head(api.wire) IN
     \/ api' = [api EXCEPT !.wire = Tail(@)]
     \/ \E deps \in SUBSET (api.made \ {t}) :
          api' = [api EXCEPT !.pc = "depends", !.child = store[t], !.todo = deps]
  /\ UNCHANGED <<world, store, job, loop, history>>

\* Mutant of WireBlocker: it is not told.
WireSilently ==
  /\ api.pc = "depends" /\ api.writes = <<>>
  /\ \E d \in api.todo :
       api' = [api EXCEPT !.todo = @ \ {d}, !.child.by = @ \cup {d}]
  /\ UNCHANGED <<world, store, job, loop, history>>

\* A task it depends on is read and written.
WireBlocker ==
  /\ api.pc = "depends" /\ api.writes = <<>>
  /\ \E d \in api.todo :
       api' = [api EXCEPT !.todo = @ \ {d}, !.child.by = @ \cup {d},
            !.writes = Write(d, [store[d] EXCEPT !.blocks = @ \cup {Head(api.wire)}])]
  /\ UNCHANGED <<world, store, job, loop, history>>

Wired ==
  /\ api.pc = "depends" /\ api.writes = <<>> /\ api.todo = {}
  /\ api' = [api EXCEPT !.pc = "wire", !.child = None, !.wire = Tail(@),
                         !.writes = Write(Head(api.wire), api.child)]
  /\ UNCHANGED <<world, store, job, loop, history>>

\* The parent gets its children, and then loses the plan: twice the object that
\* was read before the worker was asked.
CloseParent ==
  /\ api.pc = "wire" /\ api.writes = <<>> /\ api.wire = <<>>
  /\ api' = [Idle EXCEPT !.pc = "write", !.writes = Write(api.task, api.snap) \o Write(api.task, api.snap)]
  /\ UNCHANGED <<world, store, job, loop, history>>

-----------------------------------------------------------------------------
LoopStep == LoopAnalyse \/ LoopFlush \/ LoopClaim \/ LoopPass

ApiStep ==
  \/ ApiFlush \/ ApiEnd \/ RunSubmit \/ RunReturn
  \/ RemoveFromBlocker \/ ResetBlocker \/ ResetTask \/ ApiAnalyse
  \/ Create \/ Import \/ PlanFails \/ MakeTasks \/ WireTask \/ WireBlocker \/ Wired \/ CloseParent

Next ==
  \/ LoopStep \/ ApiStep
  \/ \E j \in Jobs : JobWrite(j) \/ JobEnd(j)
  \/ \E t \in Tasks : Queue(t) \/ Run(t) \/ Patch(t) \/ Reset(t) \/ Generate(t)
  \/ \E t, d \in Tasks : AddDependency(t, d) \/ RemoveDependency(t, d)

Spec == Init /\ [][Next]_vars

\* The loop keeps running; clients owe nothing, and neither do jobs.
FairSpec == Spec /\ WF_vars(LoopStep)

-----------------------------------------------------------------------------
(* Properties.                                                             *)

ThreadOK(th) ==
  \A i \in DOMAIN th.writes : th.writes[i].task \in Tasks /\ th.writes[i].rec \in TaskRec

\* Types: whatever is going to be written is a whole task.
TypeOK ==
  /\ store \in [Tasks -> TaskRec \cup {None}]
  /\ job \in [Jobs -> [task : Tasks, rec : TaskRec] \cup {None}]
  /\ ThreadOK(loop) /\ ThreadOK(api)
  /\ before \in [Tasks -> SUBSET Tasks] /\ raced \subseteq Tasks

\* service.py:795: "Apply inferred dependency edges with cycle detection."  So
\* no tasks wait for each other, nor did before they were done, whatever analyses
\* find, although each upsert writes back what was read some time ago, while jobs
\* run, and tasks are made, queued and reopened.  Left out are the requests that
\* change dependencies themselves, and those that write a task which may have a
\* job: that brings back edges, or drops some that the job brings back, while
\* another analysis, which did not see them, finds the opposite.
NobodyWaitsForItself ==
  world.ops \subseteq {"queue", "reopen", "create"} => Acyclic(By(store), Known(store))

\* While the scheduler is paused, the two ends of a dependency agree between
\* requests, although jobs that were left, and those of POST /run, write their
\* tasks whole: a task lists its blocker exactly if the blocker lists the task.
\* Left out are the tasks of which a request writes other ends while they have a
\* job, which the job takes back, and what POST /tasks and PATCH /tasks write,
\* which tell no blocker.
EndsAgree ==
  world.paused /\ world.ops \cap {"create", "patch"} = {} /\ api.pc = "idle" =>
    \A t, d \in Known(store) \ raced : t # d => (d \in store[t].by <=> t \in store[d].blocks)

\* What a PRD lists is taken up in that order: a job of an imported task is there
\* only when all that were listed before it have been done once, although an
\* import writes tasks that may be running, or done, by then, which sends them to
\* a second job; unless requests take dependencies away, or write tasks that they
\* read long before.
ImportInOrder ==
  world.ops \cap {"remove", "reset", "patch", "analyze", "generate"} = {} =>
    \A j \in Jobs : job[j] # None => before[job[j].task] = {}

\* Every ready task is analysed, whatever the worker finds or fails at, unless it
\* was imported or the scheduler is paused.
EveryTaskAnalysed ==
  \A t \in Tasks : t \in Candidates ~> t \notin Candidates \/ world.paused
=============================================================================
