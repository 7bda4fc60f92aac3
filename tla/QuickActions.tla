---------------------------- MODULE QuickActions ----------------------------
(***************************************************************************)
(* Quick actions: a request queues a run, a thread executes it, a run can  *)
(* be promoted to a task at any time, and dashboards follow all of this    *)
(* through the hub (EventHub), which runs on the same event loop as the    *)
(* handlers.                                                               *)
(*                                                                         *)
(* The executing thread has an object of its own of the run and writes it  *)
(* whole; so does a promotion, which reads the run, makes a task and then  *)
(* writes back the run it read.  A command line executes a run in a        *)
(* process of its own, past the queue, and its events reach no dashboard.  *)
(*                                                                         *)
(* Abstracted: prompts, commands and outputs (a run completes or fails);   *)
(* a promoted task is only counted.                                        *)
(***************************************************************************)
EXTENDS EventHub

CONSTANTS
  ServerRuns,    \* runs that clients request
  CliRuns,       \* runs of the command line
  None,          \* model value: no value
  MaxPending,    \* QUICK_ACTION_MAX_PENDING
  Worlds         \* the surroundings the program may find itself in

Runs == ServerRuns \cup CliRuns

\* The runs and the dashboards there are, and what these say to the hub; whether
\* somebody promotes runs, and quick_shortcuts.yaml holds a pattern that is no
\* regular expression; a bound on the deaths of the server and of command lines.
World == [runs : SUBSET Runs, clients : SUBSET Clients, messages : SUBSET Messages,
          promotions : BOOLEAN, badShortcuts : BOOLEAN, crashes : Nat]

Pending == {"queued", "running"}
Ended == {"completed", "failed"}

\* QuickActionRun: status, promoted_task_id set.
Run == [status : Pending \cup Ended, promoted : BOOLEAN]

ASSUME QuickAssumption ==
  /\ MaxPending \in Nat \ {0} /\ Worlds \subseteq World
  /\ ServerRuns \cap CliRuns = {} /\ IsFiniteSet(Runs)
  /\ None \notin Run

VARIABLES
  world,    \* the surroundings of this behaviour
  store,    \* quick_actions.yaml
  exec,     \* of every run, where its execution is and the object it holds
  api,      \* the request being served
  tasks,    \* of every run, the tasks it was promoted to
  crashes   \* history: deaths so far

vars == <<world, store, exec, api, tasks, crashes, hub>>

NoExec == [pc |-> "none", run |-> None]
ApiIdle == [pc |-> "idle", of |-> None, run |-> None]

Init ==
  /\ world \in Worlds
  /\ store = [q \in Runs |-> None]
  /\ exec = [q \in Runs |-> IF q \in CliRuns \cap world.runs
                              THEN [pc |-> "queued", run |-> [status |-> "queued", promoted |-> FALSE]]
                              ELSE NoExec]
  /\ api = ApiIdle
  /\ tasks = [q \in Runs |-> 0]
  /\ crashes = 0
  /\ HubInit

IsPending(q) == store[q] # None /\ store[q].status \in Pending

-----------------------------------------------------------------------------
(* The file.                                                               *)

\* Mutant of Kept: the object replaces what is stored.
KeptAsGiven(q, run) == run

\* A promotion that the writer does not know of stays.
Kept(q, run) == [run EXCEPT !.promoted = @ \/ (store[q] # None /\ store[q].promoted)]

\* FileQuickActionRepository.upsert; what dashboards show of it is old.
Upsert(q, run) ==
  /\ store' = [store EXCEPT ![q] = Kept(q, run)]
  /\ conn' = [c \in Clients |-> [conn[c] EXCEPT !.current = @ /\ q \in CliRuns]]
  /\ UNCHANGED <<arrivals, scheduled, pubs>>

\* The process of a command line has no event loop: publish_sync does nothing.
\* Where nobody connects, neither does a publication.
Announce(q) == IF q \in CliRuns \/ world.clients = {} THEN UNCHANGED hub ELSE Emit

-----------------------------------------------------------------------------
(* POST /quick-actions.                                                    *)

\* Mutant of Create: one run too many is let in.
CreateLate(q) ==
  /\ q \in world.runs /\ api.pc = "idle" /\ store[q] = None
  /\ Cardinality({r \in Runs : IsPending(r)}) <= MaxPending
  /\ api' = [ApiIdle EXCEPT !.pc = "create", !.of = q]
  /\ UNCHANGED <<world, store, exec, tasks, crashes, hub>>

Create(q) ==
  /\ q \in world.runs /\ api.pc = "idle" /\ store[q] = None
  /\ Cardinality({r \in Runs : IsPending(r)}) < MaxPending
  /\ api' = [ApiIdle EXCEPT !.pc = "create", !.of = q]
  /\ UNCHANGED <<world, store, exec, tasks, crashes, hub>>

QueueRun ==
  /\ api.pc = "create"
  /\ Upsert(api.of, [status |-> "queued", promoted |-> FALSE])
  /\ api' = [api EXCEPT !.pc = "submit", !.run = [status |-> "queued", promoted |-> FALSE]]
  /\ UNCHANGED <<world, exec, tasks, crashes>>

\* The event, and run_in_executor.
Submit ==
  /\ api.pc = "submit"
  /\ Announce(api.of)
  /\ exec' = [exec EXCEPT ![api.of] = [pc |-> "queued", run |-> api.run]]
  /\ api' = ApiIdle
  /\ UNCHANGED <<world, store, tasks, crashes>>

-----------------------------------------------------------------------------
(* QuickActionExecutor.execute, in a thread or a command's process.        *)

At(q, pc, next) == exec[q].pc = pc /\ exec' = [exec EXCEPT ![q].pc = next]

Start(q) ==
  /\ exec[q].pc = "queued"
  /\ LET run == [exec[q].run EXCEPT !.status = "running"]
     IN  Upsert(q, run) /\ exec' = [exec EXCEPT ![q] = [pc |-> "started", run |-> Kept(q, run)]]
  /\ UNCHANGED <<world, api, tasks, crashes>>

Started(q) ==
  /\ At(q, "started", "work") /\ Announce(q)
  /\ UNCHANGED <<world, store, api, tasks, crashes>>

\* match_prompt raises: nobody looks at the future.
MatchRaises(q) ==
  /\ world.badShortcuts /\ At(q, "work", "over")
  /\ UNCHANGED <<world, store, api, tasks, crashes, hub>>

Work(q, next) ==
  /\ exec[q].pc = "work"
  /\ \E s \in Ended : exec' = [exec EXCEPT ![q] = [pc |-> next, run |-> [@.run EXCEPT !.status = s]]]
  /\ UNCHANGED <<world, store, api, tasks, crashes, hub>>

\* The command is rejected, runs, fails to start or is stopped after 120 s.
ExecuteShortcut(q) == Work(q, "save")

\* Mutant of ExecuteAgent: what is returned early is not saved.
ExecuteAgentUnsaved(q) == Work(q, "over")

\* There is no worker, it answers, runs into its timeout, or something raises.
ExecuteAgent(q) == Work(q, "save")

Save(q) ==
  /\ exec[q].pc = "save"
  /\ Upsert(q, exec[q].run)
  /\ exec' = [exec EXCEPT ![q] = [pc |-> "saved", run |-> Kept(q, @.run)]]
  /\ UNCHANGED <<world, api, tasks, crashes>>

\* Mutant of Saved: no event.
SavedSilently(q) ==
  /\ At(q, "saved", "over")
  /\ UNCHANGED <<world, store, api, tasks, crashes, hub>>

Saved(q) ==
  /\ At(q, "saved", "over") /\ Announce(q)
  /\ UNCHANGED <<world, store, api, tasks, crashes>>

-----------------------------------------------------------------------------
(* POST /quick-actions/{id}/promote.                                       *)

\* Mutant of Promote: a run that was promoted is promoted again.
PromoteAgain(q) ==
  /\ world.promotions /\ api.pc = "idle" /\ store[q] # None
  /\ api' = [pc |-> "task", of |-> q, run |-> store[q]]
  /\ tasks[q] < 2
  /\ UNCHANGED <<world, store, exec, tasks, crashes, hub>>

Promote(q) ==
  /\ world.promotions /\ api.pc = "idle" /\ store[q] # None /\ ~store[q].promoted
  /\ api' = [pc |-> "task", of |-> q, run |-> store[q]]
  /\ UNCHANGED <<world, store, exec, tasks, crashes, hub>>

PromoteTask ==
  /\ api.pc = "task"
  /\ tasks' = [tasks EXCEPT ![api.of] = @ + 1]
  /\ api' = [api EXCEPT !.pc = "link"]
  /\ UNCHANGED <<world, store, exec, crashes, hub>>

\* The run goes back as it was read, whatever has become of it.
PromoteLink ==
  /\ api.pc = "link"
  /\ Upsert(api.of, [api.run EXCEPT !.promoted = TRUE])
  /\ api' = [api EXCEPT !.pc = "linked"]
  /\ UNCHANGED <<world, exec, tasks, crashes>>

Promoted ==
  /\ api.pc = "linked"
  /\ Announce(api.of)
  /\ api' = ApiIdle
  /\ UNCHANGED <<world, store, exec, tasks, crashes>>

-----------------------------------------------------------------------------
(* The event loop serves dashboards between requests.                      *)

\* A dashboard reads the runs again, as after an event and when it is reloaded.
Refresh(c) ==
  /\ api.pc = "idle"
  /\ conn[c].open /\ conn[c].up /\ (conn[c].heard \/ conn[c].missed)
  /\ conn' = [conn EXCEPT ![c] = [conn[c] EXCEPT !.heard = FALSE, !.current = TRUE,
                                                  !.missed = @ /\ ~Wants(conn[c])]]
  /\ UNCHANGED <<world, store, exec, api, tasks, crashes, arrivals, scheduled, pubs>>

Publish ==
  /\ api.pc = "idle" /\ PublishStep
  /\ UNCHANGED <<world, store, exec, api, tasks, crashes>>

Dashboard(c) ==
  /\ api.pc = "idle" /\ c \in world.clients /\ ConnStep(c, world.messages)
  /\ UNCHANGED <<world, store, exec, api, tasks, crashes>>

-----------------------------------------------------------------------------
(* The server dies and is started again: nothing looks at its runs.        *)

Crash ==
  /\ crashes < world.crashes
  /\ crashes' = crashes + 1
  /\ exec' = [q \in Runs |-> IF q \in CliRuns THEN exec[q] ELSE NoExec]
  /\ api' = ApiIdle
  /\ conn' = [c \in Clients |-> NoConn] /\ scheduled' = 0 /\ pubs' = {}
  /\ UNCHANGED <<world, store, tasks, arrivals>>

CliDies(q) ==
  /\ crashes < world.crashes /\ exec[q].pc \notin {"none", "over"}
  /\ crashes' = crashes + 1
  /\ exec' = [exec EXCEPT ![q] = [NoExec EXCEPT !.pc = "over"]]
  /\ UNCHANGED <<world, store, api, tasks, hub>>

-----------------------------------------------------------------------------
Execute(q) ==
  Start(q) \/ Started(q) \/ MatchRaises(q) \/ ExecuteShortcut(q) \/ ExecuteAgent(q) \/ Save(q) \/ Saved(q)

Serve == QueueRun \/ Submit \/ PromoteTask \/ PromoteLink \/ Promoted

Next ==
  \/ Serve \/ Publish \/ Crash
  \/ \E q \in ServerRuns : Create(q)
  \/ \E q \in CliRuns : CliDies(q)
  \/ \E q \in Runs : Execute(q) \/ Promote(q)
  \/ \E c \in Clients : Refresh(c) \/ Dashboard(c)

Spec == Init /\ [][Next]_vars

\* Threads run, worker calls and commands end; a handler that was entered goes
\* on, and so does the event loop; a dashboard that heard an event reads again.
FairSpec ==
  /\ Spec /\ WF_vars(Serve \/ Publish)
  /\ \A q \in Runs : WF_vars(Execute(q))
  /\ WF_vars(\E c \in Clients : conn[c].heard /\ Refresh(c))

-----------------------------------------------------------------------------
(* Properties.                                                             *)

Exec == [pc : {"none", "queued", "started", "work", "save", "saved", "over"}, run : Run \cup {None}]
Api == [pc : {"idle", "create", "submit", "task", "link", "linked"}, of : Runs \cup {None}, run : Run \cup {None}]

\* A thread that is not over always holds a whole run to write, and so does a
\* request that is going to write one.
RunsOK ==
  /\ store \in [Runs -> Run \cup {None}]
  /\ exec \in [Runs -> Exec]
  /\ \A q \in Runs : exec[q].pc \notin {"none", "over"} => exec[q].run # None
  /\ api \in Api
  /\ api.pc # "idle" => api.of \in Runs
  /\ api.pc \in {"submit", "task", "link"} => api.run # None
  /\ tasks \in [Runs -> Nat] /\ crashes \in Nat

\* Types.
TypeOK == RunsOK /\ HubOK

\* router.py:1273: "Too many pending quick actions."  Requests never make more
\* runs pend than the limit, although threads and promotions write meanwhile.
LimitHolds == Cardinality({q \in ServerRuns : IsPending(q)}) <= MaxPending

\* test_backend_phase1.py:108, "test_quick_action_promotion_is_singleton": one
\* task of a run, whenever its thread writes; a second only if the server died
\* between the task and the link.
PromotedOnce == \A q \in Runs : tasks[q] <= 1 + crashes

\* file_repos.py:287: "Preserve promotion linkage across async status updates."
LinkKept ==
  [][\A q \in Runs : store[q] # None /\ store[q].promoted => store'[q] # None /\ store'[q].promoted]_vars

\* A run that is queued ends, unless somebody dies, a promotion writes back what
\* it was, or matching its prompt against the shortcuts raises.
RunEnds ==
  \A q \in Runs :
    IsPending(q) ~> ~IsPending(q) \/ store[q].promoted \/ crashes > 0 \/ world.badShortcuts

\* executor.py:36-54 and ws.py:100-116 together: whoever changes a run owes an
\* event, and the hub loses none.  A dashboard that follows and shows old runs has
\* heard an event, one is on its way to it, or a thread or a request is about to
\* send one.
EventOnItsWay ==
  \A c \in Clients : Follows(c) /\ ~conn[c].current =>
    \/ Coming(c)
    \/ api.pc \in {"submit", "linked"} /\ api.of \in ServerRuns
    \/ \E q \in ServerRuns : exec[q].pc \in {"started", "saved"}

\* USER_GUIDE.md:180: "The UI subscribes and auto-refreshes mounted surfaces when
\* relevant events arrive."  A dashboard that shows old runs, but has been subscribed
\* since it read them, comes to show them as they are, unless it breaks, goes or
\* unsubscribes, or a publication was cut short.
CatchesUp == \A c \in Clients : Follows(c) /\ ~conn[c].current ~> conn[c].current \/ ~Follows(c)
=============================================================================
