-------------------------- MODULE QuickActionsProofs --------------------------
(***************************************************************************)
(* For any number of runs and any limit: requests never make more runs     *)
(* pend than the limit, a run is promoted to one task, and its link to     *)
(* that task is never lost.  For any number of dashboards and publications *)
(* (EventHubProofs): the hub forgets no connection that works, and a       *)
(* dashboard that shows old runs is owed an event.                         *)
(***************************************************************************)
EXTENDS QuickActions, EventHubProofs

Linked(q) == store[q] # None /\ store[q].promoted

\* Whose copy of a run knows of a promotion, the file knows of it; while a request
\* promotes a run, nobody else does; and a task beyond the crashes is linked, or
\* about to be.
PromotionInv ==
  /\ \A q \in Runs : exec[q].run # None /\ exec[q].run.promoted => Linked(q)
  /\ api.pc = "submit" => ~api.run.promoted
  /\ api.pc \in {"task", "link"} => ~Linked(api.of)
  /\ \A q \in Runs : tasks[q] <= 1 + crashes
  /\ \A q \in Runs : tasks[q] > crashes => Linked(q) \/ (api.pc = "link" /\ api.of = q)

Unsaved == {"queued", "started", "work", "save"}

\* The runs that pend, the one a request is about to add, and the one a promotion
\* is about to write back as pending.
Claims ==
  {q \in ServerRuns : \/ IsPending(q)
                      \/ api.pc = "create" /\ api.of = q
                      \/ api.pc \in {"task", "link"} /\ api.of = q /\ api.run.status \in Pending}

\* A thread that has not saved its result yet belongs to a run that pends, also in
\* the copy of a promotion: so nothing but a new request makes a run pend.
LimitInv ==
  /\ \A q \in ServerRuns : store[q] = None => exec[q].pc = "none"
  /\ api.pc = "create" => api.of \in ServerRuns /\ store[api.of] = None
  /\ api.pc = "submit" => api.of \in ServerRuns /\ exec[api.of].pc = "none" /\ IsPending(api.of)
  /\ \A q \in ServerRuns : exec[q].pc \in Unsaved => IsPending(q)
  /\ api.pc \in {"task", "link"} /\ api.of \in ServerRuns /\ exec[api.of].pc \in Unsaved
       => api.run.status \in Pending
  /\ Cardinality(Claims) <= MaxPending

USE DEF Exec, Api

\* What an upsert leaves in the file: the run that is written, and the link that
\* was there.
LEMMA UpsertEffect ==
  ASSUME RunsOK, NEW q \in Runs, NEW run \in Run, Upsert(q, run)
  PROVE  /\ Kept(q, run) \in Run
         /\ store' = [store EXCEPT ![q] = Kept(q, run)]
         /\ store' \in [Runs -> Run \cup {None}]
         /\ store'[q] \in Run /\ store'[q] # None /\ store'[q].status = run.status
         /\ Linked(q)' <=> run.promoted \/ Linked(q)
         /\ \A r \in Runs : r # q => store'[r] = store[r] /\ (Linked(r)' <=> Linked(r))
<1>1. Kept(q, run) \in Run /\ Kept(q, run).status = run.status
  BY DEF Kept, Run
<1>2. Kept(q, run).promoted <=> run.promoted \/ Linked(q)
  BY DEF Kept, Run, Linked
<1>3. store' = [store EXCEPT ![q] = Kept(q, run)] /\ store \in [Runs -> Run \cup {None}]
  BY DEF Upsert, RunsOK
<1>4. store'[q] = Kept(q, run) /\ \A r \in Runs : r # q => store'[r] = store[r]
  BY <1>3
<1>5. store' \in [Runs -> Run \cup {None}]
  BY <1>1, <1>3
<1>6. store'[q] # None
  BY <1>1, <1>4, QuickAssumption
<1>7. Linked(q)' <=> run.promoted \/ Linked(q)
  BY <1>2, <1>4, <1>6, Zenon DEF Linked
<1>8. \A r \in Runs : r # q => store'[r] = store[r] /\ (Linked(r)' <=> Linked(r))
  BY <1>4, Zenon DEF Linked
<1> QED
  BY <1>1, <1>3, <1>4, <1>5, <1>6, <1>7, <1>8

\* The copies that are written are runs.
LEMMA Copies ==
  ASSUME RunsOK
  PROVE  /\ \A q \in Runs : exec[q].pc \notin {"none", "over"} => exec[q].run \in Run
         /\ api.pc \in {"submit", "task", "link"} => api.run \in Run
         /\ [status |-> "queued", promoted |-> FALSE] \in Run
<1>1. \A q \in Runs : exec[q].pc \notin {"none", "over"} => exec[q].run \in Run
  BY DEF RunsOK
<1>2. api.pc \in {"submit", "task", "link"} => api.run \in Run
  BY DEF RunsOK
<1>3. [status |-> "queued", promoted |-> FALSE] \in Run
  BY DEF Run, Pending
<1> QED
  BY <1>1, <1>2, <1>3

\* A thread that goes on with a run keeps the types of threads.
LEMMA ExecType ==
  ASSUME RunsOK, NEW q \in Runs, NEW e \in Exec, e.pc \notin {"none", "over"} => e.run # None,
         exec' = [exec EXCEPT ![q] = e]
  PROVE  /\ exec' \in [Runs -> Exec]
         /\ \A r \in Runs : exec'[r].pc \notin {"none", "over"} => exec'[r].run # None
BY DEF RunsOK

\* Initially the types are right.
LEMMA TypeInit == Init => RunsOK
<1> SUFFICES ASSUME Init PROVE RunsOK
  OBVIOUS
<1>1. [status |-> "queued", promoted |-> FALSE] \in Run
  BY DEF Run, Pending
<1>2. exec \in [Runs -> Exec]
  BY <1>1 DEF Init, NoExec
<1>3. \A q \in Runs : exec[q].pc \notin {"none", "over"} => exec[q].run # None
  BY <1>1, QuickAssumption DEF Init, NoExec
<1> QED
  BY <1>2, <1>3 DEF Init, RunsOK, ApiIdle

\* Steps of a thread keep the types.
LEMMA TypeExecute == ASSUME RunsOK, NEW q \in Runs, Execute(q) PROVE RunsOK'
<1> USE DEF RunsOK
<1>1. CASE Start(q)
  <2> DEFINE run == [exec[q].run EXCEPT !.status = "running"]
  <2>1. run \in Run
    BY <1>1, Copies DEF Start, Run, Pending
  <2>2. Kept(q, run) \in Run /\ store' \in [Runs -> Run \cup {None}]
    BY <1>1, <2>1, UpsertEffect DEF Start
  <2> QED
    BY <1>1, <2>2, ExecType, QuickAssumption DEF Start
<1>2. CASE Started(q)
  <2>1. [exec[q] EXCEPT !.pc = "work"] \in Exec
    BY <1>2
  <2> QED
    BY <1>2, <2>1, ExecType DEF Started, At
<1>3. CASE MatchRaises(q)
  BY <1>3 DEF MatchRaises, At
<1>4. CASE ExecuteShortcut(q) \/ ExecuteAgent(q)
  <2>1. PICK s \in Ended : exec' = [exec EXCEPT ![q] = [pc |-> "save", run |-> [exec[q].run EXCEPT !.status = s]]]
    BY <1>4 DEF ExecuteShortcut, ExecuteAgent, Work
  <2>2. [exec[q].run EXCEPT !.status = s] \in Run
    BY <1>4, Copies DEF ExecuteShortcut, ExecuteAgent, Work, Run
  <2> QED
    BY <1>4, <2>1, <2>2, ExecType, QuickAssumption DEF ExecuteShortcut, ExecuteAgent, Work
<1>5. CASE Save(q)
  <2>1. exec[q].run \in Run
    BY <1>5, Copies DEF Save
  <2>2. Kept(q, exec[q].run) \in Run /\ store' \in [Runs -> Run \cup {None}]
    BY <1>5, <2>1, UpsertEffect DEF Save
  <2> QED
    BY <1>5, <2>2, ExecType, QuickAssumption DEF Save
<1>6. CASE Saved(q)
  BY <1>6 DEF Saved, At
<1> QED
  BY <1>1, <1>2, <1>3, <1>4, <1>5, <1>6 DEF Execute

\* Steps of a request keep the types.
LEMMA TypeServe == ASSUME RunsOK, Serve PROVE RunsOK'
<1> USE DEF RunsOK
<1>1. CASE QueueRun
  <2>1. store' \in [Runs -> Run \cup {None}]
    BY <1>1, Copies, UpsertEffect DEF QueueRun
  <2> QED
    BY <1>1, <2>1, Copies, QuickAssumption DEF QueueRun
<1>2. CASE Submit
  <2>1. api.run \in Run /\ api.of \in Runs
    BY <1>2, Copies DEF Submit
  <2> QED
    BY <1>2, <2>1, ExecType, QuickAssumption DEF Submit, ApiIdle
<1>3. CASE PromoteTask
  BY <1>3 DEF PromoteTask
<1>4. CASE PromoteLink
  <2>1. [api.run EXCEPT !.promoted = TRUE] \in Run
    BY <1>4, Copies DEF PromoteLink, Run
  <2>2. store' \in [Runs -> Run \cup {None}]
    BY <1>4, <2>1, UpsertEffect DEF PromoteLink
  <2> QED
    BY <1>4, <2>2 DEF PromoteLink
<1>5. CASE Promoted
  BY <1>5 DEF Promoted, ApiIdle
<1> QED
  BY <1>1, <1>2, <1>3, <1>4, <1>5 DEF Serve

\* Whatever the others do, the types stay right.
LEMMA TypeOther ==
  ASSUME RunsOK,
         \/ Publish \/ Crash
         \/ \E q \in ServerRuns : Create(q)
         \/ \E q \in CliRuns : CliDies(q)
         \/ \E q \in Runs : Promote(q)
         \/ \E c \in Clients : Refresh(c) \/ Dashboard(c)
  PROVE  RunsOK'
<1> USE DEF RunsOK
<1>1. CASE Publish \/ \E c \in Clients : Refresh(c) \/ Dashboard(c)
  BY <1>1 DEF Publish, Refresh, Dashboard
<1>2. CASE Crash
  <2>1. exec' \in [Runs -> Exec]
    BY <1>2 DEF Crash, NoExec
  <2> QED
    BY <1>2, <2>1 DEF Crash, NoExec, ApiIdle
<1>3. ASSUME NEW q \in ServerRuns, Create(q) PROVE RunsOK'
  BY <1>3 DEF Create, ApiIdle, Runs
<1>4. ASSUME NEW q \in CliRuns, CliDies(q) PROVE RunsOK'
  <2>1. q \in Runs /\ [NoExec EXCEPT !.pc = "over"] \in Exec
    BY DEF Runs, NoExec
  <2> QED
    BY <1>4, <2>1, ExecType DEF CliDies, NoExec
<1>5. ASSUME NEW q \in Runs, Promote(q) PROVE RunsOK'
  BY <1>5 DEF Promote
<1> QED
  BY <1>1, <1>2, <1>3, <1>4, <1>5

\* Every thread and every request that is going to write a run holds a whole one.
THEOREM TypeCorrect == Spec => []RunsOK
<1>1. RunsOK /\ [Next]_vars => RunsOK'
  <2> SUFFICES ASSUME RunsOK, [Next]_vars PROVE RunsOK'
    OBVIOUS
  <2>1. CASE UNCHANGED vars
    BY <2>1 DEF vars, RunsOK
  <2> QED
    BY <2>1, TypeExecute, TypeServe, TypeOther DEF Next
<1> QED
  BY <1>1, TypeInit, PTL DEF Spec

\* The file changes by upserts of runs only.
LEMMA StoreSteps ==
  ASSUME RunsOK, Next
  PROVE  UNCHANGED store \/ \E q \in Runs, run \in Run : Upsert(q, run)
<1>1. ASSUME NEW q \in Runs, Execute(q)
      PROVE  UNCHANGED store \/ \E run \in Run : Upsert(q, run)
  <2>1. CASE Start(q)
    <3>1. [exec[q].run EXCEPT !.status = "running"] \in Run
      BY <2>1, Copies DEF Start, Run, Pending
    <3> QED
      BY <2>1, <3>1 DEF Start
  <2>2. CASE Save(q)
    BY <2>2, Copies DEF Save
  <2> QED
    BY <1>1, <2>1, <2>2 DEF Execute, Started, MatchRaises, ExecuteShortcut, ExecuteAgent, Work, Saved
<1>2. CASE QueueRun
  BY <1>2, Copies DEF QueueRun, RunsOK
<1>3. CASE PromoteLink
  <2>1. [api.run EXCEPT !.promoted = TRUE] \in Run /\ api.of \in Runs
    BY <1>3, Copies DEF PromoteLink, Run, RunsOK
  <2> QED
    BY <1>3, <2>1 DEF PromoteLink
<1> QED
  BY <1>1, <1>2, <1>3 DEF Next, Serve, Submit, PromoteTask, Promoted, Publish, Crash, Create, CliDies, Promote,
                          Refresh, Dashboard

\* file_repos.py:287: "Preserve promotion linkage across async status updates":
\* whoever writes a run from whatever copy, a link that was stored stays.
THEOREM LinkSurvives == Spec => LinkKept
<1> DEFINE Keeps == \A q \in Runs : Linked(q) => Linked(q)'
<1>1. RunsOK /\ [Next]_vars => Keeps
  <2> SUFFICES ASSUME RunsOK, [Next]_vars, NEW q \in Runs, Linked(q) PROVE Linked(q)'
    OBVIOUS
  <2>1. CASE UNCHANGED store
    BY <2>1 DEF Linked
  <2>2. ASSUME NEW r \in Runs, NEW run \in Run, Upsert(r, run) PROVE Linked(q)'
    BY <2>2, UpsertEffect
  <2> QED
    BY <2>1, <2>2, StoreSteps DEF vars
<1>2. RunsOK /\ [Next]_vars
        => [\A q \in Runs : store[q] # None /\ store[q].promoted => store'[q] # None /\ store'[q].promoted]_vars
  BY <1>1 DEF Linked
<1> QED
  BY <1>2, TypeCorrect, PTL DEF Spec, LinkKept

\* A copy of a run whose status alone was changed says the same of its promotion.
LEMMA SameLink ==
  ASSUME NEW run \in Run, NEW s \in Pending \cup Ended
  PROVE  /\ [run EXCEPT !.status = s] \in Run
         /\ [run EXCEPT !.status = s].promoted <=> run.promoted
         /\ [run EXCEPT !.status = s].status = s
BY DEF Run

\* Steps of a thread: what it writes, and what it knows then.
LEMMA PromotionExecute ==
  ASSUME RunsOK, PromotionInv, NEW q \in Runs, Execute(q)
  PROVE  PromotionInv'
<1>0. api' = api /\ tasks' = tasks /\ crashes' = crashes
  BY DEF Execute, Start, Started, MatchRaises, ExecuteShortcut, ExecuteAgent, Work, Save, Saved
\* Nothing but an upsert of a run whose promotion is known changes a link.
<1>1. ASSUME \A r \in Runs : Linked(r)' <=> Linked(r),
             \A r \in Runs : exec'[r].run # None /\ exec'[r].run.promoted => Linked(r)'
      PROVE  PromotionInv'
  <2>1. api.pc \in {"task", "link"} => api.of \in Runs
    BY DEF RunsOK
  <2> QED
    BY <1>0, <1>1, <2>1 DEF PromotionInv
<1>2. ASSUME NEW run \in Run, run.promoted => Linked(q), Upsert(q, run),
             NEW e, exec' = [exec EXCEPT ![q] = e], e.run = Kept(q, run)
      PROVE  PromotionInv'
  <2>1. \A r \in Runs : Linked(r)' <=> Linked(r)
    BY <1>2, UpsertEffect
  <2>2. store'[q] = Kept(q, run) /\ exec'[q].run = Kept(q, run)
    BY <1>2, UpsertEffect DEF RunsOK
  <2>3. \A r \in Runs : exec'[r].run # None /\ exec'[r].run.promoted => Linked(r)'
    <3> SUFFICES ASSUME NEW r \in Runs, exec'[r].run # None, exec'[r].run.promoted PROVE Linked(r)'
      OBVIOUS
    <3>1. CASE r = q
      BY <2>2, <3>1 DEF Linked
    <3>2. CASE r # q
      BY <1>2, <2>1, <3>2 DEF RunsOK, PromotionInv
    <3> QED
      BY <3>1, <3>2
  <2> QED
    BY <1>1, <2>1, <2>3
<1>3. ASSUME store' = store, NEW e, exec' = [exec EXCEPT ![q] = e],
             e.run # None /\ e.run.promoted => Linked(q)
      PROVE  PromotionInv'
  <2>1. \A r \in Runs : Linked(r)' <=> Linked(r)
    BY <1>3 DEF Linked
  <2>2. \A r \in Runs : exec'[r].run # None /\ exec'[r].run.promoted => Linked(r)'
    BY <1>3, <2>1 DEF RunsOK, PromotionInv
  <2> QED
    BY <1>1, <2>1, <2>2
<1>4. ASSUME NEW pc, NEW next, At(q, pc, next), store' = store PROVE PromotionInv'
  <2>1. [exec[q] EXCEPT !.pc = next].run = exec[q].run
    BY DEF RunsOK
  <2> QED
    BY <1>3, <1>4, <2>1 DEF At, PromotionInv
<1>5. CASE Start(q)
  <2>1. exec[q].run \in Run /\ exec[q].run # None
    BY <1>5, Copies DEF Start, RunsOK
  <2> DEFINE run == [exec[q].run EXCEPT !.status = "running"]
  <2>2. run \in Run /\ (run.promoted => Linked(q))
    BY <2>1, SameLink DEF Pending, PromotionInv
  <2> HIDE DEF run
  <2>3. Upsert(q, run) /\ exec' = [exec EXCEPT ![q] = [pc |-> "started", run |-> Kept(q, run)]]
    BY <1>5 DEF Start, run
  <2> QED
    BY <1>2, <2>2, <2>3
<1>6. CASE Save(q)
  <2>1. exec[q].run \in Run /\ exec[q].run # None
    BY <1>6, Copies DEF Save, RunsOK
  <2>2. exec' = [exec EXCEPT ![q] = [pc |-> "saved", run |-> Kept(q, exec[q].run)]] /\ Upsert(q, exec[q].run)
    BY <1>6 DEF Save
  <2> QED
    BY <1>2, <2>1, <2>2 DEF PromotionInv
<1>7. CASE ExecuteShortcut(q) \/ ExecuteAgent(q)
  <2>1. PICK s \in Ended : exec' = [exec EXCEPT ![q] = [pc |-> "save", run |-> [exec[q].run EXCEPT !.status = s]]]
    BY <1>7 DEF ExecuteShortcut, ExecuteAgent, Work
  <2>2. exec[q].run \in Run /\ exec[q].run # None
    BY <1>7, Copies DEF ExecuteShortcut, ExecuteAgent, Work, RunsOK
  <2>3. [exec[q].run EXCEPT !.status = s].promoted => Linked(q)
    BY <2>2, SameLink DEF PromotionInv
  <2> QED
    BY <1>3, <1>7, <2>1, <2>3 DEF ExecuteShortcut, ExecuteAgent, Work
<1> QED
  BY <1>4, <1>5, <1>6, <1>7 DEF Execute, Started, MatchRaises, Saved

\* Steps of a request: the task comes before the link, and nobody else promotes.
LEMMA PromotionServe ==
  ASSUME RunsOK, PromotionInv, Serve
  PROVE  PromotionInv'
<1>0. api.of \in Runs /\ crashes' = crashes
  BY DEF Serve, QueueRun, Submit, PromoteTask, PromoteLink, Promoted, RunsOK
<1>1. CASE QueueRun
  <2> DEFINE run == [status |-> "queued", promoted |-> FALSE]
  <2>1. run \in Run /\ ~run.promoted
    BY Copies
  <2> HIDE DEF run
  <2>2. Upsert(api.of, run) /\ api' = [api EXCEPT !.pc = "submit", !.run = run] /\ exec' = exec /\ tasks' = tasks
    BY <1>1 DEF QueueRun, run
  <2>3. \A r \in Runs : Linked(r)' <=> Linked(r)
    BY <1>0, <2>1, <2>2, UpsertEffect
  <2>4. api'.pc = "submit" /\ api'.run = run /\ api.pc = "create"
    BY <1>1, <2>2 DEF RunsOK, QueueRun
  <2> QED
    BY <1>0, <2>1, <2>2, <2>3, <2>4 DEF PromotionInv
<1>2. CASE Submit
  <2>1. \A r \in Runs : Linked(r)' <=> Linked(r)
    BY <1>2 DEF Submit, Linked
  <2>2. ~api.run.promoted /\ api.pc = "submit"
    BY <1>2 DEF Submit, PromotionInv
  <2>3. \A r \in Runs : exec'[r].run # None /\ exec'[r].run.promoted => Linked(r)'
    BY <1>0, <1>2, <2>1, <2>2 DEF Submit, RunsOK, PromotionInv
  <2> QED
    BY <1>0, <1>2, <2>1, <2>2, <2>3 DEF Submit, PromotionInv, ApiIdle
<1>3. CASE PromoteTask
  <2>1. \A r \in Runs : Linked(r)' <=> Linked(r)
    BY <1>3 DEF PromoteTask, Linked
  <2>2. tasks[api.of] <= crashes
    BY <1>0, <1>3 DEF PromoteTask, PromotionInv, RunsOK
  <2>3. /\ api'.pc = "link" /\ api'.of = api.of
        /\ tasks' = [tasks EXCEPT ![api.of] = @ + 1] /\ exec' = exec /\ api.pc = "task"
    BY <1>3 DEF PromoteTask, RunsOK
  <2>4. \A r \in Runs : tasks'[r] <= 1 + crashes
    BY <1>0, <2>2, <2>3 DEF PromotionInv, RunsOK
  <2>5. \A r \in Runs : tasks'[r] > crashes => Linked(r) \/ r = api.of
    BY <1>0, <2>3 DEF PromotionInv, RunsOK
  <2> QED
    BY <1>0, <2>1, <2>3, <2>4, <2>5 DEF PromotionInv
<1>4. CASE PromoteLink
  <2> DEFINE run == [api.run EXCEPT !.promoted = TRUE]
  <2>1. run \in Run /\ run.promoted
    BY <1>4, Copies DEF PromoteLink, Run
  <2> HIDE DEF run
  <2>2. Upsert(api.of, run) /\ api.pc = "link" /\ api'.pc = "linked" /\ exec' = exec /\ tasks' = tasks
    BY <1>4 DEF PromoteLink, run, RunsOK
  <2>0. PICK q \in Runs : q = api.of
    BY <1>0
  <2>3. Linked(q)' /\ \A r \in Runs : r # q => (Linked(r)' <=> Linked(r))
    BY <2>0, <2>1, <2>2, UpsertEffect
  <2>5. \A r \in Runs : Linked(r) => Linked(r)'
    BY <2>3
  <2>6. \A r \in Runs : exec'[r].run # None /\ exec'[r].run.promoted => Linked(r)'
    BY <2>2, <2>5 DEF PromotionInv
  <2>7. \A r \in Runs : tasks'[r] <= 1 + crashes' /\ (tasks'[r] > crashes' => Linked(r)')
    BY <1>0, <2>0, <2>2, <2>3, <2>5 DEF PromotionInv
  <2> QED
    BY <2>2, <2>6, <2>7 DEF PromotionInv
<1>5. CASE Promoted
  <2>1. \A r \in Runs : Linked(r)' <=> Linked(r)
    BY <1>5 DEF Promoted, Linked
  <2> QED
    BY <1>0, <1>5, <2>1 DEF Promoted, PromotionInv, ApiIdle
<1> QED
  BY <1>1, <1>2, <1>3, <1>4, <1>5 DEF Serve

\* The others: a promotion begins with a run that has no link; a death undoes none.
LEMMA PromotionOther ==
  ASSUME RunsOK, PromotionInv,
         \/ Publish \/ Crash
         \/ \E q \in ServerRuns : Create(q)
         \/ \E q \in CliRuns : CliDies(q)
         \/ \E q \in Runs : Promote(q)
         \/ \E c \in Clients : Refresh(c) \/ Dashboard(c)
  PROVE  PromotionInv'
<1>0. store' = store /\ tasks' = tasks
  BY DEF Publish, Crash, Create, CliDies, Promote, Refresh, Dashboard
<1>1. \A r \in Runs : Linked(r)' <=> Linked(r)
  BY <1>0 DEF Linked
<1>2. CASE Publish \/ \E c \in Clients : Refresh(c) \/ Dashboard(c)
  <2>1. exec' = exec /\ api' = api /\ crashes' = crashes
    BY <1>2 DEF Publish, Refresh, Dashboard
  <2>2. api.pc \in {"task", "link"} => api.of \in Runs
    BY DEF RunsOK
  <2> QED
    BY <1>0, <1>1, <2>1, <2>2 DEF PromotionInv
<1>3. CASE Crash
  <2>1. crashes' = crashes + 1 /\ api'.pc = "idle"
    BY <1>3 DEF Crash, ApiIdle
  <2>2. \A r \in Runs : exec'[r].run # None /\ exec'[r].run.promoted => Linked(r)'
    BY <1>1, <1>3 DEF Crash, NoExec, PromotionInv
  <2>3. \A r \in Runs : tasks'[r] <= crashes' /\ tasks'[r] <= 1 + crashes'
    BY <1>0, <2>1 DEF PromotionInv, RunsOK
  <2>4. \A r \in Runs : ~(tasks'[r] > crashes')
    BY <1>0, <2>1, <2>3 DEF RunsOK
  <2> QED
    BY <2>1, <2>2, <2>3, <2>4 DEF PromotionInv
<1>4. ASSUME NEW q \in ServerRuns, Create(q) PROVE PromotionInv'
  <2>1. exec' = exec /\ crashes' = crashes /\ api'.pc = "create" /\ api.pc = "idle"
    BY <1>4 DEF Create, ApiIdle
  <2> QED
    BY <1>0, <1>1, <2>1 DEF PromotionInv
<1>5. ASSUME NEW q \in CliRuns, CliDies(q) PROVE PromotionInv'
  <2>1. api' = api /\ crashes' = crashes + 1
    BY <1>5 DEF CliDies
  <2>2. \A r \in Runs : exec'[r].run # None /\ exec'[r].run.promoted => Linked(r)'
    BY <1>1, <1>5 DEF CliDies, NoExec, PromotionInv, RunsOK
  <2>3. \A r \in Runs : tasks'[r] <= 1 + crashes' /\ ~(tasks'[r] > crashes')
    BY <1>0, <2>1 DEF PromotionInv, RunsOK
  <2>4. api.pc \in {"task", "link"} => api.of \in Runs
    BY DEF RunsOK
  <2> QED
    BY <1>1, <2>1, <2>2, <2>3, <2>4 DEF PromotionInv
<1>6. ASSUME NEW q \in Runs, Promote(q) PROVE PromotionInv'
  <2>1. exec' = exec /\ crashes' = crashes /\ api'.pc = "task" /\ api'.of = q /\ api.pc = "idle" /\ ~Linked(q)
    BY <1>6 DEF Promote, Linked
  <2> QED
    BY <1>0, <1>1, <2>1 DEF PromotionInv
<1> QED
  BY <1>2, <1>3, <1>4, <1>5, <1>6

\* test_backend_phase1.py:108, "test_quick_action_promotion_is_singleton": a run gets
\* one task, and one more for each death at most, whatever threads write meanwhile.
THEOREM PromotionOnce == Spec => []PromotedOnce
<1>1. Init => PromotionInv
  <2> SUFFICES ASSUME Init PROVE PromotionInv
    OBVIOUS
  <2>1. \A q \in Runs : ~(exec[q].run # None /\ exec[q].run.promoted)
    BY DEF Init, NoExec
  <2>2. api.pc = "idle" /\ crashes = 0 /\ \A q \in Runs : tasks[q] = 0
    BY DEF Init, ApiIdle
  <2> QED
    BY <2>1, <2>2 DEF PromotionInv
<1>2. RunsOK /\ PromotionInv /\ [Next]_vars => PromotionInv'
  <2> SUFFICES ASSUME RunsOK, PromotionInv, [Next]_vars PROVE PromotionInv'
    OBVIOUS
  <2>1. CASE UNCHANGED vars
    <3>1. UNCHANGED <<store, exec, api, tasks, crashes>>
      BY <2>1 DEF vars
    <3> QED
      BY <3>1 DEF PromotionInv, Linked
  <2> QED
    BY <2>1, PromotionExecute, PromotionServe, PromotionOther DEF Next
<1>3. PromotionInv => PromotedOnce
  BY DEF PromotionInv, PromotedOnce
<1> QED
  BY <1>1, <1>2, <1>3, TypeCorrect, PTL DEF Spec

\* There are no more claims than before, if nothing that did not claim does.
LEMMA ClaimsShrink ==
  ASSUME Claims' \subseteq Claims, Cardinality(Claims) <= MaxPending
  PROVE  Cardinality(Claims') <= MaxPending
<1>1. Claims \in SUBSET Runs /\ Claims' \in SUBSET Runs
  BY DEF Claims, Runs
<1>2. IsFiniteSet(Claims) /\ Cardinality(Claims) \in Nat
  BY <1>1, FS_Subset, FS_CardinalityType, QuickAssumption
<1>3. IsFiniteSet(Claims') /\ Cardinality(Claims') \in Nat /\ Cardinality(Claims') <= Cardinality(Claims)
  BY <1>2, FS_Subset, FS_CardinalityType
<1> QED
  BY <1>2, <1>3, QuickAssumption

\* A request makes one claim more, when fewer runs than the limit pend.
LEMMA ClaimsGrow ==
  ASSUME NEW q \in ServerRuns, Claims' \subseteq Claims \cup {q},
         Claims \subseteq {r \in Runs : IsPending(r)},
         Cardinality({r \in Runs : IsPending(r)}) < MaxPending
  PROVE  Cardinality(Claims') <= MaxPending
<1> DEFINE Pend == {r \in Runs : IsPending(r)}
<1>1. IsFiniteSet(Pend) /\ Cardinality(Pend) \in Nat
  BY FS_Subset, FS_CardinalityType, QuickAssumption
<1>2. IsFiniteSet(Claims) /\ Cardinality(Claims) \in Nat /\ Cardinality(Claims) <= Cardinality(Pend)
  BY <1>1, FS_Subset, FS_CardinalityType
<1> HIDE DEF Pend
<1>3. /\ IsFiniteSet(Claims \cup {q}) /\ Cardinality(Claims \cup {q}) \in Nat
      /\ Cardinality(Claims \cup {q}) <= Cardinality(Claims) + 1
  <2>1. /\ IsFiniteSet(Claims \cup {q})
        /\ Cardinality(Claims \cup {q}) = IF q \in Claims THEN Cardinality(Claims) ELSE Cardinality(Claims) + 1
    BY <1>2, FS_AddElement
  <2> QED
    BY <1>2, <2>1
<1>4. Cardinality(Claims') \in Nat /\ Cardinality(Claims') <= Cardinality(Claims \cup {q})
  BY <1>3, FS_Subset, FS_CardinalityType
<1>5. Cardinality(Pend) < MaxPending
  BY DEF Pend
<1> QED
  BY <1>1, <1>2, <1>3, <1>4, <1>5, QuickAssumption

\* Steps of a thread: while its result is not saved, its run pends.
LEMMA LimitExecute ==
  ASSUME RunsOK, LimitInv, NEW q \in Runs, Execute(q)
  PROVE  LimitInv'
<1>0. api' = api
  BY DEF Execute, Start, Started, MatchRaises, ExecuteShortcut, ExecuteAgent, Work, Save, Saved
<1>1. /\ exec[q].pc # "none"
      /\ \A r \in Runs : r # q => exec'[r] = exec[r]
      /\ exec'[q].pc \in Unsaved => exec[q].pc \in Unsaved
  BY DEF Execute, Start, Started, MatchRaises, ExecuteShortcut, ExecuteAgent, Work, Save, Saved, At, RunsOK, Unsaved
<1>2. CASE UNCHANGED store
  <2>1. \A r \in Runs : IsPending(r)' <=> IsPending(r)
    BY <1>2 DEF IsPending
  <2>2. Claims' \subseteq Claims
    BY <1>0, <2>1 DEF Claims, Runs
  <2>3. Cardinality(Claims') <= MaxPending
    BY <2>2, ClaimsShrink DEF LimitInv
  <2>4. \A r \in ServerRuns : store'[r] = None => exec'[r].pc = "none"
    BY <1>1, <1>2 DEF LimitInv, Runs
  <2>5. api'.pc = "submit" => api'.of \in ServerRuns /\ exec'[api'.of].pc = "none" /\ IsPending(api.of)
    BY <1>0, <1>1 DEF LimitInv, Runs
  <2>6. \A r \in ServerRuns : exec'[r].pc \in Unsaved => IsPending(r)'
    BY <1>1, <2>1 DEF LimitInv, Runs
  <2>7. api'.pc \in {"task", "link"} /\ api'.of \in ServerRuns /\ exec'[api'.of].pc \in Unsaved
          => api'.run.status \in Pending
    BY <1>0, <1>1 DEF LimitInv, Runs
  <2> QED
    BY <1>0, <1>2, <2>3, <2>4, <2>5, <2>6, <2>7 DEF LimitInv, IsPending
\* What it writes pends, or it is through with its run.
<1>3. ASSUME NEW run \in Run, Upsert(q, run), exec[q].pc \in Unsaved,
             run.status \in Pending \/ exec'[q].pc \notin Unsaved
      PROVE  LimitInv'
  <2>1. /\ store'[q] # None /\ store'[q].status = run.status
        /\ \A r \in Runs : r # q => store'[r] = store[r]
    BY <1>3, UpsertEffect
  <2>2. \A r \in Runs : r # q => (IsPending(r)' <=> IsPending(r))
    BY <2>1 DEF IsPending
  <2>3. q \in ServerRuns => q \in Claims
    BY <1>3 DEF LimitInv, Claims
  <2>4. Claims' \subseteq Claims
    BY <1>0, <2>2, <2>3 DEF Claims, Runs
  <2>5. Cardinality(Claims') <= MaxPending
    BY <2>4, ClaimsShrink DEF LimitInv
  <2>6. \A r \in ServerRuns : store'[r] = None => exec'[r].pc = "none"
    BY <1>1, <2>1 DEF LimitInv, Runs
  <2>7. api.pc \in {"create", "submit"} => api.of # q /\ api.of \in ServerRuns
    <3>1. exec[q].pc # "none"
      BY <1>1
    <3> QED
      BY <3>1 DEF LimitInv
  <2>8. api.pc = "create" => store'[api.of] = None
    BY <2>1, <2>7 DEF LimitInv, Runs
  <2>9. api.pc = "submit" => exec'[api.of].pc = "none" /\ store'[api.of] = store[api.of]
    BY <1>1, <2>1, <2>7 DEF LimitInv, Runs
  <2>10. \A r \in ServerRuns : exec'[r].pc \in Unsaved => IsPending(r)'
    <3> SUFFICES ASSUME NEW r \in ServerRuns, exec'[r].pc \in Unsaved PROVE IsPending(r)'
      OBVIOUS
    <3>1. CASE r = q
      BY <1>3, <2>1, <3>1 DEF IsPending
    <3>2. CASE r # q
      BY <1>1, <2>2, <3>2 DEF LimitInv, Runs
    <3> QED
      BY <3>1, <3>2
  <2>11. api.pc \in {"task", "link"} /\ api.of \in ServerRuns /\ exec'[api.of].pc \in Unsaved
           => api.run.status \in Pending
    BY <1>1 DEF LimitInv, Runs
  <2> QED
    BY <1>0, <2>5, <2>6, <2>7, <2>8, <2>9, <2>10, <2>11 DEF LimitInv, IsPending
<1>4. CASE Start(q)
  <2>1. exec[q].run \in Run /\ exec[q].pc \in Unsaved
    BY <1>4, Copies DEF Start, Unsaved
  <2> DEFINE run == [exec[q].run EXCEPT !.status = "running"]
  <2>2. run \in Run /\ run.status \in Pending
    BY <2>1, SameLink DEF Pending
  <2> HIDE DEF run
  <2>3. Upsert(q, run)
    BY <1>4 DEF Start, run
  <2> QED
    BY <1>3, <2>1, <2>2, <2>3
<1>5. CASE Save(q)
  <2>1. exec[q].run \in Run /\ exec[q].pc \in Unsaved /\ exec'[q].pc \notin Unsaved
    BY <1>5, Copies DEF Save, Unsaved, RunsOK
  <2> QED
    BY <1>3, <1>5, <2>1 DEF Save
<1> QED
  BY <1>2, <1>4, <1>5 DEF Execute, Started, MatchRaises, ExecuteShortcut, ExecuteAgent, Work, Saved

\* Steps of a request: a new run already claims, and so does one that a promotion
\* is going to make pend again.
LEMMA LimitServe ==
  ASSUME RunsOK, LimitInv, Serve
  PROVE  LimitInv'
<1>0. api.of \in Runs
  BY DEF Serve, QueueRun, Submit, PromoteTask, PromoteLink, Promoted, RunsOK
<1>1. PICK q \in Runs : q = api.of
  BY <1>0
<1>2. CASE QueueRun
  <2> DEFINE run == [status |-> "queued", promoted |-> FALSE]
  <2>1. run \in Run /\ run.status \in Pending
    BY Copies DEF Pending
  <2> HIDE DEF run
  <2>2. Upsert(q, run) /\ exec' = exec /\ api.pc = "create" /\ api' = [api EXCEPT !.pc = "submit", !.run = run]
    BY <1>1, <1>2 DEF QueueRun, run
  <2>3. api'.pc = "submit" /\ api'.of = q
    BY <1>1, <2>2 DEF RunsOK
  <2>4. /\ store'[q] # None /\ store'[q].status = run.status
        /\ \A r \in Runs : r # q => store'[r] = store[r]
    BY <2>1, <2>2, UpsertEffect
  <2>5. q \in ServerRuns /\ exec[q].pc = "none" /\ q \in Claims
    BY <1>1, <2>2 DEF LimitInv, Claims
  <2>6. IsPending(q)' /\ \A r \in Runs : r # q => (IsPending(r)' <=> IsPending(r))
    BY <2>1, <2>4 DEF IsPending
  <2>7. Claims' \subseteq Claims
    BY <2>3, <2>5, <2>6 DEF Claims, Runs
  <2>8. Cardinality(Claims') <= MaxPending
    BY <2>7, ClaimsShrink DEF LimitInv
  <2>9. \A r \in ServerRuns : store'[r] = None => exec'[r].pc = "none"
    BY <2>2, <2>4 DEF LimitInv, Runs
  <2>10. \A r \in ServerRuns : exec'[r].pc \in Unsaved => IsPending(r)'
    BY <2>2, <2>6 DEF LimitInv, Runs
  <2> QED
    BY <2>2, <2>3, <2>5, <2>6, <2>8, <2>9, <2>10 DEF LimitInv, IsPending
<1>3. CASE Submit
  <2>1. /\ api'.pc = "idle" /\ store' = store /\ api.pc = "submit"
        /\ exec' = [exec EXCEPT ![q] = [pc |-> "queued", run |-> api.run]]
    BY <1>1, <1>3 DEF Submit, ApiIdle
  <2>2. \A r \in Runs : IsPending(r)' <=> IsPending(r)
    BY <2>1 DEF IsPending
  <2>3. IsPending(q)
    BY <1>1, <2>1 DEF LimitInv
  <2>4. Claims' \subseteq Claims
    BY <2>1, <2>2 DEF Claims, Runs
  <2>5. Cardinality(Claims') <= MaxPending
    BY <2>4, ClaimsShrink DEF LimitInv
  <2>6. \A r \in Runs : r # q => exec'[r] = exec[r]
    BY <2>1 DEF RunsOK
  <2>7. \A r \in ServerRuns : store'[r] = None => exec'[r].pc = "none"
    BY <2>1, <2>3, <2>6 DEF LimitInv, Runs, IsPending
  <2>8. \A r \in ServerRuns : exec'[r].pc \in Unsaved => IsPending(r)'
    BY <2>2, <2>3, <2>6 DEF LimitInv, Runs
  <2> QED
    BY <2>1, <2>5, <2>7, <2>8 DEF LimitInv
<1>4. CASE PromoteTask \/ Promoted
  <2>1. store' = store /\ exec' = exec
    BY <1>4 DEF PromoteTask, Promoted
  <2>2. \/ api.pc = "task" /\ api'.pc = "link" /\ api'.of = api.of /\ api'.run = api.run
        \/ api'.pc = "idle"
    BY <1>4 DEF PromoteTask, Promoted, ApiIdle, RunsOK
  <2>3. \A r \in Runs : IsPending(r)' <=> IsPending(r)
    BY <2>1 DEF IsPending
  <2>4. Claims' \subseteq Claims
    BY <2>2, <2>3 DEF Claims, Runs
  <2>5. Cardinality(Claims') <= MaxPending
    BY <2>4, ClaimsShrink DEF LimitInv
  <2>6. \A r \in ServerRuns : exec'[r].pc \in Unsaved => IsPending(r)'
    BY <2>1, <2>3 DEF LimitInv, Runs
  <2> QED
    BY <2>1, <2>2, <2>5, <2>6 DEF LimitInv
<1>5. CASE PromoteLink
  <2> DEFINE run == [api.run EXCEPT !.promoted = TRUE]
  <2>1. run \in Run /\ run.status = api.run.status
    BY <1>5, Copies DEF PromoteLink, Run
  <2> HIDE DEF run
  <2>2. Upsert(q, run) /\ exec' = exec /\ api.pc = "link" /\ api'.pc = "linked"
    BY <1>1, <1>5 DEF PromoteLink, run, RunsOK
  <2>3. /\ store'[q] # None /\ store'[q].status = api.run.status
        /\ \A r \in Runs : r # q => store'[r] = store[r]
    BY <2>1, <2>2, UpsertEffect
  <2>4. /\ IsPending(q)' <=> api.run.status \in Pending
        /\ \A r \in Runs : r # q => (IsPending(r)' <=> IsPending(r))
    BY <2>3 DEF IsPending
  <2>5. Claims' \subseteq Claims
    BY <1>1, <2>2, <2>4 DEF Claims, Runs
  <2>6. Cardinality(Claims') <= MaxPending
    BY <2>5, ClaimsShrink DEF LimitInv
  <2>7. \A r \in ServerRuns : store'[r] = None => exec'[r].pc = "none"
    BY <2>2, <2>3 DEF LimitInv, Runs
  <2>8. \A r \in ServerRuns : exec'[r].pc \in Unsaved => IsPending(r)'
    BY <1>1, <2>2, <2>4 DEF LimitInv, Runs
  <2> QED
    BY <2>2, <2>6, <2>7, <2>8 DEF LimitInv
<1> QED
  BY <1>2, <1>3, <1>4, <1>5 DEF Serve

\* The others: only Create lets a run in, and it has counted those that pend.
LEMMA LimitOther ==
  ASSUME RunsOK, LimitInv,
         \/ Publish \/ Crash
         \/ \E q \in ServerRuns : Create(q)
         \/ \E q \in CliRuns : CliDies(q)
         \/ \E q \in Runs : Promote(q)
         \/ \E c \in Clients : Refresh(c) \/ Dashboard(c)
  PROVE  LimitInv'
<1>0. store' = store
  BY DEF Publish, Crash, Create, CliDies, Promote, Refresh, Dashboard
<1>1. \A r \in Runs : IsPending(r)' <=> IsPending(r)
  BY <1>0 DEF IsPending
<1>2. ASSUME api' = api, \A r \in ServerRuns : exec'[r] = exec[r] PROVE LimitInv'
  <2>1. Claims' \subseteq Claims
    BY <1>1, <1>2 DEF Claims, Runs
  <2>2. Cardinality(Claims') <= MaxPending
    BY <2>1, ClaimsShrink DEF LimitInv
  <2>3. \A r \in ServerRuns : exec'[r].pc \in Unsaved => IsPending(r)'
    BY <1>1, <1>2 DEF LimitInv, Runs
  <2> QED
    BY <1>0, <1>2, <2>2, <2>3 DEF LimitInv, IsPending
<1>3. CASE Publish \/ \E c \in Clients : Refresh(c) \/ Dashboard(c)
  BY <1>2, <1>3 DEF Publish, Refresh, Dashboard
<1>4. ASSUME NEW q \in CliRuns, CliDies(q) PROVE LimitInv'
  <2>1. \A r \in ServerRuns : r \in Runs /\ r # q
    BY QuickAssumption DEF Runs
  <2> QED
    BY <1>2, <1>4, <2>1 DEF CliDies, RunsOK
<1>5. CASE Crash
  <2>1. api'.pc = "idle" /\ \A r \in ServerRuns : exec'[r].pc = "none"
    BY <1>5, QuickAssumption DEF Crash, ApiIdle, NoExec, Runs
  <2>2. Claims' \subseteq Claims
    BY <1>1, <2>1 DEF Claims, Runs
  <2>3. Cardinality(Claims') <= MaxPending
    BY <2>2, ClaimsShrink DEF LimitInv
  <2> QED
    BY <2>1, <2>3 DEF LimitInv, Unsaved
<1>6. ASSUME NEW q \in ServerRuns, Create(q) PROVE LimitInv'
  <2>1. /\ api.pc = "idle" /\ store[q] = None /\ exec' = exec
        /\ Cardinality({r \in Runs : IsPending(r)}) < MaxPending
        /\ api'.pc = "create" /\ api'.of = q
    BY <1>6 DEF Create, ApiIdle
  <2>2. Claims \subseteq {r \in Runs : IsPending(r)} /\ Claims' \subseteq Claims \cup {q}
    BY <1>1, <2>1 DEF Claims, Runs
  <2>3. Cardinality(Claims') <= MaxPending
    BY <2>1, <2>2, ClaimsGrow
  <2>4. \A r \in ServerRuns : exec'[r].pc \in Unsaved => IsPending(r)'
    BY <1>1, <2>1 DEF LimitInv, Runs
  <2> QED
    BY <1>0, <2>1, <2>3, <2>4 DEF LimitInv
<1>7. ASSUME NEW q \in Runs, Promote(q) PROVE LimitInv'
  <2>1. api.pc = "idle" /\ exec' = exec /\ api'.pc = "task" /\ api'.of = q /\ api'.run = store[q] /\ store[q] # None
    BY <1>7 DEF Promote
  <2>2. IsPending(q) <=> store[q].status \in Pending
    BY <2>1 DEF IsPending
  <2>3. Claims' \subseteq Claims
    BY <1>1, <2>1, <2>2 DEF Claims, Runs
  <2>4. Cardinality(Claims') <= MaxPending
    BY <2>3, ClaimsShrink DEF LimitInv
  <2>5. \A r \in ServerRuns : exec'[r].pc \in Unsaved => IsPending(r)'
    BY <1>1, <2>1 DEF LimitInv, Runs
  <2>6. api'.of \in ServerRuns /\ exec'[api'.of].pc \in Unsaved => api'.run.status \in Pending
    BY <2>1, <2>2 DEF LimitInv
  <2> QED
    BY <1>0, <2>1, <2>4, <2>5, <2>6 DEF LimitInv
<1> QED
  BY <1>3, <1>4, <1>5, <1>6, <1>7

\* router.py:1273, "Too many pending quick actions": however threads, promotions and
\* deaths interleave, requests never make more runs pend than the limit.
THEOREM LimitIsKept == Spec => []LimitHolds
<1>1. Init => LimitInv
  <2> SUFFICES ASSUME Init PROVE LimitInv
    OBVIOUS
  <2>1. \A q \in Runs : ~IsPending(q)
    BY DEF Init, IsPending
  <2>2. api.pc = "idle" /\ \A q \in ServerRuns : exec[q].pc = "none"
    BY QuickAssumption DEF Init, ApiIdle, NoExec, Runs
  <2>3. Claims = {}
    BY <2>1, <2>2 DEF Claims, Runs
  <2>4. Cardinality(Claims) <= MaxPending
    BY <2>3, FS_EmptySet, QuickAssumption
  <2> QED
    BY <2>2, <2>4 DEF LimitInv, Unsaved
<1>2. RunsOK /\ LimitInv /\ [Next]_vars => LimitInv'
  <2> SUFFICES ASSUME RunsOK, LimitInv, [Next]_vars PROVE LimitInv'
    OBVIOUS
  <2>1. CASE UNCHANGED vars
    <3>1. UNCHANGED <<store, exec, api>>
      BY <2>1 DEF vars
    <3> QED
      BY <3>1 DEF LimitInv, Claims, IsPending
  <2> QED
    BY <2>1, LimitExecute, LimitServe, LimitOther DEF Next
<1>3. LimitInv => LimitHolds
  <2> SUFFICES ASSUME LimitInv PROVE LimitHolds
    OBVIOUS
  <2> DEFINE Pend == {q \in ServerRuns : IsPending(q)}
  <2>1. IsFiniteSet(Claims) /\ Cardinality(Claims) \in Nat
    BY FS_Subset, FS_CardinalityType, QuickAssumption DEF Claims, Runs
  <2>2. Pend \in SUBSET Claims
    BY DEF Claims
  <2>3. Cardinality(Pend) \in Nat /\ Cardinality(Pend) <= Cardinality(Claims)
    BY <2>1, <2>2, FS_Subset, FS_CardinalityType
  <2> QED
    BY <2>1, <2>3, QuickAssumption DEF LimitInv, LimitHolds
<1> QED
  BY <1>1, <1>2, <1>3, TypeCorrect, PTL DEF Spec

-----------------------------------------------------------------------------
(* Dashboards.                                                             *)

\* A thread or a request that has changed a run of the server is about to send an event.
Owed ==
  \/ api.pc \in {"submit", "linked"} /\ api.of \in ServerRuns
  \/ \E q \in ServerRuns : exec[q].pc \in {"started", "saved"}

\* The hub is in order, no dashboard is connected where there are none, and
\* requests queue runs of the server only.
DashInv ==
  /\ HubTypes /\ PlaceInv
  /\ world \in World
  /\ \A c \in Clients : conn[c].open => c \in world.clients
  /\ api.pc \in {"create", "submit"} => api.of \in ServerRuns
  /\ EventOnItsWay

\* Event by event: what EventOnItsWay says.
LEMMA EventOnItsWayIs ==
  EventOnItsWay <=> \A c \in Clients : Follows(c) /\ ~conn[c].current => Coming(c) \/ Owed
BY DEF EventOnItsWay, Owed

\* Where the hub does not change, the event that was owed has to be owed still.
LEMMA QuietStep ==
  ASSUME DashInv, UNCHANGED hub, world' = world, Owed => Owed',
         api'.pc \in {"create", "submit"} => api'.of \in ServerRuns
  PROVE  DashInv'
<1>1. conn' = conn /\ arrivals' = arrivals /\ scheduled' = scheduled /\ pubs' = pubs
  BY DEF hub
<1>2. HubTypes'
  BY <1>1 DEF DashInv, HubTypes, HubOK
<1>3. PlaceInv'
  BY <1>1 DEF DashInv, PlaceInv, ConnectedIsKnown
<1>4. \A c \in Clients : (Follows(c)' <=> Follows(c)) /\ (Coming(c)' <=> Coming(c))
  BY <1>1 DEF Follows, Coming
<1>5. (\A c \in Clients : Follows(c) /\ ~conn[c].current => Coming(c) \/ Owed)'
  BY <1>1, <1>4, EventOnItsWayIs DEF DashInv
<1>6. EventOnItsWay'
  BY <1>5 DEF EventOnItsWay, Owed
<1> QED
  BY <1>1, <1>2, <1>3, <1>6 DEF DashInv

\* Who writes a run of the server owes an event then.
LEMMA WriteStep ==
  ASSUME DashInv, NEW q \in Runs, NEW run, Upsert(q, run), world' = world, Owed => Owed',
         q \in ServerRuns => Owed', api'.pc \in {"create", "submit"} => api'.of \in ServerRuns
  PROVE  DashInv'
<1>1. /\ conn \in [Clients -> Conn] /\ arrivals' = arrivals /\ scheduled' = scheduled /\ pubs' = pubs
      /\ conn' = [c \in Clients |-> [conn[c] EXCEPT !.current = @ /\ q \in CliRuns]]
  BY DEF Upsert, DashInv, HubTypes, HubOK
<1>2. ASSUME NEW c \in Clients
      PROVE  /\ conn'[c] \in Conn /\ conn'[c].open = conn[c].open /\ conn'[c].up = conn[c].up
             /\ conn'[c].known = conn[c].known /\ conn'[c].at = conn[c].at
             /\ conn'[c].channel = conn[c].channel /\ conn'[c].projects = conn[c].projects
             /\ conn'[c].heard = conn[c].heard /\ conn'[c].missed = conn[c].missed
             /\ q \in CliRuns => conn'[c].current = conn[c].current
  <2> DEFINE b == conn[c].current /\ q \in CliRuns
  <2>1. conn'[c] = [conn[c] EXCEPT !.current = b] /\ conn[c] \in Conn
    BY <1>1
  <2>2. b \in BOOLEAN
    OBVIOUS
  <2>3. q \in CliRuns => b = conn[c].current
    BY <2>1 DEF Conn
  <2> HIDE DEF b
  <2> QED
    BY <2>1, <2>2, <2>3 DEF Conn
<1>3. HubTypes'
  <2>1. conn' \in [Clients -> Conn]
    BY <1>1, <1>2
  <2> QED
    BY <1>1, <2>1 DEF DashInv, HubTypes, HubOK
<1>4. PlaceInv'
  <2>1. \A c \in Clients : /\ conn'[c].open = conn[c].open /\ conn'[c].up = conn[c].up
                           /\ conn'[c].known = conn[c].known /\ conn'[c].at = conn[c].at
    BY <1>2
  <2>2. PlaceInv
    BY DEF DashInv
  <2>3. ConnectedIsKnown'
    BY <2>1, <2>2 DEF PlaceInv, ConnectedIsKnown
  <2>4. /\ \A c \in Clients : conn'[c].open => conn'[c].at \in 1..arrivals
        /\ \A c \in Clients : conn'[c].known => conn'[c].open
        /\ \A c, d \in Clients : conn'[c].open /\ conn'[d].open /\ conn'[c].at = conn'[d].at => c = d
    BY <2>1, <2>2 DEF PlaceInv
  <2>5. /\ \A p \in pubs, c \in Clients : conn'[c].open /\ conn'[c].at = p.at => c = p.to
        /\ \A p \in pubs, c \in Clients : conn'[c].open /\ conn'[c].at \in p.stale => ~conn'[c].up
    BY <2>1, <2>2 DEF PlaceInv
  <2> QED
    BY <1>1, <2>2, <2>3, <2>4, <2>5 DEF PlaceInv
<1>5. \A c \in Clients : (Follows(c)' <=> Follows(c)) /\ (Coming(c)' <=> Coming(c))
  <2> SUFFICES ASSUME NEW c \in Clients
               PROVE  (Follows(c)' <=> Follows(c)) /\ (Coming(c)' <=> Coming(c))
    OBVIOUS
  <2>1. Wants(conn'[c]) <=> Wants(conn[c])
    BY <1>2 DEF Wants
  <2>2. Follows(c)' <=> Follows(c)
    BY <1>2, <2>1 DEF Follows
  <2>3. conn'[c].heard = conn[c].heard /\ conn'[c].at = conn[c].at
    BY <1>2
  <2>4. scheduled' = scheduled /\ pubs' = pubs
    BY <1>1
  <2>5. Coming(c)' <=> Coming(c)
    BY <2>3, <2>4 DEF Coming
  <2> QED
    BY <2>2, <2>5
<1>6. (\A c \in Clients : Follows(c) /\ ~conn[c].current => Coming(c) \/ Owed)'
  <2>1. CASE q \in ServerRuns
    BY <2>1
  <2>2. CASE q \in CliRuns
    BY <1>2, <1>5, <2>2, EventOnItsWayIs DEF DashInv
  <2> QED
    BY <2>1, <2>2 DEF Runs
<1>7. EventOnItsWay'
  BY <1>6 DEF EventOnItsWay, Owed
<1> QED
  BY <1>2, <1>3, <1>4, <1>7 DEF DashInv

\* Who announces a run of the server pays what is owed, wherever somebody looks.
LEMMA AnnounceStep ==
  ASSUME DashInv, NEW q \in Runs, Announce(q), world' = world, q \in CliRuns => (Owed => Owed'),
         api'.pc \in {"create", "submit"} => api'.of \in ServerRuns
  PROVE  DashInv'
<1>1. CASE q \in CliRuns
  <2>1. UNCHANGED hub
    BY <1>1 DEF Announce
  <2> QED
    BY <1>1, <2>1, QuietStep
<1>2. CASE q \notin CliRuns /\ world.clients = {}
  <2>1. UNCHANGED hub
    BY <1>2 DEF Announce
  <2>2. conn' = conn /\ arrivals' = arrivals /\ scheduled' = scheduled /\ pubs' = pubs
    BY <2>1 DEF hub
  <2>3. HubTypes'
    BY <2>2 DEF DashInv, HubTypes, HubOK
  <2>4. PlaceInv'
    BY <2>2 DEF DashInv, PlaceInv, ConnectedIsKnown
  <2>5. \A c \in Clients : ~Follows(c)'
    BY <1>2, <2>2 DEF DashInv, Follows
  <2>6. EventOnItsWay'
    BY <2>5 DEF EventOnItsWay
  <2> QED
    BY <2>2, <2>3, <2>4, <2>6 DEF DashInv
<1>3. CASE Emit
  <2>1. conn' = conn /\ arrivals' = arrivals /\ scheduled' = scheduled + 1 /\ pubs' = pubs
    BY <1>3 DEF Emit
  <2>2. scheduled \in Nat
    BY DEF DashInv, HubTypes, HubOK
  <2>3. HubTypes'
    BY <2>1, <2>2 DEF DashInv, HubTypes, HubOK
  <2>4. PlaceInv'
    BY <2>1 DEF DashInv, PlaceInv, ConnectedIsKnown
  <2>5. \A c \in Clients : Coming(c)'
    BY <2>1, <2>2 DEF Coming
  <2>6. EventOnItsWay'
    BY <2>5 DEF EventOnItsWay
  <2> QED
    BY <2>1, <2>3, <2>4, <2>6 DEF DashInv
<1> QED
  BY <1>1, <1>2, <1>3 DEF Announce

\* The step of a thread that owes nothing leaves what others owe.
LEMMA OthersOwe ==
  ASSUME RunsOK, NEW q \in Runs, NEW e, exec' = [exec EXCEPT ![q] = e], api' = api,
         \/ q \notin ServerRuns
         \/ exec[q].pc \notin {"started", "saved"}
         \/ e.pc \in {"started", "saved"}
  PROVE  /\ Owed => Owed'
         /\ q \in ServerRuns /\ e.pc \in {"started", "saved"} => Owed'
<1>1. exec'[q] = e /\ \A r \in Runs : r # q => exec'[r] = exec[r]
  BY DEF RunsOK
<1>2. q \in ServerRuns /\ e.pc \in {"started", "saved"} => Owed'
  BY <1>1 DEF Owed
<1>3. ASSUME Owed PROVE Owed'
  <2>1. CASE api.pc \in {"submit", "linked"} /\ api.of \in ServerRuns
    BY <2>1 DEF Owed
  <2>2. CASE \E r \in ServerRuns : exec[r].pc \in {"started", "saved"}
    <3>1. PICK r \in ServerRuns : exec[r].pc \in {"started", "saved"}
      BY <2>2
    <3>2. r \in Runs
      BY DEF Runs
    <3>3. CASE r = q
      BY <1>2, <3>1, <3>3
    <3>4. CASE r # q
      BY <1>1, <3>1, <3>2, <3>4 DEF Owed
    <3> QED
      BY <3>3, <3>4
  <2> QED
    BY <1>3, <2>1, <2>2 DEF Owed
<1> QED
  BY <1>2, <1>3

\* Steps of a thread.
LEMMA DashExecute ==
  ASSUME RunsOK, DashInv, NEW q \in Runs, Execute(q)
  PROVE  DashInv'
<1>0. api' = api /\ world' = world /\ (api'.pc \in {"create", "submit"} => api'.of \in ServerRuns)
  BY DEF Execute, Start, Started, MatchRaises, ExecuteShortcut, ExecuteAgent, Work, Save, Saved, DashInv
<1>1. CASE Start(q)
  <2> DEFINE run == [exec[q].run EXCEPT !.status = "running"]
             e == [pc |-> "started", run |-> Kept(q, run)]
  <2>1. Upsert(q, run) /\ exec' = [exec EXCEPT ![q] = e] /\ e.pc = "started"
    BY <1>1 DEF Start
  <2> HIDE DEF run, e
  <2>2. (Owed => Owed') /\ (q \in ServerRuns => Owed')
    BY <1>0, <2>1, OthersOwe
  <2> QED
    BY <1>0, <2>1, <2>2, WriteStep
<1>2. CASE Save(q)
  <2> DEFINE e == [pc |-> "saved", run |-> Kept(q, exec[q].run)]
  <2>1. Upsert(q, exec[q].run) /\ exec' = [exec EXCEPT ![q] = e] /\ e.pc = "saved"
    BY <1>2 DEF Save
  <2> HIDE DEF e
  <2>2. (Owed => Owed') /\ (q \in ServerRuns => Owed')
    BY <1>0, <2>1, OthersOwe
  <2> QED
    BY <1>0, <2>1, <2>2, WriteStep
<1>3. ASSUME Started(q) \/ Saved(q) PROVE DashInv'
  <2>1. Announce(q) /\ \E e : exec' = [exec EXCEPT ![q] = e]
    BY <1>3 DEF Started, Saved, At
  <2>2. PICK e : exec' = [exec EXCEPT ![q] = e]
    BY <2>1
  <2>3. q \in CliRuns => q \notin ServerRuns
    BY QuickAssumption
  <2>4. q \in CliRuns => (Owed => Owed')
    BY <1>0, <2>2, <2>3, OthersOwe
  <2> QED
    BY <1>0, <2>1, <2>4, AnnounceStep
<1>4. ASSUME MatchRaises(q) \/ ExecuteShortcut(q) \/ ExecuteAgent(q) PROVE DashInv'
  <2>1. exec[q].pc = "work" /\ UNCHANGED hub /\ \E e : exec' = [exec EXCEPT ![q] = e]
    BY <1>4 DEF MatchRaises, ExecuteShortcut, ExecuteAgent, Work, At
  <2>2. PICK e : exec' = [exec EXCEPT ![q] = e]
    BY <2>1
  <2>3. Owed => Owed'
    BY <1>0, <2>1, <2>2, OthersOwe
  <2> QED
    BY <1>0, <2>1, <2>3, QuietStep
<1> QED
  BY <1>1, <1>2, <1>3, <1>4 DEF Execute

\* Steps of a request.
LEMMA DashServe ==
  ASSUME RunsOK, DashInv, Serve
  PROVE  DashInv'
<1>0. api.of \in Runs /\ world' = world
  BY DEF Serve, QueueRun, Submit, PromoteTask, PromoteLink, Promoted, RunsOK
<1>1. PICK q \in Runs : q = api.of
  BY <1>0
<1>2. CASE QueueRun
  <2>1. Upsert(q, [status |-> "queued", promoted |-> FALSE]) /\ api.pc = "create"
    BY <1>1, <1>2 DEF QueueRun
  <2>2. api'.pc = "submit" /\ api'.of = q
    BY <1>1, <1>2 DEF QueueRun, RunsOK
  <2>3. q \in ServerRuns
    BY <1>1, <2>1 DEF DashInv
  <2>4. Owed'
    BY <2>2, <2>3 DEF Owed
  <2> QED
    BY <1>0, <2>1, <2>2, <2>3, <2>4, WriteStep
<1>3. CASE PromoteLink
  <2>1. Upsert(q, [api.run EXCEPT !.promoted = TRUE]) /\ exec' = exec /\ api.pc = "link"
    BY <1>1, <1>3 DEF PromoteLink
  <2>2. api'.pc = "linked" /\ api'.of = q
    BY <1>1, <1>3 DEF PromoteLink, RunsOK
  <2>3. q \in ServerRuns => Owed'
    BY <2>2 DEF Owed
  <2>4. Owed => Owed'
    BY <2>1 DEF Owed
  <2> QED
    BY <1>0, <2>1, <2>2, <2>3, <2>4, WriteStep
<1>4. CASE Submit \/ Promoted
  <2>1. Announce(q) /\ api'.pc = "idle" /\ api.pc \in {"submit", "linked"}
    BY <1>1, <1>4 DEF Submit, Promoted, ApiIdle
  <2>2. ASSUME q \in CliRuns, Owed PROVE Owed'
    <3>1. q \notin ServerRuns
      BY <2>2, QuickAssumption
    <3>2. Promoted
      BY <1>1, <1>4, <3>1 DEF Submit, DashInv
    <3>3. exec' = exec
      BY <3>2 DEF Promoted
    <3> QED
      BY <1>1, <2>2, <3>1, <3>3 DEF Owed
  <2> QED
    BY <1>0, <2>1, <2>2, AnnounceStep
<1>5. CASE PromoteTask
  <2>1. api.pc = "task" /\ exec' = exec /\ UNCHANGED hub /\ api'.pc = "link"
    BY <1>5 DEF PromoteTask, RunsOK
  <2>2. Owed => Owed'
    BY <2>1 DEF Owed
  <2> QED
    BY <1>0, <2>1, <2>2, QuietStep
<1> QED
  BY <1>2, <1>3, <1>4, <1>5 DEF Serve

\* Publications, and dashboards that come, change, go, or read again.
LEMMA DashHub ==
  ASSUME DashInv, Publish \/ \E c \in Clients : Refresh(c) \/ Dashboard(c)
  PROVE  DashInv'
<1>0. world' = world /\ exec' = exec /\ api' = api
  BY DEF Publish, Refresh, Dashboard
<1>1. Owed' <=> Owed
  BY <1>0 DEF Owed
<1>2. HubTypes /\ PlaceInv /\ conn \in [Clients -> Conn]
  BY DEF DashInv, HubTypes, HubOK
<1>3. ASSUME HubTypes', PlaceInv', \A c \in Clients : conn'[c].open => c \in world.clients,
             \A c \in Clients : Follows(c)' /\ ~conn'[c].current
                                  => Follows(c) /\ ~conn[c].current /\ (Coming(c) => Coming(c)')
      PROVE  DashInv'
  <2>1. (\A c \in Clients : Follows(c) /\ ~conn[c].current => Coming(c) \/ Owed)'
    BY <1>1, <1>3, EventOnItsWayIs DEF DashInv
  <2>2. EventOnItsWay'
    BY <2>1 DEF EventOnItsWay, Owed
  <2> QED
    BY <1>0, <1>3, <2>2 DEF DashInv
<1>4. CASE Publish
  <2>1. PublishStep
    BY <1>4 DEF Publish
  <2>2. /\ HubTypes' /\ PlaceInv'
        /\ \A c \in Clients : /\ conn'[c].open = conn[c].open /\ conn'[c].current = conn[c].current
                              /\ Follows(c)' => Follows(c)
                              /\ Follows(c)' /\ Coming(c) => Coming(c)'
    BY <1>2, <2>1, PublishEffect
  <2>3. \A c \in Clients : conn'[c].open => c \in world.clients
    BY <2>2 DEF DashInv
  <2> QED
    BY <1>3, <2>2, <2>3
<1>5. ASSUME NEW c \in Clients, Dashboard(c) PROVE DashInv'
  <2>1. ConnStep(c, world.messages) /\ c \in world.clients
    BY <1>5 DEF Dashboard
  <2>2. world.messages \in SUBSET Messages
    BY DEF DashInv, World
  <2>3. /\ HubTypes' /\ PlaceInv'
        /\ \A d \in Clients \ {c} : conn'[d] = conn[d]
        /\ \A d \in Clients :
             Follows(d)' => /\ Follows(d) /\ conn'[d].current = conn[d].current
                            /\ Coming(d) => Coming(d)'
    BY <1>2, <2>1, <2>2, ConnEffect
  <2>4. \A d \in Clients : conn'[d].open => d \in world.clients
    BY <2>1, <2>3 DEF DashInv
  <2> QED
    BY <1>3, <2>3, <2>4
<1>6. ASSUME NEW c \in Clients, Refresh(c) PROVE DashInv'
  <2> DEFINE missed == conn[c].missed /\ ~Wants(conn[c])
             k == [conn[c] EXCEPT !.heard = FALSE, !.current = TRUE, !.missed = missed]
  <2>1. /\ conn' = [conn EXCEPT ![c] = k] /\ conn[c].open
        /\ pubs' = pubs /\ scheduled' = scheduled /\ arrivals' = arrivals
    BY <1>6 DEF Refresh
  <2>2. missed \in BOOLEAN
    OBVIOUS
  <2> HIDE DEF missed
  <2>3. /\ k \in Conn /\ k.open = conn[c].open /\ k.up = conn[c].up /\ k.known = conn[c].known
        /\ k.at = conn[c].at /\ k.current
    BY <1>2, <2>2 DEF Conn
  <2> HIDE DEF k
  <2>4. HubTypes' /\ PlaceInv'
    BY <1>2, <2>1, <2>3, ConnChange
  <2>5. conn'[c] = k /\ \A d \in Clients : d # c => conn'[d] = conn[d]
    BY <1>2, <2>1
  <2>6. \A d \in Clients : conn'[d].open => d \in world.clients
    BY <2>3, <2>5 DEF DashInv
  <2>7. ASSUME NEW d \in Clients, Follows(d)', ~conn'[d].current
        PROVE  Follows(d) /\ ~conn[d].current /\ (Coming(d) => Coming(d)')
    <3>1. conn'[d] = conn[d]
      BY <2>3, <2>5, <2>7
    <3> QED
      BY <2>1, <2>7, <3>1 DEF Follows, Coming
  <2> QED
    BY <1>3, <2>4, <2>6, <2>7
<1> QED
  BY <1>4, <1>5, <1>6

\* The others.
LEMMA DashOther ==
  ASSUME RunsOK, DashInv,
         \/ Crash
         \/ \E q \in ServerRuns : Create(q)
         \/ \E q \in CliRuns : CliDies(q)
         \/ \E q \in Runs : Promote(q)
  PROVE  DashInv'
<1>1. CASE Crash
  <2>1. /\ conn' = [c \in Clients |-> NoConn] /\ scheduled' = 0 /\ pubs' = {}
        /\ arrivals' = arrivals /\ world' = world /\ api'.pc = "idle"
    BY <1>1 DEF Crash, ApiIdle
  <2>2. \A c \in Clients : conn'[c] = NoConn /\ ~conn'[c].open /\ ~conn'[c].known
    BY <2>1 DEF NoConn
  <2>3. HubTypes'
    <3>1. NoConn \in Conn
      BY HubAssumption DEF NoConn, Conn
    <3> QED
      BY <2>1, <3>1, FS_EmptySet DEF DashInv, HubTypes, HubOK
  <2>4. PlaceInv'
    BY <2>1, <2>2 DEF PlaceInv, ConnectedIsKnown
  <2>5. EventOnItsWay'
    BY <2>2 DEF EventOnItsWay, Follows
  <2> QED
    BY <2>1, <2>2, <2>3, <2>4, <2>5 DEF DashInv
<1>2. ASSUME NEW q \in ServerRuns, Create(q) PROVE DashInv'
  <2>1. /\ api.pc = "idle" /\ api'.pc = "create" /\ api'.of = q /\ exec' = exec
        /\ world' = world /\ UNCHANGED hub
    BY <1>2 DEF Create, ApiIdle
  <2>2. Owed => Owed'
    BY <2>1 DEF Owed
  <2> QED
    BY <2>1, <2>2, QuietStep
<1>3. ASSUME NEW q \in CliRuns, CliDies(q) PROVE DashInv'
  <2>1. /\ exec' = [exec EXCEPT ![q] = [NoExec EXCEPT !.pc = "over"]] /\ api' = api
        /\ world' = world /\ UNCHANGED hub
    BY <1>3 DEF CliDies
  <2>2. q \in Runs /\ q \notin ServerRuns
    BY QuickAssumption DEF Runs
  <2>3. Owed => Owed'
    BY <2>1, <2>2, OthersOwe
  <2> QED
    BY <2>1, <2>3, QuietStep DEF DashInv
<1>4. ASSUME NEW q \in Runs, Promote(q) PROVE DashInv'
  <2>1. /\ api.pc = "idle" /\ api'.pc = "task" /\ exec' = exec
        /\ world' = world /\ UNCHANGED hub
    BY <1>4 DEF Promote
  <2>2. Owed => Owed'
    BY <2>1 DEF Owed
  <2> QED
    BY <2>1, <2>2, QuietStep
<1> QED
  BY <1>1, <1>2, <1>3, <1>4

\* All of this together.
LEMMA Dashboards == Spec => []DashInv
<1>1. Init => DashInv
  <2> SUFFICES ASSUME Init PROVE DashInv
    OBVIOUS
  <2>1. /\ \A c \in Clients : conn[c] = NoConn /\ ~conn[c].open /\ ~conn[c].known
        /\ scheduled = 0 /\ pubs = {} /\ arrivals = 0 /\ api.pc = "idle"
    BY DEF Init, HubInit, NoConn, ApiIdle
  <2>2. HubTypes
    <3>1. NoConn \in Conn
      BY HubAssumption DEF NoConn, Conn
    <3>2. conn \in [Clients -> Conn]
      BY <3>1 DEF Init, HubInit
    <3> QED
      BY <2>1, <3>2, HubAssumption, FS_EmptySet DEF HubTypes, HubOK
  <2>3. PlaceInv
    BY <2>1 DEF PlaceInv, ConnectedIsKnown
  <2>4. EventOnItsWay
    BY <2>1 DEF EventOnItsWay, Follows
  <2>5. world \in World
    BY QuickAssumption DEF Init
  <2> QED
    BY <2>1, <2>2, <2>3, <2>4, <2>5 DEF DashInv
<1>2. RunsOK /\ DashInv /\ [Next]_vars => DashInv'
  <2> SUFFICES ASSUME RunsOK, DashInv, [Next]_vars PROVE DashInv'
    OBVIOUS
  <2>1. CASE UNCHANGED vars
    <3>1. UNCHANGED hub /\ world' = world /\ api' = api /\ exec' = exec
      BY <2>1 DEF vars
    <3>2. Owed => Owed'
      BY <3>1 DEF Owed
    <3> QED
      BY <3>1, <3>2, QuietStep DEF DashInv
  <2> QED
    BY <2>1, DashExecute, DashServe, DashHub, DashOther DEF Next
<1> QED
  BY <1>1, <1>2, TypeCorrect, PTL DEF Spec

\* Types, those of the hub included: a publication always has a free number and
\* the place of a connection.
THEOREM TypesRight == Spec => []TypeOK
<1>1. RunsOK /\ DashInv => TypeOK
  BY DEF DashInv, HubTypes, TypeOK
<1> QED
  BY <1>1, TypeCorrect, Dashboards, PTL

\* ws.py:111-116: publications that overlap, whose clients come, go and break while
\* they await, take no connection out that works.
THEOREM NobodyForgotten == Spec => []ConnectedIsKnown
<1>1. DashInv => ConnectedIsKnown
  BY DEF DashInv, PlaceInv
<1> QED
  BY <1>1, Dashboards, PTL

\* executor.py:36-54, ws.py:100-116: a dashboard that has been subscribed ever since
\* it read the runs, and shows old ones, has heard an event or is owed one, whatever
\* publications, promotions and deaths come between.
THEOREM NoEventLost == Spec => []EventOnItsWay
<1>1. DashInv => EventOnItsWay
  BY DEF DashInv
<1> QED
  BY <1>1, Dashboards, PTL
=============================================================================
