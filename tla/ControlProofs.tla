---------------------------- MODULE ControlProofs ----------------------------
(***************************************************************************)
(* For any number of tasks and any limits: types, that a pause takes hold  *)
(* after at most one more claim, and that draining waits for the jobs of   *)
(* every task that was not taken up twice.                                 *)
(***************************************************************************)
EXTENDS Control, TLAPS

\* A written configuration is whole if the one it was made from was.
LEMMA SaveType ==
  ASSUME NEW c \in Cfg, late \in Nat, Save(c)
  PROVE  cfg' \in Cfg /\ late' \in Nat
  BY DEF Save

\* Initially the types are right.
LEMMA TypeInit == Init => TypeOK
<1> SUFFICES ASSUME Init PROVE TypeOK
  OBVIOUS
<1>1. cfg \in Cfg /\ late \in Nat /\ stop \in BOOLEAN /\ drain \in BOOLEAN
  BY DEF Init, Cfg
<1>2. loop \in LoopRec /\ api \in ApiRec /\ cli \in CliRec
  BY DEF Init, LoopStart, ApiIdle, CliIdle, LoopRec, ApiRec, CliRec, LoopPC, ApiPC
<1>3. /\ task \in [Tasks -> Status]
      /\ job \in [Jobs -> JobRec]
      /\ futures \in [Tasks -> Jobs \cup {None}]
      /\ twice \subseteq Tasks
  BY DEF Init, Status, NoJobs, JobRec
<1> QED
  BY <1>1, <1>2, <1>3 DEF TypeOK, Init, LoopStart, ApiIdle, CliIdle

\* Steps of the loop keep the types.
LEMMA TypeLoop == TypeOK /\ LoopStep => TypeOK'
<1> SUFFICES ASSUME TypeOK, LoopStep PROVE TypeOK'
  OBVIOUS
<1> USE DEF LoopRec, LoopPC, flags, work
<1>0. LoopStart \in LoopRec
  BY DEF LoopStart
<1>1. CASE LoopTop
  <2>1. loop' \in LoopRec /\ loop'.pc \notin {"claim", "paused", "submit", "register"}
    BY <1>0, <1>1 DEF LoopTop, LoopStart
  <2> QED
    BY <1>1, <2>1 DEF LoopTop, TypeOK
<1>2. CASE LoopTick
  <2>1. futures' \in [Tasks -> Jobs \cup {None}]
    BY <1>2 DEF LoopTick, Swept, TypeOK
  <2> QED
    BY <1>2, <2>1 DEF LoopTick, TypeOK
<1>3. CASE LoopNothing
  BY <1>3 DEF LoopNothing, TypeOK
<1>4. CASE LoopSubmit
  <2>1. PICK j \in Jobs : /\ job' = [job EXCEPT ![j] = [pc |-> "queued", task |-> loop.task]]
                          /\ loop' = [loop EXCEPT !.pc = "register", !.job = j]
    BY <1>4 DEF LoopSubmit
  <2>2. loop.task \in Tasks
    BY <1>4 DEF LoopSubmit, TypeOK
  <2>3. [pc |-> "queued", task |-> loop.task] \in JobRec
    BY <2>2 DEF JobRec
  <2>4. job' \in [Jobs -> JobRec]
    BY <2>1, <2>3 DEF TypeOK
  <2>5. loop' \in LoopRec /\ loop'.pc = "register" /\ loop'.task \in Tasks /\ loop'.job \in Jobs
    BY <2>1, <2>2 DEF TypeOK
  <2> QED
    BY <1>4, <2>4, <2>5 DEF LoopSubmit, TypeOK
<1>5. CASE LoopRegister
  BY <1>5 DEF LoopRegister, TypeOK
<1>6. CASE LoopCount
  <2> DEFINE b == \E t \in Tasks : futures[t] # None
  <2>1. b \in BOOLEAN
    OBVIOUS
  <2>2. loop' = [loop EXCEPT !.pc = "check", !.inflight = b]
    BY <1>6 DEF LoopCount
  <2> HIDE DEF b
  <2>3. loop' \in LoopRec /\ loop'.pc = "check"
    BY <2>1, <2>2 DEF TypeOK
  <2> QED
    BY <1>6, <2>3 DEF LoopCount, TypeOK
<1>7. CASE LoopCheck
  BY <1>0, <1>7 DEF LoopCheck, TypeOK, LoopStart
<1>8. CASE LoopPause
  BY <1>8 DEF LoopPause, TypeOK
<1>9. CASE LoopPaused
  <2>1. [loop.snap EXCEPT !.status = "paused"] \in Cfg
    BY <1>9 DEF LoopPaused, TypeOK, Cfg
  <2>2. cfg' \in Cfg /\ late' \in Nat
    BY <1>9, <2>1, SaveType DEF LoopPaused, TypeOK
  <2> QED
    BY <1>9, <2>2 DEF LoopPaused, TypeOK
<1>10. CASE LoopUndrain
  BY <1>0, <1>10 DEF LoopUndrain, TypeOK, LoopStart
<1>11. ASSUME NEW t \in Tasks, LoopClaim(t) PROVE TypeOK'
  <2>1. task' \in [Tasks -> Status] /\ late' \in Nat /\ twice' \subseteq Tasks
    BY <1>11 DEF LoopClaim, TypeOK, Status
  <2> QED
    BY <1>11, <2>1 DEF LoopClaim, TypeOK
<1> QED
  BY <1>1, <1>2, <1>3, <1>4, <1>5, <1>6, <1>7, <1>8, <1>9, <1>10, <1>11 DEF LoopStep

\* Requests and commands keep the types.
LEMMA TypeRequest ==
  ASSUME TypeOK,
         \/ Request \/ Serve \/ CliSave
         \/ \E op \in Actions : Cli(op)
  PROVE  TypeOK'
<1> USE DEF ApiRec, ApiPC, CliRec, flags, work
<1>0. ApiIdle \in ApiRec /\ CliIdle \in CliRec
  BY DEF ApiIdle, CliIdle
<1>1. CASE Settings
  BY <1>1 DEF Settings, TypeOK, ApiIdle
<1>2. CASE Shutdown
  BY <1>2 DEF Shutdown, TypeOK, ApiIdle
<1>3. ASSUME NEW op \in Actions, Control(op) PROVE TypeOK'
  BY <1>3 DEF Control, TypeOK, ApiIdle
<1>4. ASSUME NEW t \in Tasks, Queue(t) PROVE TypeOK'
  BY <1>4 DEF Queue, TypeOK, Status
<1>5. ASSUME NEW t \in Tasks, Run(t) PROVE TypeOK'
  <2>1. task' \in [Tasks -> Status] /\ twice' \subseteq Tasks
    BY <1>5 DEF Run, TypeOK, Status
  <2>2. api' = [pc |-> "submit", op |-> "run", snap |-> None, task |-> t, job |-> None]
    BY <1>5 DEF Run, ApiIdle
  <2>3. api' \in ApiRec
    BY <2>2
  <2> QED
    BY <1>5, <2>1, <2>2, <2>3 DEF Run, TypeOK
<1>6. CASE ControlFlag
  BY <1>6 DEF ControlFlag, TypeOK
<1>7. CASE ControlSave
  <2>1. Target[api.op] \in {"running", "paused", "stopped"}
    BY <1>7 DEF ControlSave, Target, Actions
  <2>2. [api.snap EXCEPT !.status = Target[api.op]] \in Cfg
    BY <1>7, <2>1 DEF ControlSave, TypeOK, Cfg
  <2>3. cfg' \in Cfg /\ late' \in Nat
    BY <1>7, <2>2, SaveType DEF ControlSave, TypeOK
  <2> QED
    BY <1>0, <1>7, <2>3 DEF ControlSave, TypeOK, ApiIdle
<1>8. CASE SettingsSave
  <2>1. \A l \in Limits : [api.snap EXCEPT !.limit = l] \in Cfg
    BY <1>8 DEF SettingsSave, TypeOK, Cfg
  <2>2. cfg' \in Cfg /\ late' \in Nat
    BY <1>8, <2>1, SaveType DEF SettingsSave, TypeOK
  <2> QED
    BY <1>0, <1>8, <2>2 DEF SettingsSave, TypeOK, ApiIdle
<1>14. CASE Section
  BY <1>14 DEF Section, TypeOK, ApiIdle
<1>15. CASE SectionSave
  <2>1. cfg' \in Cfg /\ late' \in Nat
    BY <1>15, SaveType DEF SectionSave, TypeOK
  <2> QED
    BY <1>0, <1>15, <2>1 DEF SectionSave, TypeOK, ApiIdle
<1>9. CASE RunSubmit
  <2>1. PICK j \in Jobs : /\ job' = [job EXCEPT ![j] = [pc |-> "asked", task |-> api.task]]
                          /\ api' = [api EXCEPT !.pc = "register", !.job = j]
    BY <1>9 DEF RunSubmit
  <2>2. api.task \in Tasks
    BY <1>9 DEF RunSubmit, TypeOK
  <2>3. [pc |-> "asked", task |-> api.task] \in JobRec
    BY <2>2 DEF JobRec
  <2>4. job' \in [Jobs -> JobRec]
    BY <2>1, <2>3 DEF TypeOK
  <2>5. api' \in ApiRec /\ api'.pc = "register" /\ api'.task \in Tasks /\ api'.job \in Jobs
    BY <2>1, <2>2 DEF TypeOK
  <2> QED
    BY <1>9, <2>4, <2>5 DEF RunSubmit, TypeOK
<1>10. CASE RunRegister
  BY <1>10 DEF RunRegister, TypeOK
<1>11. CASE RunReturn
  BY <1>0, <1>11 DEF RunReturn, TypeOK, ApiIdle
<1>12. ASSUME NEW op \in Actions, Cli(op) PROVE TypeOK'
  BY <1>12 DEF Cli, TypeOK
<1>13. CASE CliSave
  <2>1. Target[cli.op] \in {"running", "paused", "stopped"}
    BY <1>13 DEF CliSave, Target, Actions, TypeOK
  <2>2. [cli.snap EXCEPT !.status = Target[cli.op]] \in Cfg
    BY <1>13, <2>1 DEF CliSave, TypeOK, Cfg
  <2>3. cfg' \in Cfg /\ late' \in Nat
    BY <1>13, <2>2, SaveType DEF CliSave, TypeOK
  <2> QED
    BY <1>0, <1>13, <2>3 DEF CliSave, TypeOK, CliIdle
<1> QED
  BY <1>1, <1>2, <1>3, <1>4, <1>5, <1>6, <1>7, <1>8, <1>9, <1>10, <1>11, <1>12, <1>13,
     <1>14, <1>15 DEF Request, Serve

\* Jobs and restarts keep the types.
LEMMA TypeWork ==
  ASSUME TypeOK,
         Restart \/ \E j \in Jobs : JobStep(j) \/ JobWrite(j)
  PROVE  TypeOK'
<1> USE DEF flags, work, Status
<1>1. ASSUME NEW j \in Jobs, JobPrepare(j) \/ JobBegin(j) \/ JobEnd(j) \/ JobWrite(j) PROVE TypeOK'
  <2>1. job[j] \in [pc : {"asked", "queued", "running"}, task : Tasks]
    BY <1>1 DEF JobPrepare, JobBegin, JobEnd, JobWrite, TypeOK, JobRec, NoJob
  <2>2. job' \in [Jobs -> JobRec]
    <3>1. \A k \in Jobs : job[k] \in JobRec
      BY DEF TypeOK
    <3>2. [job[j] EXCEPT !.pc = "queued"] \in JobRec /\ [job[j] EXCEPT !.pc = "running"] \in JobRec
      BY <2>1 DEF JobRec
    <3>3. NoJob \in JobRec
      BY DEF JobRec
    <3> QED
      BY <1>1, <3>1, <3>2, <3>3 DEF JobPrepare, JobBegin, JobEnd, JobWrite, TypeOK
  <2>3. task' \in [Tasks -> Status]
    BY <1>1, <2>1 DEF JobPrepare, JobBegin, JobEnd, JobWrite, TypeOK
  <2>4. UNCHANGED <<cfg, late, flags, loop, api, cli, futures, twice>>
    BY <1>1 DEF JobPrepare, JobBegin, JobEnd, JobWrite
  <2> QED
    BY <2>2, <2>3, <2>4 DEF TypeOK
<1>3. CASE Restart
  <2>1. LoopStart \in LoopRec /\ ApiIdle \in ApiRec
    BY DEF LoopStart, LoopRec, LoopPC, ApiIdle, ApiRec, ApiPC
  <2>2. /\ task' \in [Tasks -> Status]
        /\ job' \in [Jobs -> JobRec]
        /\ futures' \in [Tasks -> Jobs \cup {None}]
        /\ twice' \subseteq Tasks
    BY <1>3 DEF Restart, TypeOK, NoJobs, JobRec
  <2> QED
    BY <1>3, <2>1, <2>2 DEF Restart, TypeOK, LoopStart, ApiIdle
<1> QED
  BY <1>1, <1>3 DEF JobStep

\* Whoever writes config.yaml writes a whole configuration.
THEOREM TypeCorrect == Spec => []TypeOK
<1>1. TypeOK /\ [Next]_vars => TypeOK'
  <2> SUFFICES ASSUME TypeOK, [Next]_vars PROVE TypeOK'
    OBVIOUS
  <2>1. CASE UNCHANGED vars
    BY <2>1 DEF vars, flags, work, TypeOK
  <2> QED
    BY <2>1, TypeLoop, TypeRequest, TypeWork DEF Next
<1> QED
  BY <1>1, TypeInit, PTL DEF Spec

-----------------------------------------------------------------------------
(* A pause takes hold.                                                     *)

\* What is not the loop or the configuration leaves the pause alone.
LEMMA PauseFrame ==
  ASSUME TypeOK, PauseInv, UNCHANGED late,
         cfg' = cfg \/ cfg'.status # "running",
         loop' = loop \/ loop'.pc # "claim"
  PROVE  PauseInv'
  BY DEF PauseInv, PauseTakesHold

\* A write of the configuration starts the count afresh or leaves it.
LEMMA PauseSave ==
  ASSUME TypeOK, PauseInv, NEW c, Save(c), loop'.pc = "claim" => loop' = loop
  PROVE  PauseInv'
<1>1. CASE c.status = "running"
  BY <1>1 DEF Save, PauseInv, PauseTakesHold
<1>2. CASE c.status # "running"
  BY <1>2 DEF Save, PauseInv, PauseTakesHold
<1> QED
  BY <1>1, <1>2

\* Only a tick that read running leads to a claim, and only a claim counts.
LEMMA PauseInductive == TypeOK /\ PauseInv /\ [Next]_vars => PauseInv'
<1> SUFFICES ASSUME TypeOK, PauseInv, [Next]_vars PROVE PauseInv'
  OBVIOUS
<1> USE DEF flags, work
<1>1. CASE LoopStep
  <2>1. CASE LoopTick
    BY <2>1 DEF LoopTick, TypeOK, LoopRec, PauseInv, PauseTakesHold
  <2>2. ASSUME NEW t \in Tasks, LoopClaim(t) PROVE PauseInv'
    <3>1. late = 0 /\ late' <= 1 /\ (cfg.status = "running" => late' = 0)
      BY <2>2 DEF LoopClaim, PauseInv
    <3>2. loop'.pc = "submit" /\ cfg' = cfg
      BY <2>2 DEF LoopClaim, TypeOK, LoopRec
    <3> QED
      BY <3>1, <3>2 DEF PauseInv, PauseTakesHold
  <2>3. CASE LoopPaused
    <3>1. loop'.pc = "undrain"
      BY <2>3 DEF LoopPaused, TypeOK, LoopRec
    <3> QED
      BY <2>3, <3>1, PauseSave DEF LoopPaused
  <2>4. CASE LoopTop \/ LoopCheck \/ LoopUndrain
    <3>1. loop'.pc # "claim" /\ UNCHANGED <<cfg, late>>
      BY <2>4 DEF LoopTop, LoopCheck, LoopUndrain, TypeOK, LoopRec, LoopStart
    <3> QED
      BY <3>1, PauseFrame
  <2>5. CASE LoopNothing \/ LoopSubmit \/ LoopRegister \/ LoopCount \/ LoopPause
    <3>1. loop'.pc # "claim" /\ UNCHANGED <<cfg, late>>
      BY <2>5 DEF LoopNothing, LoopSubmit, LoopRegister, LoopCount, LoopPause, TypeOK, LoopRec
    <3> QED
      BY <3>1, PauseFrame
  <2> QED
    BY <1>1, <2>1, <2>2, <2>3, <2>4, <2>5 DEF LoopStep
<1>2. CASE ControlSave
  BY <1>2, PauseSave DEF ControlSave
<1>3. CASE SettingsSave
  BY <1>3, PauseSave DEF SettingsSave
<1>9. CASE SectionSave
  BY <1>9, PauseSave DEF SectionSave
<1>4. CASE CliSave
  BY <1>4, PauseSave DEF CliSave
<1>5. CASE Request \/ ControlFlag \/ RunSubmit \/ RunRegister \/ RunReturn
  <2>1. UNCHANGED <<cfg, late, loop>>
    BY <1>5 DEF Request, Settings, Section, Shutdown, Control, Queue, Run, ControlFlag, RunSubmit,
                RunRegister, RunReturn
  <2> QED
    BY <2>1, PauseFrame
<1>6. CASE (\E op \in Actions : Cli(op)) \/ \E j \in Jobs : JobStep(j) \/ JobWrite(j)
  <2>1. UNCHANGED <<cfg, late, loop>>
    BY <1>6 DEF Cli, JobStep, JobPrepare, JobBegin, JobEnd, JobWrite
  <2> QED
    BY <2>1, PauseFrame
<1>7. CASE Restart
  BY <1>7, PauseFrame DEF Restart, LoopStart
<1>8. CASE UNCHANGED vars
  BY <1>8, PauseFrame DEF vars
<1> QED
  BY <1>1, <1>2, <1>3, <1>4, <1>5, <1>6, <1>7, <1>8, <1>9 DEF Next, Serve

\* However pauses, resumes, commands and restarts interleave, at most one task
\* is claimed between two moments at which config.yaml says running.
THEOREM PauseHolds == Spec => []PauseTakesHold
<1>1. Init => PauseInv
  BY DEF Init, PauseInv, PauseTakesHold, LoopStart
<1>2. PauseInv => PauseTakesHold
  BY DEF PauseInv
<1> QED
  BY <1>1, <1>2, TypeCorrect, PauseInductive, PTL DEF Spec

-----------------------------------------------------------------------------
(* Draining waits for the jobs.                                            *)

\* What only moves the loop on, not to a decision, leaves DrainInv alone.
LEMMA DrainFrame ==
  ASSUME TypeOK, DrainInv,
         UNCHANGED <<job, futures, twice>>,
         loop' = loop \/ (loop.pc # "register" /\ loop'.pc \notin {"submit", "register", "check"}
                           /\ (Drained' => Drained)),
         api' = api \/ api'.pc \notin {"submit", "register", "await"}
  PROVE  DrainInv'
<1>1. Live' = Live
  BY DEF Live
<1> QED
  BY <1>1 DEF DrainInv, DrainWaits, Drained

\* A step of a job, its end included, puts nothing off.
LEMMA DrainJob ==
  ASSUME TypeOK, DrainInv, NEW j \in Jobs, JobStep(j) \/ JobWrite(j)
  PROVE  DrainInv'
<1>1. UNCHANGED <<loop, api, futures, twice>> /\ job[j].pc # "none"
  BY DEF JobStep, JobPrepare, JobBegin, JobEnd, JobWrite
<1>2. \A k \in Jobs : job[k] \in JobRec
  BY DEF TypeOK
<1>3. \A k \in Jobs : job'[k].pc # "none" => job[k].pc # "none" /\ job'[k].task = job[k].task
  BY <1>1, <1>2 DEF JobStep, JobPrepare, JobBegin, JobEnd, JobWrite, TypeOK, JobRec, NoJob
<1>4. Live' \subseteq Live
  BY <1>3 DEF Live
<1> QED
  BY <1>1, <1>3, <1>4 DEF DrainInv, DrainWaits, Drained

\* A new job is registered next, or its task is one taken up twice.
LEMMA DrainSubmit == TypeOK /\ DrainInv /\ LoopSubmit => DrainInv'
<1> SUFFICES ASSUME TypeOK, DrainInv, LoopSubmit PROVE DrainInv'
  OBVIOUS
<1>1. PICK j \in Jobs : /\ Free(j)
                        /\ job' = [job EXCEPT ![j] = [pc |-> "queued", task |-> loop.task]]
                        /\ loop' = [loop EXCEPT !.pc = "register", !.job = j]
  BY DEF LoopSubmit
<1>2. UNCHANGED <<api, futures, twice>> /\ loop.pc = "submit"
  BY DEF LoopSubmit, flags
<1>3. loop'.pc = "register" /\ loop'.job = j /\ loop'.task = loop.task
  BY <1>1 DEF TypeOK, LoopRec
<1>4. job'[j].task = loop.task /\ \A k \in Jobs : k # j => job'[k] = job[k]
  BY <1>1 DEF TypeOK
<1>5. \A k \in Jobs : job'[k].pc # "none" /\ job'[k].task \notin twice =>
        futures[job'[k].task] = k \/ (k = j /\ job'[k].task = loop.task)
  BY <1>2, <1>4 DEF DrainInv
<1>6. loop.task \notin twice =>
        \A k \in Jobs : job'[k].pc # "none" /\ job'[k].task = loop.task => k = j
  <2>1. loop.task \in Tasks
    BY <1>2 DEF TypeOK
  <2> QED
    BY <1>2, <1>4, <2>1 DEF DrainInv, Live
<1>7. api'.pc \in {"submit", "register", "await"} => api'.task \in twice'
  BY <1>2 DEF DrainInv
<1> QED
  BY <1>2, <1>3, <1>5, <1>6, <1>7 DEF DrainInv, DrainWaits, Drained

\* The job of POST /run is one of a task taken up twice.
LEMMA DrainRunSubmit == TypeOK /\ DrainInv /\ RunSubmit => DrainInv'
<1> SUFFICES ASSUME TypeOK, DrainInv, RunSubmit PROVE DrainInv'
  OBVIOUS
<1>1. PICK j \in Jobs : /\ Free(j)
                        /\ job' = [job EXCEPT ![j] = [pc |-> "asked", task |-> api.task]]
                        /\ api' = [api EXCEPT !.pc = "register", !.job = j]
  BY DEF RunSubmit
<1>2. UNCHANGED <<loop, futures, twice>> /\ api.pc = "submit" /\ api.task \in twice
  BY DEF RunSubmit, flags, DrainInv
<1>3. api'.task = api.task
  BY <1>1 DEF TypeOK, ApiRec
<1>4. job'[j].task = api.task /\ \A k \in Jobs : k # j => job'[k] = job[k]
  BY <1>1 DEF TypeOK
<1>5. Live' \subseteq Live \cup twice
  BY <1>2, <1>4 DEF Live
<1>7. \A k \in Jobs : job'[k].pc # "none" /\ job'[k].task \notin twice => k # j
  BY <1>2, <1>4
<1> QED
  BY <1>2, <1>3, <1>4, <1>5, <1>7 DEF DrainInv, DrainWaits, Drained

\* A claim of a task that may have a job marks it; a claim of any other finds no job.
LEMMA DrainClaim ==
  ASSUME TypeOK, DrainInv, NEW t \in Tasks, LoopClaim(t)
  PROVE  DrainInv'
<1>1. /\ UNCHANGED <<api, job, futures>> /\ loop.pc = "claim"
      /\ loop'.pc = "submit" /\ loop'.task = t
  BY DEF LoopClaim, TypeOK, LoopRec
<1>2. /\ t \in Live \/ api.task = t => twice' = twice \cup {t}
      /\ ~(t \in Live \/ api.task = t) => twice' = twice \ {t}
  BY DEF LoopClaim
<1>3. \A k \in Jobs : job[k].pc # "none" /\ job[k].task \in twice => job[k].task \in twice'
  BY <1>2 DEF Live
<1>4. Live' = Live
  BY <1>1 DEF Live
<1>5. \A k \in Jobs : job[k].pc # "none" /\ job[k].task \notin twice' => futures[job[k].task] = k
  BY <1>1, <1>3 DEF DrainInv
<1>6. api.pc \in {"submit", "register", "await"} => api.task \in twice'
  BY <1>2 DEF DrainInv
<1> QED
  BY <1>1, <1>2, <1>4, <1>5, <1>6 DEF DrainInv, DrainWaits, Drained

\* The loop's job is registered over any other, which is of a task taken up twice.
LEMMA DrainRegister == TypeOK /\ DrainInv /\ LoopRegister => DrainInv'
<1> SUFFICES ASSUME TypeOK, DrainInv, LoopRegister PROVE DrainInv'
  OBVIOUS
<1>1. /\ UNCHANGED <<api, job, twice>> /\ loop.pc = "register" /\ loop'.pc = "count"
      /\ loop.task \in Tasks
      /\ futures'[loop.task] = loop.job
      /\ \A t \in Tasks : t # loop.task => futures'[t] = futures[t]
  BY DEF LoopRegister, TypeOK, LoopRec
<1>2. \A k \in Jobs : job[k].pc # "none" => job[k].task \in Tasks
  BY DEF TypeOK, JobRec, NoJob
<1>3. \A k \in Jobs : job[k].pc # "none" /\ job[k].task \notin twice =>
        futures'[job[k].task] = k
  <2> SUFFICES ASSUME NEW k \in Jobs, job[k].pc # "none", job[k].task \notin twice
               PROVE  futures'[job[k].task] = k
    OBVIOUS
  <2>1. CASE job[k].task = loop.task
    BY <1>1, <2>1 DEF DrainInv
  <2>2. CASE job[k].task # loop.task
    BY <1>1, <1>2, <2>2 DEF DrainInv
  <2> QED
    BY <2>1, <2>2
<1> QED
  BY <1>1, <1>3 DEF DrainInv, DrainWaits, Drained


\* Nothing in futures means that no job lives but of tasks taken up twice.
LEMMA DrainCount == TypeOK /\ DrainInv /\ LoopCount => DrainInv'
<1> SUFFICES ASSUME TypeOK, DrainInv, LoopCount PROVE DrainInv'
  OBVIOUS
<1> DEFINE b == \E t \in Tasks : futures[t] # None
<1>1. /\ UNCHANGED <<api, job, futures, twice>> /\ loop.pc = "count"
      /\ loop' = [loop EXCEPT !.pc = "check", !.inflight = b]
  BY DEF LoopCount, flags, work
<1>2. b <=> \E t \in Tasks : futures[t] # None
  OBVIOUS
<1> HIDE DEF b
<1>3. loop'.pc = "check" /\ loop'.inflight = b
  BY <1>1 DEF TypeOK, LoopRec
<1>4. Live' = Live
  BY <1>1 DEF Live
<1>5. ASSUME NEW t \in Live, ~b PROVE t \in twice
  <2>1. PICK j \in Jobs : job[j].pc # "none" /\ job[j].task = t
    BY DEF Live
  <2>2. futures[t] = None /\ None # j
    BY <1>2, <1>5, ControlAssumption DEF Live
  <2> QED
    BY <1>1, <2>1, <2>2 DEF DrainInv
<1> QED
  BY <1>1, <1>3, <1>4, <1>5 DEF DrainInv, DrainWaits, Drained

\* The loop decides that draining is over only when no job is alive but of tasks
\* taken up twice.
LEMMA DrainInductive == TypeOK /\ DrainInv /\ [Next]_vars => DrainInv'
<1> SUFFICES ASSUME TypeOK, DrainInv, [Next]_vars PROVE DrainInv'
  OBVIOUS
<1> USE DEF flags, work
<1>1. CASE LoopStep
  <2>1. CASE LoopTick
    <3>1. /\ UNCHANGED <<api, job, twice>> /\ loop.pc = "tick" /\ loop'.pc \in {"claim", "count"}
          /\ \A t \in Tasks : futures'[t] # futures[t] =>
               futures[t] # None /\ job[futures[t]] = NoJob
      BY <2>1 DEF LoopTick, Swept, TypeOK, LoopRec
    <3>2. \A k \in Jobs : job[k].pc # "none" => job[k].task \in Tasks /\ job[k] # NoJob
      BY DEF TypeOK, JobRec, NoJob
    <3>3. \A k \in Jobs : job[k].pc # "none" /\ job[k].task \notin twice => futures'[job[k].task] = k
      BY <3>1, <3>2 DEF DrainInv
    <3> QED
      BY <3>1, <3>3 DEF DrainInv, DrainWaits, Drained
  <2>2. CASE LoopCheck
    <3>1. /\ UNCHANGED <<api, job, futures, twice>> /\ loop.pc = "check"
          /\ loop'.pc \in {"pause", "top"} /\ (loop'.pc = "pause" => ~loop.inflight)
      BY <2>2 DEF LoopCheck, TypeOK, LoopRec, LoopStart
    <3>2. Live' = Live
      BY <3>1 DEF Live
    <3> QED
      BY <3>1, <3>2 DEF DrainInv, DrainWaits, Drained
  <2>3. CASE LoopPause \/ LoopPaused \/ LoopUndrain \/ LoopTop \/ LoopNothing
    <3>1. /\ UNCHANGED <<api, job, futures, twice>> /\ loop.pc # "register"
          /\ loop'.pc \notin {"submit", "register", "check"} /\ (Drained' => Drained)
      BY <2>3 DEF LoopPause, LoopPaused, LoopUndrain, LoopTop, LoopNothing, TypeOK, LoopRec,
                  LoopStart, Drained
    <3> QED
      BY <3>1, DrainFrame
  <2> QED
    BY <1>1, <2>1, <2>2, <2>3, DrainSubmit, DrainRegister, DrainClaim, DrainCount DEF LoopStep
<1>2. CASE Request
  <2>1. ASSUME NEW t \in Tasks, Run(t) PROVE DrainInv'
    <3>1. /\ UNCHANGED <<loop, job, futures>> /\ twice' = twice \cup {t} /\ api'.task = t
      BY <2>1 DEF Run, ApiIdle
    <3>2. Live' = Live
      BY <3>1 DEF Live
    <3> QED
      BY <3>1, <3>2 DEF DrainInv, DrainWaits, Drained
  <2>2. CASE Settings \/ Section \/ Shutdown \/ (\E op \in Actions : Control(op))
             \/ (\E t \in Tasks : Queue(t))
    <3>1. /\ UNCHANGED <<loop, job, futures, twice>>
          /\ api' = api \/ api'.pc \notin {"submit", "register", "await"}
      BY <2>2 DEF Settings, Section, Shutdown, Control, Queue, ApiIdle
    <3> QED
      BY <3>1, DrainFrame
  <2> QED
    BY <1>2, <2>1, <2>2 DEF Request
<1>3. CASE Serve
  <2>1. CASE RunRegister
    <3>1. /\ UNCHANGED <<loop, job, twice>> /\ api.pc = "register" /\ api'.task = api.task
          /\ api.task \in Tasks
          /\ \A t \in Tasks : t # api.task => futures'[t] = futures[t]
      BY <2>1 DEF RunRegister, TypeOK, ApiRec
    <3>2. \A k \in Jobs : job[k].pc # "none" => job[k].task \in Tasks
      BY DEF TypeOK, JobRec, NoJob
    <3>3. Live' = Live
      BY <3>1 DEF Live
    <3> QED
      BY <3>1, <3>2, <3>3 DEF DrainInv, DrainWaits, Drained
  <2>2. CASE RunReturn
    <3>1. /\ UNCHANGED <<loop, job, twice>> /\ api.pc = "await" /\ api'.pc = "idle"
          /\ api.task \in Tasks
          /\ \A t \in Tasks : t # api.task => futures'[t] = futures[t]
      BY <2>2 DEF RunReturn, TypeOK, ApiIdle
    <3>2. \A k \in Jobs : job[k].pc # "none" => job[k].task \in Tasks
      BY DEF TypeOK, JobRec, NoJob
    <3>3. Live' = Live
      BY <3>1 DEF Live
    <3> QED
      BY <3>1, <3>2, <3>3 DEF DrainInv, DrainWaits, Drained
  <2>3. CASE ControlFlag \/ ControlSave \/ SettingsSave \/ SectionSave
    <3>1. /\ UNCHANGED <<loop, job, futures, twice>>
          /\ api'.pc \notin {"submit", "register", "await"}
      BY <2>3 DEF ControlFlag, ControlSave, SettingsSave, SectionSave, ApiIdle, TypeOK, ApiRec
    <3> QED
      BY <3>1, DrainFrame
  <2> QED
    BY <1>3, <2>1, <2>2, <2>3, DrainRunSubmit DEF Serve
<1>4. CASE CliSave \/ (\E op \in Actions : Cli(op)) \/ UNCHANGED vars
  <2>1. UNCHANGED <<loop, api, job, futures, twice>>
    BY <1>4 DEF CliSave, Cli, vars
  <2> QED
    BY <2>1, DrainFrame
<1>5. CASE Restart
  <2>1. /\ loop'.pc = "top" /\ api'.pc = "idle"
        /\ \A j \in Jobs : job'[j].pc = "none"
    BY <1>5 DEF Restart, LoopStart, ApiIdle, NoJobs, NoJob
  <2>2. Live' = {}
    BY <2>1 DEF Live
  <2> QED
    BY <2>1, <2>2 DEF DrainInv, DrainWaits, Drained
<1> QED
  BY <1>1, <1>2, <1>3, <1>4, <1>5, DrainJob DEF Next

\* The loop pauses at the end of a drain only when every job it ever submitted
\* is over, but for those of tasks that were taken up again while they had one.
THEOREM DrainHolds == Spec => []DrainWaits
<1>1. Init => DrainInv
  <2> SUFFICES ASSUME Init PROVE DrainInv
    OBVIOUS
  <2>1. loop.pc = "top" /\ api.pc = "idle" /\ \A j \in Jobs : job[j].pc = "none"
    BY DEF Init, LoopStart, ApiIdle, NoJobs, NoJob
  <2>2. Live = {}
    BY <2>1 DEF Live
  <2> QED
    BY <2>1, <2>2 DEF DrainInv, DrainWaits, Drained
<1>2. DrainInv => DrainWaits
  BY DEF DrainInv
<1> QED
  BY <1>1, <1>2, TypeCorrect, DrainInductive, PTL DEF Spec
=============================================================================
