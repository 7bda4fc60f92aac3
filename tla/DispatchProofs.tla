-------------------------- MODULE DispatchProofs --------------------------
(***************************************************************************)
(* Proofs about Dispatch for any number of tasks, jobs, pool places and    *)
(* crashes: type correctness, mutual exclusion of executions, no leaked    *)
(* worktree and, for the endpoints in OwnedOps, no orphaned task.          *)
(***************************************************************************)
EXTENDS Dispatch, TLAPS

\* Every write puts a task record into the store of some task: the types of
\* Dispatch hold in every reachable state.
LEMMA TypeInit == Init => TypeOK
<1> SUFFICES ASSUME Init PROVE TypeOK
  OBVIOUS
<1> USE DispatchAssumption DEF Init
<1>1. up \in BOOLEAN /\ store \in [Tasks -> TaskRec]
  BY DEF TaskRec, Status, Terminal
<1>2. branch \in [Tasks -> Jobs \cup {None, Kept}] /\ futures \in [Tasks -> Jobs \cup {None}]
  OBVIOUS
<1>3. th \in [Submitters -> ThreadRec] /\ \A d \in Submitters : ThreadOK(d)
  BY DEF IdleThread, ThreadRec, ThreadOK, ThreadPC
<1>4. NoJob \in JobRec
  BY DEF NoJob, JobRec, JobPC
<1>5. job \in [Jobs -> JobRec] /\ \A j \in Jobs : JobOK(j)
  BY <1>4 DEF JobOK, NoJob
<1>6. QED
  BY <1>1, <1>2, <1>3, <1>5 DEF TypeOK

\* A thread that goes on with what its place needs keeps the types of threads.
LEMMA ThreadMoves ==
  ASSUME TypeOK, NEW d \in Submitters, NEW r \in ThreadRec, th' = [th EXCEPT ![d] = r],
         r.pc # "idle" => r.task \in Tasks,
         r.pc \in {"write", "upsert", "submit"} => r.rec \in TaskRec,
         r.pc \in {"register", "join", "await"} => r.job \in Jobs
  PROVE  th' \in [Submitters -> ThreadRec] /\ \A e \in Submitters : ThreadOK(e)'
<1>1. th \in [Submitters -> ThreadRec] /\ \A e \in Submitters : ThreadOK(e)
  BY DEF TypeOK
<1>2. th' \in [Submitters -> ThreadRec]
  BY <1>1
<1>3. \A e \in Submitters : th'[e] = IF e = d THEN r ELSE th[e]
  BY <1>1
<1> QED
  BY <1>1, <1>2, <1>3 DEF ThreadOK

\* A loop tick keeps the types.
LEMMA TypeLoop == TypeOK /\ LoopStep => TypeOK'
<1> SUFFICES ASSUME TypeOK, LoopStep PROVE TypeOK'
  OBVIOUS
<1>0. Swept \in [Tasks -> Jobs \cup {None}] /\ "loop" \in Submitters
  BY DEF Swept, TypeOK, Submitters
<1>1. CASE LoopIdle
  BY <1>0, <1>1 DEF LoopIdle, TypeOK, ThreadOK, JobOK
<1>2. ASSUME NEW t \in Tasks, LoopClaim(t) PROVE TypeOK'
  <2> DEFINE rec == [store[t] EXCEPT !.status = "in_progress"]
             r == [pc |-> "submit", task |-> t, rec |-> rec, job |-> None]
  <2>1. rec \in TaskRec
    BY DEF TypeOK, TaskRec, Status
  <2>2. r \in ThreadRec
    BY <2>1 DEF ThreadRec, ThreadPC
  <2>3. store' = [store EXCEPT ![t] = rec] /\ th' = [th EXCEPT !["loop"] = r]
    BY <1>2 DEF LoopClaim
  <2>4. th' \in [Submitters -> ThreadRec] /\ \A e \in Submitters : ThreadOK(e)'
    <3> HIDE DEF rec
    <3> QED
      BY <1>0, <2>1, <2>2, <2>3, ThreadMoves
  <2>5. store' \in [Tasks -> TaskRec]
    BY <2>1, <2>3 DEF TypeOK
  <2> QED
    BY <1>0, <1>2, <2>4, <2>5 DEF LoopClaim, TypeOK, JobOK
<1>3. QED
  BY <1>1, <1>2 DEF LoopStep

\* Submission and registration keep the types.
LEMMA TypeSubmit == TypeOK /\ SubmitStep => TypeOK'
<1> SUFFICES ASSUME TypeOK, NEW d \in Submitters,
                    Register(d) \/ \E j \in Jobs : Submit(d, j)
             PROVE TypeOK'
  BY DEF SubmitStep
<1> USE DispatchAssumption
    DEF TypeOK, ThreadRec, ThreadOK, JobRec, JobOK, ThreadPC, JobPC
<1>1. CASE Register(d)
  <2>1. th[d].job \in Jobs /\ th[d].task \in Tasks
    BY <1>1 DEF Register
  <2>2. CASE d = "loop"
    BY <1>1, <2>1, <2>2 DEF Register, IdleThread, Submitters
  <2>3. CASE d = "api"
    <3>1. th' = [th EXCEPT !["api"] = [th["api"] EXCEPT !.pc = "await"]]
      BY <1>1, <2>3 DEF Register
    <3>2. [th["api"] EXCEPT !.pc = "await"] \in ThreadRec
      BY DEF Submitters
    <3>3. th' \in [Submitters -> ThreadRec] /\ \A e \in Submitters : ThreadOK(e)'
      BY <2>1, <2>3, <3>1, <3>2 DEF Submitters
    <3>4. QED
      BY <1>1, <2>1, <3>3 DEF Register
  <2>4. QED
    BY <2>2, <2>3 DEF Submitters
<1>2. ASSUME NEW j \in Jobs, Submit(d, j) PROVE TypeOK'
  <2>1. th[d].task \in Tasks /\ th[d].rec \in TaskRec
    BY <1>2 DEF Submit
  <2>2. [th[d] EXCEPT !.pc = "register", !.job = j, !.rec = None] \in ThreadRec
    <3>1. th[d] \in ThreadRec
      OBVIOUS
    <3>2. QED
      BY <3>1
  <2>3. th' = [th EXCEPT ![d] = [th[d] EXCEPT !.pc = "register", !.job = j, !.rec = None]]
    BY <1>2 DEF Submit
  <2>4. th' \in [Submitters -> ThreadRec] /\ \A e \in Submitters : ThreadOK(e)'
    <3> DEFINE r == [th[d] EXCEPT !.pc = "register", !.job = j, !.rec = None]
    <3>1. r.pc = "register" /\ r.task = th[d].task /\ r.job = j
      OBVIOUS
    <3> HIDE DEF r, ThreadRec, ThreadOK, TypeOK
    <3> QED
      BY <2>1, <2>2, <2>3, <3>1, ThreadMoves DEF r
  <2>5. [pc |-> "queued", task |-> th[d].task, rec |-> th[d].rec, left |-> Steps] \in JobRec
    BY <2>1
  <2>6. job' \in [Jobs -> JobRec] /\ \A k \in Jobs : JobOK(k)'
    <3> DEFINE r == [pc |-> "queued", task |-> th[d].task, rec |-> th[d].rec, left |-> Steps]
    <3>1. r.task \in Tasks /\ r.rec \in TaskRec /\ job' = [job EXCEPT ![j] = r]
      BY <1>2, <2>1 DEF Submit
    <3>2. r \in JobRec
      BY <2>5
    <3> HIDE DEF r, JobRec
    <3>3. job' \in [Jobs -> JobRec] /\ \A k \in Jobs : job'[k] = IF k = j THEN r ELSE job[k]
      BY <3>1, <3>2
    <3> QED
      BY <3>1, <3>3
  <2>7. QED
    BY <1>2, <2>4, <2>6 DEF Submit
<1>3. QED
  BY <1>1, <1>2

\* A request's read keeps the types: what it will write is a task record.
LEMMA TypeRequest == ASSUME TypeOK, NEW t \in Tasks, Request(t) PROVE TypeOK'
<1> USE DispatchAssumption
<1>1. ASSUME NEW op, NEW rec \in TaskRec, ApiRead(op, t, rec) PROVE TypeOK'
  BY <1>1 DEF ApiRead, TypeOK, ThreadRec, ThreadOK, JobRec, JobOK, ThreadPC, Submitters
<1>2. store[t] \in TaskRec
  BY DEF TypeOK
<1>3. \A s \in Status : [store[t] EXCEPT !.status = s] \in TaskRec
  BY <1>2 DEF TaskRec
<1>4. CASE Patch(t)
  BY <1>1, <1>2, <1>4 DEF Patch
<1>5. CASE Transition(t)
  <2>1. PICK target \in ValidTransitions[store[t].status] :
          ApiRead("transition", t, [store[t] EXCEPT !.status = target])
    BY <1>5 DEF Transition
  <2>2. target \in Status
    BY <2>1, <1>2 DEF ValidTransitions, TaskRec, Status, Terminal
  <2>3. QED
    BY <1>1, <1>3, <2>1, <2>2
<1>6. CASE Retry(t)
  <2>1. [store[t] EXCEPT !.status = "ready", !.gate = FALSE] \in TaskRec
    BY <1>2 DEF TaskRec, Status
  <2>2. QED
    BY <1>1, <1>6, <2>1 DEF Retry
<1>7. CASE Cancel(t)
  BY <1>1, <1>3, <1>7 DEF Cancel, Status, Terminal
<1>8. CASE ApproveGate(t)
  <2>1. [store[t] EXCEPT !.gate = FALSE] \in TaskRec
    BY <1>2 DEF TaskRec
  <2>2. QED
    BY <1>1, <1>8, <2>1 DEF ApproveGate
<1>9. CASE ApproveReview(t)
  BY <1>1, <1>3, <1>9 DEF ApproveReview, Status, Terminal
<1>10. CASE RequestChanges(t)
  BY <1>1, <1>3, <1>10 DEF RequestChanges, Status
<1>11. CASE RunTask(t)
  <2>1. [store[t] EXCEPT !.status = "ready"] \in TaskRec
    BY <1>3 DEF Status
  <2>2. "api" \in Submitters
    BY DEF Submitters
  <2>3. th' \in [Submitters -> ThreadRec] /\ \A e \in Submitters : ThreadOK(e)'
    <3>1. CASE th' = [th EXCEPT !["api"] = [pc |-> "lookup", task |-> t, rec |-> None, job |-> None]]
      <4>1. [pc |-> "lookup", task |-> t, rec |-> None, job |-> None] \in ThreadRec
        BY DEF ThreadRec, ThreadPC
      <4> QED
        BY <2>2, <3>1, <4>1, ThreadMoves
    <3>2. CASE th' = [th EXCEPT !["api"] = [pc |-> "upsert", task |-> t,
                                            rec |-> [store[t] EXCEPT !.status = "ready"], job |-> None]]
      <4> DEFINE rec == [store[t] EXCEPT !.status = "ready"]
      <4>1. [pc |-> "upsert", task |-> t, rec |-> rec, job |-> None] \in ThreadRec
        BY <2>1 DEF ThreadRec, ThreadPC
      <4> HIDE DEF rec
      <4> QED
        BY <2>1, <2>2, <3>2, <4>1, ThreadMoves DEF rec
    <3> QED
      BY <1>11, <3>1, <3>2 DEF RunTask
  <2>4. QED
    BY <1>11, <2>3 DEF RunTask, TypeOK, JobOK
<1>12. QED
  BY <1>4, <1>5, <1>6, <1>7, <1>8, <1>9, <1>10, <1>11 DEF Request

\* The rest of a handler keeps the types.
LEMMA TypeApi == TypeOK /\ ApiStep => TypeOK'
<1> SUFFICES ASSUME TypeOK, ApiStep PROVE TypeOK'
  OBVIOUS
<1> USE DispatchAssumption
    DEF TypeOK, ThreadRec, ThreadOK, JobRec, JobOK, ThreadPC, Submitters
<1>1. CASE ApiWrite
  BY <1>1 DEF ApiWrite, IdleThread
<1>2. CASE RunUpsert
  <2>1. th["api"] \in ThreadRec /\ th["api"].task \in Tasks /\ th["api"].rec \in TaskRec
    BY <1>2 DEF RunUpsert
  <2>2. [th["api"] EXCEPT !.pc = "submit"] \in ThreadRec
    BY <2>1
  <2>3. th' = [th EXCEPT !["api"] = [th["api"] EXCEPT !.pc = "submit"]]
    BY <1>2 DEF RunUpsert
  <2>4. th' \in [Submitters -> ThreadRec] /\ \A e \in Submitters : ThreadOK(e)'
    BY <2>1, <2>2, <2>3, ThreadMoves
  <2>5. store' \in [Tasks -> TaskRec]
    BY <1>2, <2>1 DEF RunUpsert
  <2> QED
    BY <1>2, <2>4, <2>5 DEF RunUpsert
<1>3. CASE RunLookup
  <2>0. "api" \in Submitters /\ IdleThread \in ThreadRec
    BY DEF IdleThread
  <2>1. PICK f \in Jobs \cup {None} :
          th' = [th EXCEPT !["api"] =
            IF f = None THEN IdleThread ELSE [th["api"] EXCEPT !.pc = "join", !.job = f]]
    BY <1>3 DEF RunLookup
  <2>2. CASE f = None
    BY <2>0, <2>1, <2>2, <1>3, ThreadMoves DEF RunLookup, IdleThread
  <2>3. CASE f \in Jobs /\ f # None
    <3> DEFINE r == [th["api"] EXCEPT !.pc = "join", !.job = f]
    <3>1. r \in ThreadRec /\ r.pc = "join" /\ r.task \in Tasks /\ r.job = f
      BY <1>3, <2>0, <2>3 DEF RunLookup
    <3>2. th' = [th EXCEPT !["api"] = r]
      BY <2>1, <2>3
    <3>3. th' \in [Submitters -> ThreadRec] /\ \A e \in Submitters : ThreadOK(e)'
      <4> HIDE DEF r, ThreadRec, ThreadOK, TypeOK, Submitters
      <4> QED
        BY <2>0, <2>3, <3>1, <3>2, ThreadMoves
    <3> QED
      BY <1>3, <3>3 DEF RunLookup
  <2> QED
    BY <2>2, <2>3
<1>4. CASE RunReturn
  BY <1>4 DEF RunReturn, IdleThread
<1>5. QED
  BY <1>1, <1>2, <1>3, <1>4 DEF ApiStep

\* The two ways a job writes its own copy, and the way it writes nothing.
LEMMA TypeUpsert ==
  ASSUME TypeOK, NEW j \in Jobs, job[j].pc # "finished", NEW rec \in TaskRec,
         NEW pc \in JobPC, Upsert(j, rec, pc)
  PROVE  /\ store' \in [Tasks -> TaskRec]
         /\ job' \in [Jobs -> JobRec] /\ \A k \in Jobs : JobOK(k)'
<1> USE DEF TypeOK, JobOK, JobRec
<1>1. job[j].task \in Tasks
  OBVIOUS
<1>2. job' = [job EXCEPT ![j] = [job[j] EXCEPT !.pc = pc, !.rec = rec]]
  BY DEF Upsert
<1>3. [job[j] EXCEPT !.pc = pc, !.rec = rec] \in JobRec
  OBVIOUS
<1>4. QED
  BY <1>1, <1>2, <1>3 DEF Upsert

\* A job that only moves on keeps the types.
LEMMA TypeGoto ==
  ASSUME TypeOK, NEW j \in Jobs, job[j].pc # "finished", NEW pc \in JobPC, Goto(j, pc)
  PROVE  /\ store' \in [Tasks -> TaskRec]
         /\ job' \in [Jobs -> JobRec] /\ \A k \in Jobs : JobOK(k)'
  BY DEF TypeOK, JobOK, JobRec, Goto

\* The finally block keeps the types.
LEMMA TypeCleanup ==
  ASSUME TypeOK, NEW j \in Jobs, job[j].pc # "finished",
         NEW pc \in {"finished", "excepted"}, Cleanup(j, pc)
  PROVE  TypeOK'
<1> DEFINE rec == [job[j].rec EXCEPT !.wt = FALSE]
           r == IF pc = "finished" THEN NoJob ELSE [job[j] EXCEPT !.pc = pc, !.rec = rec]
<1> USE DispatchAssumption
<1>1. job[j].task \in Tasks /\ job[j].rec \in TaskRec /\ job[j] \in JobRec
  BY DEF TypeOK, JobOK
<1>2. rec \in TaskRec
  BY <1>1 DEF TaskRec
<1>3. r \in JobRec /\ (r.pc # "finished" => r.task \in Tasks /\ r.rec \in TaskRec)
  <2>1. CASE pc = "finished"
    BY <2>1 DEF JobRec, JobPC, NoJob
  <2>2. CASE pc = "excepted"
    BY <1>1, <1>2, <2>2 DEF JobRec, JobPC
  <2>3. QED
    BY <2>1, <2>2
<1>4. job' = [job EXCEPT ![j] = r]
  BY DEF Cleanup
<1>5. job' \in [Jobs -> JobRec] /\ \A k \in Jobs : JobOK(k)'
  BY <1>3, <1>4 DEF TypeOK, JobOK
<1>6. store' \in [Tasks -> TaskRec]
  BY <1>1, <1>2 DEF Cleanup, TypeOK
<1>7. branch' \in [Tasks -> Jobs \cup {None, Kept}]
  BY <1>1 DEF Cleanup, TypeOK
<1>8. QED
  BY <1>5, <1>6, <1>7 DEF Cleanup, TypeOK, ThreadOK

\* A step of a job keeps the types.
LEMMA TypeJob == ASSUME TypeOK, NEW j \in Jobs, JobAction(j) PROVE TypeOK'
<1> USE DispatchAssumption
<1> DEFINE T == job[j].task
           StoreJobOK == /\ store' \in [Tasks -> TaskRec]
                         /\ job' \in [Jobs -> JobRec] /\ \A k \in Jobs : JobOK(k)'
<1>1. ASSUME StoreJobOK, branch' \in [Tasks -> Jobs \cup {None, Kept}],
             UNCHANGED <<up, futures, th>>
      PROVE  TypeOK'
  BY <1>1 DEF TypeOK, ThreadOK
<1>2. branch \in [Tasks -> Jobs \cup {None, Kept}]
  BY DEF TypeOK
<1>3. job[j].pc # "finished"
  BY DEF JobAction, JobStart, JobBegin, JobGate, JobApproved, JobAbort, JobStep, JobFail,
         JobRaise, JobResolve, JobMerge, Merging, JobComplete, JobClose, JobUnwind, JobExcept,
         AtStep
<1>4. T \in Tasks /\ job[j].rec \in TaskRec /\ job[j] \in JobRec
  BY <1>3 DEF TypeOK, JobOK
<1>5. /\ \A s \in Status : [job[j].rec EXCEPT !.status = s] \in TaskRec
      /\ \A g \in BOOLEAN : [job[j].rec EXCEPT !.gate = g] \in TaskRec
      /\ \A w \in BOOLEAN : [job[j].rec EXCEPT !.wt = w] \in TaskRec
      /\ \A s \in Status, g \in BOOLEAN : [job[j].rec EXCEPT !.status = s, !.gate = g] \in TaskRec
      /\ \A s \in Status, w \in BOOLEAN : [job[j].rec EXCEPT !.status = s, !.wt = w] \in TaskRec
  BY <1>4 DEF TaskRec
<1>6. CASE JobStart(j)
  <2>1. branch' \in [Tasks -> Jobs \cup {None, Kept}]
    BY <1>2, <1>4, <1>6 DEF JobStart
  <2>2. StoreJobOK
    <3>1. CASE Upsert(j, [job[j].rec EXCEPT !.wt = TRUE], "started")
      <4>1. [job[j].rec EXCEPT !.wt = TRUE] \in TaskRec
        BY <1>5
      <4>2. QED
        BY <1>3, <3>1, <4>1, TypeUpsert DEF JobPC
    <3>2. CASE Goto(j, "unwinding")
      BY <1>3, <3>2, TypeGoto DEF JobPC
    <3>3. CASE Goto(j, "started")
      BY <1>3, <3>3, TypeGoto DEF JobPC
    <3>4. QED
      BY <1>6, <3>1, <3>2, <3>3 DEF JobStart
  <2>3. QED
    BY <1>1, <1>6, <2>1, <2>2 DEF JobStart
<1>7. CASE JobBegin(j)
  <2>1. StoreJobOK
    BY <1>3, <1>5, <1>7, TypeUpsert DEF JobBegin, JobPC, Status
  <2>2. QED
    BY <1>1, <1>2, <1>7, <2>1 DEF JobBegin
<1>8. CASE JobGate(j)
  <2>1. StoreJobOK
    <3>1. [job[j].rec EXCEPT !.gate = TRUE] \in TaskRec
      BY <1>5
    <3>2. QED
      BY <1>3, <1>8, <3>1, TypeUpsert DEF JobGate, JobPC
  <2>2. QED
    BY <1>1, <1>2, <1>8, <2>1 DEF JobGate
<1>9. CASE JobApproved(j)
  <2>1. StoreJobOK
    BY <1>3, <1>9, TypeGoto DEF JobApproved, JobPC
  <2>2. QED
    BY <1>1, <1>2, <1>9, <2>1 DEF JobApproved
<1>10. CASE JobAbort(j)
  <2>1. StoreJobOK
    BY <1>3, <1>5, <1>10, TypeUpsert DEF JobAbort, JobPC, Status
  <2>2. QED
    BY <1>1, <1>2, <1>10, <2>1 DEF JobAbort
<1>11. CASE JobStep(j)
  <2>1. job[j].left \in 0..Steps /\ job[j].left > 0
    BY <1>4, <1>11 DEF JobStep, AtStep, JobRec
  <2>2. [job[j] EXCEPT !.pc = "working", !.left = job[j].left - 1] \in JobRec
    <3>1. job[j].left - 1 \in 0..Steps
      BY <2>1
    <3>2. QED
      BY <1>4, <3>1 DEF JobRec, JobPC
  <2>3. StoreJobOK
    BY <1>4, <1>11, <2>2 DEF JobStep, TypeOK, JobOK
  <2>4. QED
    BY <1>1, <1>2, <1>11, <2>3 DEF JobStep
<1>12. CASE JobFail(j)
  <2>1. StoreJobOK
    BY <1>3, <1>5, <1>12, TypeUpsert DEF JobFail, JobPC, Status
  <2>2. QED
    BY <1>1, <1>2, <1>12, <2>1 DEF JobFail
<1>13. CASE JobRaise(j)
  <2>1. StoreJobOK
    BY <1>3, <1>13, TypeGoto DEF JobRaise, JobPC
  <2>2. QED
    BY <1>1, <1>2, <1>13, <2>1 DEF JobRaise
<1>14. CASE JobMerge(j)
  <2>1. branch' \in [Tasks -> Jobs \cup {None, Kept}]
    BY <1>2, <1>14 DEF JobMerge
  <2>2. StoreJobOK
    BY <1>3, <1>5, <1>14, TypeUpsert, TypeGoto DEF JobMerge, JobPC, Status
  <2>3. QED
    BY <1>1, <1>14, <2>1, <2>2 DEF JobMerge
<1>15. CASE JobComplete(j)
  <2>1. StoreJobOK
    BY <1>3, <1>5, <1>15, TypeUpsert DEF JobComplete, JobPC, Status, Terminal
  <2>2. QED
    BY <1>1, <1>2, <1>15, <2>1 DEF JobComplete
<1>16. CASE JobClose(j)
  BY <1>3, <1>16, TypeCleanup DEF JobClose
<1>17. CASE JobUnwind(j)
  BY <1>3, <1>17, TypeCleanup DEF JobUnwind
<1>18. CASE JobExcept(j)
  <2>1. NoJob \in JobRec
    BY DEF NoJob, JobRec, JobPC
  <2>2. StoreJobOK
    BY <1>4, <1>5, <1>18, <2>1 DEF JobExcept, TypeOK, JobOK, NoJob, Status
  <2>3. QED
    BY <1>1, <1>2, <1>18, <2>2 DEF JobExcept
<1>19. CASE JobResolve(j)
  <2>1. [job[j] EXCEPT !.pc = "resolving"] \in JobRec
    BY <1>4 DEF JobRec, JobPC
  <2>2. job' = [job EXCEPT ![j] = [job[j] EXCEPT !.pc = "resolving"]]
    BY <1>19 DEF JobResolve
  <2>3. [job[j] EXCEPT !.pc = "resolving"].task \in Tasks /\ [job[j] EXCEPT !.pc = "resolving"].rec \in TaskRec
    BY <1>4 DEF JobRec
  <2>4. job' \in [Jobs -> JobRec] /\ \A k \in Jobs : JobOK(k)'
    BY <2>1, <2>2, <2>3 DEF TypeOK, JobOK
  <2>5. store' \in [Tasks -> TaskRec]
    BY <1>4, <1>5, <1>19 DEF JobResolve, TypeOK
  <2>6. QED
    BY <1>1, <1>2, <1>19, <2>4, <2>5 DEF JobResolve
<1>20. QED
  BY <1>6, <1>7, <1>8, <1>9, <1>10, <1>11, <1>12, <1>13, <1>14, <1>15, <1>16, <1>17, <1>18,
     <1>19
  DEF JobAction

\* Death and restart keep the types.
LEMMA TypeRestart == TypeOK /\ (Crash \/ Restart) => TypeOK'
<1> SUFFICES ASSUME TypeOK, Crash \/ Restart PROVE TypeOK'
  OBVIOUS
<1> USE DispatchAssumption
<1>1. CASE Crash
  <2>1. IdleThread \in ThreadRec /\ NoJob \in JobRec
    BY DEF IdleThread, ThreadRec, ThreadPC, NoJob, JobRec, JobPC
  <2>2. branch' \in [Tasks -> Jobs \cup {None, Kept}] /\ futures' \in [Tasks -> Jobs \cup {None}]
    BY <1>1 DEF Crash
  <2>5. up' \in BOOLEAN /\ store' \in [Tasks -> TaskRec]
    BY <1>1 DEF Crash, TypeOK
  <2>3. th' \in [Submitters -> ThreadRec] /\ \A d \in Submitters : ThreadOK(d)'
    BY <1>1, <2>1 DEF Crash, ThreadOK, IdleThread
  <2>4. job' \in [Jobs -> JobRec] /\ \A j \in Jobs : JobOK(j)'
    BY <1>1, <2>1 DEF Crash, JobOK, NoJob
  <2>6. QED
    BY <2>2, <2>3, <2>4, <2>5, Zenon DEF TypeOK
<1>2. CASE Restart
  <2>1. \A t \in Tasks : [store[t] EXCEPT !.status = "ready", !.gate = FALSE] \in TaskRec
    <3> SUFFICES ASSUME NEW t \in Tasks
                 PROVE  [store[t] EXCEPT !.status = "ready", !.gate = FALSE] \in TaskRec
      OBVIOUS
    <3>1. store[t] \in TaskRec
      BY DEF TypeOK
    <3> QED
      BY <3>1 DEF TaskRec, Status
  <2>2. store' \in [Tasks -> TaskRec] /\ branch' \in [Tasks -> Jobs \cup {None, Kept}]
    BY <1>2, <2>1 DEF Restart, TypeOK
  <2>3. QED
    BY <1>2, <2>2 DEF Restart, TypeOK, ThreadOK, JobOK
<1>3. QED
  BY <1>1, <1>2

\* The types of Dispatch hold in every reachable state: in particular a thread
\* that writes a task always has a whole task record to write.
THEOREM TypeCorrect == Spec => []TypeOK
<1>1. TypeOK /\ [Next]_vars => TypeOK'
  <2> SUFFICES ASSUME TypeOK, [Next]_vars PROVE TypeOK'
    OBVIOUS
  <2>1. CASE UNCHANGED vars
    BY <2>1 DEF vars, TypeOK, ThreadOK, JobOK
  <2>2. QED
    BY <2>1, TypeLoop, TypeSubmit, TypeApi, TypeRequest, TypeJob, TypeRestart DEF Next
<1>2. QED
  BY <1>1, TypeInit, PTL DEF Spec

-----------------------------------------------------------------------------
(* One execution per task.                                                 *)

\* The shape of every job step: other jobs are untouched, and so are the
\* process and the submitting threads.
LEMMA JobFrame ==
  ASSUME TypeOK, NEW j \in Jobs, JobAction(j)
  PROVE  /\ job[j].pc # "finished" /\ job[j].task \in Tasks /\ job[j].rec \in TaskRec
         /\ job' \in [Jobs -> JobRec] /\ \A k \in Jobs \ {j} : job'[k] = job[k]
         /\ job'[j].pc # "finished" => job'[j].task = job[j].task
         /\ UNCHANGED <<up, futures, th>>
<1> USE DispatchAssumption
<1>1. job[j].pc # "finished"
  BY DEF JobAction, JobStart, JobBegin, JobGate, JobApproved, JobAbort, JobStep, JobFail,
         JobRaise, JobResolve, JobMerge, Merging, JobComplete, JobClose, JobUnwind, JobExcept,
         AtStep
<1>2. job[j].task \in Tasks /\ job[j].rec \in TaskRec
  BY <1>1 DEF TypeOK, JobOK
<1>3. job' \in [Jobs -> JobRec]
  BY TypeJob DEF TypeOK
<1>4. UNCHANGED <<up, futures, th>>
  BY DEF JobAction, JobStart, JobBegin, JobGate, JobApproved, JobAbort, JobStep, JobFail,
         JobRaise, JobResolve, JobMerge, JobComplete, JobClose, JobUnwind, JobExcept, Cleanup
<1>5. \E r : job' = [job EXCEPT ![j] = r] /\ (r = NoJob \/ r.task = job[j].task)
  <2> DEFINE Changed(r) == job' = [job EXCEPT ![j] = r] /\ (r = NoJob \/ r.task = job[j].task)
  <2>0. job \in [Jobs -> JobRec]
    BY DEF TypeOK
  <2>1. ASSUME NEW rec, NEW pc, Upsert(j, rec, pc) PROVE \E r : Changed(r)
    <3>1. Changed([job[j] EXCEPT !.pc = pc, !.rec = rec])
      BY <2>0, <2>1 DEF Upsert, JobRec
    <3>2. QED
      BY <3>1
  <2>2. ASSUME NEW pc, Goto(j, pc) PROVE \E r : Changed(r)
    <3>1. Changed([job[j] EXCEPT !.pc = pc])
      BY <2>0, <2>2 DEF Goto, JobRec
    <3>2. QED
      BY <3>1
  <2>3. CASE JobStep(j)
    <3>1. Changed([job[j] EXCEPT !.pc = "working", !.left = job[j].left - 1])
      BY <2>0, <2>3 DEF JobStep, JobRec
    <3>2. QED
      BY <3>1
  <2>4. ASSUME NEW pc, Cleanup(j, pc) PROVE \E r : Changed(r)
    <3>1. CASE pc = "finished"
      BY <2>4, <3>1 DEF Cleanup
    <3>2. CASE pc # "finished"
      <4>1. Changed([job[j] EXCEPT !.pc = pc, !.rec = [job[j].rec EXCEPT !.wt = FALSE]])
        BY <2>0, <2>4, <3>2 DEF Cleanup, JobRec
      <4>2. QED
        BY <4>1
    <3>3. QED
      BY <3>1, <3>2
  <2>5. CASE JobExcept(j)
    BY <2>5 DEF JobExcept
  <2>6. CASE JobResolve(j)
    <3>1. Changed([job[j] EXCEPT !.pc = "resolving"])
      BY <2>0, <2>6 DEF JobResolve, JobRec
    <3>2. QED
      BY <3>1
  <2>7. QED
    <3>1. CASE JobStart(j) \/ JobBegin(j) \/ JobGate(j) \/ JobApproved(j) \/ JobAbort(j)
      BY <2>1, <2>2, <3>1 DEF JobStart, JobBegin, JobGate, JobApproved, JobAbort
    <3>2. CASE JobFail(j) \/ JobRaise(j) \/ JobMerge(j) \/ JobComplete(j)
      BY <2>1, <2>2, <3>2 DEF JobFail, JobRaise, JobMerge, JobComplete
    <3>3. CASE JobClose(j) \/ JobUnwind(j)
      BY <2>4, <3>3 DEF JobClose, JobUnwind
    <3>4. QED
      BY <2>3, <2>5, <2>6, <3>1, <3>2, <3>3 DEF JobAction
<1>6. QED
  BY <1>1, <1>2, <1>3, <1>4, <1>5 DEF TypeOK, NoJob

\* Where a job is after a step: what the step did to its place and its branch.
LEMMA JobPlace ==
  ASSUME TypeOK, NEW j \in Jobs, JobAction(j)
  PROVE  LET t == job[j].task IN
    \/ /\ InGit /\ job[j].pc = "queued" /\ branch[t] = None
       /\ job'[j].pc = "started" /\ branch' = [branch EXCEPT ![t] = j]
    \/ /\ job[j].pc = "queued" /\ UNCHANGED branch
       /\ job'[j].pc = "unwinding" \/ (~InGit /\ job'[j].pc = "started")
    \/ /\ InPipeline(j) /\ UNCHANGED branch
       /\ InPipeline(j)' \/ job'[j].pc \in {"closing", "unwinding"}
    \/ /\ InPipeline(j) /\ job'[j].pc \in {"merged", "closing"}
       /\ \/ InGit /\ \E b \in {None, Kept} : branch' = [branch EXCEPT ![t] = b]
          \/ ~InGit /\ UNCHANGED branch
    \/ /\ job[j].pc = "merged" /\ job'[j].pc = "closing" /\ UNCHANGED branch
    \/ /\ job[j].pc \in {"closing", "unwinding"} /\ job'[j].pc \in {"finished", "excepted"}
       /\ branch' = IF branch[t] = j THEN [branch EXCEPT ![t] = None] ELSE branch
    \/ /\ job[j].pc = "excepted" /\ job'[j].pc = "finished" /\ UNCHANGED branch
<1> USE DispatchAssumption DEF InPipeline
<1>1. job \in [Jobs -> JobRec] /\ \A r : [job EXCEPT ![j] = r][j] = r
  BY DEF TypeOK
<1>2. \A rec, pc : Upsert(j, rec, pc) => job'[j].pc = pc
  BY <1>1 DEF Upsert, JobRec
<1>3. \A pc : Goto(j, pc) => job'[j].pc = pc
  BY <1>1 DEF Goto, JobRec
<1>4. \A pc : Cleanup(j, pc) => job'[j].pc = pc
  BY <1>1 DEF Cleanup, NoJob, JobRec
<1>5. CASE JobStart(j)
  BY <1>2, <1>3, <1>5 DEF JobStart
<1>6. CASE JobBegin(j) \/ JobGate(j) \/ JobApproved(j) \/ JobAbort(j)
  BY <1>2, <1>3, <1>6 DEF JobBegin, JobGate, JobApproved, JobAbort
<1>7. CASE JobFail(j) \/ JobRaise(j)
  BY <1>2, <1>3, <1>7 DEF JobFail, JobRaise, AtStep
<1>8. CASE JobStep(j)
  BY <1>1, <1>8 DEF JobStep, AtStep, JobRec
<1>9. CASE JobMerge(j)
  BY <1>2, <1>3, <1>9 DEF JobMerge, Merging
<1>10. CASE JobComplete(j)
  BY <1>2, <1>10 DEF JobComplete
<1>11. CASE JobClose(j) \/ JobUnwind(j)
  <2>1. PICK pc \in {"finished", "excepted"} : Cleanup(j, pc)
    BY <1>11 DEF JobClose, JobUnwind
  <2>2. branch' = IF branch[job[j].task] = j THEN [branch EXCEPT ![job[j].task] = None] ELSE branch
    BY <2>1 DEF Cleanup
  <2>3. QED
    BY <1>4, <1>11, <2>1, <2>2 DEF JobClose, JobUnwind
<1>12. CASE JobExcept(j)
  BY <1>1, <1>12 DEF JobExcept, NoJob
<1>13. CASE JobResolve(j)
  BY <1>1, <1>13 DEF JobResolve, JobRec
<1>14. QED
  BY <1>5, <1>6, <1>7, <1>8, <1>9, <1>10, <1>11, <1>12, <1>13 DEF JobAction

\* A step of a job keeps branches and executions in step with each other.
LEMMA WorktreeJob ==
  ASSUME TypeOK, WorktreeInv, NEW j \in Jobs, JobAction(j)
  PROVE  WorktreeInv'
<1> DEFINE t == job[j].task
<1> USE DispatchAssumption DEF InPipeline
<1>1. /\ job[j].pc # "finished" /\ t \in Tasks
      /\ \A k \in Jobs \ {j} : job'[k] = job[k]
      /\ job'[j].pc # "finished" => job'[j].task = t
      /\ UNCHANGED <<up, th>>
  BY JobFrame
<1>2. up
  BY <1>1 DEF WorktreeInv
<1>3. branch \in [Tasks -> Jobs \cup {None, Kept}]
  BY DEF TypeOK
<1>4. (InGit => \A k \in Jobs : InPipeline(k) => branch[job[k].task] = k)'
  <2> SUFFICES ASSUME InGit, NEW k \in Jobs, InPipeline(k)' PROVE branch'[job'[k].task] = k
    OBVIOUS
  <2>1. CASE k = j
    BY <1>1, <1>3, <2>1, JobPlace DEF WorktreeInv
  <2>2. CASE k # j
    <3>1. /\ InPipeline(k) /\ branch[job[k].task] = k /\ job'[k].task = job[k].task
          /\ job[k].task \in Tasks
      BY <1>1, <2>2 DEF WorktreeInv, TypeOK, JobOK
    <3>2. job[k].task # t => branch'[job[k].task] = branch[job[k].task]
      BY <1>1, <1>3, <3>1, JobPlace
    <3>3. job[k].task = t => UNCHANGED branch
      BY <1>1, <1>3, <2>2, <3>1, JobPlace DEF WorktreeInv
    <3>4. QED
      BY <3>1, <3>2, <3>3
  <2>3. QED
    BY <2>1, <2>2
<1>5. (~InGit => \A u \in Tasks : branch[u] = None)'
  BY <1>1, <1>3, JobPlace DEF WorktreeInv
<1>6. WorktreeHasOwner'
  <2> SUFFICES ASSUME NEW u \in Tasks, branch'[u] \in Jobs
               PROVE  /\ job'[branch'[u]].task = u
                      /\ job'[branch'[u]].pc \in {"started", "working", "approved", "waiting",
                                                 "resolving", "closing", "unwinding"}
    BY DEF WorktreeHasOwner
  <2>1. CASE branch'[u] = branch[u]
    <3>1. PICK k \in Jobs : k = branch[u]
      BY <2>1
    <3>2. job[k].task = u /\ (InPipeline(k) \/ job[k].pc \in {"closing", "unwinding"})
      BY <1>2, <3>1 DEF WorktreeInv, WorktreeHasOwner
    <3>3. CASE k # j
      <4>1. job'[k] = job[k]
        BY <1>1, <3>3
      <4>2. QED
        BY <2>1, <3>1, <3>2, <4>1
    <3>4. CASE k = j
      <4>1. branch[t] = j /\ branch'[t] = j
        BY <2>1, <3>1, <3>2, <3>4
      <4>2. job'[j].pc \in {"started", "working", "approved", "waiting", "resolving",
                                "closing", "unwinding"}
        BY <1>1, <1>3, <3>2, <3>4, <4>1, JobPlace DEF WorktreeInv
      <4>3. QED
        BY <1>1, <2>1, <3>1, <3>2, <3>4, <4>2
    <3>5. QED
      BY <3>3, <3>4
  <2>2. CASE branch'[u] # branch[u]
    <3>1. u = t /\ branch'[u] = j /\ job'[j].pc = "started"
      BY <1>1, <1>3, <2>2, JobPlace
    <3>2. QED
      BY <1>1, <3>1
  <2>3. QED
    BY <2>1, <2>2
<1>7. QED
  BY <1>1, <1>2, <1>4, <1>5, <1>6 DEF WorktreeInv

\* WorktreeInv is inductive.
LEMMA WorktreeInductive == TypeOK /\ WorktreeInv /\ [Next]_vars => WorktreeInv'
<1> SUFFICES ASSUME TypeOK, WorktreeInv, [Next]_vars PROVE WorktreeInv'
  OBVIOUS
<1> USE DispatchAssumption
<1>1. CASE UNCHANGED <<up, branch, job>> /\ (up \/ UNCHANGED th)
  BY <1>1 DEF WorktreeInv, WorktreeHasOwner, InPipeline
<1>2. CASE LoopStep \/ ApiStep
  BY <1>1, <1>2
  DEF LoopStep, LoopIdle, LoopClaim, ApiStep, ApiWrite, RunUpsert, RunLookup, RunReturn,
      WorktreeInv, Submitters
<1>3. ASSUME NEW t \in Tasks, Request(t) PROVE WorktreeInv'
  BY <1>1, <1>3
  DEF Request, Patch, Transition, Retry, Cancel, ApproveGate, ApproveReview, RequestChanges,
      RunTask, ApiRead
<1>4. ASSUME NEW d \in Submitters, Register(d) PROVE WorktreeInv'
  BY <1>1, <1>4 DEF Register, WorktreeInv
<1>5. ASSUME NEW d \in Submitters, NEW j \in Jobs, Submit(d, j) PROVE WorktreeInv'
  <2>1. up
    BY <1>5 DEF Submit, WorktreeInv
  <2>2. QED
    BY <1>5, <2>1 DEF Submit, FreeSlot, WorktreeInv, WorktreeHasOwner, InPipeline, TypeOK, JobRec
<1>6. ASSUME NEW j \in Jobs, JobAction(j) PROVE WorktreeInv'
  BY <1>6, WorktreeJob
<1>7. CASE Crash
  BY <1>7 DEF Crash, NoJob, IdleThread, WorktreeInv, WorktreeHasOwner, InPipeline
<1>8. CASE Restart
  BY <1>8 DEF Restart, WorktreeInv, WorktreeHasOwner, InPipeline, TypeOK
<1>9. CASE UNCHANGED vars
  BY <1>1, <1>9 DEF vars
<1>10. QED
  BY <1>2, <1>3, <1>4, <1>5, <1>6, <1>7, <1>8, <1>9 DEF Next, SubmitStep

\* The first states have no jobs and no branches.
LEMMA WorktreeInit == Init => WorktreeInv
BY DispatchAssumption
DEF Init, WorktreeInv, WorktreeHasOwner, InPipeline, NoJob, IdleThread

\* Executions and branches stay in step, whatever the loop, the clients and
\* crashes do.
THEOREM WorktreeCorrect == Spec => []WorktreeInv
BY TypeCorrect, WorktreeInit, WorktreeInductive, PTL DEF Spec

\* In a git project two executions of one task never run its pipeline at once:
\* both would hold the task's branch.
THEOREM ExecutionsExclude == Spec => []OneExecutionPerTask
<1>1. WorktreeInv => OneExecutionPerTask
  BY DEF WorktreeInv, OneExecutionPerTask
<1>2. QED
  BY <1>1, WorktreeCorrect, PTL

\* While the server lives, a worktree belongs to a job that will remove it.
THEOREM WorktreesOwned == Spec => []WorktreeHasOwner
<1>1. WorktreeInv => WorktreeHasOwner
  BY DEF WorktreeInv
<1>2. QED
  BY <1>1, WorktreeCorrect, PTL

-----------------------------------------------------------------------------
(* No task is left in_progress without an owner.                           *)

\* What a step of a job does to the store: only its own task is written, and a
\* job that is about to end leaves a status other than in_progress behind.
LEMMA JobSettles ==
  ASSUME TypeOK, OwnedInv, NEW j \in Jobs, JobAction(j)
  PROVE  LET t == job[j].task IN
    /\ \A u \in Tasks \ {t} : store'[u] = store[u]
    /\ \/ Live(j)'
       \/ store'[t].status # "in_progress"
       \/ ~Live(j) /\ UNCHANGED store
    /\ job'[j].pc = "closing" => job'[j].rec.status # "in_progress"
<1> DEFINE t == job[j].task
<1> DEFINE Goal == /\ \A u \in Tasks \ {t} : store'[u] = store[u]
                   /\ \/ Live(j)'
                      \/ store'[t].status # "in_progress"
                      \/ ~Live(j) /\ UNCHANGED store
                   /\ job'[j].pc = "closing" => job'[j].rec.status # "in_progress"
<1>1. /\ job[j].pc # "finished" /\ t \in Tasks /\ job[j].rec \in TaskRec
      /\ job' \in [Jobs -> JobRec]
  BY JobFrame
<1>2. store \in [Tasks -> TaskRec] /\ job \in [Jobs -> JobRec]
  BY DEF TypeOK
<1>3. \A rec \in TaskRec, pc \in JobPC \ {"finished"} :
        Upsert(j, rec, pc) /\ (pc = "closing" => rec.status # "in_progress") => Goal
  BY <1>1, <1>2 DEF Upsert, JobRec, Live
<1>4. \A pc \in JobPC \ {"closing", "finished"} : Goto(j, pc) => Goal
  BY <1>2 DEF Goto, JobRec, Live
<1> SUFFICES Goal
  OBVIOUS
<1> HIDE DEF Goal
<1>5. \A s \in Status, g \in BOOLEAN :
        LET rec == [job[j].rec EXCEPT !.status = s, !.gate = g]
        IN  rec \in TaskRec /\ rec.status = s
  BY <1>1 DEF TaskRec
<1>6. \A s \in Status, g \in BOOLEAN :
        LET rec == [job[j].rec EXCEPT !.status = s, !.wt = g]
        IN  rec \in TaskRec /\ rec.status = s
  BY <1>1 DEF TaskRec
<1>7. \A s \in Status :
        LET rec == [job[j].rec EXCEPT !.status = s]
        IN  rec \in TaskRec /\ rec.status = s
  BY <1>1 DEF TaskRec
<1>8. \A g \in BOOLEAN :
        LET rec == [job[j].rec EXCEPT !.wt = g]
        IN  rec \in TaskRec /\ rec.status = job[j].rec.status
  BY <1>1 DEF TaskRec
<1>9. /\ {"blocked", "done", "in_review", "in_progress"} \subseteq Status
      /\ {"started", "working", "approved", "waiting", "merged", "closing", "unwinding"}
           \subseteq JobPC \ {"finished"}
  BY DEF Status, Terminal, JobPC
<1>10. CASE JobStart(j)
  BY <1>1, <1>3, <1>4, <1>8, <1>9, <1>10, DispatchAssumption DEF JobStart
<1>11. CASE JobBegin(j)
  BY <1>3, <1>7, <1>9, <1>11 DEF JobBegin
<1>12. CASE JobGate(j)
  <2>1. [job[j].rec EXCEPT !.gate = TRUE] \in TaskRec
    BY <1>1 DEF TaskRec
  <2>2. QED
    BY <1>3, <1>9, <1>12, <2>1 DEF JobGate
<1>13. CASE JobApproved(j) \/ JobRaise(j)
  BY <1>4, <1>9, <1>13 DEF JobApproved, JobRaise
<1>14. CASE JobAbort(j)
  BY <1>3, <1>5, <1>9, <1>14 DEF JobAbort
<1>15. CASE JobStep(j)
  BY <1>1, <1>2, <1>15 DEF JobStep, JobRec, Live, Goal
<1>16. CASE JobFail(j)
  BY <1>3, <1>5, <1>9, <1>16 DEF JobFail
<1>17. CASE JobMerge(j)
  BY <1>3, <1>4, <1>7, <1>9, <1>17 DEF JobMerge
<1>18. CASE JobComplete(j)
  <2>1. PICK s \in {"done", "in_review"} :
          Upsert(j, [job[j].rec EXCEPT !.status = s, !.wt = FALSE], "closing")
    BY <1>18 DEF JobComplete
  <2>2. QED
    BY <1>3, <1>6, <1>9, <2>1
<1>19. ASSUME NEW pc, Cleanup(j, pc)
       PROVE  /\ \A u \in Tasks \ {t} : store'[u] = store[u]
              /\ job'[j].pc = pc
              /\ UNCHANGED store \/ store'[t].status = job[j].rec.status
  <2>1. job'[j].pc = pc
    BY <1>2, <1>19 DEF Cleanup, NoJob, JobRec
  <2>2. QED
    BY <1>1, <1>2, <1>8, <1>19, <2>1 DEF Cleanup
<1>20. CASE JobClose(j)
  BY <1>19, <1>20 DEF JobClose, OwnedInv, Goal, Live
<1>21. CASE JobUnwind(j)
  BY <1>19, <1>21 DEF JobUnwind, Goal, Live
<1>22. CASE JobExcept(j)
  BY <1>1, <1>2, <1>7, <1>9, <1>22 DEF JobExcept, NoJob, Goal
<1>23. CASE JobResolve(j)
  BY <1>1, <1>2, <1>23 DEF JobResolve, JobRec, Live, Goal
<1>24. QED
  BY <1>10, <1>11, <1>12, <1>13, <1>14, <1>15, <1>16, <1>17, <1>18, <1>20, <1>21, <1>22,
     <1>23
  DEF JobAction

\* A step of a job keeps every in_progress task owned.
LEMMA OwnedJob ==
  ASSUME TypeOK, OwnedInv, NEW j \in Jobs, JobAction(j)
  PROVE  OwnedInv'
<1> DEFINE t == job[j].task
<1>1. /\ job[j].pc # "finished" /\ t \in Tasks
      /\ \A k \in Jobs \ {j} : job'[k] = job[k]
      /\ job'[j].pc # "finished" => job'[j].task = t
      /\ UNCHANGED <<up, th>>
  BY JobFrame
<1>2. /\ \A u \in Tasks \ {t} : store'[u] = store[u]
      /\ \/ Live(j)'
         \/ store'[t].status # "in_progress"
         \/ ~Live(j) /\ UNCHANGED store
      /\ job'[j].pc = "closing" => job'[j].rec.status # "in_progress"
  BY JobSettles
<1>3. InProgressHasOwner'
  <2> SUFFICES ASSUME up, NEW u \in Tasks, store'[u].status = "in_progress"
               PROVE  \/ \E k \in Jobs : Live(k)' /\ job'[k].task = u
                      \/ th["loop"].pc = "submit" /\ th["loop"].task = u
    BY <1>1 DEF InProgressHasOwner
  <2>1. CASE u = t /\ Live(j)'
    BY <1>1, <2>1 DEF Live
  <2>2. CASE ~(u = t /\ Live(j)')
    <3>1. store'[u] = store[u] /\ (u = t => ~Live(j))
      BY <1>2, <2>2
    <3>2. CASE \E k \in Jobs : Live(k) /\ job[k].task = u
      <4>1. PICK k \in Jobs : Live(k) /\ job[k].task = u
        BY <3>2
      <4>2. k # j
        BY <3>1, <4>1
      <4>3. QED
        BY <1>1, <4>1, <4>2 DEF Live
    <3>3. QED
      BY <3>1, <3>2 DEF OwnedInv, InProgressHasOwner
  <2>3. QED
    BY <2>1, <2>2
<1>4. QED
  BY <1>1, <1>2, <1>3 DEF OwnedInv

\* A request among OwnedOps never carries in_progress to a later write.
LEMMA OwnedRequest ==
  ASSUME ApiOps \subseteq OwnedOps, TypeOK, OwnedInv, NEW t \in Tasks, Request(t)
  PROVE  OwnedInv'
<1>1. UNCHANGED <<up, store, job>> /\ th'["loop"] = th["loop"]
  BY DEF Request, Patch, Transition, Retry, Cancel, ApproveGate, ApproveReview,
         RequestChanges, RunTask, ApiRead, TypeOK, Submitters
<1>2. store[t] \in TaskRec
  BY DEF TypeOK
<1>3. ASSUME NEW op, NEW rec, ApiRead(op, t, rec), rec.status # "in_progress"
      PROVE  th'["api"].rec.status # "in_progress"
  BY <1>3 DEF ApiRead, TypeOK, Submitters
<1>4. \A s : [store[t] EXCEPT !.status = s].status = s
  BY <1>2 DEF TaskRec
<1>5. [store[t] EXCEPT !.status = "ready", !.gate = FALSE].status = "ready"
  BY <1>2 DEF TaskRec
<1>6. ~Patch(t) /\ ~Transition(t) /\ ~ApproveGate(t)
  BY DEF Patch, Transition, ApproveGate, ApiRead, OwnedOps
<1>7. th'["api"].pc \in {"write", "upsert"} => th'["api"].rec.status # "in_progress"
  <2>1. CASE Retry(t)
    BY <1>3, <1>5, <2>1 DEF Retry
  <2>2. CASE Cancel(t) \/ ApproveReview(t) \/ RequestChanges(t)
    BY <1>3, <1>4, <2>2 DEF Cancel, ApproveReview, RequestChanges
  <2>3. CASE RunTask(t)
    <3>1. \/ th'["api"].pc = "lookup"
          \/ th'["api"].rec = [store[t] EXCEPT !.status = "ready"]
      BY <2>3 DEF RunTask, TypeOK, Submitters
    <3>2. QED
      BY <1>4, <3>1
  <2>4. QED
    BY <1>6, <2>1, <2>2, <2>3 DEF Request
<1>8. QED
  BY <1>1, <1>7 DEF OwnedInv, InProgressHasOwner, Live

\* OwnedInv is inductive as long as clients only send OwnedOps.
LEMMA OwnedInductive ==
  ASSUME ApiOps \subseteq OwnedOps, TypeOK, OwnedInv, [Next]_vars
  PROVE  OwnedInv'
<1>1. CASE LoopIdle \/ RunLookup \/ RunReturn \/ UNCHANGED vars
  <2>1. UNCHANGED <<up, store, job>> /\ th'["loop"] = th["loop"]
    BY <1>1 DEF LoopIdle, RunLookup, RunReturn, vars, TypeOK, Submitters
  <2>2. th'["api"] = th["api"] \/ th'["api"].pc \in {"idle", "join"}
    <3>1. CASE LoopIdle \/ UNCHANGED vars
      BY <1>1, <3>1 DEF LoopIdle, vars
    <3>2. CASE RunLookup
      BY <3>2 DEF RunLookup, TypeOK, ThreadRec, Submitters, IdleThread
    <3>3. CASE RunReturn
      BY <3>3 DEF RunReturn, TypeOK, Submitters, IdleThread
    <3>4. QED
      BY <1>1, <3>1, <3>2, <3>3
  <2>3. QED
    BY <2>1, <2>2 DEF OwnedInv, InProgressHasOwner, Live
<1>2. ASSUME NEW t \in Tasks, LoopClaim(t) PROVE OwnedInv'
  BY <1>2 DEF LoopClaim, OwnedInv, InProgressHasOwner, Live, TypeOK, TaskRec, Submitters
<1>3. CASE ApiWrite \/ RunUpsert
  <2>1. PICK pc \in {"idle", "submit"} :
          /\ th'["api"].pc = pc /\ th'["loop"] = th["loop"]
    BY <1>3 DEF ApiWrite, RunUpsert, TypeOK, ThreadRec, Submitters, IdleThread
  <2>2. UNCHANGED <<up, job>> /\ th["api"].rec.status # "in_progress"
    BY <1>3 DEF ApiWrite, RunUpsert, OwnedInv
  <2>3. \A u \in Tasks : store'[u] = store[u] \/ store'[u].status # "in_progress"
    BY <1>3, <2>2 DEF ApiWrite, RunUpsert, TypeOK
  <2>4. QED
    BY <2>1, <2>2, <2>3 DEF OwnedInv, InProgressHasOwner, Live
<1>4. ASSUME NEW d \in Submitters, Register(d) PROVE OwnedInv'
  <2>1. UNCHANGED <<up, store, job>> /\ th'[d].pc \in {"idle", "await"}
    BY <1>4 DEF Register, TypeOK, ThreadRec, IdleThread, Submitters
  <2>2. \A e \in Submitters \ {d} : th'[e] = th[e]
    BY <1>4 DEF Register, TypeOK
  <2>3. th[d].pc = "register"
    BY <1>4 DEF Register
  <2>4. QED
    BY <2>1, <2>2, <2>3 DEF OwnedInv, InProgressHasOwner, Live, Submitters
<1>5. ASSUME NEW d \in Submitters, NEW j \in Jobs, Submit(d, j) PROVE OwnedInv'
  <2>1. UNCHANGED <<up, store>> /\ th[d].pc = "submit" /\ th'[d].pc = "register"
    BY <1>5 DEF Submit, TypeOK, ThreadRec
  <2>2. \A e \in Submitters \ {d} : th'[e] = th[e]
    BY <1>5 DEF Submit, TypeOK
  <2>3. /\ job[j].pc = "finished" /\ job'[j].pc = "queued" /\ job'[j].task = th[d].task
        /\ \A k \in Jobs \ {j} : job'[k] = job[k]
    BY <1>5 DEF Submit, FreeSlot, TypeOK
  <2>4. QED
    BY <2>1, <2>2, <2>3 DEF OwnedInv, InProgressHasOwner, Live, Submitters
<1>6. ASSUME NEW t \in Tasks, Request(t) PROVE OwnedInv'
  BY <1>6, OwnedRequest
<1>7. ASSUME NEW j \in Jobs, JobAction(j) PROVE OwnedInv'
  BY <1>7, OwnedJob
<1>8. CASE Crash
  BY <1>8 DEF Crash, OwnedInv, InProgressHasOwner, NoJob, IdleThread, Submitters
<1>9. CASE Restart
  <2>1. \A t \in Tasks : store'[t].status # "in_progress"
    BY <1>9 DEF Restart, TypeOK, TaskRec
  <2>2. QED
    BY <1>9, <2>1 DEF Restart, OwnedInv, InProgressHasOwner
<1>10. QED
  BY <1>1, <1>2, <1>3, <1>4, <1>5, <1>6, <1>7, <1>8, <1>9
  DEF Next, LoopStep, SubmitStep, ApiStep

\* With clients that only retry, cancel, run and review, a task that says
\* in_progress is about to be submitted or has a job that will settle it; only
\* PATCH, approve-gate and transition can break this.
THEOREM OwnedProgress ==
  ASSUME ApiOps \subseteq OwnedOps
  PROVE  Spec => []InProgressHasOwner
<1>1. Init => OwnedInv
  <2> SUFFICES ASSUME Init PROVE OwnedInv
    OBVIOUS
  <2>1. \A t \in Tasks : store[t].status # "in_progress"
    BY DEF Init
  <2>2. \A j \in Jobs : job[j].pc = "finished"
    BY DEF Init, NoJob
  <2>3. th["api"].pc = "idle"
    BY DEF Init, IdleThread, Submitters
  <2>4. QED
    BY <2>1, <2>2, <2>3 DEF OwnedInv, InProgressHasOwner
<1>2. TypeOK /\ OwnedInv /\ [Next]_vars => OwnedInv'
  BY OwnedInductive
<1>3. OwnedInv => InProgressHasOwner
  BY DEF OwnedInv
<1>4. QED
  BY <1>1, <1>2, <1>3, TypeCorrect, PTL DEF Spec

-----------------------------------------------------------------------------
(* Blockers come first, and what is done stays done.                       *)

\* A step of a job writes its task only if the job was its writer, and leaves
\* store and copy agreed as long as it remains the writer.
LEMMA WriterStep ==
  ASSUME TypeOK, SettledInv, NEW j \in Jobs, JobAction(j)
  PROVE  LET t == job[j].task IN
    /\ \A u \in Tasks \ {t} : store'[u] = store[u]
    /\ ~Writer(j) => UNCHANGED store /\ ~Writer(j)'
    /\ Writer(j)' => /\ job'[j].rec.status = IF Live(j)' THEN "in_progress" ELSE "blocked"
                     /\ store'[t].status = job'[j].rec.status
<1> DEFINE t == job[j].task
           Goal == /\ \A u \in Tasks \ {t} : store'[u] = store[u]
                   /\ ~Writer(j) => UNCHANGED store /\ ~Writer(j)'
                   /\ Writer(j)' =>
                        /\ job'[j].rec.status = IF Live(j)' THEN "in_progress" ELSE "blocked"
                        /\ store'[t].status = job'[j].rec.status
<1> SUFFICES Goal
  OBVIOUS
<1>1. /\ job[j].pc # "finished" /\ t \in Tasks /\ job[j].rec \in TaskRec
      /\ job' \in [Jobs -> JobRec]
  BY JobFrame
<1>2. store \in [Tasks -> TaskRec] /\ job \in [Jobs -> JobRec]
  BY DEF TypeOK
<1>3. Live(j) => job[j].rec.status = "in_progress" /\ store[t].status = "in_progress"
  BY DEF SettledInv, Writer
<1>4. ASSUME Live(j), NEW rec \in TaskRec, NEW pc \in JobPC \ {"finished"}, Upsert(j, rec, pc),
             rec.status = IF pc = "closing" THEN "blocked" ELSE "in_progress"
      PROVE  Goal
  BY <1>1, <1>2, <1>4 DEF Upsert, JobRec, Live, Writer
<1>5. ASSUME Live(j), NEW pc \in JobPC \ {"closing", "finished"}, Goto(j, pc) PROVE Goal
  BY <1>1, <1>2, <1>3, <1>5 DEF Goto, JobRec, Live, Writer
<1> HIDE DEF Goal
<1>6. \A g \in BOOLEAN, s \in Status :
           /\ [job[j].rec EXCEPT !.status = s] \in TaskRec
           /\ [job[j].rec EXCEPT !.status = s].status = s
           /\ [job[j].rec EXCEPT !.status = s, !.gate = g] \in TaskRec
           /\ [job[j].rec EXCEPT !.status = s, !.gate = g].status = s
           /\ [job[j].rec EXCEPT !.gate = g] \in TaskRec
           /\ [job[j].rec EXCEPT !.gate = g].status = job[j].rec.status
  BY <1>1 DEF TaskRec
<1>7. /\ {"blocked", "in_progress"} \subseteq Status
      /\ {"started", "working", "approved", "waiting", "merged", "closing", "unwinding"}
           \subseteq JobPC \ {"finished"}
  BY DEF Status, Terminal, JobPC
<1>8. CASE JobStart(j)
  <2>1. Live(j)
    BY <1>8 DEF JobStart, Live
  <2>2. CASE Upsert(j, [job[j].rec EXCEPT !.wt = TRUE], "started")
    <3> DEFINE rec == [job[j].rec EXCEPT !.wt = TRUE]
    <3>1. rec \in TaskRec /\ rec.status = "in_progress"
      BY <1>1, <1>3, <2>1 DEF TaskRec
    <3>2. Upsert(j, rec, "started")
      BY <2>2
    <3> HIDE DEF rec
    <3> QED
      BY <1>4, <1>7, <2>1, <3>1, <3>2
  <2>3. CASE Goto(j, "unwinding") \/ Goto(j, "started")
    BY <1>5, <1>7, <2>1, <2>3
  <2> QED
    BY <1>8, <2>2, <2>3 DEF JobStart
<1>9. CASE JobBegin(j)
  <2> DEFINE rec == [job[j].rec EXCEPT !.status = "in_progress"]
  <2>1. rec \in TaskRec /\ rec.status = "in_progress"
    BY <1>6, <1>7
  <2>2. Upsert(j, rec, "working") /\ Live(j)
    BY <1>9 DEF JobBegin, Live
  <2> HIDE DEF rec
  <2> QED
    BY <1>4, <1>7, <2>1, <2>2
<1>10. CASE JobGate(j)
  BY <1>3, <1>4, <1>6, <1>7, <1>10 DEF JobGate, Live
<1>11. CASE JobApproved(j) \/ JobRaise(j)
  BY <1>5, <1>7, <1>11 DEF JobApproved, JobRaise, AtStep, Live
<1>12. CASE JobAbort(j)
  <2> DEFINE rec == [job[j].rec EXCEPT !.status = "blocked", !.gate = FALSE]
  <2>1. rec \in TaskRec /\ rec.status = "blocked"
    BY <1>6, <1>7
  <2>2. Upsert(j, rec, "closing") /\ Live(j)
    BY <1>12 DEF JobAbort, Live
  <2> HIDE DEF rec
  <2> QED
    BY <1>4, <1>7, <2>1, <2>2
<1>13. CASE JobStep(j)
  BY <1>1, <1>2, <1>3, <1>13 DEF JobStep, AtStep, JobRec, Live, Writer, Goal
<1>14. CASE JobFail(j)
  <2>1. Live(j)
    BY <1>14 DEF JobFail, AtStep, Live
  <2>2. PICK human \in BOOLEAN :
          Upsert(j, [job[j].rec EXCEPT !.status = "blocked", !.gate = human], "closing")
    BY <1>14 DEF JobFail
  <2> DEFINE rec == [job[j].rec EXCEPT !.status = "blocked", !.gate = human]
  <2>3. rec \in TaskRec /\ rec.status = "blocked" /\ Upsert(j, rec, "closing")
    BY <1>6, <1>7, <2>2
  <2> HIDE DEF rec
  <2> QED
    BY <1>4, <1>7, <2>1, <2>3
<1>15. CASE JobResolve(j)
  <2> DEFINE rec == [job[j].rec EXCEPT !.wt = FALSE]
  <2>1. Live(j)
    BY <1>15 DEF JobResolve, Live
  <2>2. rec \in TaskRec /\ rec.status = "in_progress"
    BY <1>1, <1>3, <2>1 DEF TaskRec
  <2>3. job' = [job EXCEPT ![j].pc = "resolving"] /\ store' = [store EXCEPT ![t] = rec]
    BY <1>15 DEF JobResolve
  <2> HIDE DEF rec
  <2> QED
    BY <1>1, <1>2, <1>3, <2>1, <2>2, <2>3 DEF JobRec, Live, Writer, Goal
<1>16. CASE JobMerge(j)
  <2>1. Live(j)
    BY <1>16 DEF JobMerge, Merging, Live
  <2>2. CASE Goto(j, "merged")
    BY <1>5, <1>7, <2>1, <2>2
  <2>3. CASE Upsert(j, [job[j].rec EXCEPT !.status = "blocked"], "closing")
    <3> DEFINE rec == [job[j].rec EXCEPT !.status = "blocked"]
    <3>1. rec \in TaskRec /\ rec.status = "blocked"
      BY <1>6, <1>7
    <3>2. Upsert(j, rec, "closing")
      BY <2>3
    <3> HIDE DEF rec
    <3> QED
      BY <1>4, <1>7, <2>1, <3>1, <3>2
  <2> QED
    BY <1>16, <2>2, <2>3 DEF JobMerge
<1>17. CASE JobComplete(j)
  <2>1. PICK s \in {"done", "in_review"} :
          Upsert(j, [job[j].rec EXCEPT !.status = s, !.wt = FALSE], "closing")
    BY <1>17 DEF JobComplete
  <2>2. [job[j].rec EXCEPT !.status = s, !.wt = FALSE].wt = FALSE
    BY <1>1 DEF TaskRec
  <2>3. Live(j)
    BY <1>17 DEF JobComplete, Live
  <2> QED
    BY <1>1, <1>2, <2>1, <2>2, <2>3 DEF Upsert, JobRec, Live, Writer, Goal
<1>18. CASE JobClose(j)
  <2>1. job'[j] = NoJob /\ job[j].pc = "closing"
    BY <1>2, <1>18 DEF JobClose, Cleanup
  <2>2. ~Writer(j)'
    BY <2>1 DEF Writer, Live, NoJob
  <2> QED
    BY <1>1, <1>2, <1>18, <2>1, <2>2 DEF JobClose, Cleanup, Writer, Live, Goal
<1>19. CASE JobUnwind(j)
  <2> DEFINE rec == [job[j].rec EXCEPT !.wt = FALSE]
  <2>1. Live(j)
    BY <1>19 DEF JobUnwind, Live
  <2>2. rec \in TaskRec /\ rec.status = "in_progress"
    BY <1>1, <1>3, <2>1 DEF TaskRec
  <2>3. /\ job' = [job EXCEPT ![j] = [job[j] EXCEPT !.pc = "excepted", !.rec = rec]]
        /\ store' = IF job[j].rec.wt THEN [store EXCEPT ![t] = rec] ELSE store
    BY <1>19 DEF JobUnwind, Cleanup
  <2> DEFINE next == [job[j] EXCEPT !.pc = "excepted", !.rec = rec]
  <2>4. next.pc = "excepted" /\ next.rec = rec
    BY <1>2 DEF JobRec
  <2> HIDE DEF rec, next
  <2>5. job'[j] = next /\ (store'[t] = rec \/ store' = store)
        /\ \A u \in Tasks \ {t} : store'[u] = store[u]
    BY <1>1, <1>2, <2>3 DEF next
  <2> QED
    BY <1>3, <2>1, <2>2, <2>4, <2>5 DEF Live, Writer, Goal
<1>20. CASE JobExcept(j)
  <2>1. job'[j] = NoJob /\ Live(j)
    BY <1>2, <1>20 DEF JobExcept, Live
  <2>2. ~Writer(j)'
    BY <2>1 DEF Writer, Live, NoJob
  <2> QED
    BY <1>1, <1>2, <1>20, <2>1, <2>2 DEF JobExcept, Writer, Goal
<1>21. QED
  BY <1>8, <1>9, <1>10, <1>11, <1>12, <1>13, <1>14, <1>15, <1>16, <1>17, <1>18, <1>19, <1>20
  DEF JobAction

\* Among the requests of ReviewOps only the two that decide on a review act,
\* and they read the task where it says in_review.
LEMMA ReviewRequest ==
  ASSUME ApiOps \subseteq ReviewOps, TypeOK, NEW t \in Tasks, Request(t)
  PROVE  /\ UNCHANGED <<up, store, job>> /\ th'["loop"] = th["loop"]
         /\ th'["api"].pc = "write" /\ th'["api"].task = t
         /\ store[t].status = "in_review" /\ th'["api"].rec.status \in {"ready", "done"}
<1>1. store[t] \in TaskRec /\ th \in [Submitters -> ThreadRec]
  BY DEF TypeOK
<1>2. \A s : [store[t] EXCEPT !.status = s].status = s
  BY <1>1 DEF TaskRec
<1>3. ASSUME NEW op, NEW rec, ApiRead(op, t, rec)
      PROVE  /\ UNCHANGED <<up, store, job>> /\ th'["loop"] = th["loop"]
             /\ th'["api"].pc = "write" /\ th'["api"].task = t /\ th'["api"].rec = rec
             /\ op \in {"approve_review", "request_changes"}
  BY <1>1, <1>3 DEF ApiRead, ReviewOps, Submitters
<1>4. ~Patch(t) /\ ~Transition(t) /\ ~Retry(t) /\ ~Cancel(t) /\ ~ApproveGate(t) /\ ~RunTask(t)
  BY DEF Patch, Transition, Retry, Cancel, ApproveGate, RunTask, ApiRead, ReviewOps
<1>5. CASE ApproveReview(t)
  <2> DEFINE rec == [store[t] EXCEPT !.status = "done"]
  <2>1. ApiRead("approve_review", t, rec) /\ store[t].status = "in_review"
    BY <1>5 DEF ApproveReview
  <2>2. rec.status = "done"
    BY <1>2
  <2> HIDE DEF rec
  <2> QED
    BY <1>3, <2>1, <2>2
<1>6. CASE RequestChanges(t)
  <2> DEFINE rec == [store[t] EXCEPT !.status = "ready"]
  <2>1. ApiRead("request_changes", t, rec) /\ store[t].status = "in_review"
    BY <1>6 DEF RequestChanges
  <2>2. rec.status = "ready"
    BY <1>2
  <2> HIDE DEF rec
  <2> QED
    BY <1>3, <2>1, <2>2
<1> QED
  BY <1>4, <1>5, <1>6 DEF Request

\* Nobody is about to write a task that is done or cancelled.
LEMMA TerminalStays ==
  ASSUME ApiOps \subseteq ReviewOps, TypeOK, SettledInv, [Next]_vars,
         NEW t \in Tasks, store[t].status \in Terminal
  PROVE  store'[t] = store[t]
<1> USE DEF Terminal
<1>1. CASE LoopIdle \/ SubmitStep \/ RunLookup \/ RunReturn \/ Crash \/ UNCHANGED vars
  BY <1>1 DEF LoopIdle, SubmitStep, Register, Submit, RunLookup, RunReturn, Crash, vars
<1>2. ASSUME NEW u \in Tasks, LoopClaim(u) PROVE store'[t] = store[t]
  BY <1>2 DEF LoopClaim, Claimable, TypeOK
<1>3. CASE ApiWrite \/ RunUpsert
  BY <1>3 DEF ApiWrite, RunUpsert, SettledInv, TypeOK
<1>4. ASSUME NEW u \in Tasks, Request(u) PROVE store'[t] = store[t]
  BY <1>4, ReviewRequest
<1>5. ASSUME NEW j \in Jobs, JobAction(j) PROVE store'[t] = store[t]
  <2>1. Writer(j) => store[job[j].task].status \in {"in_progress", "blocked"}
    BY DEF SettledInv
  <2>2. CASE Writer(j)
    BY <1>5, <2>1, <2>2, WriterStep
  <2>3. CASE ~Writer(j)
    BY <1>5, <2>3, WriterStep
  <2> QED
    BY <2>2, <2>3
<1>6. CASE Restart
  BY <1>6 DEF Restart
<1> QED
  BY <1>1, <1>2, <1>3, <1>4, <1>5, <1>6 DEF Next, LoopStep, ApiStep

\* Blockers that are resolved stay so, since they are done or cancelled.
LEMMA ResolvedStays ==
  ASSUME ApiOps \subseteq ReviewOps, TypeOK, SettledInv, [Next]_vars,
         NEW t \in Tasks, BlockersResolved(t)
  PROVE  BlockersResolved(t)'
<1> SUFFICES ASSUME NEW b \in BlockedBy[t] PROVE store'[b].status \in Terminal
  BY DEF BlockersResolved
<1>1. b \in Tasks /\ store[b].status \in Terminal
  BY DispatchAssumption DEF BlockersResolved
<1> QED
  BY <1>1, TerminalStays

\* The loop's claim makes it the writer of a task that nobody else is to write.
LEMMA SettledClaim ==
  ASSUME ApiOps \subseteq ReviewOps, TypeOK, SettledInv, NEW t \in Tasks, LoopClaim(t)
  PROVE  SettledInv'
<1> DEFINE rec == [store[t] EXCEPT !.status = "in_progress"]
<1>1. /\ store \in [Tasks -> TaskRec] /\ th \in [Submitters -> ThreadRec]
      /\ th["api"].pc # "idle" => th["api"].task \in Tasks
      /\ \A j \in Jobs : job[j].pc # "finished" => job[j].task \in Tasks
  BY DEF TypeOK, ThreadOK, JobOK, Submitters
<1>2. rec.status = "in_progress"
  BY <1>1 DEF TaskRec
<1>3. /\ store[t].status = "ready" /\ BlockersResolved(t) /\ store' = [store EXCEPT ![t] = rec]
      /\ th' = [th EXCEPT !["loop"] = [pc |-> "submit", task |-> t, rec |-> rec, job |-> None]]
      /\ UNCHANGED job
  BY DEF LoopClaim, Claimable
<1> HIDE DEF rec
<1>4. /\ th'["api"] = th["api"] /\ th'["loop"].pc = "submit" /\ th'["loop"].task = t
      /\ th'["loop"].rec = rec
  BY <1>1, <1>3 DEF Submitters
<1>5. [Next]_vars
  BY DEF Next, LoopStep
<1>6. \A u \in Tasks : BlockersResolved(u) => BlockersResolved(u)'
  BY <1>5, ResolvedStays
<1>7. \A j \in Jobs : Writer(j) => job[j].task # t /\ store'[job[j].task] = store[job[j].task]
  BY <1>1, <1>3 DEF SettledInv, Writer, Live
<1>8. BlockersFinishFirst'
  BY <1>1, <1>3, <1>6 DEF SettledInv, BlockersFinishFirst
<1>9. th["api"].pc = "write" => store'[th["api"].task] = store[th["api"].task]
  BY <1>1, <1>3 DEF SettledInv
<1>10. \A j \in Jobs : Writer(j)' <=> Writer(j)
  BY <1>3 DEF Writer, Live
<1>11. store'[t].status = "in_progress"
  BY <1>1, <1>2, <1>3
<1> QED
  BY <1>2, <1>3, <1>4, <1>6, <1>7, <1>8, <1>9, <1>10, <1>11 DEF SettledInv, Live

\* Submission hands the right to write from the loop to the job.
LEMMA SettledSubmit ==
  ASSUME ApiOps \subseteq ReviewOps, TypeOK, SettledInv, NEW j \in Jobs, Submit("loop", j)
  PROVE  SettledInv'
<1> DEFINE t == th["loop"].task
           new == [pc |-> "queued", task |-> t, rec |-> th["loop"].rec, left |-> Steps]
<1>1. /\ th \in [Submitters -> ThreadRec] /\ job \in [Jobs -> JobRec] /\ t \in Tasks
      /\ th["loop"].pc = "submit" /\ job[j].pc = "finished"
      /\ job' = [job EXCEPT ![j] = new] /\ UNCHANGED store
  BY DEF Submit, FreeSlot, TypeOK, ThreadOK, Submitters
<1>2. th'["api"] = th["api"] /\ th'["loop"].pc = "register"
  BY <1>1 DEF Submit, Submitters, ThreadRec
<1>3. new.pc = "queued" /\ new.task = t /\ new.rec = th["loop"].rec
  OBVIOUS
<1> HIDE DEF new
<1>4. job'[j] = new /\ \A k \in Jobs \ {j} : job'[k] = job[k]
  BY <1>1
<1>5. /\ Live(j)' /\ Writer(j)' /\ ~Writer(j)
      /\ \A k \in Jobs \ {j} : (Writer(k)' <=> Writer(k)) /\ (Live(k)' <=> Live(k))
  BY <1>1, <1>3, <1>4 DEF Writer, Live
<1>6. \A u : BlockersResolved(u)' <=> BlockersResolved(u)
  BY <1>1 DEF BlockersResolved
<1>7. BlockersFinishFirst'
  <2> SUFFICES ASSUME NEW k \in Jobs, job'[k].pc # "finished"
               PROVE  BlockersResolved(job'[k].task)
    BY <1>1 DEF BlockersFinishFirst, BlockersResolved
  <2> QED
    BY <1>1, <1>3, <1>4 DEF SettledInv, BlockersFinishFirst
<1>8. /\ store[t].status = "in_progress" /\ th["loop"].rec.status = "in_progress"
      /\ \A k \in Jobs : Writer(k) => job[k].task # t
  BY <1>1 DEF SettledInv
<1>9. ASSUME NEW k \in Jobs, Writer(k)'
      PROVE  /\ job'[k].rec.status = IF Live(k)' THEN "in_progress" ELSE "blocked"
             /\ store'[job'[k].task].status = job'[k].rec.status
             /\ \A l \in Jobs : Writer(l)' /\ job'[l].task = job'[k].task => l = k
  <2>1. CASE k = j
    BY <1>1, <1>3, <1>4, <1>5, <1>8, <2>1
  <2>2. CASE k # j
    <3>1. Writer(k) /\ job'[k] = job[k] /\ job[k].task # t
      BY <1>4, <1>5, <1>8, <1>9, <2>2
    <3> QED
      BY <1>1, <1>3, <1>4, <1>5, <3>1 DEF SettledInv
  <2> QED
    BY <2>1, <2>2
<1>10. th'["api"].pc = "write" => /\ store'[th'["api"].task].status = "in_review"
                                  /\ th'["api"].rec.status \in {"ready", "done"}
  BY <1>1, <1>2 DEF SettledInv
<1>11. th'["api"].pc \in {"idle", "write"}
  BY <1>2 DEF SettledInv
<1> QED
  BY <1>2, <1>7, <1>9, <1>10, <1>11 DEF SettledInv

\* A job's step leaves the other writers alone.
LEMMA SettledJob ==
  ASSUME ApiOps \subseteq ReviewOps, TypeOK, SettledInv, NEW j \in Jobs, JobAction(j)
  PROVE  SettledInv'
<1> DEFINE t == job[j].task
<1>1. /\ job[j].pc # "finished" /\ t \in Tasks
      /\ \A k \in Jobs \ {j} : job'[k] = job[k]
      /\ job'[j].pc # "finished" => job'[j].task = t
      /\ UNCHANGED th
  BY JobFrame
<1>2. /\ \A u \in Tasks \ {t} : store'[u] = store[u]
      /\ ~Writer(j) => UNCHANGED store /\ ~Writer(j)'
      /\ Writer(j)' => /\ job'[j].rec.status = IF Live(j)' THEN "in_progress" ELSE "blocked"
                       /\ store'[t].status = job'[j].rec.status
  BY WriterStep
<1>3. /\ th["api"].pc # "idle" => th["api"].task \in Tasks
      /\ th["loop"].pc # "idle" => th["loop"].task \in Tasks
      /\ \A k \in Jobs : job[k].pc # "finished" => job[k].task \in Tasks
  BY DEF TypeOK, ThreadOK, JobOK, Submitters
<1>4. [Next]_vars
  BY DEF Next
<1>5. \A u \in Tasks : BlockersResolved(u) => BlockersResolved(u)'
  BY <1>4, ResolvedStays
<1>6. BlockersFinishFirst'
  <2> SUFFICES ASSUME NEW k \in Jobs, job'[k].pc # "finished"
               PROVE  \A b \in BlockedBy[job'[k].task] : store'[b].status \in Terminal
    BY DEF BlockersFinishFirst, BlockersResolved
  <2>1. job[k].pc # "finished" /\ job'[k].task = job[k].task
    BY <1>1
  <2> QED
    BY <1>3, <1>5, <2>1 DEF SettledInv, BlockersFinishFirst, BlockersResolved
<1>7. \A k \in Jobs \ {j} : (Writer(k)' <=> Writer(k)) /\ (Live(k)' <=> Live(k))
  BY <1>1 DEF Writer, Live
<1>8. Writer(j) => store[t].status \in {"in_progress", "blocked"}
  BY DEF SettledInv
<1>9. Writer(j)' => Writer(j) /\ job'[j].task = t
  BY <1>1, <1>2 DEF Writer, Live
<1>10. th["api"].pc = "write" => store'[th["api"].task] = store[th["api"].task]
  BY <1>2, <1>3, <1>8 DEF SettledInv
<1>11. th["loop"].pc = "submit" =>
         /\ store'[th["loop"].task] = store[th["loop"].task]
         /\ BlockersResolved(th["loop"].task)'
         /\ \A k \in Jobs : Writer(k)' => job'[k].task # th["loop"].task
  <2> SUFFICES ASSUME th["loop"].pc = "submit"
               PROVE  /\ store'[th["loop"].task] = store[th["loop"].task]
                      /\ BlockersResolved(th["loop"].task)'
                      /\ \A k \in Jobs : Writer(k)' => job'[k].task # th["loop"].task
    OBVIOUS
  <2>1. /\ BlockersResolved(th["loop"].task) /\ th["loop"].task \in Tasks
        /\ \A k \in Jobs : Writer(k) => job[k].task # th["loop"].task
    BY <1>3 DEF SettledInv
  <2>2. store'[th["loop"].task] = store[th["loop"].task]
    BY <1>2, <2>1
  <2>3. ASSUME NEW k \in Jobs, Writer(k)' PROVE job'[k].task # th["loop"].task
    BY <1>1, <1>7, <1>9, <2>1, <2>3
  <2> QED
    BY <1>1, <1>5, <2>1, <2>2, <2>3 DEF BlockersResolved
<1>12. ASSUME NEW k \in Jobs, Writer(k)'
       PROVE  /\ job'[k].rec.status = IF Live(k)' THEN "in_progress" ELSE "blocked"
              /\ store'[job'[k].task].status = job'[k].rec.status
              /\ \A l \in Jobs : Writer(l)' /\ job'[l].task = job'[k].task => l = k
  <2>1. Writer(k) /\ job'[k].task = job[k].task
    BY <1>1, <1>7, <1>9, <1>12
  <2>2. \A l \in Jobs : Writer(l)' => Writer(l) /\ job'[l].task = job[l].task
    BY <1>1, <1>7, <1>9
  <2>3. \A l \in Jobs : Writer(l)' /\ job'[l].task = job'[k].task => l = k
    BY <2>1, <2>2 DEF SettledInv
  <2>4. CASE k = j
    BY <1>2, <1>9, <1>12, <2>3, <2>4
  <2>5. CASE k # j
    <3>1. job[k].task \in Tasks
      BY <1>3, <2>1 DEF Writer, Live
    <3>2. store'[job[k].task] = store[job[k].task]
      <4>1. CASE Writer(j)
        <5>1. job[k].task # t
          BY <2>1, <2>5, <4>1 DEF SettledInv
        <5> QED
          BY <1>2, <3>1, <5>1
      <4>2. CASE ~Writer(j)
        BY <1>2, <4>2
      <4> QED
        BY <4>1, <4>2
    <3>3. /\ job[k].rec.status = IF Live(k) THEN "in_progress" ELSE "blocked"
          /\ store[job[k].task].status = job[k].rec.status
      BY <2>1 DEF SettledInv
    <3> QED
      BY <1>1, <1>7, <2>3, <2>5, <3>2, <3>3
  <2> QED
    BY <2>4, <2>5
<1> QED
  BY <1>1, <1>6, <1>10, <1>11, <1>12 DEF SettledInv

\* SettledInv is inductive if clients only decide on reviews.
LEMMA SettledInductive ==
  ASSUME ApiOps \subseteq ReviewOps, TypeOK, WorktreeInv, SettledInv, [Next]_vars
  PROVE  SettledInv'
<1>1. /\ store \in [Tasks -> TaskRec] /\ th \in [Submitters -> ThreadRec]
      /\ th["api"].pc # "idle" => th["api"].task \in Tasks
      /\ th["loop"].pc # "idle" => th["loop"].task \in Tasks
      /\ \A j \in Jobs : job[j].pc # "finished" => job[j].task \in Tasks
  BY DEF TypeOK, ThreadOK, JobOK, Submitters
<1>2. \A u \in Tasks : BlockersResolved(u) => BlockersResolved(u)'
  BY ResolvedStays
<1>3. ASSUME UNCHANGED <<store, job>>,
             th'["api"] = th["api"] \/ th'["api"].pc = "idle",
             th'["loop"] = th["loop"] \/ th'["loop"].pc = "idle"
      PROVE  SettledInv'
  BY <1>3 DEF SettledInv, BlockersFinishFirst, BlockersResolved, Writer, Live
<1>4. CASE LoopIdle \/ UNCHANGED vars
  BY <1>3, <1>4 DEF LoopIdle, vars
<1>5. ASSUME NEW t \in Tasks, LoopClaim(t) PROVE SettledInv'
  BY <1>5, SettledClaim
<1>6. ASSUME NEW d \in Submitters, Register(d) PROVE SettledInv'
  <2>1. d = "loop"
    BY <1>6 DEF Register, Submitters, SettledInv
  <2>2. th'["api"] = th["api"] /\ th'["loop"].pc = "idle" /\ UNCHANGED <<store, job>>
    BY <1>1, <1>6, <2>1 DEF Register, Submitters, IdleThread
  <2> QED
    BY <1>3, <2>2
<1>7. ASSUME NEW d \in Submitters, NEW j \in Jobs, Submit(d, j) PROVE SettledInv'
  <2>1. d = "loop"
    BY <1>7 DEF Submit, Submitters, SettledInv
  <2> QED
    BY <1>7, <2>1, SettledSubmit
<1>8. CASE RunUpsert \/ RunLookup \/ RunReturn
  BY <1>8 DEF RunUpsert, RunLookup, RunReturn, SettledInv
<1>9. CASE ApiWrite
  <2>1. /\ th["api"].pc = "write" /\ th["api"].task \in Tasks
        /\ store' = [store EXCEPT ![th["api"].task] = th["api"].rec]
        /\ th'["api"].pc = "idle" /\ th'["loop"] = th["loop"] /\ UNCHANGED job
    BY <1>1, <1>9 DEF ApiWrite, Submitters, IdleThread
  <2>2. \A u \in Tasks : store[u].status # "in_review" => store'[u] = store[u]
    BY <1>1, <2>1 DEF SettledInv
  <2>3. \A j \in Jobs : /\ (Writer(j)' <=> Writer(j)) /\ (Live(j)' <=> Live(j))
                        /\ Writer(j) => job[j].task \in Tasks
    BY <1>1, <2>1 DEF Writer, Live
  <2>4. BlockersFinishFirst'
    BY <1>1, <1>2, <2>1 DEF SettledInv, BlockersFinishFirst
  <2>5. \A j \in Jobs : Writer(j) => store'[job[j].task] = store[job[j].task]
    BY <2>2, <2>3 DEF SettledInv
  <2>6. th["loop"].pc = "submit" => /\ store'[th["loop"].task] = store[th["loop"].task]
                                    /\ BlockersResolved(th["loop"].task)'
    BY <1>1, <1>2, <2>1, <2>2 DEF SettledInv, BlockersResolved
  <2> QED
    BY <2>1, <2>3, <2>4, <2>5, <2>6 DEF SettledInv
<1>10. ASSUME NEW t \in Tasks, Request(t) PROVE SettledInv'
  <2>1. /\ UNCHANGED <<up, store, job>> /\ th'["loop"] = th["loop"]
        /\ th'["api"].pc = "write" /\ th'["api"].task = t
        /\ store[t].status = "in_review" /\ th'["api"].rec.status \in {"ready", "done"}
    BY <1>10, ReviewRequest
  <2> QED
    BY <2>1 DEF SettledInv, BlockersFinishFirst, BlockersResolved, Writer, Live
<1>11. ASSUME NEW j \in Jobs, JobAction(j) PROVE SettledInv'
  BY <1>11, SettledJob
<1>12. CASE Crash
  <2>1. /\ \A j \in Jobs : job'[j].pc = "finished"
        /\ th'["api"].pc = "idle" /\ th'["loop"].pc = "idle"
    BY <1>12 DEF Crash, NoJob, IdleThread, Submitters
  <2> QED
    BY <2>1 DEF SettledInv, BlockersFinishFirst, Writer, Live
<1>13. CASE Restart
  <2>1. /\ \A j \in Jobs : job'[j].pc = "finished"
        /\ th'["api"].pc = "idle" /\ th'["loop"].pc = "idle"
    BY <1>13 DEF Restart, WorktreeInv, Submitters
  <2> QED
    BY <2>1 DEF SettledInv, BlockersFinishFirst, Writer, Live
<1> QED
  BY <1>4, <1>5, <1>6, <1>7, <1>8, <1>9, <1>10, <1>11, <1>12, <1>13
  DEF Next, LoopStep, SubmitStep, ApiStep

\* If clients only decide on reviews, every task has at most one writer, and a
\* task somebody is going to write has a status at which nobody takes it up:
\* the loop takes what is ready, handlers what is in review.
THEOREM WritersExclude ==
  ASSUME ApiOps \subseteq ReviewOps
  PROVE  Spec => []SettledInv
<1>1. Init => SettledInv
  BY DEF Init, SettledInv, BlockersFinishFirst, Writer, Live, NoJob, IdleThread, Submitters
<1>2. TypeOK /\ WorktreeInv /\ SettledInv /\ [Next]_vars => SettledInv'
  BY SettledInductive
<1> QED
  BY <1>1, <1>2, TypeCorrect, WorktreeCorrect, PTL DEF Spec

\* No job works on a task before its blockers are resolved, through every
\* crash and restart: what a blocker's status says when the task is claimed, it
\* says for good.
THEOREM BlockersFirst ==
  ASSUME ApiOps \subseteq ReviewOps
  PROVE  Spec => []BlockersFinishFirst
<1>1. SettledInv => BlockersFinishFirst
  BY DEF SettledInv
<1> QED
  BY <1>1, WritersExclude, PTL

\* No late write of a job or a handler takes a done task back.
THEOREM DoneStays ==
  ASSUME ApiOps \subseteq ReviewOps
  PROVE  Spec => DoneIsFinal
<1> DEFINE Stays == \A t \in Tasks : store[t].status = "done" => store'[t].status = "done"
<1>1. TypeOK /\ SettledInv /\ [Next]_vars => [Stays]_vars
  BY TerminalStays DEF Terminal
<1>2. Spec => [][Stays]_vars
  BY <1>1, WritersExclude, TypeCorrect, PTL DEF Spec
<1> QED
  BY <1>2 DEF DoneIsFinal
===========================================================================
