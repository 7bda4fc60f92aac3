------------------------- MODULE DependenciesProofs -------------------------
(***************************************************************************)
(* Proofs about Dependencies: types (Whole, TypeCorrect), that nobody      *)
(* waits for itself (NobodyWaits), that what a PRD lists runs in that      *)
(* order (ImportsRunInOrder), and that the two ends of a dependency agree  *)
(* between the requests of a paused scheduler (EndsKept).                  *)
(*                                                                         *)
(* Every object in a thread's hands was read from the store some time ago. *)
(* What makes this bearable is, where nobody writes beneath a job, that    *)
(* the board an analysis has in memory has every edge of the store and no  *)
(* cycle, and is what will be written (CalmInv); in every world of imports *)
(* that each copy of a task that waits has the one listed before it for a  *)
(* blocker (OrderInv, over Copies); and that what a request has not yet    *)
(* written leads to a board (Leads) whose dependencies have both their     *)
(* ends (Agreeing), but for the tasks it has changed beneath a job.        *)
(***************************************************************************)
EXTENDS Dependencies, TLAPS

\* The places of an analysis, and those of a request that holds a task.
Busy == {"ask", "apply", "mark"}
Holding == {"reset", "plan", "wire", "depends", "run"}

PC == Busy \cup Holding \cup {"idle", "tick", "claim", "write", "unblock", "await"}

Board == [Tasks -> TaskRec \cup {None}]
Upsert == [task : Tasks, rec : TaskRec]

Thread ==
  [pc : PC, task : Tasks \cup {None}, dep : Tasks \cup {None},
   snap : Board \cup TaskRec \cup {None}, todo : SUBSET Tasks, edges : Seq(Tasks \X Tasks),
   made : SUBSET Tasks, wire : Seq(Tasks), child : TaskRec \cup {None},
   job : Jobs \cup {None}, writes : Seq(Upsert)]

\* The inferred blockers of a task are tasks of the board.
Sound(rec, board) == rec.inferred \subseteq Known(board)

\* A whole board.
SoundBoard(tasks, board) ==
  tasks \in Board /\ \A t \in Known(tasks) : Sound(tasks[t], board)

\* A thread's next upserts, and the board an analysis has in memory.
ThreadInv(th, board) ==
  /\ th \in Thread
  /\ \A i \in DOMAIN th.writes : Sound(th.writes[i].rec, board)
  /\ th.pc \in Busy =>
       /\ SoundBoard(th.snap, board)
       /\ th.todo \subseteq Known(th.snap) /\ Known(th.snap) \subseteq Known(board)

\* The objects of jobs are of tasks that are there.
JobsInv(jobs, board) ==
  /\ jobs \in [Jobs -> Upsert \cup {None}]
  /\ \A j \in Jobs : jobs[j] # None => jobs[j].task \in Known(board) /\ Sound(jobs[j].rec, board)

\* The files, the jobs, and what is remembered of them.
FilesInv ==
  /\ world \in World /\ before \in [Tasks -> SUBSET Tasks] /\ raced \subseteq Tasks
  /\ SoundBoard(store, store) /\ JobsInv(job, store)

LoopInv ==
  /\ ThreadInv(loop, store)
  /\ loop.pc \in Busy \cup {"tick", "claim"}
  /\ loop.writes # <<>> => loop.pc \in {"apply", "mark"}

\* The tasks of a plan are there or will be.
MadeInv ==
  /\ \A m \in api.made : m \in Known(store) \/ \E i \in DOMAIN api.writes : api.writes[i].task = m
  /\ \A i \in DOMAIN api.wire : api.wire[i] \in api.made

\* What a request has in its hands.
ApiInv ==
  /\ ThreadInv(api, store)
  /\ api.pc \notin {"tick", "claim"}
  /\ api.pc = "idle" => api.writes = <<>>
  /\ api.pc = "unblock" => api.task \in Tasks /\ api.dep \in Known(store)
  /\ api.pc \in Holding => api.task \in Tasks /\ api.snap \in TaskRec /\ Sound(api.snap, store)
  /\ api.pc = "reset" => api.todo \subseteq Known(store)
  /\ api.pc = "run" => api.task \in Known(store)
  /\ api.pc \in {"wire", "depends"} => MadeInv
  /\ api.pc = "depends" =>
       /\ api.child \in TaskRec /\ Sound(api.child, store)
       /\ api.wire # <<>> /\ api.todo \subseteq api.made \ {Head(api.wire)}

TypesInv == FilesInv /\ LoopInv /\ ApiInv

-----------------------------------------------------------------------------
(* Sequences of upserts.                                                   *)

\* What has a status is a task.
LEMMA KnownIsTask ==
  ASSUME NEW tasks \in Board, NEW t \in Known(tasks)
  PROVE  tasks[t] \in TaskRec /\ t \in Tasks
  BY DEF Known, Board

\* One upsert.
LEMMA WriteOne ==
  ASSUME NEW t \in Tasks, NEW rec \in TaskRec
  PROVE  /\ Write(t, rec) \in Seq(Upsert) /\ Write(t, rec) # <<>>
         /\ DOMAIN Write(t, rec) = {1} /\ Len(Write(t, rec)) = 1
         /\ Write(t, rec)[1] = [task |-> t, rec |-> rec]
<1>1. [task |-> t, rec |-> rec] \in Upsert
  BY DEF Upsert
<1> QED
  BY <1>1 DEF Write

\* Two upserts.
LEMMA WriteTwo ==
  ASSUME NEW t \in Tasks, NEW rec \in TaskRec, NEW d \in Tasks, NEW other \in TaskRec
  PROVE  LET w == Write(t, rec) \o Write(d, other) IN
         /\ w \in Seq(Upsert) /\ DOMAIN w = {1, 2} /\ Len(w) = 2
         /\ w[1] = [task |-> t, rec |-> rec] /\ w[2] = [task |-> d, rec |-> other]
<1> DEFINE w == Write(t, rec) \o Write(d, other)
<1>1. [task |-> t, rec |-> rec] \in Upsert /\ [task |-> d, rec |-> other] \in Upsert
  BY DEF Upsert
<1>2. w \in Seq(Upsert) /\ Len(w) = 2
  BY <1>1 DEF Write
<1>3. w[1] = [task |-> t, rec |-> rec] /\ w[2] = [task |-> d, rec |-> other]
  BY <1>1 DEF Write
<1>4. DOMAIN w = {1, 2}
  BY <1>2
<1> QED
  BY <1>2, <1>3, <1>4

\* The upserts left when the first has been made.
LEMMA TailOf ==
  ASSUME NEW s \in Seq(Upsert), s # <<>>
  PROVE  /\ Tail(s) \in Seq(Upsert) /\ Len(Tail(s)) = Len(s) - 1 /\ Len(s) \in Nat \ {0}
         /\ DOMAIN s = 1..Len(s) /\ DOMAIN Tail(s) = 1..(Len(s) - 1)
         /\ Head(s) = s[1] /\ Head(s) \in Upsert /\ 1 \in DOMAIN s
         /\ \A i \in DOMAIN Tail(s) : i + 1 \in DOMAIN s /\ Tail(s)[i] = s[i + 1]
  OBVIOUS

\* Every upsert of a sequence is one.
LEMMA UpsertIn ==
  ASSUME NEW s \in Seq(Upsert), NEW i \in DOMAIN s
  PROVE  s[i] \in Upsert /\ s[i].task \in Tasks /\ s[i].rec \in TaskRec
<1>1. s[i] \in Upsert
  OBVIOUS
<1> QED
  BY <1>1 DEF Upsert

\* A fresh task.
LEMMA NewTaskTyped ==
  /\ NewTask \in TaskRec /\ NewTask.inferred = {}
  /\ \A by \in SUBSET Tasks : [NewTask EXCEPT !.by = by] \in TaskRec
                              /\ [NewTask EXCEPT !.by = by].inferred = {}
  BY DEF NewTask, TaskRec

\* Sequences of new tasks.
LEMMA NewsOf ==
  ASSUME NEW n \in Nat, NEW s \in News(n)
  PROVE  /\ s \in Seq(Tasks) /\ Len(s) = n /\ DOMAIN s = 1..n
         /\ \A i \in 1..n : s[i] \in Tasks /\ s[i] \notin Known(store)
         /\ \A i, k \in 1..n : s[i] = s[k] => i = k
<1>1. s \in [1..n -> Tasks] /\ \A i \in 1..n : s[i] \notin Known(store)
  BY DEF News
<1>2. s \in Seq(Tasks) /\ Len(s) = n
  BY <1>1
<1> QED
  BY <1>1, <1>2 DEF News

\* The k-th task is written with the upserts 2k - 1 and 2k.
LEMMA Halves ==
  ASSUME NEW n \in Nat \ {0}, NEW i \in 1..(2 * n - 1), NEW k, k = (i + 1) \div 2
  PROVE  /\ k \in 1..n /\ (i = 2 * k \/ i = 2 * k - 1)
         /\ i % 2 # 1 => k + 1 \in 1..n
<1>1. i % 2 \in {0, 1} /\ i = 2 * (i \div 2) + (i % 2)
  OBVIOUS
<1>2. k \in 1..n
  OBVIOUS
<1>3. i = 2 * k \/ i = 2 * k - 1
  OBVIOUS
<1>4. i % 2 # 1 => i = 2 * k
  OBVIOUS
<1> QED
  BY <1>2, <1>3, <1>4

\* The i-th upsert is of task (i + 1) \div 2, whose only blocker is the task listed
\* before it.
Listing(w, s, n) ==
  \A i \in 1..(2 * n - 1) : \A k :
    k = (i + 1) \div 2 =>
      /\ k \in 1..n /\ (i = 2 * k \/ i = 2 * k - 1)
      /\ w[i].task = s[k]
      /\ w[i].rec.by = IF k = 1 THEN {} ELSE {s[k - 1]}
      /\ w[i].rec.status = "ready"

\* What an import writes: each task once, and again but for the last.
LEMMA ImportWritesOf ==
  ASSUME NEW n \in Nat \ {0}, NEW s \in News(n)
  PROVE  /\ ImportWrites(s) \in Seq(Upsert) /\ Len(ImportWrites(s)) = 2 * n - 1
         /\ DOMAIN ImportWrites(s) = 1..(2 * n - 1)
         /\ \A i \in 1..(2 * n - 1) : ImportWrites(s)[i].rec.inferred = {}
         /\ Listing(ImportWrites(s), s, n)
<1> DEFINE w == ImportWrites(s)
<1>1. Len(s) = n /\ s \in [1..n -> Tasks] /\ 2 * n - 1 \in Nat
  BY NewsOf
<1> HIDE DEF w
<1>2. ASSUME NEW j \in 1..n
      PROVE  /\ Item(s, j) \in TaskRec
             /\ Item(s, j).by = IF j = 1 THEN {} ELSE {s[j - 1]}
             /\ Item(s, j).status = "ready" /\ Item(s, j).inferred = {}
  <2> DEFINE by == IF j = 1 THEN {} ELSE {s[j - 1]}
  <2>1. by \in SUBSET Tasks
    BY <1>1
  <2> HIDE DEF by
  <2>2. Item(s, j) = [NewTask EXCEPT !.status = "ready", !.imported = TRUE, !.by = by]
    BY DEF Item, by
  <2>3. /\ Item(s, j) \in TaskRec /\ Item(s, j).by = by
        /\ Item(s, j).status = "ready" /\ Item(s, j).inferred = {}
    BY <2>1, <2>2 DEF NewTask, TaskRec
  <2> QED
    BY <2>3 DEF by
<1>3. ASSUME NEW i \in 1..(2 * n - 1), NEW k, k = (i + 1) \div 2
      PROVE  /\ w[i] \in Upsert /\ w[i].task = s[k]
             /\ w[i].rec.by = Item(s, k).by
             /\ w[i].rec.status = "ready" /\ w[i].rec.inferred = {}
  <2>1. w[i] = [task |-> s[k], rec |-> IF i % 2 = 1 THEN Item(s, k)
                                       ELSE [Item(s, k) EXCEPT !.blocks = {s[k + 1]}]]
    BY <1>1, <1>3 DEF ImportWrites, w
  <2>2. k \in 1..n /\ s[k] \in Tasks /\ (i % 2 # 1 => k + 1 \in 1..n)
    BY <1>1, <1>3, Halves
  <2> DEFINE item == Item(s, k)
  <2>5. item \in TaskRec /\ item.status = "ready" /\ item.inferred = {}
    BY <1>2, <2>2
  <2> HIDE DEF item
  <2>6. w[i] = [task |-> s[k], rec |-> IF i % 2 = 1 THEN item
                                       ELSE [item EXCEPT !.blocks = {s[k + 1]}]]
    BY <2>1 DEF item
  <2>7. w[i] \in Upsert /\ w[i].task = s[k] /\ w[i].rec.by = item.by
        /\ w[i].rec.status = "ready" /\ w[i].rec.inferred = {}
    <3>1. CASE i % 2 = 1
      <4>1. w[i] = [task |-> s[k], rec |-> item]
        BY <2>6, <3>1
      <4> QED
        BY <2>2, <2>5, <4>1 DEF Upsert
    <3>2. CASE i % 2 # 1
      <4> DEFINE rec == [item EXCEPT !.blocks = {s[k + 1]}]
      <4>1. w[i] = [task |-> s[k], rec |-> rec]
        BY <2>6, <3>2
      <4>2. s[k + 1] \in Tasks
        BY <1>1, <2>2, <3>2
      <4>3. rec \in TaskRec /\ rec.by = item.by /\ rec.status = "ready" /\ rec.inferred = {}
        BY <2>5, <4>2 DEF TaskRec
      <4> HIDE DEF rec
      <4> QED
        BY <2>2, <4>1, <4>3 DEF Upsert
    <3> QED
      BY <3>1, <3>2
  <2> QED
    BY <2>7 DEF item
<1>4. w \in [1..(2 * n - 1) -> Upsert]
  BY <1>1, <1>3 DEF ImportWrites, w
<1>5. w \in Seq(Upsert) /\ Len(w) = 2 * n - 1 /\ DOMAIN w = 1..(2 * n - 1)
  BY <1>1, <1>4
<1>6. ASSUME NEW i \in 1..(2 * n - 1), NEW k, k = (i + 1) \div 2
      PROVE  /\ k \in 1..n /\ (i = 2 * k \/ i = 2 * k - 1)
             /\ w[i].task = s[k]
             /\ w[i].rec.by = IF k = 1 THEN {} ELSE {s[k - 1]}
             /\ w[i].rec.status = "ready" /\ w[i].rec.inferred = {}
  <2>1. k \in 1..n /\ (i = 2 * k \/ i = 2 * k - 1)
    BY <1>6, Halves
  <2>2. /\ w[i].task = s[k] /\ w[i].rec.by = Item(s, k).by
        /\ w[i].rec.status = "ready" /\ w[i].rec.inferred = {}
    BY <1>3, <1>6
  <2> QED
    BY <1>2, <2>1, <2>2
<1>7. Listing(w, s, n)
  BY <1>6 DEF Listing
<1>8. \A i \in 1..(2 * n - 1) : w[i].rec.inferred = {}
  BY <1>6
<1> QED
  BY <1>5, <1>7, <1>8 DEF w

-----------------------------------------------------------------------------
(* Types.                                                                  *)

\* Sequences without elements.
LEMMA EmptySeqs ==
  <<>> \in Seq(Upsert) /\ <<>> \in Seq(Tasks) /\ <<>> \in Seq(Tasks \X Tasks)
  OBVIOUS

\* An idle thread, wherever it goes from there.
LEMMA IdleThread ==
  ASSUME NEW pc \in PC \ Busy, NEW board
  PROVE  ThreadInv([Idle EXCEPT !.pc = pc], board)
<1>1. Idle \in Thread
  BY EmptySeqs DEF Idle, Thread, PC
<1>2. [Idle EXCEPT !.pc = pc] \in Thread
  BY <1>1 DEF Thread
<1>3. [Idle EXCEPT !.pc = pc].pc = pc /\ [Idle EXCEPT !.pc = pc].writes = <<>>
  BY DEF Idle
<1> QED
  BY <1>2, <1>3 DEF ThreadInv

\* A thread that has nothing to do.
LEMMA IdleIsIdle ==
  Idle = [Idle EXCEPT !.pc = "idle"] /\ Idle.pc = "idle" /\ Idle.writes = <<>>
<1>1. Idle \in Thread /\ Idle.pc = "idle" /\ Idle.writes = <<>>
  BY EmptySeqs DEF Idle, Thread, PC
<1>2. Idle = [Idle EXCEPT !.pc = "idle"]
  BY <1>1 DEF Thread
<1> QED
  BY <1>1, <1>2

\* An idle thread with upserts of whole tasks.
LEMMA WritingThread ==
  ASSUME NEW pc \in PC \ Busy, NEW board, NEW writes \in Seq(Upsert),
         \A i \in DOMAIN writes : Sound(writes[i].rec, board)
  PROVE  ThreadInv([Idle EXCEPT !.pc = pc, !.writes = writes], board)
<1> DEFINE th == [Idle EXCEPT !.pc = pc, !.writes = writes]
<1>1. Idle \in Thread
  BY EmptySeqs DEF Idle, Thread, PC
<1>2. th \in Thread
  BY <1>1 DEF Thread
<1>3. th.pc = pc /\ th.writes = writes
  BY DEF Idle
<1> QED
  BY <1>2, <1>3 DEF ThreadInv

\* A board that has grown.
LEMMA SoundGrows ==
  ASSUME NEW board, NEW grown, Known(board) \subseteq Known(grown)
  PROVE  /\ \A rec : Sound(rec, board) => Sound(rec, grown)
         /\ \A tasks : SoundBoard(tasks, board) => SoundBoard(tasks, grown)
         /\ \A jobs : JobsInv(jobs, board) => JobsInv(jobs, grown)
         /\ \A th : ThreadInv(th, board) => ThreadInv(th, grown)
<1>1. \A rec : Sound(rec, board) => Sound(rec, grown)
  BY DEF Sound
<1>2. \A tasks : SoundBoard(tasks, board) => SoundBoard(tasks, grown)
  BY <1>1 DEF SoundBoard
<1>3. \A th : ThreadInv(th, board) => ThreadInv(th, grown)
  BY <1>1, <1>2 DEF ThreadInv
<1>4. \A jobs : JobsInv(jobs, board) => JobsInv(jobs, grown)
  BY <1>1 DEF JobsInv
<1> QED
  BY <1>1, <1>2, <1>3, <1>4

\* A board with one task written.
LEMMA Written ==
  ASSUME NEW board, NEW tasks, SoundBoard(tasks, board), NEW t \in Tasks, NEW rec \in TaskRec,
         Sound(rec, board), NEW next \in Board,
         \A u \in Tasks : next[u] = IF u = t THEN rec ELSE tasks[u]
  PROVE  SoundBoard(next, board) /\ Known(next) = Known(tasks) \cup {t}
<1>1. Known(next) = Known(tasks) \cup {t}
  BY DependenciesAssumption DEF Known
<1>2. \A u \in Known(next) : Sound(next[u], board)
  BY <1>1 DEF SoundBoard, Known
<1> QED
  BY <1>1, <1>2 DEF SoundBoard

\* An upsert that was pending is made.
LEMMA Flushed ==
  ASSUME FilesInv, NEW th, ThreadInv(th, store), NEW th1, Flush(th, th1)
  PROVE  /\ SoundBoard(store', store') /\ Known(store') = Known(store) \cup {Head(th.writes).task}
         /\ Head(th.writes).task \in Tasks /\ Head(th.writes).rec \in TaskRec
         /\ \A u \in Tasks : store'[u] = IF u = Head(th.writes).task THEN Head(th.writes).rec
                                         ELSE store[u]
         /\ ThreadInv(th1, store')
         /\ th.writes \in Seq(Upsert) /\ th.writes # <<>> /\ th1.writes = Tail(th.writes)
         /\ th1.pc = th.pc /\ th1.snap = th.snap /\ th1.task = th.task /\ th1.dep = th.dep
         /\ th1.todo = th.todo /\ th1.made = th.made /\ th1.wire = th.wire /\ th1.child = th.child
         /\ th1.job = th.job
<1> DEFINE h == Head(th.writes)
<1>1. /\ th.writes \in Seq(Upsert) /\ th.writes # <<>>
      /\ th1 = [th EXCEPT !.writes = Tail(th.writes)] /\ store' = [store EXCEPT ![h.task] = h.rec]
  BY DEF ThreadInv, Thread, Flush
<1>2. h \in Upsert /\ h = th.writes[1] /\ 1 \in DOMAIN th.writes /\ Tail(th.writes) \in Seq(Upsert)
  BY <1>1, TailOf
<1>3. h.task \in Tasks /\ h.rec \in TaskRec /\ Sound(h.rec, store)
  BY <1>2 DEF Upsert, ThreadInv
<1> HIDE DEF h
<1>4. SoundBoard(store', store) /\ Known(store') = Known(store) \cup {h.task}
      /\ \A u \in Tasks : store'[u] = IF u = h.task THEN h.rec ELSE store[u]
  <2>1. SoundBoard(store, store)
    BY DEF FilesInv
  <2>2. store' \in Board /\ \A u \in Tasks : store'[u] = IF u = h.task THEN h.rec ELSE store[u]
    BY <1>1, <1>3, <2>1 DEF h, SoundBoard, Board
  <2> QED
    BY <1>3, <2>1, <2>2, Written
<1>5. /\ th1 \in Thread /\ th1.writes = Tail(th.writes)
      /\ th1.pc = th.pc /\ th1.snap = th.snap /\ th1.task = th.task /\ th1.dep = th.dep
      /\ th1.todo = th.todo /\ th1.made = th.made /\ th1.wire = th.wire /\ th1.child = th.child
      /\ th1.job = th.job
  BY <1>1, <1>2 DEF ThreadInv, Thread
<1>6. ThreadInv(th1, store)
  <2>1. \A i \in DOMAIN th1.writes : Sound(th1.writes[i].rec, store)
    BY <1>1, <1>5, TailOf DEF ThreadInv
  <2> QED
    BY <1>5, <2>1 DEF ThreadInv
<1>7. SoundBoard(store', store') /\ ThreadInv(th1, store')
  BY <1>4, <1>6, SoundGrows
<1> QED
  BY <1>1, <1>3, <1>4, <1>5, <1>7 DEF h

\* An analysis begins with a whole board.
LEMMA GatherThread ==
  ASSUME FilesInv, NEW th, ThreadInv(th, store), NEW th1, NEW from, Gather(th, th1, from)
  PROVE  ThreadInv(th1, store) /\ th1.pc \in Busy /\ th1.writes = <<>> /\ th1.snap = store
<1>1. Candidates \subseteq Known(store) /\ Candidates \subseteq Tasks
  BY DEF Candidates, Known
<1>2. th1 \in Thread /\ th1.pc \in Busy /\ th1.writes = <<>> /\ th1.snap = store
      /\ th1.todo = Candidates
  <2>1. PICK pc \in {"mark", "ask"} :
          th1 = [th EXCEPT !.snap = store, !.todo = Candidates, !.pc = pc]
    BY DEF Gather
  <2>2. th.writes = <<>> /\ th \in Thread /\ store \in Board
    BY DEF Gather, ThreadInv, FilesInv, SoundBoard
  <2>3. pc \in PC /\ pc \in Busy
    BY DEF PC, Busy
  <2> QED
    BY <1>1, <2>1, <2>2, <2>3 DEF Thread
<1> QED
  BY <1>1, <1>2 DEF ThreadInv, FilesInv

\* A board in memory gets an edge, and both its ends are about to be written.
EdgeAdded(snap, next, writes) ==
  \E from, to \in Known(snap) :
    /\ Fits(snap, from, to) /\ from # to
    /\ \A t \in Tasks \ {from, to} : next[t] = snap[t]
    /\ next[to].by = snap[to].by \cup {from} /\ next[from].by = snap[from].by
    /\ next[to].blocks = snap[to].blocks /\ next[from].blocks = snap[from].blocks \cup {to}
    /\ next[from].status = snap[from].status /\ next[to].status = snap[to].status
    /\ DOMAIN writes = {1, 2} /\ Len(writes) = 2
    /\ writes[1] = [task |-> from, rec |-> next[from]]
    /\ writes[2] = [task |-> to, rec |-> next[to]]

\* The next edge changes nothing, or both its ends, in memory, and then writes them.
LEMMA ApplyEffect ==
  ASSUME NEW board, NEW th, ThreadInv(th, board), NEW th1, Apply(th, th1)
  PROVE  /\ th.pc = "apply" /\ th.writes = <<>>
         /\ ThreadInv(th1, board) /\ th1.pc = "apply" /\ Known(th1.snap) = Known(th.snap)
         /\ \/ th1.writes = <<>> /\ th1.snap = th.snap
            \/ EdgeAdded(th.snap, th1.snap, th1.writes)
<1> DEFINE from == Head(th.edges)[1]
           to == Head(th.edges)[2]
           snap == [th.snap EXCEPT ![to].by = @ \cup {from}, ![to].inferred = @ \cup {from},
                                   ![from].blocks = @ \cup {to}]
<1>1. /\ th.pc = "apply" /\ th.writes = <<>> /\ th.edges # <<>> /\ th \in Thread
      /\ SoundBoard(th.snap, board) /\ Known(th.snap) \subseteq Known(board)
      /\ th.todo \subseteq Known(th.snap)
  BY DEF Apply, ThreadInv, Busy
<1>2. Tail(th.edges) \in Seq(Tasks \X Tasks)
  BY <1>1 DEF Thread
<1>3. th1 = IF Fits(th.snap, from, to)
              THEN [th EXCEPT !.snap = snap, !.edges = Tail(th.edges),
                              !.writes = Write(from, snap[from]) \o Write(to, snap[to])]
              ELSE [th EXCEPT !.edges = Tail(th.edges)]
  BY DEF Apply
<1> HIDE DEF from, to
<1>4. CASE ~Fits(th.snap, from, to)
  <2>1. th1 \in Thread /\ th1.pc = th.pc /\ th1.writes = th.writes /\ th1.snap = th.snap
        /\ th1.todo = th.todo
    BY <1>1, <1>2, <1>3, <1>4 DEF Thread
  <2> QED
    BY <1>1, <2>1 DEF ThreadInv
<1>5. CASE Fits(th.snap, from, to)
  <2>1. /\ from \in Tasks /\ to \in Tasks /\ from # to
        /\ from \in Known(th.snap) /\ to \in Known(th.snap)
        /\ SoundBoard(snap, board) /\ Known(snap) = Known(th.snap)
        /\ snap[from] \in TaskRec /\ snap[to] \in TaskRec
        /\ \A t \in Tasks \ {from, to} : snap[t] = th.snap[t]
        /\ snap[to].by = th.snap[to].by \cup {from} /\ snap[from].by = th.snap[from].by
        /\ snap[to].blocks = th.snap[to].blocks /\ snap[from].blocks = th.snap[from].blocks \cup {to}
        /\ snap[from].status = th.snap[from].status /\ snap[to].status = th.snap[to].status
    <3>1. from \in Known(th.snap) /\ to \in Known(th.snap) /\ from # to
      BY <1>5 DEF Fits
    <3>2. from \in Tasks /\ to \in Tasks /\ th.snap[from] \in TaskRec /\ th.snap[to] \in TaskRec
      BY <1>1, <3>1, KnownIsTask DEF SoundBoard
    <3> DEFINE rf == [th.snap[from] EXCEPT !.blocks = @ \cup {to}]
               rt == [th.snap[to] EXCEPT !.by = @ \cup {from}, !.inferred = @ \cup {from}]
    <3>3. /\ rf \in TaskRec /\ rf.by = th.snap[from].by /\ rf.inferred = th.snap[from].inferred
          /\ rf.status = th.snap[from].status /\ rf.blocks = th.snap[from].blocks \cup {to}
          /\ rt \in TaskRec /\ rt.by = th.snap[to].by \cup {from}
          /\ rt.inferred = th.snap[to].inferred \cup {from} /\ rt.status = th.snap[to].status
          /\ rt.blocks = th.snap[to].blocks
      BY <3>2 DEF TaskRec
    <3>4. /\ DOMAIN snap = Tasks /\ snap = [t \in Tasks |-> snap[t]]
          /\ snap[from] = rf /\ snap[to] = rt
          /\ \A t \in Tasks \ {from, to} : snap[t] = th.snap[t]
      <4>1. DOMAIN th.snap = Tasks
        BY <1>1 DEF SoundBoard, Board
      <4>2. snap = [t \in Tasks |-> IF t = from THEN rf ELSE IF t = to THEN rt ELSE th.snap[t]]
        BY <3>1, <3>2, <4>1
      <4> HIDE DEF rf, rt
      <4> QED
        BY <3>1, <3>2, <4>2
    <3> HIDE DEF rf, rt
    <3>5. snap \in Board
      <4>1. \A t \in Tasks : snap[t] \in TaskRec \cup {None}
        BY <1>1, <3>3, <3>4 DEF SoundBoard, Board
      <4> QED
        BY <3>4, <4>1 DEF Board
    <3>6. Known(snap) = Known(th.snap)
      <4>1. rf # None /\ rt # None
        BY <3>3, DependenciesAssumption
      <4>2. \A t \in Tasks : snap[t] # None <=> th.snap[t] # None
        BY <3>1, <3>4, <4>1 DEF Known
      <4> QED
        BY <4>2 DEF Known
    <3>7. Sound(rf, board) /\ Sound(rt, board)
      BY <1>1, <3>1, <3>2, <3>3 DEF SoundBoard, Sound
    <3>8. \A t \in Known(snap) : Sound(snap[t], board)
      BY <1>1, <3>4, <3>6, <3>7 DEF SoundBoard, Known
    <3> QED
      BY <3>1, <3>2, <3>3, <3>4, <3>5, <3>6, <3>8 DEF SoundBoard
  <2> HIDE DEF snap
  <2> DEFINE writes == Write(from, snap[from]) \o Write(to, snap[to])
  <2>2. /\ writes \in Seq(Upsert) /\ DOMAIN writes = {1, 2} /\ Len(writes) = 2
        /\ writes[1] = [task |-> from, rec |-> snap[from]]
        /\ writes[2] = [task |-> to, rec |-> snap[to]]
    BY <2>1, WriteTwo
  <2>3. th1 = [th EXCEPT !.snap = snap, !.edges = Tail(th.edges), !.writes = writes]
    BY <1>3, <1>5
  <2> HIDE DEF writes
  <2>4. /\ th1 \in Thread /\ th1.pc = "apply" /\ th1.writes = writes /\ th1.snap = snap
        /\ th1.todo = th.todo
    BY <1>1, <1>2, <2>1, <2>2, <2>3 DEF Thread, SoundBoard
  <2>5. \A i \in DOMAIN writes : Sound(writes[i].rec, board)
    BY <2>1, <2>2 DEF SoundBoard, Known
  <2>6. ThreadInv(th1, board)
    BY <1>1, <2>1, <2>4, <2>5 DEF ThreadInv, Busy
  <2>7. Known(th1.snap) = Known(th.snap)
    BY <2>1, <2>4
  <2>8. EdgeAdded(th.snap, snap, writes)
    BY <1>5, <2>1, <2>2 DEF EdgeAdded
  <2> QED
    BY <1>1, <2>4, <2>6, <2>7, <2>8
<1> QED
  BY <1>4, <1>5

\* A candidate is marked with the object in memory.
LEMMA MarkEffect ==
  ASSUME NEW board, NEW th, ThreadInv(th, board), NEW th1, Mark(th, th1)
  PROVE  /\ th.pc = "mark" /\ th.writes = <<>>
         /\ ThreadInv(th1, board) /\ th1.pc = "mark" /\ th1.snap = th.snap
         /\ \E t \in Known(th.snap) : \E rec \in TaskRec :
              /\ th1.writes = Write(t, rec)
              /\ rec.by = th.snap[t].by /\ rec.blocks = th.snap[t].blocks
              /\ rec.status = th.snap[t].status
<1>1. PICK t \in th.todo :
        th1 = [th EXCEPT !.todo = @ \ {t},
                         !.writes = Write(t, [th.snap[t] EXCEPT !.analyzed = TRUE])]
  BY DEF Mark
<1>2. /\ th.pc = "mark" /\ th.writes = <<>> /\ th \in Thread
      /\ SoundBoard(th.snap, board) /\ Known(th.snap) \subseteq Known(board)
      /\ th.todo \subseteq Known(th.snap)
  BY DEF Mark, ThreadInv, Busy
<1>3. t \in Tasks /\ th.snap[t] \in TaskRec /\ t \in Known(th.snap) /\ Sound(th.snap[t], board)
  BY <1>2, KnownIsTask DEF SoundBoard
<1> DEFINE rec == [th.snap[t] EXCEPT !.analyzed = TRUE]
<1>4. /\ rec \in TaskRec /\ rec.by = th.snap[t].by /\ rec.blocks = th.snap[t].blocks
      /\ rec.status = th.snap[t].status /\ rec.inferred = th.snap[t].inferred
  BY <1>3 DEF TaskRec
<1> HIDE DEF rec
<1> DEFINE writes == Write(t, rec)
<1>5. /\ writes \in Seq(Upsert) /\ DOMAIN writes = {1}
      /\ writes[1] = [task |-> t, rec |-> rec]
  BY <1>3, <1>4, WriteOne
<1>6. th1 = [th EXCEPT !.todo = th.todo \ {t}, !.writes = writes]
  BY <1>1 DEF rec
<1> HIDE DEF writes
<1>7. /\ th1 \in Thread /\ th1.pc = "mark" /\ th1.snap = th.snap /\ th1.writes = writes
      /\ th1.todo \subseteq th.todo
  BY <1>2, <1>5, <1>6 DEF Thread
<1>8. ThreadInv(th1, board)
  BY <1>2, <1>3, <1>4, <1>5, <1>7 DEF ThreadInv, Sound
<1> QED
  BY <1>2, <1>3, <1>4, <1>7, <1>8 DEF writes

\* The worker has answered; all edges have been seen to.
LEMMA QuietEffect ==
  ASSUME NEW board, NEW th, ThreadInv(th, board), NEW th1, Ask(th, th1) \/ Applied(th, th1)
  PROVE  /\ th.pc \in {"ask", "apply"} /\ th1.pc \in {"apply", "mark"}
         /\ ThreadInv(th1, board) /\ th1.snap = th.snap /\ th1.writes = th.writes
<1>1. th \in Thread
  BY DEF ThreadInv
<1>2. \A n \in 0..world.edges : [1..n -> Tasks \X Tasks] \subseteq Seq(Tasks \X Tasks)
  OBVIOUS
<1>3. EdgeSeqs \subseteq Seq(Tasks \X Tasks)
  BY <1>2 DEF EdgeSeqs
<1>4. /\ th.pc \in {"ask", "apply"} /\ th1.pc \in {"apply", "mark"} /\ th1 \in Thread
      /\ th1.snap = th.snap /\ th1.writes = th.writes /\ th1.todo = th.todo
  <2>1. CASE Ask(th, th1)
    <3>1. PICK edges \in EdgeSeqs : th1 = [th EXCEPT !.pc = "apply", !.edges = edges]
      BY <2>1 DEF Ask
    <3>2. th.pc = "ask" /\ edges \in Seq(Tasks \X Tasks) /\ "apply" \in PC
      BY <1>3, <2>1, <3>1 DEF Ask, PC, Busy
    <3> QED
      BY <1>1, <3>1, <3>2 DEF Thread
  <2>2. CASE Applied(th, th1)
    <3>1. th.pc = "apply" /\ th1 = [th EXCEPT !.pc = "mark"] /\ "mark" \in PC
      BY <2>2 DEF Applied, PC, Busy
    <3> QED
      BY <1>1, <3>1 DEF Thread
  <2> QED
    BY <2>1, <2>2
<1> QED
  BY <1>4 DEF ThreadInv, Busy

\* The files stay whole when nothing is written.
LEMMA FilesKept ==
  ASSUME FilesInv, UNCHANGED <<world, store, job, raced>>, before' \in [Tasks -> SUBSET Tasks]
  PROVE  FilesInv'
  BY DEF FilesInv

\* A thread that does nothing keeps what it has while the board grows.
LEMMA LoopKept ==
  ASSUME LoopInv, loop' = loop, Known(store) \subseteq Known(store')
  PROVE  LoopInv'
<1>1. ThreadInv(loop', store')
  BY SoundGrows DEF LoopInv
<1> QED
  BY <1>1 DEF LoopInv

\* The same of a request.
LEMMA ApiKept ==
  ASSUME ApiInv, api' = api, Known(store) \subseteq Known(store')
  PROVE  ApiInv'
<1>1. ThreadInv(api', store')
  BY SoundGrows DEF ApiInv
<1>2. api.pc \in Holding => Sound(api'.snap, store')
  BY SoundGrows DEF ApiInv
<1>3. api.pc = "depends" => Sound(api'.child, store')
  BY SoundGrows DEF ApiInv
<1>4. api.pc \in {"wire", "depends"} => MadeInv'
  BY DEF ApiInv, MadeInv
<1> QED
  BY <1>1, <1>2, <1>3, <1>4 DEF ApiInv

\* A job gets the object of a task that is there.
LEMMA JobGiven ==
  ASSUME JobsInv(job, store), NEW j \in Jobs, NEW t \in Known(store), NEW rec \in TaskRec,
         Sound(rec, store), job' = [job EXCEPT ![j] = [task |-> t, rec |-> rec]]
  PROVE  /\ JobsInv(job', store)
         /\ \A k \in Jobs : job'[k] = IF k = j THEN [task |-> t, rec |-> rec] ELSE job[k]
<1>1. t \in Tasks /\ [task |-> t, rec |-> rec] \in Upsert
  BY DEF Known, Upsert
<1>2. \A k \in Jobs : job'[k] = IF k = j THEN [task |-> t, rec |-> rec] ELSE job[k]
  BY DEF JobsInv
<1>3. job' \in [Jobs -> Upsert \cup {None}]
  BY <1>1 DEF JobsInv
<1> QED
  BY <1>2, <1>3 DEF JobsInv

\* A claim writes the task, and gives it to a job.
LEMMA ClaimEffect ==
  ASSUME FilesInv, LoopClaim
  PROVE  /\ FilesInv' /\ Known(store') = Known(store)
         /\ \E t \in Known(store) : \E j \in Jobs : \E rec \in TaskRec :
              /\ Runnable(t) /\ j \in world.jobs /\ job[j] = None
              /\ rec.status = "in_progress" /\ rec.by = store[t].by /\ rec.blocks = store[t].blocks
              /\ \A u \in Tasks : store'[u] = IF u = t THEN rec ELSE store[u]
              /\ \A k \in Jobs : job'[k] = IF k = j THEN [task |-> t, rec |-> rec] ELSE job[k]
<1>1. PICK t \in Tasks, j \in world.jobs :
        /\ Runnable(t) /\ job[j] = None
        /\ store' = [store EXCEPT ![t] = [store[t] EXCEPT !.status = "in_progress"]]
        /\ job' = [job EXCEPT ![j] = [task |-> t, rec |-> [store[t] EXCEPT !.status = "in_progress"]]]
  BY DEF LoopClaim
<1>2. SoundBoard(store, store) /\ JobsInv(job, store) /\ store \in Board /\ world \in World
  BY DEF FilesInv, SoundBoard
<1>3. t \in Known(store) /\ store[t] \in TaskRec /\ Sound(store[t], store)
  BY <1>1, <1>2 DEF Runnable, Has, Known, SoundBoard, Board
<1> DEFINE rec == [store[t] EXCEPT !.status = "in_progress"]
<1>4. /\ rec \in TaskRec /\ rec.status = "in_progress" /\ rec.by = store[t].by
      /\ rec.blocks = store[t].blocks /\ rec.inferred = store[t].inferred
  BY <1>3 DEF TaskRec
<1>5. store' = [store EXCEPT ![t] = rec] /\ job' = [job EXCEPT ![j] = [task |-> t, rec |-> rec]]
  BY <1>1
<1>6. j \in Jobs
  BY <1>2 DEF World
<1> HIDE DEF rec
<1>7. store' \in Board /\ \A u \in Tasks : store'[u] = IF u = t THEN rec ELSE store[u]
  BY <1>2, <1>4, <1>5 DEF Board
<1>8. Sound(rec, store)
  BY <1>3, <1>4 DEF Sound
<1>9. SoundBoard(store', store) /\ Known(store') = Known(store)
  <2>1. SoundBoard(store', store) /\ Known(store') = Known(store) \cup {t}
    BY <1>2, <1>3, <1>4, <1>7, <1>8, Written
  <2> QED
    BY <1>3, <2>1
<1>10. JobsInv(job', store) /\ \A k \in Jobs : job'[k] = IF k = j THEN [task |-> t, rec |-> rec] ELSE job[k]
  BY <1>2, <1>3, <1>4, <1>5, <1>6, <1>8, JobGiven
<1>11. SoundBoard(store', store') /\ JobsInv(job', store')
  BY <1>9, <1>10, SoundGrows
<1>12. FilesInv'
  BY <1>11 DEF FilesInv, LoopClaim, history
<1> QED
  BY <1>1, <1>3, <1>4, <1>6, <1>7, <1>9, <1>10, <1>12

\* A job writes its object, with another status.
LEMMA JobEffect ==
  ASSUME FilesInv, NEW j \in Jobs, JobWrite(j)
  PROVE  /\ FilesInv' /\ Known(store') = Known(store) /\ job[j] # None
         /\ job[j].task \in Known(store) /\ job[j].rec \in TaskRec
         /\ \E rec \in TaskRec :
              /\ rec.by = job[j].rec.by /\ rec.blocks = job[j].rec.blocks
              /\ rec.status \in After[job[j].rec.status]
              /\ \A u \in Tasks : store'[u] = IF u = job[j].task THEN rec ELSE store[u]
              /\ \A k \in Jobs : job'[k] = IF k = j THEN [task |-> job[j].task, rec |-> rec] ELSE job[k]
              /\ \A u \in Tasks : before'[u] = IF rec.status = "done" THEN before[u] \ {job[j].task}
                                               ELSE before[u]
<1> DEFINE t == job[j].task
<1>1. SoundBoard(store, store) /\ JobsInv(job, store) /\ store \in Board /\ job[j] # None
  BY DEF FilesInv, SoundBoard, JobWrite
<1>2. job[j] \in Upsert /\ job[j].rec \in TaskRec /\ Sound(job[j].rec, store) /\ t \in Known(store) /\ t \in Tasks
  BY <1>1 DEF JobsInv, Upsert
<1>3. PICK s \in After[job[j].rec.status] :
        /\ store' = [store EXCEPT ![t] = [job[j].rec EXCEPT !.status = s]]
        /\ job' = [job EXCEPT ![j] = [task |-> t, rec |-> [job[j].rec EXCEPT !.status = s]]]
        /\ before' = [u \in Tasks |-> IF s = "done" THEN before[u] \ {t} ELSE before[u]]
  BY DEF JobWrite
<1>4. s \in {"backlog", "ready", "in_progress", "done"}
  BY <1>2, <1>3 DEF After, TaskRec
<1> DEFINE rec == [job[j].rec EXCEPT !.status = s]
<1>5. /\ rec \in TaskRec /\ rec.status = s /\ rec.by = job[j].rec.by
      /\ rec.blocks = job[j].rec.blocks /\ rec.inferred = job[j].rec.inferred
  BY <1>2, <1>4 DEF TaskRec
<1>6. store' = [store EXCEPT ![t] = rec] /\ job' = [job EXCEPT ![j] = [task |-> t, rec |-> rec]]
  BY <1>3
<1> HIDE DEF rec
<1>7. store' \in Board /\ \A u \in Tasks : store'[u] = IF u = t THEN rec ELSE store[u]
  BY <1>1, <1>2, <1>5, <1>6 DEF Board
<1>8. Sound(rec, store)
  BY <1>2, <1>5 DEF Sound
<1>9. SoundBoard(store', store) /\ Known(store') = Known(store)
  <2> HIDE DEF t
  <2>1. SoundBoard(store', store) /\ Known(store') = Known(store) \cup {t}
    BY <1>1, <1>2, <1>5, <1>7, <1>8, Written
  <2> QED
    BY <1>2, <2>1
<1>10. JobsInv(job', store) /\ \A k \in Jobs : job'[k] = IF k = j THEN [task |-> t, rec |-> rec] ELSE job[k]
  BY <1>1, <1>2, <1>5, <1>6, <1>8, JobGiven
<1>11. SoundBoard(store', store') /\ JobsInv(job', store')
  BY <1>9, <1>10, SoundGrows
<1>12. before' \in [Tasks -> SUBSET Tasks]
       /\ \A u \in Tasks : before'[u] = IF rec.status = "done" THEN before[u] \ {t} ELSE before[u]
  BY <1>3, <1>5 DEF FilesInv
<1>13. FilesInv'
  BY <1>11, <1>12 DEF FilesInv, JobWrite
<1> HIDE DEF t
<1>14. rec.status \in After[job[j].rec.status]
  BY <1>3, <1>5
<1> QED
  BY <1>1, <1>2, <1>5, <1>7, <1>9, <1>10, <1>12, <1>13, <1>14 DEF t

\* A job is over.
LEMMA JobEndEffect ==
  ASSUME FilesInv, NEW j \in Jobs, JobEnd(j)
  PROVE  /\ FilesInv' /\ job[j] # None
         /\ \A k \in Jobs : job'[k] = IF k = j THEN None ELSE job[k]
<1>1. JobsInv(job, store) /\ job' = [job EXCEPT ![j] = None] /\ job[j] # None
  BY DEF FilesInv, JobEnd
<1>2. \A k \in Jobs : job'[k] = IF k = j THEN None ELSE job[k]
  BY <1>1 DEF JobsInv
<1>3. job' \in [Jobs -> Upsert \cup {None}]
  BY <1>1 DEF JobsInv
<1>4. JobsInv(job', store)
  BY <1>1, <1>2, <1>3 DEF JobsInv
<1>5. FilesInv'
  BY <1>4 DEF FilesInv, JobEnd, history
<1> QED
  BY <1>1, <1>2, <1>5

\* The loop keeps everything whole.
LEMMA LoopTypes ==
  ASSUME TypesInv, LoopStep
  PROVE  TypesInv'
<1> USE DEF TypesInv
<1>1. CASE LoopAnalyse
  <2>1. FilesInv' /\ ApiInv'
    BY <1>1, FilesKept, ApiKept DEF LoopAnalyse, FilesInv, history
  <2>2. store' = store /\ ThreadInv(loop, store)
    BY <1>1 DEF LoopAnalyse, LoopInv
  <2>3. CASE Gather(loop, loop', "tick")
    BY <2>1, <2>2, <2>3, GatherThread DEF LoopInv
  <2>4. CASE Apply(loop, loop')
    BY <2>1, <2>2, <2>4, ApplyEffect DEF LoopInv, Busy
  <2>5. CASE Mark(loop, loop')
    BY <2>1, <2>2, <2>5, MarkEffect DEF LoopInv, Busy
  <2>6. CASE Ask(loop, loop') \/ Applied(loop, loop')
    BY <2>1, <2>2, <2>6, QuietEffect DEF LoopInv, Busy
  <2>7. CASE Marked(loop, loop', "claim")
    <3>1. loop' = [Idle EXCEPT !.pc = "claim"]
      BY <2>7 DEF Marked
    <3>2. ThreadInv(loop', store) /\ loop'.pc = "claim" /\ loop'.writes = <<>>
      BY <3>1, IdleThread DEF Idle, PC, Busy
    <3> QED
      BY <2>1, <2>2, <3>2 DEF LoopInv
  <2> QED
    BY <1>1, <2>3, <2>4, <2>5, <2>6, <2>7 DEF LoopAnalyse, Analyse
<1>2. CASE LoopFlush
  <2>1. Flush(loop, loop') /\ ThreadInv(loop, store)
    BY <1>2 DEF LoopFlush, LoopInv
  <2>2. /\ SoundBoard(store', store') /\ Known(store) \subseteq Known(store')
        /\ ThreadInv(loop', store') /\ loop'.pc = loop.pc /\ loop.writes # <<>>
    BY <2>1, Flushed
  <2>3. FilesInv' /\ ApiInv'
    BY <1>2, <2>2, SoundGrows, ApiKept DEF FilesInv, LoopFlush, history
  <2> QED
    BY <2>2, <2>3 DEF LoopInv
<1>3. CASE LoopClaim
  <2>1. FilesInv' /\ ApiInv'
    BY <1>3, ClaimEffect, ApiKept DEF LoopClaim
  <2>2. loop' = [Idle EXCEPT !.pc = "tick"]
    BY <1>3 DEF LoopClaim
  <2>3. ThreadInv(loop', store') /\ loop'.pc = "tick" /\ loop'.writes = <<>>
    BY <2>2, IdleThread DEF Idle, PC, Busy
  <2> QED
    BY <2>1, <2>3 DEF LoopInv
<1>4. CASE LoopPass
  <2>1. FilesInv' /\ ApiInv'
    BY <1>4, FilesKept, ApiKept DEF LoopPass, FilesInv, history
  <2>2. loop' = [Idle EXCEPT !.pc = "tick"]
    BY <1>4 DEF LoopPass
  <2>3. ThreadInv(loop', store') /\ loop'.pc = "tick" /\ loop'.writes = <<>>
    BY <2>2, IdleThread DEF Idle, PC, Busy
  <2> QED
    BY <2>1, <2>3 DEF LoopInv
<1> QED
  BY <1>1, <1>2, <1>3, <1>4 DEF LoopStep

\* So do jobs.
LEMMA JobTypes ==
  ASSUME TypesInv, NEW j \in Jobs, JobWrite(j) \/ JobEnd(j)
  PROVE  TypesInv'
<1>1. CASE JobWrite(j)
  <2>1. FilesInv' /\ Known(store) \subseteq Known(store') /\ loop' = loop /\ api' = api
    BY <1>1, JobEffect DEF TypesInv, JobWrite
  <2> QED
    BY <2>1, LoopKept, ApiKept DEF TypesInv
<1>2. CASE JobEnd(j)
  <2>1. FilesInv' /\ store' = store /\ loop' = loop /\ api' = api
    BY <1>2, JobEndEffect DEF TypesInv, JobEnd
  <2> QED
    BY <2>1, LoopKept, ApiKept DEF TypesInv
<1> QED
  BY <1>1, <1>2

\* A request that has only upserts left to make.
LEMMA WritesLeft ==
  ASSUME NEW writes \in Seq(Upsert), \A i \in DOMAIN writes : Sound(writes[i].rec, store'),
         api' = [Idle EXCEPT !.pc = "write", !.writes = writes]
  PROVE  ApiInv' /\ api'.pc = "write" /\ api'.writes = writes
<1>1. ThreadInv(api', store')
  BY WritingThread DEF PC, Busy
<1>2. api'.pc = "write" /\ api'.writes = writes
  BY DEF Idle
<1> QED
  BY <1>1, <1>2 DEF ApiInv, Holding

\* The same with one upsert.
LEMMA WriteLeft ==
  ASSUME NEW t \in Tasks, NEW rec \in TaskRec, Sound(rec, store'),
         api' = [Idle EXCEPT !.pc = "write", !.writes = Write(t, rec)]
  PROVE  ApiInv' /\ api'.pc = "write" /\ api'.writes = Write(t, rec)
<1> DEFINE writes == Write(t, rec)
<1>1. writes \in Seq(Upsert) /\ DOMAIN writes = {1} /\ writes[1] = [task |-> t, rec |-> rec]
  BY WriteOne
<1> HIDE DEF writes
<1>2. \A i \in DOMAIN writes : Sound(writes[i].rec, store')
  BY <1>1
<1>3. api' = [Idle EXCEPT !.pc = "write", !.writes = writes]
  BY DEF writes
<1> QED
  BY <1>1, <1>2, <1>3, WritesLeft DEF writes

\* A task that is there, with other blockers, other blocked tasks or another status.
LEMMA Changed ==
  ASSUME NEW t \in Known(store), FilesInv
  PROVE  /\ t \in Tasks /\ store[t] \in TaskRec /\ Sound(store[t], store)
         /\ \A by \in SUBSET Tasks :
              LET rec == [store[t] EXCEPT !.by = by] IN
              /\ rec \in TaskRec /\ Sound(rec, store) /\ rec.by = by
              /\ rec.blocks = store[t].blocks /\ rec.status = store[t].status
         /\ \A blocks \in SUBSET Tasks :
              LET rec == [store[t] EXCEPT !.blocks = blocks] IN
              /\ rec \in TaskRec /\ Sound(rec, store) /\ rec.blocks = blocks
              /\ rec.by = store[t].by /\ rec.status = store[t].status
         /\ LET rec == [store[t] EXCEPT !.status = "ready"] IN
            /\ rec \in TaskRec /\ Sound(rec, store) /\ rec.status = "ready"
            /\ rec.by = store[t].by /\ rec.blocks = store[t].blocks
<1>1. t \in Tasks /\ store[t] \in TaskRec /\ Sound(store[t], store)
  BY KnownIsTask DEF FilesInv, SoundBoard
<1>2. ASSUME NEW by \in SUBSET Tasks, NEW rec, rec = [store[t] EXCEPT !.by = by]
      PROVE  /\ rec \in TaskRec /\ Sound(rec, store) /\ rec.by = by
             /\ rec.blocks = store[t].blocks /\ rec.status = store[t].status
  BY <1>1, <1>2 DEF TaskRec, Sound
<1>3. ASSUME NEW blocks \in SUBSET Tasks, NEW rec, rec = [store[t] EXCEPT !.blocks = blocks]
      PROVE  /\ rec \in TaskRec /\ Sound(rec, store) /\ rec.blocks = blocks
             /\ rec.by = store[t].by /\ rec.status = store[t].status
  BY <1>1, <1>3 DEF TaskRec, Sound
<1>4. ASSUME NEW rec, rec = [store[t] EXCEPT !.status = "ready"]
      PROVE  /\ rec \in TaskRec /\ Sound(rec, store) /\ rec.status = "ready"
             /\ rec.by = store[t].by /\ rec.blocks = store[t].blocks
  BY <1>1, <1>4 DEF TaskRec, Sound
<1> QED
  BY <1>1, <1>2, <1>3, <1>4

\* Requests that edit: each reads tasks that are there.
LEMMA QueueTypes ==
  ASSUME FilesInv, NEW t \in Tasks, Queue(t)
  PROVE  /\ ApiInv' /\ t \in Known(store) /\ Blockers(t) = {}
         /\ \/ "requeue" \in world.ops
            \/ /\ "queue" \in world.ops \/ "reopen" \in world.ops
               /\ ~Live(t)
         /\ \E rec \in TaskRec :
              /\ api'.pc = "write" /\ api'.writes = Write(t, rec)
              /\ rec.status = "ready" /\ rec.by = store[t].by /\ rec.blocks = store[t].blocks
<1>1. t \in Known(store) /\ store' = store /\ Blockers(t) = {}
      /\ \/ "requeue" \in world.ops
         \/ /\ "queue" \in world.ops \/ "reopen" \in world.ops
            /\ ~Live(t)
  BY DEF Queue, Known
<1> DEFINE rec == [store[t] EXCEPT !.status = "ready"]
<1>2. api' = [Idle EXCEPT !.pc = "write", !.writes = Write(t, rec)]
  BY DEF Queue
<1>3. /\ rec \in TaskRec /\ Sound(rec, store) /\ rec.status = "ready"
      /\ rec.by = store[t].by /\ rec.blocks = store[t].blocks
  BY <1>1, Changed
<1> HIDE DEF rec
<1> QED
  BY <1>1, <1>2, <1>3, WriteLeft

\* POST /run writes the task as ready.
LEMMA RunTypes ==
  ASSUME FilesInv, NEW t \in Tasks, Run(t)
  PROVE  /\ ApiInv' /\ t \in Known(store) /\ api'.pc = "run" /\ api'.task = t
         /\ api'.snap \in TaskRec /\ api'.snap.status = "ready" /\ api'.snap.by = store[t].by
         /\ api'.snap.blocks = store[t].blocks
         /\ api'.writes = Write(t, api'.snap)
<1>1. t \in Known(store) /\ store' = store
  BY DEF Run, Has, Known
<1> DEFINE rec == [store[t] EXCEPT !.status = "ready"]
           writes == Write(t, rec)
<1>2. /\ rec \in TaskRec /\ Sound(rec, store) /\ rec.status = "ready"
      /\ rec.by = store[t].by /\ rec.blocks = store[t].blocks
  BY <1>1, Changed
<1>3. writes \in Seq(Upsert) /\ DOMAIN writes = {1} /\ writes[1] = [task |-> t, rec |-> rec]
  BY <1>2, WriteOne
<1>4. api' = [Idle EXCEPT !.pc = "run", !.task = t, !.snap = rec, !.writes = writes]
  BY DEF Run
<1> HIDE DEF rec, writes
<1>5. Idle \in Thread
  BY EmptySeqs DEF Idle, Thread, PC
<1>6. /\ api' \in Thread /\ api'.pc = "run" /\ api'.task = t /\ api'.snap = rec
      /\ api'.writes = writes
  BY <1>2, <1>3, <1>4, <1>5 DEF Thread, PC, Holding
<1>7. ThreadInv(api', store')
  BY <1>1, <1>2, <1>3, <1>6 DEF ThreadInv, Busy
<1>8. ApiInv'
  BY <1>1, <1>2, <1>6, <1>7 DEF ApiInv
<1> QED
  BY <1>1, <1>2, <1>6, <1>8 DEF writes

\* The object that was written goes to a job.
LEMMA RunSubmitTypes ==
  ASSUME TypesInv, RunSubmit
  PROVE  /\ TypesInv' /\ api'.pc = "await" /\ api'.writes = <<>>
         /\ api.task \in Known(store) /\ api.snap \in TaskRec
         /\ \E j \in Jobs :
              /\ job[j] = None
              /\ \A k \in Jobs : job'[k] = IF k = j THEN [task |-> api.task, rec |-> api.snap]
                                           ELSE job[k]
<1>1. /\ FilesInv /\ LoopInv /\ api.task \in Known(store) /\ api.task \in Tasks
      /\ api.snap \in TaskRec /\ Sound(api.snap, store) /\ world \in World
      /\ JobsInv(job, store)
  BY DEF TypesInv, ApiInv, RunSubmit, Holding, FilesInv
<1>2. PICK j \in world.jobs :
        /\ job[j] = None
        /\ job' = [job EXCEPT ![j] = [task |-> api.task, rec |-> api.snap]]
        /\ api' = [Idle EXCEPT !.pc = "await", !.job = j]
  BY DEF RunSubmit
<1>3. j \in Jobs /\ UNCHANGED <<world, store, loop, before, raced>>
  BY <1>1 DEF World, RunSubmit, history
<1>4. /\ JobsInv(job', store)
      /\ \A k \in Jobs : job'[k] = IF k = j THEN [task |-> api.task, rec |-> api.snap] ELSE job[k]
  BY <1>1, <1>2, <1>3, JobGiven
<1>5. FilesInv' /\ LoopInv'
  BY <1>1, <1>3, <1>4, LoopKept DEF FilesInv
<1>6. Idle \in Thread /\ Idle.writes = <<>>
  BY EmptySeqs DEF Idle, Thread, PC
<1>7. api' \in Thread /\ api'.pc = "await" /\ api'.writes = <<>>
  BY <1>2, <1>3, <1>6 DEF Thread, PC
<1>8. ThreadInv(api', store')
  BY <1>7 DEF ThreadInv, Busy
<1>9. ApiInv'
  BY <1>7, <1>8 DEF ApiInv, Holding
<1> QED
  BY <1>1, <1>2, <1>3, <1>4, <1>5, <1>7, <1>9 DEF TypesInv

\* PATCH /tasks/{id}.
LEMMA PatchTypes ==
  ASSUME FilesInv, NEW t \in Tasks, Patch(t)
  PROVE  ApiInv'
<1>1. t \in Known(store) /\ store' = store
  BY DEF Patch, Known
<1>2. PICK by \in SUBSET Known(store) :
        api' = [Idle EXCEPT !.pc = "write", !.writes = Write(t, [store[t] EXCEPT !.by = by])]
  BY DEF Patch
<1>3. by \in SUBSET Tasks
  BY DEF Known
<1> DEFINE rec == [store[t] EXCEPT !.by = by]
<1>4. rec \in TaskRec /\ Sound(rec, store)
  BY <1>1, <1>3, Changed
<1>5. api' = [Idle EXCEPT !.pc = "write", !.writes = Write(t, rec)]
  BY <1>2
<1> HIDE DEF rec
<1> QED
  BY <1>1, <1>4, <1>5, WriteLeft

\* The two upserts of POST dependencies.
LEMMA AddTypes ==
  ASSUME FilesInv, NEW t \in Tasks, NEW d \in Tasks, AddDependency(t, d)
  PROVE  /\ ApiInv' /\ t \in Known(store) /\ d \in Known(store)
         /\ api'.pc = "write" /\ DOMAIN api'.writes = {1, 2} /\ Len(api'.writes) = 2
         /\ \E rec, other \in TaskRec :
              /\ api'.writes[1] = [task |-> t, rec |-> rec]
              /\ api'.writes[2] = [task |-> d, rec |-> other]
              /\ rec.by = store[t].by \cup {d} /\ rec.blocks = store[t].blocks
              /\ other.by = store[d].by /\ other.blocks = store[d].blocks \cup {t}
              /\ rec.status = store[t].status /\ other.status = store[d].status
<1>1. t \in Known(store) /\ d \in Known(store) /\ store' = store
  BY DEF AddDependency
<1> DEFINE rec == [store[t] EXCEPT !.by = store[t].by \cup {d}]
           other == [store[d] EXCEPT !.blocks = store[d].blocks \cup {t}]
<1>2. api' = [Idle EXCEPT !.pc = "write", !.writes = Write(t, rec) \o Write(d, other)]
  BY DEF AddDependency
<1>3. store[t] \in TaskRec /\ store[d] \in TaskRec
  BY <1>1, Changed
<1>4. store[t].by \cup {d} \in SUBSET Tasks /\ store[d].blocks \cup {t} \in SUBSET Tasks
  BY <1>3 DEF TaskRec
<1>5. /\ rec \in TaskRec /\ Sound(rec, store) /\ rec.by = store[t].by \cup {d}
      /\ rec.blocks = store[t].blocks /\ rec.status = store[t].status
  BY <1>1, <1>4, Changed
<1>6. /\ other \in TaskRec /\ Sound(other, store) /\ other.by = store[d].by
      /\ other.blocks = store[d].blocks \cup {t} /\ other.status = store[d].status
  BY <1>1, <1>4, Changed
<1> HIDE DEF rec, other
<1> DEFINE writes == Write(t, rec) \o Write(d, other)
<1>7. /\ writes \in Seq(Upsert) /\ DOMAIN writes = {1, 2} /\ Len(writes) = 2
      /\ writes[1] = [task |-> t, rec |-> rec] /\ writes[2] = [task |-> d, rec |-> other]
  BY <1>5, <1>6, WriteTwo
<1>8. api' = [Idle EXCEPT !.pc = "write", !.writes = writes]
  BY <1>2
<1> HIDE DEF writes
<1>9. \A i \in DOMAIN writes : Sound(writes[i].rec, store')
  BY <1>1, <1>5, <1>6, <1>7
<1>10. ApiInv' /\ api'.pc = "write" /\ api'.writes = writes
  BY <1>7, <1>8, <1>9, WritesLeft
<1> QED
  BY <1>1, <1>5, <1>6, <1>7, <1>10

\* The first upsert of DELETE dependencies.
LEMMA RemoveTypes ==
  ASSUME FilesInv, NEW t \in Tasks, NEW d \in Tasks, RemoveDependency(t, d)
  PROVE  /\ ApiInv' /\ t \in Known(store) /\ d \in Known(store)
         /\ api'.pc = "unblock" /\ api'.task = t /\ api'.dep = d
         /\ \E rec \in TaskRec :
              /\ api'.writes = Write(t, rec) /\ rec.status = store[t].status
              /\ rec.by = store[t].by \ {d} /\ rec.blocks = store[t].blocks
<1>1. t \in Known(store) /\ d \in Known(store) /\ store' = store
  BY DEF RemoveDependency
<1> DEFINE rec == [store[t] EXCEPT !.by = store[t].by \ {d}]
<1>2. api' = [Idle EXCEPT !.pc = "unblock", !.task = t, !.dep = d, !.writes = Write(t, rec)]
  BY DEF RemoveDependency
<1>3. store[t].by \ {d} \in SUBSET Tasks
  BY <1>1, Changed DEF TaskRec
<1>4. /\ rec \in TaskRec /\ Sound(rec, store) /\ rec.by = store[t].by \ {d}
      /\ rec.blocks = store[t].blocks /\ rec.status = store[t].status
  BY <1>1, <1>3, Changed
<1> HIDE DEF rec
<1> DEFINE writes == Write(t, rec)
<1>5. writes \in Seq(Upsert) /\ DOMAIN writes = {1} /\ writes[1] = [task |-> t, rec |-> rec]
  BY <1>4, WriteOne
<1>6. api' = [Idle EXCEPT !.pc = "unblock", !.task = t, !.dep = d, !.writes = writes]
  BY <1>2
<1> HIDE DEF writes
<1>7. Idle \in Thread
  BY EmptySeqs DEF Idle, Thread, PC
<1>8. /\ api' \in Thread /\ api'.pc = "unblock" /\ api'.task = t /\ api'.dep = d
      /\ api'.writes = writes
  BY <1>5, <1>6, <1>7 DEF Thread, PC
<1>9. ThreadInv(api', store)
  BY <1>4, <1>5, <1>8 DEF ThreadInv, Busy
<1>10. ApiInv'
  BY <1>1, <1>8, <1>9 DEF ApiInv, Holding
<1> QED
  BY <1>1, <1>4, <1>8, <1>10 DEF writes

\* reset-dep-analysis begins.
LEMMA ResetTypes ==
  ASSUME FilesInv, NEW t \in Tasks, Reset(t)
  PROVE  /\ ApiInv' /\ t \in Known(store) /\ api'.pc = "reset" /\ api'.task = t
         /\ api'.writes = <<>> /\ api'.todo = store[t].inferred
         /\ api'.snap.status = store[t].status /\ api'.snap.blocks = store[t].blocks
         /\ api'.snap.by = store[t].by \ store[t].inferred
<1> DEFINE rec == [store[t] EXCEPT !.by = @ \ store[t].inferred, !.inferred = {}, !.analyzed = FALSE]
<1>1. t \in Known(store) /\ store' = store
  BY DEF Reset, Known
<1>2. api' = [Idle EXCEPT !.pc = "reset", !.task = t, !.todo = store[t].inferred, !.snap = rec]
  BY DEF Reset
<1>3. store[t] \in TaskRec /\ store[t].inferred \subseteq Known(store)
  BY <1>1, Changed DEF Sound
<1>4. /\ rec \in TaskRec /\ rec.inferred = {} /\ rec.by = store[t].by \ store[t].inferred
      /\ rec.status = store[t].status /\ rec.blocks = store[t].blocks
  BY <1>3 DEF TaskRec
<1> HIDE DEF rec
<1>5. Idle \in Thread /\ Idle.writes = <<>>
  BY EmptySeqs DEF Idle, Thread, PC
<1>6. store[t].inferred \subseteq Tasks
  BY <1>3 DEF TaskRec
<1>7. /\ api' \in Thread /\ api'.pc = "reset" /\ api'.task = t /\ api'.writes = <<>>
      /\ api'.todo = store[t].inferred /\ api'.snap = rec
  BY <1>2, <1>4, <1>5, <1>6 DEF Thread, PC, Holding
<1>8. ThreadInv(api', store')
  BY <1>7 DEF ThreadInv, Busy
<1>9. Sound(rec, store')
  BY <1>4 DEF Sound
<1>10. ApiInv'
  BY <1>1, <1>3, <1>4, <1>7, <1>8, <1>9 DEF ApiInv
<1> QED
  BY <1>1, <1>4, <1>7, <1>10

\* A request that writes one task next, and otherwise stays as it was.
LEMMA OneWriteNext ==
  ASSUME ApiInv, NEW t \in Tasks, NEW rec \in TaskRec, Sound(rec, store), NEW th \in Thread,
         th.pc \notin Busy, th.writes = Write(t, rec)
  PROVE  ThreadInv(th, store)
<1>1. DOMAIN Write(t, rec) = {1} /\ Write(t, rec)[1] = [task |-> t, rec |-> rec]
  BY WriteOne
<1> QED
  BY <1>1 DEF ThreadInv

\* A blocker is rewritten without the task.
LEMMA ResetBlockerTypes ==
  ASSUME FilesInv, ApiInv, ResetBlocker
  PROVE  /\ ApiInv' /\ api'.pc = "reset" /\ api'.task = api.task /\ api'.snap = api.snap
         /\ \E b \in Known(store) : \E rec \in TaskRec :
              /\ b \in api.todo /\ api'.todo = api.todo \ {b}
              /\ api'.writes = Write(b, rec) /\ rec.status = store[b].status
              /\ rec.by = store[b].by /\ rec.blocks = store[b].blocks \ {api.task}
<1>1. PICK b \in api.todo :
        api' = [api EXCEPT !.todo = @ \ {b},
                           !.writes = Write(b, [store[b] EXCEPT !.blocks = @ \ {api.task}])]
  BY DEF ResetBlocker
<1>2. /\ api.pc = "reset" /\ store' = store /\ api \in Thread /\ api.todo \subseteq Known(store)
      /\ api.task \in Tasks /\ api.snap \in TaskRec /\ Sound(api.snap, store)
  BY DEF ResetBlocker, ApiInv, ThreadInv, Holding
<1>3. b \in Known(store) /\ b \in Tasks /\ store[b] \in TaskRec
  BY <1>2, Changed
<1>4. store[b].blocks \ {api.task} \in SUBSET Tasks
  BY <1>3 DEF TaskRec
<1> DEFINE rec == [store[b] EXCEPT !.blocks = store[b].blocks \ {api.task}]
           writes == Write(b, rec)
<1>5. /\ rec \in TaskRec /\ Sound(rec, store) /\ rec.status = store[b].status
      /\ rec.by = store[b].by /\ rec.blocks = store[b].blocks \ {api.task}
  BY <1>3, <1>4, Changed
<1>6. api' = [api EXCEPT !.todo = api.todo \ {b}, !.writes = writes]
  BY <1>1
<1> HIDE DEF rec
<1>7. writes \in Seq(Upsert)
  BY <1>3, <1>5, WriteOne
<1> HIDE DEF writes
<1>8. /\ api' \in Thread /\ api'.pc = "reset" /\ api'.task = api.task /\ api'.snap = api.snap
      /\ api'.todo = api.todo \ {b} /\ api'.writes = writes
  BY <1>2, <1>6, <1>7 DEF Thread
<1>9. ThreadInv(api', store)
  BY <1>3, <1>5, <1>8, OneWriteNext DEF Busy, writes
<1>10. ApiInv'
  BY <1>2, <1>8, <1>9 DEF ApiInv
<1> QED
  BY <1>2, <1>3, <1>5, <1>8, <1>10 DEF writes

\* The task is written as it was read, but for the inferred blockers.
LEMMA ResetTaskTypes ==
  ASSUME ApiInv, ResetTask
  PROVE  ApiInv' /\ api'.pc = "write" /\ api'.writes = Write(api.task, api.snap)
<1>1. api.task \in Tasks /\ api.snap \in TaskRec /\ Sound(api.snap, store')
  BY DEF ResetTask, ApiInv, Holding
<1>2. api' = [Idle EXCEPT !.pc = "write", !.writes = Write(api.task, api.snap)]
  BY DEF ResetTask
<1> QED
  BY <1>1, <1>2, WriteLeft

\* The blocker is read again.
LEMMA UnblockTypes ==
  ASSUME FilesInv, ApiInv, RemoveFromBlocker
  PROVE  /\ ApiInv' /\ api'.pc = "write" /\ api.dep \in Known(store)
         /\ \E rec \in TaskRec :
              /\ api'.writes = Write(api.dep, rec) /\ rec.status = store[api.dep].status
              /\ rec.by = store[api.dep].by /\ rec.blocks = store[api.dep].blocks \ {api.task}
<1> DEFINE d == api.dep
           rec == [store[d] EXCEPT !.blocks = store[d].blocks \ {api.task}]
<1>1. d \in Known(store) /\ store' = store
  BY DEF RemoveFromBlocker, ApiInv
<1> HIDE DEF d
<1>2. d \in Tasks /\ store[d].blocks \ {api.task} \in SUBSET Tasks
  BY <1>1, Changed DEF TaskRec
<1>3. /\ rec \in TaskRec /\ Sound(rec, store) /\ rec.status = store[d].status
      /\ rec.by = store[d].by /\ rec.blocks = store[d].blocks \ {api.task}
  BY <1>1, <1>2, Changed
<1>4. api' = [Idle EXCEPT !.pc = "write", !.writes = Write(d, rec)]
  BY DEF RemoveFromBlocker, d
<1> HIDE DEF rec
<1>5. ApiInv' /\ api'.pc = "write" /\ api'.writes = Write(d, rec)
  BY <1>1, <1>2, <1>3, <1>4, WriteLeft
<1> QED
  BY <1>1, <1>3, <1>5 DEF d

\* An analysis on the event loop.
LEMMA ApiAnalyseTypes ==
  ASSUME FilesInv, ApiInv, ApiAnalyse
  PROVE  ApiInv' /\ api.pc \in Busy \cup {"idle"} /\ api'.pc \in Busy \cup {"idle"}
<1>1. store' = store /\ ThreadInv(api, store)
  BY DEF ApiAnalyse, ApiInv
<1>2. CASE Gather(api, api', "idle")
  BY <1>1, <1>2, GatherThread DEF ApiInv, Busy, Holding, Gather
<1>3. CASE Apply(api, api')
  BY <1>1, <1>3, ApplyEffect DEF ApiInv, Busy, Holding
<1>4. CASE Mark(api, api')
  BY <1>1, <1>4, MarkEffect DEF ApiInv, Busy, Holding
<1>5. CASE Ask(api, api') \/ Applied(api, api')
  BY <1>1, <1>5, QuietEffect DEF ApiInv, Busy, Holding
<1>6. CASE Marked(api, api', "idle")
  <2>1. api' = [Idle EXCEPT !.pc = "idle"] /\ api.pc = "mark"
    BY <1>6 DEF Marked
  <2>2. ThreadInv(api', store) /\ api'.pc = "idle" /\ api'.writes = <<>>
    BY <2>1, IdleThread DEF Idle, PC, Busy
  <2> QED
    BY <1>1, <2>1, <2>2 DEF ApiInv, Busy, Holding
<1> QED
  BY <1>2, <1>3, <1>4, <1>5, <1>6 DEF ApiAnalyse, Analyse

\* POST /tasks.
LEMMA CreateTypes ==
  ASSUME Create
  PROVE  /\ ApiInv' /\ api'.pc = "write"
         /\ \E t \in Tasks \ Known(store) : \E rec \in TaskRec :
              /\ api'.writes = Write(t, rec) /\ rec.status = "backlog"
              /\ rec.by \subseteq Known(store)
<1>1. PICK s \in News(1), by \in SUBSET Known(store) :
        api' = [Idle EXCEPT !.pc = "write", !.writes = Write(s[1], [NewTask EXCEPT !.by = by])]
  BY DEF Create
<1> DEFINE t == s[1]
           rec == [NewTask EXCEPT !.by = by]
<1>2. t \in Tasks \ Known(store)
  BY <1>1, NewsOf
<1>3. by \in SUBSET Tasks
  BY <1>1 DEF Known
<1>4. rec \in TaskRec /\ rec.inferred = {} /\ rec.by = by /\ rec.status = "backlog"
  BY <1>3 DEF NewTask, TaskRec
<1>5. api' = [Idle EXCEPT !.pc = "write", !.writes = Write(t, rec)]
  BY <1>1
<1> HIDE DEF t, rec
<1>6. Sound(rec, store')
  BY <1>4 DEF Sound
<1>7. ApiInv' /\ api'.pc = "write" /\ api'.writes = Write(t, rec)
  BY <1>2, <1>4, <1>5, <1>6, WriteLeft
<1> QED
  BY <1>1, <1>2, <1>4, <1>7

\* POST /import/prd/commit.
LEMMA ImportTypes ==
  ASSUME FilesInv, Import
  PROVE  /\ ApiInv' /\ before' \in [Tasks -> SUBSET Tasks]
         /\ api.pc = "idle" /\ api'.pc = "write"
         /\ \E n \in Nat \ {0} : \E s \in News(n) :
              /\ api'.writes = ImportWrites(s)
              /\ before' = Listed(s, n, before)
<1>0. PICK n \in 1..Cardinality(Tasks) : \E s \in News(n) :
        /\ api' = [Idle EXCEPT !.pc = "write", !.writes = ImportWrites(s)]
        /\ before' = Listed(s, n, before)
  BY DEF Import
<1>1. PICK s \in News(n) :
        /\ api' = [Idle EXCEPT !.pc = "write", !.writes = ImportWrites(s)]
        /\ before' = Listed(s, n, before)
  BY <1>0
<1>2. n \in Nat \ {0}
  OBVIOUS
<1> DEFINE writes == ImportWrites(s)
<1>3. /\ writes \in Seq(Upsert) /\ DOMAIN writes = 1..(2 * n - 1)
      /\ \A i \in 1..(2 * n - 1) : writes[i].rec.inferred = {}
  BY <1>1, <1>2, ImportWritesOf
<1>4. api' = [Idle EXCEPT !.pc = "write", !.writes = writes]
  BY <1>1
<1> HIDE DEF writes
<1>5. \A i \in DOMAIN writes : Sound(writes[i].rec, store')
  BY <1>3 DEF Sound
<1>6. ApiInv' /\ api'.pc = "write" /\ api'.writes = writes
  BY <1>3, <1>4, <1>5, WritesLeft
<1>7. before' \in [Tasks -> SUBSET Tasks]
  <2>1. \A i \in 1..n : s[i] \in Tasks
    BY <1>2, NewsOf
  <2>2. ASSUME NEW t \in Tasks
        PROVE  {s[i] : i \in {i \in 1..n : \E k \in (i+1)..n : s[k] = t}} \in SUBSET Tasks
    BY <2>1
  <2>3. before \in [Tasks -> SUBSET Tasks]
    BY DEF FilesInv
  <2> QED
    BY <1>1, <2>2, <2>3 DEF Listed
<1>8. \E m \in Nat \ {0} : \E r \in News(m) :
        /\ api'.writes = ImportWrites(r)
        /\ before' = Listed(r, m, before)
  <2>1. WITNESS n \in Nat \ {0}
  <2>2. WITNESS s \in News(n)
  <2> QED
    BY <1>1, <1>6 DEF writes
<1>9. api.pc = "idle"
  BY DEF Import
<1> QED
  BY <1>6, <1>7, <1>8, <1>9

\* generate-tasks begins: the parent is written as it was read.
LEMMA GenerateTypes ==
  ASSUME FilesInv, NEW t \in Tasks, Generate(t)
  PROVE  /\ ApiInv' /\ t \in Known(store) /\ api'.pc = "plan" /\ api'.task = t
         /\ api'.snap = store[t] /\ api'.writes = Write(t, store[t])
<1>1. t \in Known(store) /\ store' = store
  BY DEF Generate, Known
<1> DEFINE rec == store[t]
           writes == Write(t, rec)
<1>2. rec \in TaskRec /\ Sound(rec, store)
  BY <1>1, Changed
<1>3. writes \in Seq(Upsert) /\ DOMAIN writes = {1} /\ writes[1] = [task |-> t, rec |-> rec]
  BY <1>2, WriteOne
<1>4. api' = [Idle EXCEPT !.pc = "plan", !.task = t, !.snap = rec, !.writes = writes]
  BY DEF Generate
<1> HIDE DEF rec, writes
<1>5. Idle \in Thread
  BY EmptySeqs DEF Idle, Thread, PC
<1>6. /\ api' \in Thread /\ api'.pc = "plan" /\ api'.task = t /\ api'.snap = rec
      /\ api'.writes = writes
  BY <1>2, <1>3, <1>4, <1>5 DEF Thread, PC, Holding
<1>7. ThreadInv(api', store')
  BY <1>1, <1>2, <1>3, <1>6 DEF ThreadInv, Busy
<1>8. ApiInv'
  BY <1>1, <1>2, <1>6, <1>7 DEF ApiInv
<1> QED
  BY <1>1, <1>6, <1>8 DEF rec, writes

\* The worker fails: the parent is written once more as it was read.
LEMMA PlanFailsTypes ==
  ASSUME ApiInv, PlanFails
  PROVE  ApiInv' /\ api'.pc = "write" /\ api'.writes = Write(api.task, api.snap)
<1>1. api.task \in Tasks /\ api.snap \in TaskRec /\ Sound(api.snap, store')
  BY DEF PlanFails, ApiInv, Holding
<1>2. api' = [Idle EXCEPT !.pc = "write", !.writes = Write(api.task, api.snap)]
  BY DEF PlanFails
<1> QED
  BY <1>1, <1>2, WriteLeft

\* The parent is written twice.
LEMMA CloseParentTypes ==
  ASSUME ApiInv, CloseParent
  PROVE  /\ ApiInv' /\ api'.pc = "write"
         /\ api'.writes = Write(api.task, api.snap) \o Write(api.task, api.snap)
<1>1. api.task \in Tasks /\ api.snap \in TaskRec /\ Sound(api.snap, store')
  BY DEF CloseParent, ApiInv, Holding
<1> DEFINE t == api.task
           rec == api.snap
           writes == Write(t, rec) \o Write(t, rec)
<1>2. /\ writes \in Seq(Upsert) /\ DOMAIN writes = {1, 2}
      /\ writes[1] = [task |-> t, rec |-> rec] /\ writes[2] = [task |-> t, rec |-> rec]
  BY <1>1, WriteTwo
<1>3. api' = [Idle EXCEPT !.pc = "write", !.writes = writes]
  BY DEF CloseParent
<1> HIDE DEF writes
<1>4. \A i \in DOMAIN writes : Sound(writes[i].rec, store')
  BY <1>1, <1>2
<1>5. ApiInv' /\ api'.pc = "write" /\ api'.writes = writes
  BY <1>2, <1>3, <1>4, WritesLeft
<1> QED
  BY <1>5 DEF writes

\* The tasks of a plan are made.
LEMMA MakeTasksTypes ==
  ASSUME ApiInv, MakeTasks
  PROVE  /\ ApiInv' /\ api'.pc = "wire" /\ api'.task = api.task /\ api'.snap = api.snap
         /\ \E n \in Nat \ {0} : \E s \in News(n) :
              /\ api'.wire = s /\ api'.made = {s[k] : k \in 1..n}
              /\ api'.writes = [k \in 1..n |-> [task |-> s[k], rec |-> NewTask]]
<1>1. PICK n \in 1..Cardinality(Tasks) : \E s \in News(n) :
        api' = [api EXCEPT !.pc = "wire", !.made = {s[k] : k \in 1..n}, !.wire = s,
                           !.writes = [k \in 1..n |-> [task |-> s[k], rec |-> NewTask]]]
  BY DEF MakeTasks
<1>2. PICK s \in News(n) :
        api' = [api EXCEPT !.pc = "wire", !.made = {s[k] : k \in 1..n}, !.wire = s,
                           !.writes = [k \in 1..n |-> [task |-> s[k], rec |-> NewTask]]]
  BY <1>1
<1>3. n \in Nat \ {0}
  OBVIOUS
<1>4. s \in Seq(Tasks) /\ DOMAIN s = 1..n /\ \A k \in 1..n : s[k] \in Tasks
  BY <1>3, NewsOf
<1> DEFINE made == {s[k] : k \in 1..n}
           writes == [k \in 1..n |-> [task |-> s[k], rec |-> NewTask]]
<1>5. made \in SUBSET Tasks /\ \A k \in DOMAIN s : s[k] \in made
  BY <1>4
<1>6. \A m \in made : \E k \in 1..n : s[k] = m
  OBVIOUS
<1>7. /\ DOMAIN writes = 1..n
      /\ \A k \in 1..n : writes[k].task = s[k] /\ writes[k].rec = NewTask
      /\ writes \in Seq(Upsert)
  <2>1. \A k \in 1..n : [task |-> s[k], rec |-> NewTask] \in Upsert
    BY <1>4, NewTaskTyped DEF Upsert
  <2>2. writes \in [1..n -> Upsert]
    BY <2>1
  <2>3. writes \in Seq(Upsert)
    BY <1>3, <2>2
  <2> QED
    BY <2>3
<1>8. api' = [api EXCEPT !.pc = "wire", !.made = made, !.wire = s, !.writes = writes]
  BY <1>2
<1> HIDE DEF made, writes
<1>9. /\ api.pc = "plan" /\ store' = store /\ api \in Thread
      /\ api.task \in Tasks /\ api.snap \in TaskRec /\ Sound(api.snap, store)
  BY DEF MakeTasks, ApiInv, ThreadInv, Holding
<1>10. /\ api' \in Thread /\ api'.pc = "wire" /\ api'.task = api.task /\ api'.snap = api.snap
       /\ api'.made = made /\ api'.wire = s /\ api'.writes = writes
  BY <1>4, <1>5, <1>7, <1>8, <1>9 DEF Thread, PC, Holding
<1>11. \A i \in DOMAIN writes : Sound(writes[i].rec, store)
  BY <1>7, NewTaskTyped DEF Sound
<1>12. ThreadInv(api', store)
  BY <1>10, <1>11 DEF ThreadInv, Busy
<1>13. \A m \in made : \E i \in DOMAIN writes : writes[i].task = m
  BY <1>6, <1>7
<1>14. MadeInv'
  BY <1>5, <1>10, <1>13 DEF MadeInv
<1>15. ApiInv'
  BY <1>9, <1>10, <1>12, <1>14 DEF ApiInv
<1>16. \E m \in Nat \ {0} : \E r \in News(m) :
         /\ api'.wire = r /\ api'.made = {r[k] : k \in 1..m}
         /\ api'.writes = [k \in 1..m |-> [task |-> r[k], rec |-> NewTask]]
  <2>1. WITNESS n \in Nat \ {0}
  <2>2. WITNESS s \in News(n)
  <2> QED
    BY <1>10 DEF made, writes
<1> QED
  BY <1>10, <1>15, <1>16

\* What a request has when its plan's tasks are all there.
LEMMA WiringHas ==
  ASSUME ApiInv, api.pc \in {"wire", "depends"}, api.writes = <<>>
  PROVE  /\ api \in Thread /\ api.made \subseteq Known(store)
         /\ api.task \in Tasks /\ api.snap \in TaskRec /\ Sound(api.snap, store)
         /\ api.wire \in Seq(Tasks)
         /\ api.wire # <<>> => /\ Head(api.wire) \in api.made
                               /\ Tail(api.wire) \in Seq(Tasks)
                               /\ \A i \in DOMAIN Tail(api.wire) : Tail(api.wire)[i] \in api.made
<1>1. MadeInv /\ api \in Thread /\ api.task \in Tasks /\ api.snap \in TaskRec /\ Sound(api.snap, store)
  BY DEF ApiInv, ThreadInv, Holding
<1>2. api.made \subseteq Known(store)
  <2>1. DOMAIN api.writes = {}
    OBVIOUS
  <2> QED
    BY <1>1, <2>1 DEF MadeInv
<1>3. api.wire \in Seq(Tasks)
  BY <1>1 DEF Thread
<1>4. ASSUME api.wire # <<>>
      PROVE  /\ Head(api.wire) \in api.made /\ Tail(api.wire) \in Seq(Tasks)
             /\ \A i \in DOMAIN Tail(api.wire) : Tail(api.wire)[i] \in api.made
  <2> DEFINE s == api.wire
  <2>1. s \in Seq(Tasks) /\ s # <<>> /\ \A i \in DOMAIN s : s[i] \in api.made
    BY <1>1, <1>3, <1>4 DEF MadeInv
  <2> HIDE DEF s
  <2>2. 1 \in DOMAIN s /\ Head(s) = s[1] /\ Tail(s) \in Seq(Tasks)
    BY <2>1
  <2>3. \A i \in DOMAIN Tail(s) : i + 1 \in DOMAIN s /\ Tail(s)[i] = s[i + 1]
    BY <2>1
  <2> QED
    BY <2>1, <2>2, <2>3 DEF s
<1> QED
  BY <1>1, <1>2, <1>3, <1>4

\* The next task of a plan is passed over, or read.
LEMMA WireTaskTypes ==
  ASSUME FilesInv, ApiInv, WireTask
  PROVE  /\ ApiInv' /\ api'.task = api.task /\ api'.snap = api.snap /\ api'.writes = <<>>
         /\ api'.made = api.made
         /\ \/ api'.pc = "wire" /\ api'.wire = Tail(api.wire)
            \/ /\ api'.pc = "depends" /\ api'.wire = api.wire
               /\ Head(api.wire) \in Known(store) /\ api'.child = store[Head(api.wire)]
               /\ api'.todo \subseteq api.made \ {Head(api.wire)}
<1> DEFINE t == Head(api.wire)
<1>1. /\ api.pc = "wire" /\ api.writes = <<>> /\ api.wire # <<>> /\ store' = store
      /\ api \in Thread /\ api.made \subseteq Known(store)
      /\ api.task \in Tasks /\ api.snap \in TaskRec /\ Sound(api.snap, store)
      /\ t \in api.made /\ Tail(api.wire) \in Seq(Tasks)
      /\ \A i \in DOMAIN Tail(api.wire) : Tail(api.wire)[i] \in api.made
  BY WiringHas DEF WireTask
<1> HIDE DEF t
<1>2. CASE api' = [api EXCEPT !.wire = Tail(@)]
  <2>1. /\ api' \in Thread /\ api'.pc = "wire" /\ api'.task = api.task /\ api'.snap = api.snap
        /\ api'.made = api.made /\ api'.wire = Tail(api.wire) /\ api'.writes = <<>>
    BY <1>1, <1>2 DEF Thread
  <2>2. ThreadInv(api', store)
    BY <2>1 DEF ThreadInv, Busy
  <2>3. MadeInv'
    BY <1>1, <2>1 DEF MadeInv
  <2>4. ApiInv'
    BY <1>1, <2>1, <2>2, <2>3 DEF ApiInv
  <2> QED
    BY <2>1, <2>4
<1>3. ASSUME NEW deps \in SUBSET (api.made \ {t}),
             api' = [api EXCEPT !.pc = "depends", !.child = store[t], !.todo = deps]
      PROVE  /\ ApiInv' /\ api'.pc = "depends" /\ api'.wire = api.wire /\ api'.child = store[t]
             /\ api'.task = api.task /\ api'.snap = api.snap /\ api'.writes = <<>>
             /\ api'.made = api.made /\ api'.todo = deps
  <2>1. t \in Known(store) /\ store[t] \in TaskRec /\ Sound(store[t], store)
    BY <1>1, Changed
  <2>2. deps \in SUBSET Tasks
    BY <1>1 DEF Known
  <2>3. /\ api' \in Thread /\ api'.pc = "depends" /\ api'.task = api.task /\ api'.snap = api.snap
        /\ api'.made = api.made /\ api'.wire = api.wire /\ api'.writes = <<>>
        /\ api'.child = store[t] /\ api'.todo = deps
    BY <1>1, <1>3, <2>1, <2>2 DEF Thread, PC, Holding
  <2>4. ThreadInv(api', store)
    BY <2>3 DEF ThreadInv, Busy
  <2>5. MadeInv'
    BY <1>1, <2>3 DEF MadeInv, ApiInv
  <2>6. ApiInv'
    BY <1>1, <2>1, <2>3, <2>4, <2>5 DEF ApiInv, t
  <2> QED
    BY <2>3, <2>6
<1>4. api' = [api EXCEPT !.wire = Tail(@)]
      \/ \E deps \in SUBSET (api.made \ {t}) :
           api' = [api EXCEPT !.pc = "depends", !.child = store[t], !.todo = deps]
  BY DEF WireTask, t
<1>5. CASE \E deps \in SUBSET (api.made \ {t}) :
             api' = [api EXCEPT !.pc = "depends", !.child = store[t], !.todo = deps]
  BY <1>1, <1>3, <1>5 DEF t
<1>6. CASE api' = [api EXCEPT !.wire = Tail(@)]
  <2>1. /\ api' \in Thread /\ api'.pc = "wire" /\ api'.task = api.task /\ api'.snap = api.snap
        /\ api'.made = api.made /\ api'.wire = Tail(api.wire) /\ api'.writes = <<>>
    BY <1>1, <1>6 DEF Thread
  <2> QED
    BY <1>2, <1>6, <2>1
<1> QED
  BY <1>4, <1>5, <1>6

\* A task that the next one depends on is read and written.
LEMMA WireBlockerTypes ==
  ASSUME FilesInv, ApiInv, WireBlocker
  PROVE  /\ ApiInv' /\ api'.pc = "depends" /\ api'.task = api.task /\ api'.snap = api.snap
         /\ api'.made = api.made /\ api'.wire = api.wire
         /\ \E d \in Known(store) : \E rec \in TaskRec :
              /\ d \in api.todo /\ api'.todo = api.todo \ {d}
              /\ api'.writes = Write(d, rec) /\ rec.status = store[d].status
              /\ rec.by = store[d].by /\ rec.blocks = store[d].blocks \cup {Head(api.wire)}
              /\ api'.child.by = api.child.by \cup {d} /\ api'.child.status = api.child.status
              /\ api'.child.blocks = api.child.blocks
<1>1. /\ api.pc = "depends" /\ api.writes = <<>> /\ api.wire # <<>> /\ store' = store
      /\ api \in Thread /\ api.made \subseteq Known(store)
      /\ api.task \in Tasks /\ api.snap \in TaskRec /\ Sound(api.snap, store)
      /\ Head(api.wire) \in api.made /\ MadeInv
      /\ api.child \in TaskRec /\ Sound(api.child, store)
      /\ api.todo \subseteq api.made \ {Head(api.wire)}
  BY WiringHas DEF WireBlocker, ApiInv
<1>2. PICK d \in api.todo :
        api' = [api EXCEPT !.todo = @ \ {d}, !.child.by = @ \cup {d},
                 !.writes = Write(d, [store[d] EXCEPT !.blocks = @ \cup {Head(api.wire)}])]
  BY DEF WireBlocker
<1>3. d \in Known(store) /\ d \in Tasks /\ store[d] \in TaskRec
  BY <1>1, Changed
<1>4. store[d].blocks \cup {Head(api.wire)} \in SUBSET Tasks
  BY <1>1, <1>3 DEF TaskRec, Known
<1> DEFINE rec == [store[d] EXCEPT !.blocks = store[d].blocks \cup {Head(api.wire)}]
           writes == Write(d, rec)
           child == [api.child EXCEPT !.by = api.child.by \cup {d}]
<1>5. /\ rec \in TaskRec /\ Sound(rec, store) /\ rec.status = store[d].status
      /\ rec.by = store[d].by /\ rec.blocks = store[d].blocks \cup {Head(api.wire)}
  BY <1>3, <1>4, Changed
<1>6. /\ child \in TaskRec /\ Sound(child, store) /\ child.by = api.child.by \cup {d}
      /\ child.status = api.child.status /\ child.blocks = api.child.blocks
  BY <1>1, <1>3 DEF TaskRec, Sound
<1>7. api' = [api EXCEPT !.todo = api.todo \ {d}, !.child = child, !.writes = writes]
  BY <1>1, <1>2 DEF Thread
<1> HIDE DEF rec, child
<1>8. writes \in Seq(Upsert)
  BY <1>3, <1>5, WriteOne
<1> HIDE DEF writes
<1>9. /\ api' \in Thread /\ api'.pc = "depends" /\ api'.task = api.task /\ api'.snap = api.snap
      /\ api'.made = api.made /\ api'.wire = api.wire /\ api'.writes = writes
      /\ api'.child = child /\ api'.todo = api.todo \ {d}
  BY <1>1, <1>6, <1>7, <1>8 DEF Thread
<1>10. ThreadInv(api', store)
  BY <1>3, <1>5, <1>9, OneWriteNext DEF Busy, writes
<1>11. MadeInv'
  BY <1>1, <1>9 DEF MadeInv
<1>12. ApiInv'
  BY <1>1, <1>6, <1>9, <1>10, <1>11 DEF ApiInv
<1> QED
  BY <1>2, <1>3, <1>5, <1>6, <1>9, <1>12 DEF writes

\* The next task is written with its blockers.
LEMMA WiredTypes ==
  ASSUME FilesInv, ApiInv, Wired
  PROVE  /\ ApiInv' /\ api'.pc = "wire" /\ api'.task = api.task /\ api'.snap = api.snap
         /\ api'.made = api.made /\ api'.wire = Tail(api.wire)
         /\ Head(api.wire) \in Known(store) /\ api.child \in TaskRec
         /\ api'.writes = Write(Head(api.wire), api.child)
<1> DEFINE t == Head(api.wire)
           writes == Write(t, api.child)
<1>1. /\ api.pc = "depends" /\ api.writes = <<>> /\ api.wire # <<>> /\ store' = store
      /\ api \in Thread /\ api.made \subseteq Known(store)
      /\ api.task \in Tasks /\ api.snap \in TaskRec /\ Sound(api.snap, store)
      /\ t \in api.made /\ Tail(api.wire) \in Seq(Tasks)
      /\ \A i \in DOMAIN Tail(api.wire) : Tail(api.wire)[i] \in api.made
      /\ api.child \in TaskRec /\ Sound(api.child, store)
  BY WiringHas DEF Wired, ApiInv
<1>2. api' = [api EXCEPT !.pc = "wire", !.child = None, !.wire = Tail(api.wire), !.writes = writes]
  BY DEF Wired
<1> HIDE DEF t
<1>3. t \in Known(store) /\ t \in Tasks
  BY <1>1 DEF Known
<1>4. writes \in Seq(Upsert)
  BY <1>1, <1>3, WriteOne
<1> HIDE DEF writes
<1>5. /\ api' \in Thread /\ api'.pc = "wire" /\ api'.task = api.task /\ api'.snap = api.snap
      /\ api'.made = api.made /\ api'.wire = Tail(api.wire) /\ api'.writes = writes
  BY <1>1, <1>2, <1>4 DEF Thread, PC, Holding
<1>6. ThreadInv(api', store)
  BY <1>1, <1>3, <1>5, OneWriteNext DEF Busy, writes
<1>7. MadeInv'
  BY <1>1, <1>5 DEF MadeInv
<1>8. ApiInv'
  BY <1>1, <1>5, <1>6, <1>7 DEF ApiInv
<1> QED
  BY <1>1, <1>3, <1>5, <1>8 DEF t, writes

\* A request makes its next upsert.
LEMMA ApiFlushTypes ==
  ASSUME TypesInv, ApiFlush
  PROVE  TypesInv'
<1>1. FilesInv /\ ApiInv /\ LoopInv /\ Flush(api, api') /\ ThreadInv(api, store)
  BY DEF TypesInv, ApiFlush, ApiInv
<1>2. /\ SoundBoard(store', store') /\ Known(store') = Known(store) \cup {Head(api.writes).task}
      /\ ThreadInv(api', store')
      /\ api.writes \in Seq(Upsert) /\ api.writes # <<>> /\ api'.writes = Tail(api.writes)
      /\ api'.pc = api.pc /\ api'.snap = api.snap /\ api'.task = api.task /\ api'.dep = api.dep
      /\ api'.todo = api.todo /\ api'.made = api.made /\ api'.wire = api.wire /\ api'.child = api.child
  BY <1>1, Flushed
<1>9. raced' \subseteq Tasks
  BY <1>1 DEF ApiFlush, FilesInv
<1>3. Known(store) \subseteq Known(store')
  BY <1>2
<1>4. FilesInv' /\ LoopInv'
  BY <1>1, <1>2, <1>3, <1>9, SoundGrows, LoopKept DEF FilesInv, ApiFlush
<1>5. api.pc \in {"wire", "depends"} => MadeInv'
  <2> DEFINE w == api.writes
  <2>1. ASSUME MadeInv, NEW m \in api.made
        PROVE  m \in Known(store') \/ \E i \in DOMAIN Tail(w) : Tail(w)[i].task = m
    <3>1. CASE m \in Known(store)
      BY <1>2, <3>1
    <3>2. CASE \E i \in DOMAIN w : w[i].task = m
      <4>1. PICK i \in DOMAIN w : w[i].task = m
        BY <3>2
      <4>2. w \in Seq(Upsert) /\ w # <<>>
        BY <1>2
      <4> HIDE DEF w
      <4>3. /\ DOMAIN w = 1..Len(w) /\ DOMAIN Tail(w) = 1..(Len(w) - 1) /\ Len(w) \in Nat \ {0}
            /\ Head(w) = w[1] /\ \A k \in DOMAIN Tail(w) : Tail(w)[k] = w[k + 1]
        BY <4>2, TailOf
      <4>4. CASE i = 1
        BY <1>2, <4>1, <4>3, <4>4 DEF w
      <4>5. CASE i # 1
        <5>1. i - 1 \in DOMAIN Tail(w) /\ (i - 1) + 1 = i
          BY <4>1, <4>3, <4>5
        <5> QED
          BY <4>1, <4>3, <5>1
      <4> QED
        BY <4>4, <4>5
    <3> QED
      BY <2>1, <3>1, <3>2 DEF MadeInv
  <2> QED
    BY <1>1, <1>2, <2>1 DEF MadeInv, ApiInv
<1>6. api.pc \in Holding => Sound(api'.snap, store')
  BY <1>1, <1>2, <1>3, SoundGrows DEF ApiInv
<1>7. api.pc = "depends" => Sound(api'.child, store')
  BY <1>1, <1>2, <1>3, SoundGrows DEF ApiInv
<1>8. ApiInv'
  BY <1>1, <1>2, <1>3, <1>5, <1>6, <1>7 DEF ApiInv
<1> QED
  BY <1>4, <1>8 DEF TypesInv

\* Requests keep everything whole.
LEMMA ApiTypes ==
  ASSUME TypesInv,
         \/ ApiStep
         \/ \E t \in Tasks : Queue(t) \/ Run(t) \/ Patch(t) \/ Reset(t) \/ Generate(t)
         \/ \E t, d \in Tasks : AddDependency(t, d) \/ RemoveDependency(t, d)
  PROVE  TypesInv'
<1> USE DEF TypesInv
<1>1. CASE ApiFlush
  BY <1>1, ApiFlushTypes
<1>2. ASSUME ApiInv', UNCHANGED <<world, store, job, loop, raced>>, before' \in [Tasks -> SUBSET Tasks]
      PROVE  TypesInv'
  <2>1. FilesInv' /\ LoopInv'
    BY <1>2, FilesKept, LoopKept
  <2> QED
    BY <1>2, <2>1
<1>3. before \in [Tasks -> SUBSET Tasks]
  BY DEF FilesInv
<1>4. CASE ApiEnd
  <2>1. api' = [Idle EXCEPT !.pc = "idle"] /\ store' = store
    BY <1>4, IdleIsIdle DEF ApiEnd
  <2>2. ThreadInv(api', store') /\ api'.pc = "idle" /\ api'.writes = <<>>
    BY <2>1, IdleThread DEF Idle, PC, Busy
  <2>3. ApiInv'
    BY <2>2 DEF ApiInv, Holding
  <2> QED
    BY <1>2, <1>3, <1>4, <2>3 DEF ApiEnd, history
<1>5. CASE RemoveFromBlocker
  BY <1>2, <1>3, <1>5, UnblockTypes DEF RemoveFromBlocker, history
<1>6. CASE ResetBlocker
  BY <1>2, <1>3, <1>6, ResetBlockerTypes DEF ResetBlocker, history
<1>7. CASE ResetTask
  BY <1>2, <1>3, <1>7, ResetTaskTypes DEF ResetTask, history
<1>8. CASE ApiAnalyse
  BY <1>2, <1>3, <1>8, ApiAnalyseTypes DEF ApiAnalyse, history
<1>9. CASE Create
  BY <1>2, <1>3, <1>9, CreateTypes DEF Create, history
<1>10. CASE Import
  BY <1>2, <1>10, ImportTypes DEF Import
<1>11. CASE PlanFails
  BY <1>2, <1>3, <1>11, PlanFailsTypes DEF PlanFails, history
<1>12. CASE MakeTasks
  BY <1>2, <1>3, <1>12, MakeTasksTypes DEF MakeTasks, history
<1>13. CASE WireTask
  BY <1>2, <1>3, <1>13, WireTaskTypes DEF WireTask, history
<1>14. CASE WireBlocker
  BY <1>2, <1>3, <1>14, WireBlockerTypes DEF WireBlocker, history
<1>15. CASE Wired
  BY <1>2, <1>3, <1>15, WiredTypes DEF Wired, history
<1>16. CASE CloseParent
  BY <1>2, <1>3, <1>16, CloseParentTypes DEF CloseParent, history
<1>17. CASE \E t \in Tasks : Queue(t)
  BY <1>2, <1>3, <1>17, QueueTypes DEF Queue, history
<1>18. CASE \E t \in Tasks : Reset(t)
  BY <1>2, <1>3, <1>18, ResetTypes DEF Reset, history
<1>19. CASE \E t \in Tasks : Generate(t)
  BY <1>2, <1>3, <1>19, GenerateTypes DEF Generate, history
<1>20. ASSUME NEW t \in Tasks, NEW d \in Tasks, AddDependency(t, d)
       PROVE  TypesInv'
  <2>1. ApiInv'
    BY <1>20, AddTypes
  <2>2. UNCHANGED <<world, store, job, loop, before, raced>>
    BY <1>20 DEF AddDependency, history
  <2> QED
    BY <1>2, <1>3, <2>1, <2>2
<1>21. ASSUME NEW t \in Tasks, NEW d \in Tasks, RemoveDependency(t, d)
       PROVE  TypesInv'
  <2>1. ApiInv'
    BY <1>21, RemoveTypes
  <2>2. UNCHANGED <<world, store, job, loop, before, raced>>
    BY <1>21 DEF RemoveDependency, history
  <2> QED
    BY <1>2, <1>3, <2>1, <2>2
<1>22. CASE \E t \in Tasks : Run(t)
  BY <1>2, <1>3, <1>22, RunTypes DEF Run, history
<1>23. CASE RunSubmit
  BY <1>23, RunSubmitTypes
<1>24. CASE RunReturn
  <2>1. api' = [Idle EXCEPT !.pc = "idle"] /\ store' = store
    BY <1>24, IdleIsIdle DEF RunReturn
  <2>2. ThreadInv(api', store') /\ api'.pc = "idle" /\ api'.writes = <<>>
    BY <2>1, IdleThread DEF Idle, PC, Busy
  <2>3. ApiInv'
    BY <2>2 DEF ApiInv, Holding
  <2> QED
    BY <1>2, <1>3, <1>24, <2>3 DEF RunReturn, history
<1>25. CASE \E t \in Tasks : Patch(t)
  BY <1>2, <1>3, <1>25, PatchTypes DEF Patch, history
<1> QED
  BY <1>1, <1>4, <1>5, <1>6, <1>7, <1>8, <1>9, <1>10, <1>11, <1>12, <1>13, <1>14, <1>15, <1>16,
     <1>17, <1>18, <1>19, <1>20, <1>21, <1>22, <1>23, <1>24, <1>25 DEF ApiStep

\* The first board, with the jobs that a pause has left.
LEMMA FirstBoard ==
  ASSUME Init
  PROVE  /\ world \in World /\ world.there \subseteq Tasks
         /\ store \in Board /\ Known(store) = world.there
         /\ job \in [Jobs -> Upsert \cup {None}]
         /\ \A j \in Jobs : job[j] # None =>
              world.paused /\ job[j].task \in world.there /\ job[j].rec = store[job[j].task]
         /\ \A j \in Jobs : \A k \in Jobs \ {j} :
              job[j] # None /\ job[k] # None => job[j].task # job[k].task
         /\ \E by \in [world.there -> SUBSET world.there] :
              /\ Acyclic(by, world.there)
              /\ \A t \in world.there :
                   /\ store[t] \in TaskRec /\ store[t].inferred \subseteq world.there
                   /\ store[t].by = by[t] /\ store[t].status \in {"backlog", "in_progress"}
                   /\ store[t].blocks = {u \in world.there : t \in by[u]}
<1>1. world \in World /\ world.there \subseteq Tasks
  BY DependenciesAssumption DEF Init, World
<1>2. PICK by \in [world.there -> SUBSET world.there], left \in [Jobs -> world.there \cup {None}] :
        /\ Acyclic(by, world.there)
        /\ \A j \in Jobs : left[j] # None =>
             world.paused /\ j \in world.jobs /\ \A k \in Jobs \ {j} : left[k] # left[j]
        /\ store = FirstTasks(by, {left[j] : j \in Jobs})
        /\ job = [j \in Jobs |-> IF left[j] = None THEN None ELSE [task |-> left[j], rec |-> store[left[j]]]]
  BY DEF Init
<1> DEFINE running == {left[j] : j \in Jobs}
<1>3. \A t \in Tasks : store[t] =
        IF t \in world.there
          THEN [NewTask EXCEPT !.status = IF t \in running THEN "in_progress" ELSE "backlog",
                               !.by = by[t], !.blocks = {u \in world.there : t \in by[u]},
                               !.inferred = IF world.found THEN by[t] ELSE {}]
          ELSE None
  BY <1>2 DEF FirstTasks
<1>4. DOMAIN store = Tasks /\ store = [t \in Tasks |-> store[t]]
  BY <1>2 DEF FirstTasks
<1> HIDE DEF running
<1>5. ASSUME NEW t \in world.there
      PROVE  /\ store[t] \in TaskRec /\ store[t].inferred \subseteq world.there
             /\ store[t].by = by[t] /\ store[t].status \in {"backlog", "in_progress"} /\ t \in Tasks
             /\ store[t].blocks = {u \in world.there : t \in by[u]}
  <2> DEFINE blocks == {u \in world.there : t \in by[u]}
             inferred == IF world.found THEN by[t] ELSE {}
             status == IF t \in running THEN "in_progress" ELSE "backlog"
  <2>1. by[t] \in SUBSET Tasks /\ blocks \in SUBSET Tasks /\ inferred \in SUBSET Tasks
        /\ inferred \subseteq world.there /\ t \in Tasks /\ status \in {"backlog", "in_progress"}
    BY <1>1, <1>2
  <2>2. store[t] = [NewTask EXCEPT !.status = status, !.by = by[t], !.blocks = blocks, !.inferred = inferred]
    BY <1>1, <1>3
  <2> HIDE DEF blocks, inferred, status
  <2>3. /\ store[t] \in TaskRec /\ store[t].inferred = inferred
        /\ store[t].by = by[t] /\ store[t].status = status /\ store[t].blocks = blocks
    BY <2>1, <2>2 DEF NewTask, TaskRec
  <2> QED
    BY <2>1, <2>3 DEF blocks
<1>6. \A t \in Tasks \ world.there : store[t] = None
  BY <1>3
<1>7. store \in Board /\ Known(store) = world.there
  <2>1. \A t \in Tasks : store[t] \in TaskRec \cup {None}
    BY <1>5, <1>6
  <2>2. store \in Board
    BY <1>4, <2>1 DEF Board
  <2>3. \A t \in world.there : store[t] # None
    BY <1>5, DependenciesAssumption
  <2> QED
    BY <1>1, <1>6, <2>2, <2>3 DEF Known
<1>8. ASSUME NEW j \in Jobs
      PROVE  /\ job[j] \in Upsert \cup {None}
             /\ job[j] # None =>
                  world.paused /\ job[j].task \in world.there /\ job[j].rec = store[job[j].task]
  <2>1. CASE left[j] = None
    BY <1>2, <2>1
  <2>2. CASE left[j] # None
    <3>1. left[j] \in world.there /\ job[j] = [task |-> left[j], rec |-> store[left[j]]] /\ world.paused
      BY <1>2, <2>2
    <3> QED
      BY <1>5, <3>1 DEF Upsert
  <2> QED
    BY <2>1, <2>2
<1>9. job \in [Jobs -> Upsert \cup {None}]
  <2>1. job = [j \in Jobs |-> job[j]]
    BY <1>2
  <2> QED
    BY <1>8, <2>1
<1>10. \A t \in world.there :
         /\ store[t] \in TaskRec /\ store[t].inferred \subseteq world.there
         /\ store[t].by = by[t] /\ store[t].status \in {"backlog", "in_progress"}
         /\ store[t].blocks = {u \in world.there : t \in by[u]}
  BY <1>5
<1>11. Acyclic(by, world.there)
  BY <1>2
<1>12. \A j \in Jobs : job[j] # None =>
         world.paused /\ job[j].task \in world.there /\ job[j].rec = store[job[j].task]
  BY <1>8
<1>13. ASSUME NEW j \in Jobs, NEW k \in Jobs \ {j}, job[j] # None, job[k] # None
       PROVE  job[j].task # job[k].task
  <2>1. left[j] # None /\ job[j].task = left[j] /\ job[k].task = left[k]
    BY <1>2, <1>13
  <2> QED
    BY <1>2, <2>1
<1> QED
  BY <1>1, <1>7, <1>9, <1>10, <1>11, <1>12, <1>13

\* The first board is whole.
LEMMA InitTypes ==
  ASSUME Init
  PROVE  TypesInv
<1>1. /\ world \in World /\ store \in Board /\ Known(store) = world.there
      /\ job \in [Jobs -> Upsert \cup {None}]
      /\ \A j \in Jobs : job[j] # None => job[j].task \in world.there /\ job[j].rec = store[job[j].task]
      /\ \A t \in world.there : store[t] \in TaskRec /\ store[t].inferred \subseteq world.there
  BY FirstBoard
<1>2. SoundBoard(store, store) /\ JobsInv(job, store)
  BY <1>1 DEF SoundBoard, JobsInv, Sound
<1>3. /\ before = [t \in Tasks |-> {}] /\ raced = {}
      /\ loop = [Idle EXCEPT !.pc = "tick"] /\ api = [Idle EXCEPT !.pc = "idle"]
  BY IdleIsIdle DEF Init
<1>4. FilesInv
  BY <1>1, <1>2, <1>3 DEF FilesInv
<1>5. ThreadInv(loop, store) /\ loop.pc = "tick" /\ loop.writes = <<>>
  BY <1>3, IdleThread DEF Idle, PC, Busy
<1>6. ThreadInv(api, store) /\ api.pc = "idle" /\ api.writes = <<>>
  BY <1>3, IdleThread DEF Idle, PC, Busy
<1>7. LoopInv /\ ApiInv
  BY <1>5, <1>6 DEF LoopInv, ApiInv, Holding
<1> QED
  BY <1>4, <1>7 DEF TypesInv

\* Nothing happens.
LEMMA StutterTypes ==
  ASSUME TypesInv, UNCHANGED vars
  PROVE  TypesInv'
<1>1. FilesInv'
  BY FilesKept DEF vars, history, TypesInv, FilesInv
<1>2. LoopInv' /\ ApiInv'
  BY LoopKept, ApiKept DEF vars, history, TypesInv
<1> QED
  BY <1>1, <1>2 DEF TypesInv

\* Whatever is read and whatever is written is a whole task, and its inferred
\* blockers are tasks that are there, at every step.
THEOREM Whole == Spec => []TypesInv
<1>1. Init => TypesInv
  BY InitTypes
<1>2. TypesInv /\ [Next]_vars => TypesInv'
  BY LoopTypes, ApiTypes, JobTypes, StutterTypes DEF Next
<1> QED
  BY <1>1, <1>2, PTL DEF Spec

\* Type correctness.
THEOREM TypeCorrect == Spec => []TypeOK
<1>1. TypesInv => TypeOK
  <2> SUFFICES ASSUME TypesInv PROVE TypeOK
    OBVIOUS
  <2>1. ASSUME NEW th, th \in Thread PROVE ThreadOK(th)
    <3>1. th.writes \in Seq(Upsert)
      BY <2>1 DEF Thread
    <3> QED
      BY <3>1, UpsertIn DEF ThreadOK
  <2> QED
    BY <2>1 DEF TypesInv, FilesInv, LoopInv, ApiInv, ThreadInv, SoundBoard, Board, JobsInv, Upsert, TypeOK
<1> QED
  BY <1>1, Whole, PTL

-----------------------------------------------------------------------------
(* Nobody waits for itself.                                                *)

\* Where none but the loop adds blockers to a task that is there, and no request
\* writes a task that has a job.
Calm == world.ops \subseteq {"queue", "reopen", "create"}

\* A board, the store or what an analysis has in memory, with all its blockers and
\* without cycles.
Sane(board) ==
  /\ \A t \in Known(board) : board[t].by \subseteq Known(board)
  /\ Acyclic(By(board), Tasks)

\* A job has no blockers that the store has not, no other job has its task, and
\* none can claim it.
Held(jobs, tasks) ==
  \A j \in Jobs : jobs[j] # None =>
    /\ jobs[j].rec.by \subseteq tasks[jobs[j].task].by
    /\ jobs[j].rec.status # "ready" /\ tasks[jobs[j].task].status # "ready"
    /\ \A k \in Jobs \ {j} : jobs[k] # None => jobs[k].task # jobs[j].task

\* A request has one task to write: one that no job has and that none can claim,
\* with no blockers that the store has not, or a new one.
Pending(writes, tasks, jobs) ==
  \A i \in DOMAIN writes :
    /\ i = 1
    /\ writes[i].task \in Known(tasks) =>
         /\ writes[i].rec.by \subseteq tasks[writes[i].task].by
         /\ tasks[writes[i].task].status # "ready"
         /\ \A j \in Jobs : jobs[j] # None => jobs[j].task # writes[i].task
    /\ writes[i].task \notin Known(tasks) => writes[i].rec.by \subseteq Known(tasks)

\* What the loop is about to write, it has in memory.
WritesBack(writes, snap) ==
  \A i \in DOMAIN writes :
    /\ writes[i].task \in Known(snap)
    /\ writes[i].rec.by = snap[writes[i].task].by
    /\ writes[i].rec.status = snap[writes[i].task].status

\* What an analysis has in memory has the edges of the store, and nothing as ready
\* that is not so any more.
Ahead(snap, tasks) ==
  \A t \in Known(snap) :
    /\ tasks[t].by \subseteq snap[t].by
    /\ snap[t].status = "ready" => tasks[t].status = "ready"

CalmInv ==
  /\ Sane(store) /\ Held(job, store)
  /\ api.pc \in {"idle", "write"} /\ Pending(api.writes, store, job)
  /\ loop.pc \in Busy =>
       Sane(loop.snap) /\ WritesBack(loop.writes, loop.snap) /\ Ahead(loop.snap, store)

\* A graph that has, among fewer tasks, no edges that the other has not.
LEMMA FewerEdges ==
  ASSUME NEW by, NEW T, Acyclic(by, T), NEW by2, NEW T2 \in SUBSET T,
         \A t \in T2 : by2[t] \cap T2 \subseteq by[t]
  PROVE  Acyclic(by2, T2)
<1> SUFFICES ASSUME NEW S \in SUBSET T2, Stuck(by2, S) PROVE S = {}
  BY DEF Acyclic
<1>1. \A t \in S : by2[t] \cap S \subseteq by[t] \cap S
  OBVIOUS
<1>2. Stuck(by, S)
  BY <1>1 DEF Stuck
<1> QED
  BY <1>2 DEF Acyclic

\* An edge to a task for which the other end does not wait closes no cycle.
LEMMA NewEdge ==
  ASSUME NEW by, DOMAIN by = Tasks, NEW T \in SUBSET Tasks, Acyclic(by, T), NEW from, NEW to,
         ~WaitsFor(by, from, to), NEW by2,
         \A t \in T : by2[t] \subseteq by[t] \cup (IF t = to THEN {from} ELSE {})
  PROVE  Acyclic(by2, T)
<1>1. PICK C \in SUBSET Tasks : to \in C /\ Closed(by, C) /\ from \notin C
  BY DEF WaitsFor
<1> SUFFICES ASSUME NEW S \in SUBSET T, Stuck(by2, S) PROVE S = {}
  BY DEF Acyclic
<1>2. Stuck(by, S \ C)
  <2> SUFFICES ASSUME NEW t \in S \ C PROVE by[t] \cap (S \ C) # {}
    BY DEF Stuck
  <2>1. by2[t] \cap S # {} /\ by2[t] \subseteq by[t]
    BY <1>1 DEF Stuck
  <2>2. by[t] \cap C = {}
    BY <1>1 DEF Closed
  <2> QED
    BY <2>1, <2>2
<1>3. S \subseteq C
  BY <1>2 DEF Acyclic
<1>4. Stuck(by, S)
  <2>1. from \notin S
    BY <1>1, <1>3
  <2>2. \A t \in S : by2[t] \cap S \subseteq by[t] \cap S
    BY <2>1
  <2> QED
    BY <2>2 DEF Stuck
<1> QED
  BY <1>4 DEF Acyclic

\* Tasks of which one graph, without cycles, knows all blockers, written over
\* another without cycles.
LEMMA WrittenOver ==
  ASSUME NEW by, NEW over, NEW T, Acyclic(by, T), Acyclic(over, T), NEW K,
         \A t \in K : over[t] \subseteq K,
         NEW by2, NEW T2 \in SUBSET T,
         \A t \in T2 : by2[t] \cap T2 \subseteq IF t \in K THEN over[t] ELSE by[t]
  PROVE  Acyclic(by2, T2)
<1> SUFFICES ASSUME NEW S \in SUBSET T2, Stuck(by2, S) PROVE S = {}
  BY DEF Acyclic
<1>1. Stuck(over, S \cap K)
  <2> SUFFICES ASSUME NEW t \in S \cap K PROVE over[t] \cap (S \cap K) # {}
    BY DEF Stuck
  <2>1. by2[t] \cap S # {} /\ by2[t] \cap S \subseteq over[t]
    BY DEF Stuck
  <2> QED
    BY <2>1
<1>2. S \cap K = {}
  BY <1>1 DEF Acyclic
<1>3. \A t \in S : by2[t] \cap S \subseteq by[t] \cap S
  BY <1>2
<1>4. Stuck(by, S)
  BY <1>3 DEF Stuck
<1> QED
  BY <1>4 DEF Acyclic

\* A task that nobody waits for.
LEMMA NewTaskAtEnd ==
  ASSUME NEW by, NEW T, Acyclic(by, T), NEW x, NEW by2, NEW T2 \in SUBSET T,
         \A t \in T2 : x \notin by2[t],
         \A t \in T2 \ {x} : by2[t] \cap T2 \subseteq by[t]
  PROVE  Acyclic(by2, T2)
<1> SUFFICES ASSUME NEW S \in SUBSET T2, Stuck(by2, S) PROVE S = {}
  BY DEF Acyclic
<1>1. Stuck(by, S \ {x})
  <2> SUFFICES ASSUME NEW t \in S \ {x} PROVE by[t] \cap (S \ {x}) # {}
    BY DEF Stuck
  <2>1. by2[t] \cap S # {} /\ by2[t] \cap S \subseteq by[t] /\ x \notin by2[t]
    BY DEF Stuck
  <2> QED
    BY <2>1
<1>2. S \subseteq {x}
  BY <1>1 DEF Acyclic
<1> QED
  BY <1>2 DEF Stuck

\* The graph of a board.
LEMMA ByOf ==
  ASSUME NEW tasks
  PROVE  /\ DOMAIN By(tasks) = Tasks
         /\ \A t \in Tasks : By(tasks)[t] = IF t \in Known(tasks) THEN tasks[t].by ELSE {}
         /\ Known(tasks) \subseteq Tasks
  BY DEF By, Known

\* Only the loop has done something.
LEMMA LoopOnly ==
  ASSUME CalmInv, UNCHANGED <<store, job, api>>,
         loop'.pc \in Busy =>
           Sane(loop'.snap) /\ WritesBack(loop'.writes, loop'.snap) /\ Ahead(loop'.snap, store)
  PROVE  CalmInv'
  BY DEF CalmInv

\* An analysis begins.
LEMMA GatherCalm ==
  ASSUME TypesInv, CalmInv, Gather(loop, loop', "tick"), UNCHANGED <<store, job, api>>
  PROVE  CalmInv'
<1>1. loop'.writes = <<>> /\ loop'.snap = store
  BY GatherThread DEF TypesInv, LoopInv
<1>2. WritesBack(loop'.writes, loop'.snap) /\ Ahead(loop'.snap, store)
  BY <1>1 DEF WritesBack, Ahead
<1> QED
  BY <1>1, <1>2, LoopOnly DEF CalmInv

\* An answer, or the end of the edges: nothing is decided.
LEMMA QuietCalm ==
  ASSUME TypesInv, CalmInv, Ask(loop, loop') \/ Applied(loop, loop'), UNCHANGED <<store, job, api>>
  PROVE  CalmInv'
<1>1. loop.pc \in Busy /\ loop'.writes = loop.writes /\ loop'.snap = loop.snap
  BY QuietEffect DEF TypesInv, LoopInv, Busy
<1> QED
  BY <1>1, LoopOnly DEF CalmInv

\* A candidate is about to be marked: it keeps its edges.
LEMMA MarkCalm ==
  ASSUME TypesInv, CalmInv, Mark(loop, loop'), UNCHANGED <<store, job, api>>
  PROVE  CalmInv'
<1>1. /\ loop.pc \in Busy /\ loop'.snap = loop.snap
      /\ \E t \in Known(loop.snap) : \E rec \in TaskRec :
           /\ loop'.writes = Write(t, rec)
           /\ rec.by = loop.snap[t].by /\ rec.blocks = loop.snap[t].blocks
           /\ rec.status = loop.snap[t].status
  BY MarkEffect DEF TypesInv, LoopInv, Busy
<1>2. PICK t \in Known(loop.snap), rec \in TaskRec :
        /\ loop'.writes = Write(t, rec)
        /\ rec.by = loop.snap[t].by /\ rec.status = loop.snap[t].status
  BY <1>1
<1>3. t \in Tasks /\ rec \in TaskRec
  BY <1>2 DEF Known
<1>4. DOMAIN loop'.writes = {1} /\ loop'.writes[1] = [task |-> t, rec |-> rec]
  BY <1>2, <1>3, WriteOne
<1>5. WritesBack(loop'.writes, loop'.snap)
  BY <1>1, <1>2, <1>4 DEF WritesBack
<1> QED
  BY <1>1, <1>5, LoopOnly DEF CalmInv

\* An edge goes into the board in memory.
LEMMA ApplyCalm ==
  ASSUME TypesInv, CalmInv, Apply(loop, loop'), UNCHANGED <<store, job, api>>
  PROVE  CalmInv'
<1> DEFINE snap == loop.snap
           next == loop'.snap
           writes == loop'.writes
<1>1. /\ loop.pc \in Busy /\ Known(next) = Known(snap)
      /\ (writes = <<>> /\ next = snap) \/ EdgeAdded(snap, next, writes)
  BY ApplyEffect DEF TypesInv, LoopInv, Busy
<1>2. Sane(snap) /\ Ahead(snap, store)
  BY <1>1 DEF CalmInv
<1>3. CASE writes = <<>> /\ next = snap
  <2>1. WritesBack(writes, next)
    BY <1>3 DEF WritesBack
  <2> QED
    BY <1>2, <1>3, <2>1, LoopOnly
<1>4. ASSUME NEW from \in Known(snap), NEW to \in Known(snap),
             /\ Fits(snap, from, to) /\ from # to
             /\ \A t \in Tasks \ {from, to} : next[t] = snap[t]
             /\ next[to].by = snap[to].by \cup {from} /\ next[from].by = snap[from].by
             /\ next[from].status = snap[from].status /\ next[to].status = snap[to].status
             /\ DOMAIN writes = {1, 2}
             /\ writes[1] = [task |-> from, rec |-> next[from]]
             /\ writes[2] = [task |-> to, rec |-> next[to]]
      PROVE  CalmInv'
  <2>1. \A t \in Known(snap) :
          /\ t \in Tasks /\ next[t].status = snap[t].status
          /\ next[t].by = snap[t].by \cup (IF t = to THEN {from} ELSE {})
    BY <1>4 DEF Known
  <2>2. WritesBack(writes, next)
    BY <1>1, <1>4 DEF WritesBack
  <2> HIDE DEF snap, next, writes
  <2>3. Acyclic(By(next), Tasks)
    <3>1. ~WaitsFor(By(snap), from, to) /\ Acyclic(By(snap), Tasks)
      BY <1>2, <1>4 DEF Fits, Sane
    <3>2. \A t \in Tasks : By(next)[t] \subseteq By(snap)[t] \cup (IF t = to THEN {from} ELSE {})
      BY <1>1, <2>1, ByOf
    <3>3. DOMAIN By(snap) = Tasks
      BY ByOf
    <3> QED
      BY <3>1, <3>2, <3>3, NewEdge
  <2>4. Sane(next) /\ Ahead(next, store)
    BY <1>1, <1>2, <2>1, <2>3 DEF Sane, Ahead
  <2> QED
    BY <2>2, <2>4, LoopOnly DEF next, writes
<1>5. CASE EdgeAdded(snap, next, writes)
  BY <1>4, <1>5 DEF EdgeAdded
<1> QED
  BY <1>1, <1>3, <1>5

\* The loop writes a task back as it has it in memory.
LEMMA LoopFlushEffect ==
  ASSUME TypesInv, LoopFlush, loop.pc \in Busy => WritesBack(loop.writes, loop.snap)
  PROVE  /\ loop.pc \in Busy /\ loop'.pc = loop.pc /\ loop'.snap = loop.snap
         /\ Known(loop.snap) \subseteq Known(store) /\ Known(store') = Known(store)
         /\ WritesBack(loop'.writes, loop.snap) /\ UNCHANGED <<world, job, api, before, raced>>
         /\ \E t \in Known(loop.snap) : \E rec \in TaskRec :
              /\ rec.by = loop.snap[t].by /\ rec.status = loop.snap[t].status
              /\ \A u \in Tasks : store'[u] = IF u = t THEN rec ELSE store[u]
<1> DEFINE snap == loop.snap
           t == Head(loop.writes).task
           rec == Head(loop.writes).rec
<1>1. /\ Known(store') = Known(store) \cup {t} /\ rec \in TaskRec
      /\ \A u \in Tasks : store'[u] = IF u = t THEN rec ELSE store[u]
      /\ loop.writes \in Seq(Upsert) /\ loop.writes # <<>> /\ loop'.writes = Tail(loop.writes)
      /\ loop'.pc = loop.pc /\ loop'.snap = snap
  BY Flushed DEF LoopFlush, TypesInv, LoopInv
<1>2. loop.pc \in Busy /\ Known(snap) \subseteq Known(store)
  BY <1>1 DEF TypesInv, LoopInv, ThreadInv, Busy
<1>3. /\ Head(loop.writes) = loop.writes[1] /\ 1 \in DOMAIN loop.writes
      /\ \A i \in DOMAIN Tail(loop.writes) :
           i + 1 \in DOMAIN loop.writes /\ Tail(loop.writes)[i] = loop.writes[i + 1]
  BY <1>1, TailOf
<1>4. t \in Known(snap) /\ rec.by = snap[t].by /\ rec.status = snap[t].status
  BY <1>2, <1>3 DEF WritesBack
<1>5. WritesBack(loop'.writes, snap)
  BY <1>1, <1>2, <1>3 DEF WritesBack
<1> HIDE DEF t, rec
<1>6. Known(store') = Known(store)
  BY <1>1, <1>2, <1>4
<1>7. UNCHANGED <<world, job, api, before, raced>>
  BY DEF LoopFlush, history
<1> QED
  BY <1>1, <1>2, <1>4, <1>5, <1>6, <1>7

\* A board in memory without cycles, written over the store.
LEMMA SaneWrittenOver ==
  ASSUME Sane(store), NEW snap, Sane(snap), Known(snap) \subseteq Known(store),
         NEW next, Known(next) = Known(store), NEW h \in Known(snap),
         next[h].by = snap[h].by, \A t \in Known(snap) : store[t].by \subseteq snap[t].by,
         \A t \in Known(store) \ {h} : next[t].by = store[t].by
  PROVE  Sane(next)
<1>1. \A t \in Known(next) : next[t].by \subseteq Known(next)
  BY DEF Sane
<1>2. Acyclic(By(next), Tasks)
  <2> DEFINE by == By(store)
             over == By(snap)
             by2 == By(next)
             K == Known(snap)
  <2>1. \A t \in K : over[t] \subseteq K
    BY ByOf DEF Sane
  <2>2. ASSUME NEW t \in Tasks
        PROVE  by2[t] \cap Tasks \subseteq IF t \in K THEN over[t] ELSE by[t]
    <3>1. CASE t \in K
      <4>1. by2[t] = next[t].by /\ over[t] = snap[t].by
        BY <3>1, ByOf
      <4>2. next[t].by \subseteq snap[t].by
        BY <3>1
      <4> QED
        BY <3>1, <4>1, <4>2
    <3>2. CASE t \notin K
      <4>1. by2[t] = by[t]
        BY <3>2, ByOf
      <4> QED
        BY <3>2, <4>1
    <3> QED
      BY <3>1, <3>2
  <2> DEFINE T == Tasks
  <2>3. /\ Acyclic(by, T) /\ Acyclic(over, T) /\ T \in SUBSET T
        /\ \A t \in T : by2[t] \cap T \subseteq IF t \in K THEN over[t] ELSE by[t]
    BY <2>2 DEF Sane
  <2> HIDE DEF by, over, by2, K, T
  <2>4. Acyclic(by2, T)
    BY <2>1, <2>3, WrittenOver
  <2> QED
    BY <2>4 DEF by2, T
<1> QED
  BY <1>1, <1>2 DEF Sane

\* What is in the store then has, of the tasks in memory, no edges that are not
\* there.
LEMMA LoopFlushCalm ==
  ASSUME TypesInv, CalmInv, LoopFlush
  PROVE  CalmInv'
<1> DEFINE snap == loop.snap
<1>1. /\ loop.pc \in Busy /\ loop'.pc = loop.pc /\ loop'.snap = snap
      /\ Known(snap) \subseteq Known(store) /\ Known(store') = Known(store)
      /\ WritesBack(loop'.writes, loop'.snap) /\ UNCHANGED <<job, api>>
  BY LoopFlushEffect DEF CalmInv
<1>2. PICK h \in Known(snap), rec \in TaskRec :
        /\ rec.by = snap[h].by /\ rec.status = snap[h].status
        /\ \A u \in Tasks : store'[u] = IF u = h THEN rec ELSE store[u]
  BY LoopFlushEffect DEF CalmInv
<1>3. /\ Sane(store) /\ Held(job, store) /\ Pending(api.writes, store, job)
      /\ Sane(snap) /\ Ahead(snap, store) /\ api.pc \in {"idle", "write"}
      /\ JobsInv(job, store)
  BY <1>1 DEF CalmInv, TypesInv, FilesInv
<1> HIDE DEF snap
<1>4. \A u \in Known(store) : u \in Tasks /\ store'[u] = (IF u = h THEN rec ELSE store[u])
  BY <1>2 DEF Known
<1>5. store[h].by \subseteq rec.by /\ (rec.status = "ready" => store[h].status = "ready")
  BY <1>2, <1>3 DEF Ahead
<1>6. Sane(store')
  BY <1>1, <1>2, <1>3, <1>4, SaneWrittenOver DEF Ahead
<1>7. Held(job, store')
  BY <1>1, <1>3, <1>4, <1>5 DEF Held, JobsInv
<1>8. Pending(api.writes, store', job)
  BY <1>1, <1>3, <1>4, <1>5 DEF Pending
<1>9. Ahead(snap, store')
  BY <1>1, <1>2, <1>3, <1>4 DEF Ahead
<1> QED
  BY <1>1, <1>3, <1>6, <1>7, <1>8, <1>9 DEF CalmInv, snap

\* A board whose tasks have no more blockers than those of another.
LEMMA SaneStill ==
  ASSUME NEW board, Sane(board), NEW next, Known(next) = Known(board),
         \A t \in Known(board) : next[t].by \subseteq board[t].by
  PROVE  Sane(next)
<1>1. \A t \in Known(next) : next[t].by \subseteq Known(next)
  BY DEF Sane
<1>2. \A t \in Tasks : By(next)[t] \cap Tasks \subseteq By(board)[t]
  BY ByOf
<1>3. Acyclic(By(next), Tasks)
  BY <1>2, FewerEdges DEF Sane
<1> QED
  BY <1>1, <1>3 DEF Sane

\* A claim takes a task that no job has and that no request is about to write.
LEMMA ClaimCalm ==
  ASSUME TypesInv, CalmInv, LoopClaim
  PROVE  CalmInv'
<1>1. PICK t \in Known(store), j \in Jobs, rec \in TaskRec :
        /\ Runnable(t) /\ job[j] = None /\ rec.status = "in_progress" /\ rec.by = store[t].by
        /\ \A u \in Tasks : store'[u] = IF u = t THEN rec ELSE store[u]
        /\ \A k \in Jobs : job'[k] = IF k = j THEN [task |-> t, rec |-> rec] ELSE job[k]
  BY ClaimEffect DEF TypesInv
<1>2. Known(store') = Known(store) /\ api' = api /\ loop'.pc \notin Busy
  BY ClaimEffect DEF TypesInv, LoopClaim, Idle, Busy
<1>3. store[t].status = "ready" /\ JobsInv(job, store)
      /\ Sane(store) /\ Held(job, store) /\ Pending(api.writes, store, job)
  BY <1>1 DEF Runnable, Has, CalmInv, TypesInv, FilesInv
<1>4. \A u \in Known(store) : u \in Tasks /\ store'[u] = (IF u = t THEN rec ELSE store[u])
  BY <1>1 DEF Known
<1>5. Sane(store')
  BY <1>1, <1>2, <1>3, <1>4, SaneStill
<1>6. \A k \in Jobs : job[k] # None => job[k].task # t
  BY <1>3 DEF Held
<1>7. Held(job', store')
  <2> SUFFICES ASSUME NEW k \in Jobs, job'[k] # None
               PROVE  /\ job'[k].rec.by \subseteq store'[job'[k].task].by
                      /\ job'[k].rec.status # "ready" /\ store'[job'[k].task].status # "ready"
                      /\ \A i \in Jobs \ {k} : job'[i] # None => job'[i].task # job'[k].task
    BY DEF Held
  <2>1. CASE k = j
    <3>1. job'[k].task = t /\ job'[k].rec = rec /\ store'[t] = rec
      BY <1>1, <1>4, <2>1
    <3>2. \A i \in Jobs \ {k} : job'[i] # None => job'[i].task # t
      BY <1>1, <1>6, <2>1
    <3> QED
      BY <1>1, <3>1, <3>2
  <2>2. CASE k # j
    <3>1. job'[k] = job[k] /\ job[k].task \in Known(store) /\ job[k].task # t
      BY <1>1, <1>3, <1>6, <2>2 DEF JobsInv
    <3>2. store'[job[k].task] = store[job[k].task]
      BY <1>4, <3>1
    <3>3. \A i \in Jobs \ {k} : job'[i] # None => job'[i].task # job[k].task
      BY <1>1, <1>3, <2>2, <3>1 DEF Held
    <3> QED
      BY <1>3, <3>1, <3>2, <3>3 DEF Held
  <2> QED
    BY <2>1, <2>2
<1>8. Pending(api.writes, store', job')
  <2>1. \A i \in DOMAIN api.writes : api.writes[i].task # t
    BY <1>3 DEF Pending
  <2>2. ASSUME NEW u \in Known(store), u # t, \A k \in Jobs : job[k] # None => job[k].task # u
        PROVE  \A k \in Jobs : job'[k] # None => job'[k].task # u
    BY <1>1, <2>2
  <2> QED
    BY <1>1, <1>2, <1>3, <1>4, <2>1, <2>2 DEF Pending
<1> QED
  BY <1>2, <1>5, <1>7, <1>8 DEF CalmInv

\* A job writes its object, which has no blockers that the store has not.
LEMMA JobCalm ==
  ASSUME TypesInv, CalmInv, NEW j \in Jobs, JobWrite(j)
  PROVE  CalmInv'
<1> DEFINE t == job[j].task
<1>1. /\ Known(store') = Known(store) /\ job[j] # None /\ t \in Known(store) /\ job[j].rec \in TaskRec
      /\ UNCHANGED <<loop, api>>
  BY JobEffect DEF TypesInv, JobWrite
<1>2. PICK rec \in TaskRec :
        /\ rec.by = job[j].rec.by /\ rec.status \in After[job[j].rec.status]
        /\ \A u \in Tasks : store'[u] = IF u = t THEN rec ELSE store[u]
        /\ \A k \in Jobs : job'[k] = IF k = j THEN [task |-> t, rec |-> rec] ELSE job[k]
  BY JobEffect DEF TypesInv
<1>3. /\ Sane(store) /\ Held(job, store) /\ Pending(api.writes, store, job)
      /\ JobsInv(job, store) /\ api.pc \in {"idle", "write"}
      /\ loop.pc \in Busy =>
           /\ Sane(loop.snap) /\ WritesBack(loop.writes, loop.snap) /\ Ahead(loop.snap, store)
           /\ Known(loop.snap) \subseteq Known(store)
  BY DEF CalmInv, TypesInv, FilesInv, LoopInv, ThreadInv
<1>4. job[j].rec.by \subseteq store[t].by /\ store[t].status # "ready" /\ job[j].rec.status # "ready"
      /\ \A k \in Jobs \ {j} : job[k] # None => job[k].task # t
  BY <1>1, <1>3 DEF Held
<1>5. rec.status # "ready"
  BY <1>1, <1>2, <1>4 DEF After, TaskRec
<1> HIDE DEF t
<1>6. \A u \in Known(store) : u \in Tasks /\ store'[u] = (IF u = t THEN rec ELSE store[u])
  BY <1>2 DEF Known
<1>7. \A u \in Known(store) : store'[u].by \subseteq store[u].by
  BY <1>2, <1>4, <1>6
<1>8. Sane(store')
  BY <1>1, <1>3, <1>7, SaneStill
<1>9. Held(job', store')
  <2> SUFFICES ASSUME NEW k \in Jobs, job'[k] # None
               PROVE  /\ job'[k].rec.by \subseteq store'[job'[k].task].by
                      /\ job'[k].rec.status # "ready" /\ store'[job'[k].task].status # "ready"
                      /\ \A i \in Jobs \ {k} : job'[i] # None => job'[i].task # job'[k].task
    BY DEF Held
  <2>1. CASE k = j
    <3>1. job'[k].task = t /\ job'[k].rec = rec /\ store'[t] = rec
      BY <1>1, <1>2, <1>6, <2>1
    <3>2. \A i \in Jobs \ {k} : job'[i] # None => job'[i].task # t
      BY <1>2, <1>4, <2>1
    <3> QED
      BY <1>5, <3>1, <3>2
  <2>2. CASE k # j
    <3>1. job'[k] = job[k] /\ job[k].task \in Known(store) /\ job[k].task # t
      BY <1>2, <1>3, <1>4, <2>2 DEF JobsInv
    <3>2. store'[job[k].task] = store[job[k].task]
      BY <1>6, <3>1
    <3>3. \A i \in Jobs \ {k} : job'[i] # None => job'[i].task # job[k].task
      BY <1>2, <1>3, <2>2, <3>1 DEF Held
    <3> QED
      BY <1>3, <3>1, <3>2, <3>3 DEF Held
  <2> QED
    BY <2>1, <2>2
<1>10. Pending(api.writes, store', job')
  <2>1. \A i \in DOMAIN api.writes : api.writes[i].task \in Known(store) => api.writes[i].task # t
    BY <1>1, <1>3 DEF Pending, t
  <2>2. ASSUME NEW u \in Known(store), u # t, \A k \in Jobs : job[k] # None => job[k].task # u
        PROVE  \A k \in Jobs : job'[k] # None => job'[k].task # u
    BY <1>2, <2>2
  <2> QED
    BY <1>1, <1>3, <1>6, <2>1, <2>2 DEF Pending
<1>11. loop.pc \in Busy => Ahead(loop.snap, store')
  BY <1>3, <1>4, <1>6, <1>7 DEF Ahead
<1> QED
  BY <1>1, <1>3, <1>8, <1>9, <1>10, <1>11 DEF CalmInv

\* A job is over.
LEMMA JobEndCalm ==
  ASSUME TypesInv, CalmInv, NEW j \in Jobs, JobEnd(j)
  PROVE  CalmInv'
<1>1. /\ \A k \in Jobs : job'[k] # None => job'[k] = job[k]
      /\ UNCHANGED <<store, loop, api>>
  BY JobEndEffect DEF TypesInv, JobEnd
<1>2. Held(job', store)
  BY <1>1 DEF CalmInv, Held
<1>3. Pending(api.writes, store, job')
  BY <1>1 DEF CalmInv, Pending
<1> QED
  BY <1>1, <1>2, <1>3 DEF CalmInv

\* A request writes a task: with no more blockers than it has, or one that nobody
\* waits for.
LEMMA ApiFlushCalm ==
  ASSUME TypesInv, CalmInv, ApiFlush
  PROVE  CalmInv'
<1> DEFINE h == Head(api.writes).task
           rec == Head(api.writes).rec
<1>1. /\ Known(store') = Known(store) \cup {h} /\ h \in Tasks /\ rec \in TaskRec
      /\ \A u \in Tasks : store'[u] = IF u = h THEN rec ELSE store[u]
      /\ api.writes \in Seq(Upsert) /\ api.writes # <<>> /\ api'.writes = Tail(api.writes)
      /\ api'.pc = api.pc
  BY Flushed DEF ApiFlush, TypesInv, ApiInv
<1>2. UNCHANGED <<job, loop>>
  BY DEF ApiFlush
<1>3. /\ Head(api.writes) = api.writes[1] /\ 1 \in DOMAIN api.writes
      /\ \A i \in DOMAIN Tail(api.writes) : i + 1 \in DOMAIN api.writes
      /\ DOMAIN Tail(api.writes) \subseteq Nat \ {0}
  BY <1>1, TailOf
<1>4. /\ Sane(store) /\ Held(job, store) /\ Pending(api.writes, store, job)
      /\ JobsInv(job, store) /\ api.pc \in {"idle", "write"}
      /\ loop.pc \in Busy =>
           /\ Sane(loop.snap) /\ WritesBack(loop.writes, loop.snap) /\ Ahead(loop.snap, store)
           /\ Known(loop.snap) \subseteq Known(store)
  BY DEF CalmInv, TypesInv, FilesInv, LoopInv, ThreadInv
<1>5. /\ h \in Known(store) =>
           /\ rec.by \subseteq store[h].by /\ store[h].status # "ready"
           /\ \A j \in Jobs : job[j] # None => job[j].task # h
      /\ h \notin Known(store) => rec.by \subseteq Known(store)
  BY <1>3, <1>4 DEF Pending
<1>6. Pending(api'.writes, store', job)
  <2>1. DOMAIN api'.writes = {}
    BY <1>1, <1>3, <1>4 DEF Pending
  <2> QED
    BY <2>1 DEF Pending
<1> HIDE DEF h, rec
<1>7. \A u \in Known(store) : u \in Tasks /\ store'[u] = (IF u = h THEN rec ELSE store[u])
  BY <1>1 DEF Known
<1>8. Sane(store')
  <2>1. CASE h \in Known(store)
    <3>1. \A u \in Known(store) : store'[u].by \subseteq store[u].by
      BY <1>5, <1>7, <2>1
    <3> QED
      BY <1>1, <1>4, <2>1, <3>1, SaneStill
  <2>2. CASE h \notin Known(store)
    <3>1. \A u \in Known(store') : store'[u].by \subseteq Known(store) /\ h \notin store'[u].by
      BY <1>1, <1>4, <1>5, <2>2 DEF Sane, Known
    <3>2. \A u \in Tasks : h \notin By(store')[u]
      BY <3>1, ByOf
    <3>3. \A u \in Tasks \ {h} : By(store')[u] = By(store)[u]
      BY <1>1, <1>7, ByOf
    <3>4. \A u \in Tasks \ {h} : By(store')[u] \cap Tasks \subseteq By(store)[u]
      BY <3>3
    <3> DEFINE by == By(store)
               by2 == By(store')
               T == Tasks
    <3>5. /\ Acyclic(by, T) /\ T \in SUBSET T /\ \A u \in T : h \notin by2[u]
          /\ \A u \in T \ {h} : by2[u] \cap T \subseteq by[u]
      BY <1>4, <3>2, <3>4 DEF Sane
    <3> HIDE DEF by, by2, T
    <3>6. Acyclic(by2, T)
      BY <3>5, NewTaskAtEnd
    <3> QED
      BY <1>1, <3>1, <3>6 DEF Sane, by2, T
  <2> QED
    BY <2>1, <2>2
<1>9. Held(job, store')
  <2>1. \A j \in Jobs : job[j] # None => job[j].task \in Known(store) /\ job[j].task # h
    BY <1>4, <1>5 DEF JobsInv
  <2> QED
    BY <1>4, <1>7, <2>1 DEF Held
<1>10. loop.pc \in Busy => Ahead(loop.snap, store')
  BY <1>4, <1>5, <1>7 DEF Ahead
<1> QED
  BY <1>1, <1>2, <1>4, <1>6, <1>8, <1>9, <1>10 DEF CalmInv

\* A request has decided on a task to write.
LEMMA WriteCalm ==
  ASSUME TypesInv, CalmInv, UNCHANGED <<store, job, loop>>, api'.pc = "write",
         NEW t \in Tasks, NEW rec \in TaskRec, api'.writes = Write(t, rec),
         t \in Known(store) => /\ rec.by \subseteq store[t].by /\ store[t].status # "ready"
                               /\ \A j \in Jobs : job[j] # None => job[j].task # t,
         t \notin Known(store) => rec.by \subseteq Known(store)
  PROVE  CalmInv'
<1>1. DOMAIN api'.writes = {1} /\ api'.writes[1] = [task |-> t, rec |-> rec]
  BY WriteOne
<1>2. Pending(api'.writes, store, job)
  BY <1>1 DEF Pending
<1> QED
  BY <1>2 DEF CalmInv

\* A transition to ready, in a calm world.
LEMMA QueueCalm ==
  ASSUME TypesInv, CalmInv, Calm, NEW t \in Tasks, Queue(t)
  PROVE  CalmInv'
<1>1. /\ t \in Known(store) /\ store[t].status # "ready"
      /\ \A j \in Jobs : job[j] # None => job[j].task # t
  BY DEF Queue, Calm, Has, Known, Live
<1>2. PICK rec \in TaskRec :
        api'.pc = "write" /\ api'.writes = Write(t, rec) /\ rec.by = store[t].by
  BY QueueTypes DEF TypesInv
<1>3. UNCHANGED <<store, job, loop>>
  BY DEF Queue
<1> QED
  BY <1>1, <1>2, <1>3, WriteCalm

\* A new task.
LEMMA CreateCalm ==
  ASSUME TypesInv, CalmInv, Create
  PROVE  CalmInv'
<1>1. PICK t \in Tasks \ Known(store), rec \in TaskRec :
        api'.writes = Write(t, rec) /\ rec.by \subseteq Known(store)
  BY CreateTypes
<1>2. api'.pc = "write"
  BY CreateTypes
<1>3. UNCHANGED <<store, job, loop>>
  BY DEF Create
<1> QED
  BY <1>1, <1>2, <1>3, WriteCalm

\* The first board has no cycles.
LEMMA InitCalm ==
  ASSUME Init
  PROVE  CalmInv
<1>1. PICK by \in [world.there -> SUBSET world.there] :
        /\ Acyclic(by, world.there)
        /\ \A t \in world.there :
             /\ store[t].by = by[t] /\ store[t].status \in {"backlog", "in_progress"}
  BY FirstBoard
<1>2. /\ Known(store) = world.there /\ world.there \subseteq Tasks
      /\ \A j \in Jobs : job[j] # None =>
           job[j].task \in world.there /\ job[j].rec = store[job[j].task]
      /\ \A j \in Jobs : \A k \in Jobs \ {j} :
           job[j] # None /\ job[k] # None => job[j].task # job[k].task
  BY FirstBoard
<1>3. api.pc = "idle" /\ api.writes = <<>> /\ loop.pc = "tick"
  BY DEF Init, Idle
<1>4. Acyclic(By(store), Tasks)
  <2> SUFFICES ASSUME NEW S \in SUBSET Tasks, Stuck(By(store), S) PROVE S = {}
    BY DEF Acyclic
  <2>1. \A t \in S : t \in world.there /\ by[t] \cap S # {}
    BY <1>1, <1>2, ByOf DEF Stuck
  <2> QED
    BY <1>1, <2>1 DEF Acyclic, Stuck
<1>5. Sane(store)
  BY <1>1, <1>2, <1>4 DEF Sane
<1>6. Held(job, store)
  BY <1>1, <1>2 DEF Held
<1>7. Pending(api.writes, store, job)
  BY <1>3 DEF Pending
<1> QED
  BY <1>3, <1>5, <1>6, <1>7 DEF CalmInv, Busy

\* Every step of a calm world.
LEMMA CalmStays ==
  ASSUME TypesInv, CalmInv, Calm, [Next]_vars
  PROVE  CalmInv'
<1>1. /\ api.pc \in {"idle", "write"}
      /\ world.ops \cap {"requeue", "run", "add", "remove", "reset", "patch", "analyze",
                         "import", "generate"} = {}
  BY DEF CalmInv, Calm
<1>2. CASE LoopStep
  <2>1. CASE LoopAnalyse
    <3>1. UNCHANGED <<store, job, api>>
      BY <2>1 DEF LoopAnalyse
    <3>2. CASE Marked(loop, loop', "claim")
      <4>1. loop'.pc \notin Busy
        BY <3>2 DEF Marked, Idle, Busy
      <4> QED
        BY <3>1, <4>1, LoopOnly
    <3> QED
      BY <2>1, <3>1, <3>2, GatherCalm, QuietCalm, ApplyCalm, MarkCalm DEF LoopAnalyse, Analyse
  <2>2. CASE LoopPass
    <3>1. loop'.pc \notin Busy /\ UNCHANGED <<store, job, api>>
      BY <2>2 DEF LoopPass, Idle, Busy
    <3> QED
      BY <3>1, LoopOnly
  <2> QED
    BY <1>2, <2>1, <2>2, LoopFlushCalm, ClaimCalm DEF LoopStep
<1>3. CASE ApiStep
  <2>1. CASE ApiEnd
    <3>1. Pending(api'.writes, store', job') /\ api'.pc = "idle"
      BY <2>1 DEF ApiEnd, Idle, Pending
    <3> QED
      BY <2>1, <3>1 DEF ApiEnd, CalmInv
  <2>2. ~ApiAnalyse
    BY <1>1 DEF ApiAnalyse, Analyse, Ask, Apply, Applied, Mark, Marked
  <2>3. /\ ~RunSubmit /\ ~RunReturn /\ ~RemoveFromBlocker /\ ~ResetBlocker /\ ~ResetTask
        /\ ~Import /\ ~PlanFails /\ ~MakeTasks /\ ~WireTask /\ ~WireBlocker /\ ~Wired /\ ~CloseParent
    BY <1>1 DEF RunSubmit, RunReturn, RemoveFromBlocker, ResetBlocker, ResetTask, Import,
       PlanFails, MakeTasks, WireTask, WireBlocker, Wired, CloseParent
  <2> QED
    BY <1>3, <2>1, <2>2, <2>3, ApiFlushCalm, CreateCalm DEF ApiStep
<1>4. ASSUME NEW j \in Jobs, JobWrite(j) \/ JobEnd(j)
      PROVE  CalmInv'
  BY <1>4, JobCalm, JobEndCalm
<1>5. ASSUME NEW t \in Tasks, Queue(t) \/ Run(t) \/ Patch(t) \/ Reset(t) \/ Generate(t)
      PROVE  CalmInv'
  BY <1>1, <1>5, QueueCalm DEF Run, Patch, Reset, Generate
<1>6. \A t, d \in Tasks : ~AddDependency(t, d) /\ ~RemoveDependency(t, d)
  BY <1>1 DEF AddDependency, RemoveDependency
<1>7. CASE UNCHANGED vars
  BY <1>7 DEF vars, CalmInv
<1> QED
  BY <1>2, <1>3, <1>4, <1>5, <1>6, <1>7 DEF Next

\* The surroundings stay as they are.
LEMMA WorldStays ==
  ASSUME [Next]_vars
  PROVE  world' = world
BY DEF Next, LoopStep, LoopAnalyse, LoopFlush, LoopClaim, LoopPass, ApiStep, ApiFlush, ApiEnd,
       RunSubmit, RunReturn, RemoveFromBlocker, ResetBlocker, ResetTask, ApiAnalyse, Create, Import,
       PlanFails, MakeTasks, WireTask, WireBlocker, Wired, CloseParent, JobWrite, JobEnd, Queue, Run,
       Patch, Reset, Generate, AddDependency, RemoveDependency, vars

\* In a calm world the board in the store and the one in memory stay calm.
THEOREM CalmThroughout == Spec => [](Calm => CalmInv)
<1>1. Init => (Calm => CalmInv)
  BY InitCalm
<1>2. TypesInv /\ (Calm => CalmInv) /\ [Next]_vars => (Calm => CalmInv)'
  <2> SUFFICES ASSUME TypesInv, Calm => CalmInv, [Next]_vars
               PROVE  Calm' => CalmInv'
    OBVIOUS
  <2>1. Calm' => Calm
    BY WorldStays DEF Calm
  <2> QED
    BY <2>1, CalmStays
<1> QED
  BY <1>1, <1>2, Whole, PTL DEF Spec

\* While none but the loop adds blockers to a task that is there, and no request
\* writes a task that has a job, no tasks wait for each other, whatever analyses
\* find and however tasks are made, queued, run and reopened meanwhile: for every
\* number of tasks, of jobs and of edges.
THEOREM NobodyWaits == Spec => []NobodyWaitsForItself
<1>1. (Calm => CalmInv) => NobodyWaitsForItself
  <2> SUFFICES ASSUME CalmInv PROVE Acyclic(By(store), Known(store))
    BY DEF Calm, NobodyWaitsForItself
  <2>1. Acyclic(By(store), Tasks)
    BY DEF CalmInv, Sane
  <2>2. Known(store) \in SUBSET Tasks
    BY DEF Known
  <2> QED
    BY <2>1, <2>2, FewerEdges
<1> QED
  BY <1>1, CalmThroughout, PTL

-----------------------------------------------------------------------------
(* What a PRD lists runs in that order.                                    *)

\* Where requests neither take dependencies away nor write tasks that they read
\* long before.
Forward == world.ops \cap {"remove", "reset", "patch", "analyze", "generate"} = {}

\* The objects of tasks that are about: in the store, in the loop's memory, with a
\* job, about to be written, or to be given to a job.
Copies ==
  {c \in Upsert :
     \/ store[c.task] = c.rec
     \/ loop.pc \in Busy /\ loop.snap[c.task] = c.rec
     \/ \E j \in Jobs : job[j] # None /\ job[j] = c
     \/ \E i \in DOMAIN api.writes : api.writes[i] = c
     \/ api.pc = "run" /\ api.task = c.task /\ api.snap = c.rec}

\* An upsert of t is among them.
Lists(writes, t) == \E i \in DOMAIN writes : writes[i].task = t

\* The tasks that are in the store, or will be when the request has been served.
There == {t \in Tasks : t \in Known(store) \/ Lists(api.writes, t)}

\* The tasks that a job has, or is about to get.
Taken ==
  {t \in Tasks : \/ \E j \in Jobs : job[j] # None /\ job[j].task = t
                 \/ api.pc = "run" /\ api.task = t}

\* Whoever waits for others of its import has p for a blocker, whichever copy is
\* written, and waits for nobody for whom p does not.
Link(t, p) ==
  /\ before[t] \subseteq before[p] \cup {p}
  /\ t \in There /\ p \in There
  /\ \A c \in Copies : c.task = t => p \in c.rec.by

Started(rec) == rec.status \in {"in_progress", "done"}

\* All that an import listed hangs together; what has started waits for nobody, and
\* nobody waits for what is done, in whichever copy.
OrderInv ==
  /\ \A t \in Tasks : before[t] # {} => \E p \in Tasks : Link(t, p)
  /\ \A c \in Copies : Started(c.rec) => before[c.task] = {}
  /\ \A c \in Copies : c.rec.status = "done" => \A u \in Tasks : c.task \notin before[u]
  /\ \A t \in Taken : before[t] = {}
  /\ api.pc \in {"idle", "write", "run", "await"}
  /\ api.pc \in {"idle", "await"} => api.writes = <<>>

\* A copy with the blockers of another, at least, and its status, or one that waits.
Heir(c) ==
  \E y \in Copies :
    /\ y.task = c.task /\ y.rec.by \subseteq c.rec.by
    /\ c.rec.status \in {"backlog", "ready", y.rec.status}

\* A copy that may be made when the tasks of gone have been done.
Allowed(c, gone) ==
  \/ Heir(c)
  \/ before[c.task] = {} /\ (c.rec.status = "done" => c.task \in gone)

\* A step that makes no other copies, and gives no job a task that waits.
LEMMA OrderKept ==
  ASSUME OrderInv, NEW gone, \A t \in Tasks : before'[t] = before[t] \ gone,
         There \subseteq There',
         \A c \in Copies' : Allowed(c, gone),
         \A t \in Taken' : before[t] = {},
         api'.pc \in {"idle", "write", "run", "await"},
         api'.pc \in {"idle", "await"} => api'.writes = <<>>
  PROVE  OrderInv'
<1>1. Copies \subseteq Upsert /\ Copies' \subseteq Upsert /\ Taken' \subseteq Tasks
  BY DEF Copies, Taken
<1>2. \A c \in Upsert : c.task \in Tasks
  BY DEF Upsert
<1>3. ASSUME NEW t \in Tasks, before'[t] # {}
      PROVE  \E p \in Tasks : Link(t, p)'
  <2>1. PICK p \in Tasks : Link(t, p)
    BY <1>3 DEF OrderInv
  <2>2. ASSUME NEW c \in Copies', c.task = t
        PROVE  p \in c.rec.by
    BY <1>3, <2>1, <2>2 DEF Allowed, Heir, Link
  <2>3. Link(t, p)'
    BY <2>1, <2>2 DEF Link
  <2> QED
    BY <2>3
<1>4. ASSUME NEW c \in Copies', Started(c.rec)
      PROVE  before'[c.task] = {}
  <2>1. c.task \in Tasks
    BY <1>1, <1>2
  <2>2. before[c.task] = {}
    <3>1. CASE Heir(c)
      <4>1. PICK y \in Copies : y.task = c.task /\ c.rec.status \in {"backlog", "ready", y.rec.status}
        BY <3>1 DEF Heir
      <4>2. Started(y.rec)
        BY <1>4, <4>1 DEF Started
      <4> QED
        BY <4>1, <4>2 DEF OrderInv
    <3> QED
      BY <3>1 DEF Allowed
  <2> QED
    BY <2>1, <2>2
<1>5. ASSUME NEW c \in Copies', c.rec.status = "done", NEW u \in Tasks
      PROVE  c.task \notin before'[u]
  <2>1. CASE Heir(c)
    <3>1. PICK y \in Copies : y.task = c.task /\ c.rec.status \in {"backlog", "ready", y.rec.status}
      BY <2>1 DEF Heir
    <3>2. y.rec.status = "done"
      BY <1>5, <3>1
    <3> QED
      BY <3>1, <3>2 DEF OrderInv
  <2>2. CASE c.task \in gone
    BY <2>2
  <2> QED
    BY <1>5, <2>1, <2>2 DEF Allowed
<1>6. \A t \in Taken' : before'[t] = {}
  BY <1>1
<1> QED
  BY <1>3, <1>4, <1>5, <1>6 DEF OrderInv

\* Of a task whose blockers are done, nothing that its import listed before it is
\* left to be done.
LEMMA FreeTask ==
  ASSUME TypesInv, OrderInv, NEW t \in Known(store), Blockers(t) = {}
  PROVE  before[t] = {}
<1> SUFFICES ASSUME before[t] # {} PROVE FALSE
  OBVIOUS
<1>1. t \in Tasks /\ store[t] \in TaskRec
  BY KnownIsTask DEF TypesInv, FilesInv, SoundBoard
<1>2. PICK p \in Tasks : Link(t, p)
  BY <1>1 DEF OrderInv
<1>3. [task |-> t, rec |-> store[t]] \in Copies
  BY <1>1 DEF Copies, Upsert
<1>4. p \in store[t].by
  BY <1>2, <1>3 DEF Link
<1>5. store[p] # None /\ store[p].status = "done"
  BY <1>4 DEF Blockers, Has
<1>6. store[p] \in TaskRec
  BY <1>5 DEF TypesInv, FilesInv, SoundBoard, Board
<1> DEFINE c == [task |-> p, rec |-> store[p]]
<1>7. c \in Copies /\ c.rec.status = "done" /\ c.task = p
  BY <1>5, <1>6 DEF Copies, Upsert
<1> HIDE DEF c
<1>8. before[p] = {} /\ p \notin before[t]
  BY <1>1, <1>7 DEF OrderInv, Started
<1> QED
  BY <1>2, <1>8 DEF Link

\* Every copy that was about may stay.
LEMMA OldCopies ==
  ASSUME NEW gone, NEW c \in Copies
  PROVE  Allowed(c, gone)
  BY DEF Allowed, Heir

\* The copies of the tasks in the store.
LEMMA StoreCopies ==
  ASSUME TypesInv, NEW t \in Known(store)
  PROVE  t \in Tasks /\ [task |-> t, rec |-> store[t]] \in Copies
<1>1. t \in Tasks /\ store[t] \in TaskRec
  BY KnownIsTask DEF TypesInv, FilesInv, SoundBoard
<1> QED
  BY <1>1 DEF Copies, Upsert

\* Only the loop has done something: it has in memory what it had, or the store, with
\* more edges.
LEMMA OrderLoop ==
  ASSUME OrderInv, UNCHANGED <<store, job, api, before>>,
         loop'.pc \in Busy => loop'.snap \in Board,
         loop'.pc \in Busy => \A t \in Known(loop'.snap) : \E y \in Copies :
           /\ y.task = t /\ y.rec.by \subseteq loop'.snap[t].by
           /\ y.rec.status = loop'.snap[t].status
  PROVE  OrderInv'
<1>1. There' = There /\ Taken' = Taken
  BY DEF There, Taken
<1>2. ASSUME NEW c \in Copies'
      PROVE  Allowed(c, {})
  <2>1. CASE loop'.pc \in Busy /\ loop'.snap[c.task] = c.rec
    <3>1. c \in Upsert /\ c.task \in Tasks /\ c.rec \in TaskRec
      BY DEF Copies, Upsert
    <3>2. c.task \in Known(loop'.snap)
      BY <2>1, <3>1, DependenciesAssumption DEF Known
    <3> QED
      BY <2>1, <3>2 DEF Allowed, Heir
  <2>2. CASE c \in Copies
    BY <2>2, OldCopies
  <2> QED
    BY <2>1, <2>2 DEF Copies
<1>3. \A t \in Taken' : before[t] = {}
  BY <1>1 DEF OrderInv
<1>4. \A t \in Tasks : before'[t] = before[t] \ {}
  OBVIOUS
<1>5. /\ api'.pc \in {"idle", "write", "run", "await"}
      /\ api'.pc \in {"idle", "await"} => api'.writes = <<>>
  BY DEF OrderInv
<1> QED
  BY <1>1, <1>2, <1>3, <1>4, <1>5, OrderKept

\* What the loop has in memory is a copy.
LEMMA SnapCopies ==
  ASSUME TypesInv, loop.pc \in Busy, NEW t \in Known(loop.snap)
  PROVE  t \in Tasks /\ loop.snap[t] \in TaskRec /\ [task |-> t, rec |-> loop.snap[t]] \in Copies
<1>1. loop.snap \in Board
  BY DEF TypesInv, LoopInv, ThreadInv, SoundBoard
<1>2. t \in Tasks /\ loop.snap[t] \in TaskRec
  BY <1>1, KnownIsTask
<1> QED
  BY <1>2 DEF Copies, Upsert

\* The loop's own steps.
LEMMA OrderAnalyse ==
  ASSUME TypesInv, OrderInv, LoopAnalyse
  PROVE  OrderInv'
<1>1. UNCHANGED <<store, job, api, before>> /\ ThreadInv(loop, store) /\ FilesInv
  BY DEF LoopAnalyse, TypesInv, LoopInv, history
<1>2. CASE Gather(loop, loop', "tick")
  <2>1. loop'.snap = store /\ store \in Board
    BY <1>1, <1>2, GatherThread DEF FilesInv, SoundBoard
  <2>2. ASSUME NEW t \in Known(store)
        PROVE  \E y \in Copies : /\ y.task = t /\ y.rec.by \subseteq store[t].by
                                 /\ y.rec.status = store[t].status
    BY StoreCopies
  <2> QED
    BY <1>1, <2>1, <2>2, OrderLoop
<1>3. ASSUME loop.pc \in Busy, loop'.snap = loop.snap
      PROVE  OrderInv'
  <2>1. loop.snap \in Board
    BY <1>1, <1>3 DEF ThreadInv, SoundBoard
  <2>2. ASSUME NEW t \in Known(loop.snap)
        PROVE  \E y \in Copies : /\ y.task = t /\ y.rec.by \subseteq loop.snap[t].by
                                 /\ y.rec.status = loop.snap[t].status
    BY <1>3, SnapCopies
  <2> QED
    BY <1>1, <1>3, <2>1, <2>2, OrderLoop
<1>4. CASE Ask(loop, loop') \/ Applied(loop, loop')
  BY <1>1, <1>3, <1>4, QuietEffect DEF Busy
<1>5. CASE Mark(loop, loop')
  BY <1>1, <1>3, <1>5, MarkEffect DEF Busy
<1>6. CASE Apply(loop, loop')
  <2> DEFINE snap == loop.snap
             next == loop'.snap
             writes == loop'.writes
  <2>1. /\ loop.pc \in Busy /\ Known(next) = Known(snap) /\ next \in Board
        /\ (writes = <<>> /\ next = snap) \/ EdgeAdded(snap, next, writes)
    BY <1>1, <1>6, ApplyEffect DEF Busy, ThreadInv, SoundBoard
  <2> HIDE DEF next, writes
  <2>2. \A u \in Known(snap) : snap[u].by \subseteq next[u].by /\ next[u].status = snap[u].status
    BY <2>1 DEF EdgeAdded, Known
  <2>3. ASSUME NEW t \in Known(next)
        PROVE  \E y \in Copies : /\ y.task = t /\ y.rec.by \subseteq next[t].by
                                 /\ y.rec.status = next[t].status
    <3>1. [task |-> t, rec |-> snap[t]] \in Copies /\ t \in Known(snap)
      BY <2>1, <2>3, SnapCopies
    <3>2. snap[t].by \subseteq next[t].by /\ next[t].status = snap[t].status
      BY <2>2, <3>1
    <3> QED
      BY <3>1, <3>2
  <2> QED
    BY <1>1, <2>1, <2>3, OrderLoop DEF next
<1>7. CASE Marked(loop, loop', "claim")
  <2>1. loop'.pc \notin Busy
    BY <1>7 DEF Marked, Idle, Busy
  <2> QED
    BY <1>1, <2>1, OrderLoop
<1> QED
  BY <1>2, <1>4, <1>5, <1>6, <1>7 DEF LoopAnalyse, Analyse

\* The loop writes back only what it has in memory, whatever others do.
MemoryInv == loop.pc \in Busy => WritesBack(loop.writes, loop.snap)

LEMMA MemoryStays ==
  ASSUME TypesInv, MemoryInv, [Next]_vars
  PROVE  MemoryInv'
<1>1. CASE loop' = loop
  BY <1>1 DEF MemoryInv
<1>2. ASSUME loop'.writes = <<>>
      PROVE  MemoryInv'
  BY <1>2 DEF MemoryInv, WritesBack
<1>3. CASE LoopAnalyse
  <2>1. ThreadInv(loop, store) /\ FilesInv
    BY DEF TypesInv, LoopInv
  <2>2. CASE Gather(loop, loop', "tick")
    BY <1>2, <2>1, <2>2, GatherThread
  <2>3. CASE Ask(loop, loop') \/ Applied(loop, loop')
    <3>1. loop.pc \in Busy /\ loop'.writes = loop.writes /\ loop'.snap = loop.snap
      BY <2>1, <2>3, QuietEffect DEF Busy
    <3> QED
      BY <3>1 DEF MemoryInv
  <2>4. CASE Mark(loop, loop')
    <3>1. loop'.snap = loop.snap /\ \E t \in Known(loop.snap) : \E rec \in TaskRec :
            /\ loop'.writes = Write(t, rec)
            /\ rec.by = loop.snap[t].by /\ rec.status = loop.snap[t].status
      BY <2>1, <2>4, MarkEffect
    <3>2. PICK t \in Known(loop.snap), rec \in TaskRec :
            /\ loop'.writes = Write(t, rec)
            /\ rec.by = loop.snap[t].by /\ rec.status = loop.snap[t].status
      BY <3>1
    <3>3. t \in Tasks /\ rec \in TaskRec
      BY <3>2 DEF Known
    <3>4. DOMAIN loop'.writes = {1} /\ loop'.writes[1] = [task |-> t, rec |-> rec]
      BY <3>2, <3>3, WriteOne
    <3> QED
      BY <3>1, <3>2, <3>4 DEF MemoryInv, WritesBack
  <2>5. CASE Apply(loop, loop')
    <3>1. /\ Known(loop'.snap) = Known(loop.snap)
          /\ loop'.writes = <<>> \/ EdgeAdded(loop.snap, loop'.snap, loop'.writes)
      BY <2>1, <2>5, ApplyEffect
    <3>2. CASE EdgeAdded(loop.snap, loop'.snap, loop'.writes)
      BY <3>1, <3>2 DEF EdgeAdded, MemoryInv, WritesBack
    <3> QED
      BY <1>2, <3>1, <3>2
  <2>6. CASE Marked(loop, loop', "claim")
    BY <1>2, <2>6 DEF Marked, Idle
  <2> QED
    BY <1>3, <2>2, <2>3, <2>4, <2>5, <2>6 DEF LoopAnalyse, Analyse
<1>4. CASE LoopFlush
  <2>1. loop'.pc = loop.pc /\ loop'.snap = loop.snap /\ WritesBack(loop'.writes, loop.snap)
    BY <1>4, LoopFlushEffect DEF MemoryInv
  <2> QED
    BY <2>1 DEF MemoryInv
<1>5. CASE LoopClaim \/ LoopPass
  BY <1>2, <1>5 DEF LoopClaim, LoopPass, Idle
<1>6. CASE ApiStep
  BY <1>1, <1>6 DEF ApiStep, ApiFlush, ApiEnd, RunSubmit, RunReturn, RemoveFromBlocker, ResetBlocker,
     ResetTask, ApiAnalyse, Create, Import, PlanFails, MakeTasks, WireTask, WireBlocker, Wired,
     CloseParent
<1>7. ASSUME NEW t \in Tasks, NEW d \in Tasks,
             Queue(t) \/ Run(t) \/ Patch(t) \/ Reset(t) \/ Generate(t)
             \/ AddDependency(t, d) \/ RemoveDependency(t, d)
      PROVE  MemoryInv'
  BY <1>1, <1>7 DEF Queue, Run, Patch, Reset, Generate, AddDependency, RemoveDependency
<1>8. ASSUME NEW j \in Jobs, JobWrite(j) \/ JobEnd(j)
      PROVE  MemoryInv'
  BY <1>1, <1>8 DEF JobWrite, JobEnd
<1>9. CASE UNCHANGED vars
  BY <1>1, <1>9 DEF vars
<1> QED
  BY <1>3, <1>4, <1>5, <1>6, <1>7, <1>8, <1>9 DEF Next, LoopStep

\* The loop writes a task back as it has it in memory.
LEMMA OrderLoopFlush ==
  ASSUME TypesInv, MemoryInv, OrderInv, LoopFlush
  PROVE  OrderInv'
<1>1. /\ loop.pc \in Busy /\ loop'.pc = loop.pc /\ loop'.snap = loop.snap
      /\ Known(store') = Known(store) /\ UNCHANGED <<job, api, before>>
  BY LoopFlushEffect DEF MemoryInv
<1>2. PICK h \in Known(loop.snap), rec \in TaskRec :
        /\ rec.by = loop.snap[h].by /\ rec.status = loop.snap[h].status
        /\ \A u \in Tasks : store'[u] = IF u = h THEN rec ELSE store[u]
  BY LoopFlushEffect DEF MemoryInv
<1>3. There' = There /\ Taken' = Taken
  BY <1>1 DEF There, Taken
<1>4. ASSUME NEW c \in Copies'
      PROVE  Allowed(c, {})
  <2>1. CASE c \in Copies
    BY <2>1, OldCopies
  <2>2. CASE c \notin Copies
    <3>1. c \in Upsert /\ c.task \in Tasks
      BY DEF Copies, Upsert
    <3>2. c.task = h /\ c.rec = rec
      BY <1>1, <1>2, <2>2, <3>1 DEF Copies
    <3>3. [task |-> h, rec |-> loop.snap[h]] \in Copies
      BY <1>1, <1>2, SnapCopies
    <3> QED
      BY <1>2, <3>2, <3>3 DEF Allowed, Heir
  <2> QED
    BY <2>1, <2>2
<1>5. \A t \in Taken' : before[t] = {}
  BY <1>3 DEF OrderInv
<1>6. \A t \in Tasks : before'[t] = before[t] \ {}
  BY <1>1
<1>7. /\ api'.pc \in {"idle", "write", "run", "await"}
      /\ api'.pc \in {"idle", "await"} => api'.writes = <<>>
  BY <1>1 DEF OrderInv
<1> QED
  BY <1>3, <1>4, <1>5, <1>6, <1>7, OrderKept

\* A claim is of a task whose blockers are done.
LEMMA OrderClaim ==
  ASSUME TypesInv, OrderInv, LoopClaim
  PROVE  OrderInv'
<1>1. PICK t \in Known(store), j \in Jobs, rec \in TaskRec :
        /\ Runnable(t) /\ rec.status = "in_progress"
        /\ \A u \in Tasks : store'[u] = IF u = t THEN rec ELSE store[u]
        /\ \A k \in Jobs : job'[k] = IF k = j THEN [task |-> t, rec |-> rec] ELSE job[k]
  BY ClaimEffect DEF TypesInv
<1>2. /\ Known(store') = Known(store) /\ UNCHANGED <<api, before>> /\ loop'.pc \notin Busy
  BY ClaimEffect DEF TypesInv, LoopClaim, Idle, Busy, history
<1>3. before[t] = {} /\ t \in Tasks
  BY <1>1, FreeTask, StoreCopies DEF Runnable
<1>4. There' = There
  BY <1>2 DEF There
<1>5. ASSUME NEW c \in Copies'
      PROVE  Allowed(c, {})
  <2>1. CASE c \in Copies
    BY <2>1, OldCopies
  <2>2. CASE c \notin Copies
    <3>1. c \in Upsert /\ c.task \in Tasks
      BY DEF Copies, Upsert
    <3>2. c.task = t /\ c.rec = rec
      BY <1>1, <1>2, <2>2, <3>1 DEF Copies
    <3> QED
      BY <1>1, <1>3, <3>2 DEF Allowed
  <2> QED
    BY <2>1, <2>2
<1>6. ASSUME NEW u \in Taken'
      PROVE  before[u] = {}
  <2>1. u = t \/ u \in Taken
    BY <1>1, <1>2 DEF Taken
  <2> QED
    BY <1>3, <2>1 DEF OrderInv
<1>7. \A u \in Tasks : before'[u] = before[u] \ {}
  BY <1>2
<1>8. /\ api'.pc \in {"idle", "write", "run", "await"}
      /\ api'.pc \in {"idle", "await"} => api'.writes = <<>>
  BY <1>2 DEF OrderInv
<1> QED
  BY <1>4, <1>5, <1>6, <1>7, <1>8, OrderKept

\* A job's task waits for nobody; when it has been done, nobody waits for it.
LEMMA OrderJob ==
  ASSUME TypesInv, OrderInv, NEW j \in Jobs, JobWrite(j)
  PROVE  OrderInv'
<1> DEFINE t == job[j].task
<1>1. PICK rec \in TaskRec :
        /\ rec.by = job[j].rec.by
        /\ \A u \in Tasks : store'[u] = IF u = job[j].task THEN rec ELSE store[u]
        /\ \A k \in Jobs : job'[k] = IF k = j THEN [task |-> job[j].task, rec |-> rec] ELSE job[k]
        /\ \A u \in Tasks : before'[u] = IF rec.status = "done" THEN before[u] \ {job[j].task}
                                         ELSE before[u]
  BY JobEffect DEF TypesInv
<1>2. /\ Known(store') = Known(store) /\ UNCHANGED <<loop, api>>
      /\ job[j] # None /\ t \in Known(store) /\ t \in Tasks
  BY JobEffect DEF TypesInv, JobWrite, Known
<1>3. /\ \A u \in Tasks : store'[u] = IF u = t THEN rec ELSE store[u]
      /\ \A k \in Jobs : job'[k] = IF k = j THEN [task |-> t, rec |-> rec] ELSE job[k]
  BY <1>1
<1>4. t \in Taken
  BY <1>2 DEF Taken
<1> HIDE DEF t
<1>5. before[t] = {}
  BY <1>4 DEF OrderInv
<1>6. There' = There
  BY <1>2 DEF There
<1> DEFINE gone == IF rec.status = "done" THEN {t} ELSE {}
<1>7. ASSUME NEW c \in Copies'
      PROVE  Allowed(c, gone)
  <2>1. CASE c \in Copies
    BY <2>1, OldCopies
  <2>2. CASE c \notin Copies
    <3>1. c \in Upsert /\ c.task \in Tasks
      BY DEF Copies, Upsert
    <3>2. c.task = t /\ c.rec = rec
      BY <1>2, <1>3, <2>2, <3>1 DEF Copies
    <3> QED
      BY <1>5, <3>2 DEF Allowed
  <2> QED
    BY <2>1, <2>2
<1>8. ASSUME NEW u \in Taken'
      PROVE  before[u] = {}
  <2>1. u = t \/ u \in Taken
    BY <1>2, <1>3 DEF Taken
  <2> QED
    BY <1>5, <2>1 DEF OrderInv
<1>9. \A u \in Tasks : before'[u] = before[u] \ gone
  BY <1>1 DEF t
<1>10. /\ api'.pc \in {"idle", "write", "run", "await"}
       /\ api'.pc \in {"idle", "await"} => api'.writes = <<>>
  BY <1>2 DEF OrderInv
<1> HIDE DEF gone
<1> QED
  BY <1>6, <1>7, <1>8, <1>9, <1>10, OrderKept

\* A step after which there are fewer copies.
LEMMA OrderFewer ==
  ASSUME OrderInv, before' = before, There \subseteq There', Copies' \subseteq Copies,
         Taken' \subseteq Taken, api'.pc \in {"idle", "write", "run", "await"},
         api'.pc \in {"idle", "await"} => api'.writes = <<>>
  PROVE  OrderInv'
<1>1. \A c \in Copies' : Allowed(c, {})
  BY OldCopies
<1>2. \A t \in Taken' : before[t] = {}
  BY DEF OrderInv
<1>3. \A t \in Tasks : before'[t] = before[t] \ {}
  OBVIOUS
<1> QED
  BY <1>1, <1>2, <1>3, OrderKept

\* A job is over.
LEMMA OrderJobEnd ==
  ASSUME TypesInv, OrderInv, NEW j \in Jobs, JobEnd(j)
  PROVE  OrderInv'
<1>1. /\ \A k \in Jobs : job'[k] = IF k = j THEN None ELSE job[k]
      /\ UNCHANGED <<store, loop, api, before>>
  BY JobEndEffect DEF TypesInv, JobEnd, history
<1>2. Copies' \subseteq Copies
  BY <1>1 DEF Copies
<1>3. Taken' \subseteq Taken /\ There' = There
  BY <1>1 DEF Taken, There
<1> QED
  BY <1>1, <1>2, <1>3, OrderFewer DEF OrderInv

\* A request makes its next upsert.
LEMMA OrderFlush ==
  ASSUME TypesInv, OrderInv, ApiFlush
  PROVE  OrderInv'
<1> DEFINE w == api.writes
           h == w[1].task
           rec == w[1].rec
           rest == Tail(w)
<1>1. /\ Known(store') = Known(store) \cup {Head(w).task} /\ Head(w).task \in Tasks
      /\ \A u \in Tasks : store'[u] = IF u = Head(w).task THEN Head(w).rec ELSE store[u]
      /\ w \in Seq(Upsert) /\ w # <<>> /\ api'.writes = rest
      /\ api'.pc = api.pc /\ api'.snap = api.snap /\ api'.task = api.task
  BY Flushed DEF ApiFlush, TypesInv, ApiInv
<1>2. /\ Head(w) = w[1] /\ 1 \in DOMAIN w /\ DOMAIN w = 1..Len(w) /\ Len(w) \in Nat \ {0}
      /\ DOMAIN rest = 1..(Len(w) - 1) /\ w[1] \in Upsert
      /\ \A i \in DOMAIN rest : i + 1 \in DOMAIN w /\ rest[i] = w[i + 1]
  BY <1>1, TailOf
<1>3. /\ h \in Tasks /\ Known(store') = Known(store) \cup {h}
      /\ \A u \in Tasks : store'[u] = IF u = h THEN rec ELSE store[u]
  BY <1>1, <1>2
<1>4. UNCHANGED <<job, loop, before>>
  BY DEF ApiFlush
<1>5. api'.writes = rest /\ api.writes = w
  BY <1>1
<1> HIDE DEF w, rest
<1>6. ASSUME NEW c \in Copies'
      PROVE  c \in Copies
  <2>1. c \in Upsert /\ c.task \in Tasks
    BY DEF Copies, Upsert
  <2>2. CASE store'[c.task] = c.rec
    <3>1. CASE c.task = h
      <4>1. c.rec = rec
        BY <1>3, <2>2, <3>1
      <4>2. c = w[1]
        BY <1>2, <2>1, <3>1, <4>1 DEF Upsert
      <4> QED
        BY <1>2, <1>5, <2>1, <4>2 DEF Copies
    <3>2. CASE c.task # h
      <4>1. store[c.task] = c.rec
        BY <1>3, <2>1, <2>2, <3>2
      <4> QED
        BY <2>1, <4>1 DEF Copies
    <3> QED
      BY <3>1, <3>2
  <2>3. CASE \E i \in DOMAIN api'.writes : api'.writes[i] = c
    <3>1. \E i \in DOMAIN w : w[i] = c
      BY <1>2, <1>5, <2>3
    <3> QED
      BY <1>5, <2>1, <3>1 DEF Copies
  <2> QED
    BY <1>1, <1>4, <2>2, <2>3 DEF Copies
<1>7. ASSUME NEW t \in There
      PROVE  t \in There'
  <2>1. t \in Tasks
    BY DEF There
  <2>2. CASE t \in Known(store)
    BY <1>3, <2>1, <2>2 DEF There
  <2>3. ASSUME NEW i \in DOMAIN w, w[i].task = t
        PROVE  t \in There'
    <3>1. CASE i = 1
      BY <1>3, <2>1, <2>3, <3>1 DEF There
    <3>2. CASE i # 1
      <4>1. i - 1 \in DOMAIN rest /\ rest[i - 1] = w[(i - 1) + 1] /\ (i - 1) + 1 = i
        BY <1>2, <2>3, <3>2
      <4>2. Lists(api'.writes, t)
        BY <1>5, <2>3, <4>1 DEF Lists
      <4> QED
        BY <2>1, <4>2 DEF There
    <3> QED
      BY <3>1, <3>2
  <2> QED
    BY <1>5, <2>2, <2>3 DEF There, Lists
<1>8. Taken' \subseteq Taken
  BY <1>1, <1>4 DEF Taken
<1>9. api'.pc \in {"idle", "await"} => api'.writes = <<>>
  BY <1>1, <1>5 DEF OrderInv
<1> QED
  BY <1>1, <1>4, <1>6, <1>7, <1>8, <1>9, OrderFewer DEF OrderInv

\* A request is over, or waits for its job.
LEMMA OrderOver ==
  ASSUME TypesInv, OrderInv, ApiEnd \/ RunReturn
  PROVE  OrderInv'
<1>1. /\ UNCHANGED <<store, job, loop, before>> /\ api.writes = <<>>
      /\ api'.writes = <<>> /\ api'.pc = "idle"
  BY DEF ApiEnd, RunReturn, Idle, history, OrderInv
<1>2. Copies' \subseteq Copies
  BY <1>1 DEF Copies
<1>3. Taken' \subseteq Taken /\ There' = There
  BY <1>1 DEF Taken, There
<1> QED
  BY <1>1, <1>2, <1>3, OrderFewer

\* A request begins that has one or two upserts to make, of tasks that are in the
\* store, or of a new task.
LEMMA OrderRequest ==
  ASSUME TypesInv, OrderInv, api.writes = <<>>, UNCHANGED <<store, job, loop, before>>,
         api'.pc = "write",
         \A i \in DOMAIN api'.writes : Allowed(api'.writes[i], {})
  PROVE  OrderInv'
<1>1. ASSUME NEW c \in Copies'
      PROVE  Allowed(c, {})
  <2>1. CASE \E i \in DOMAIN api'.writes : api'.writes[i] = c
    BY <2>1
  <2>2. CASE c \in Copies
    BY <2>2, OldCopies
  <2> QED
    BY <2>1, <2>2 DEF Copies
<1>2. There \subseteq There'
  BY DEF There, Lists
<1>3. \A t \in Taken' : before[t] = {}
  BY DEF Taken, OrderInv
<1>4. \A t \in Tasks : before'[t] = before[t] \ {}
  OBVIOUS
<1> QED
  BY <1>1, <1>2, <1>3, <1>4, OrderKept

\* A retry or a transition.
LEMMA OrderQueue ==
  ASSUME TypesInv, OrderInv, NEW t \in Tasks, Queue(t)
  PROVE  OrderInv'
<1>1. PICK rec \in TaskRec :
        /\ api'.pc = "write" /\ api'.writes = Write(t, rec)
        /\ rec.status = "ready" /\ rec.by = store[t].by
  BY QueueTypes DEF TypesInv
<1>2. UNCHANGED <<store, job, loop, before>> /\ api.writes = <<>> /\ t \in Known(store)
  BY QueueTypes DEF Queue, history, TypesInv, ApiInv
<1>3. DOMAIN api'.writes = {1} /\ api'.writes[1] = [task |-> t, rec |-> rec]
  BY <1>1, WriteOne
<1>4. [task |-> t, rec |-> store[t]] \in Copies
  BY <1>2, StoreCopies
<1>5. Allowed([task |-> t, rec |-> rec], {})
  BY <1>1, <1>4 DEF Allowed, Heir
<1> QED
  BY <1>1, <1>2, <1>3, <1>5, OrderRequest

\* A dependency is added.
LEMMA OrderAdd ==
  ASSUME TypesInv, OrderInv, NEW t \in Tasks, NEW d \in Tasks, AddDependency(t, d)
  PROVE  OrderInv'
<1>0. FilesInv
  BY DEF TypesInv
<1>1. PICK rec, other \in TaskRec :
        /\ api'.writes[1] = [task |-> t, rec |-> rec]
        /\ api'.writes[2] = [task |-> d, rec |-> other]
        /\ rec.by = store[t].by \cup {d} /\ rec.blocks = store[t].blocks
        /\ other.by = store[d].by /\ other.blocks = store[d].blocks \cup {t}
        /\ rec.status = store[t].status /\ other.status = store[d].status
  BY <1>0, AddTypes
<1>2. /\ api'.pc = "write" /\ DOMAIN api'.writes = {1, 2}
      /\ t \in Known(store) /\ d \in Known(store)
  BY <1>0, AddTypes
<1>3. UNCHANGED <<store, job, loop, before>> /\ api.writes = <<>>
  BY DEF AddDependency, history, TypesInv, ApiInv
<1>4. [task |-> t, rec |-> store[t]] \in Copies /\ [task |-> d, rec |-> store[d]] \in Copies
  BY <1>2, StoreCopies
<1>5. Allowed([task |-> t, rec |-> rec], {})
  BY <1>1, <1>4 DEF Allowed, Heir
<1>6. Allowed([task |-> d, rec |-> other], {})
  BY <1>1, <1>4 DEF Allowed, Heir
<1> QED
  BY <1>1, <1>2, <1>3, <1>5, <1>6, OrderRequest

\* A task that was not there has not been listed.
LEMMA OrderCreate ==
  ASSUME TypesInv, OrderInv, Create
  PROVE  OrderInv'
<1>1. PICK t \in Tasks \ Known(store), rec \in TaskRec :
        api'.writes = Write(t, rec) /\ rec.status = "backlog"
  BY CreateTypes
<1>2. api'.pc = "write" /\ UNCHANGED <<store, job, loop, before>> /\ api.writes = <<>>
  BY CreateTypes DEF Create, history, TypesInv, ApiInv
<1>3. t \in Tasks /\ t \notin There
  BY <1>1, <1>2 DEF There, Lists
<1>4. before[t] = {}
  BY <1>3 DEF OrderInv, Link
<1>5. DOMAIN api'.writes = {1} /\ api'.writes[1] = [task |-> t, rec |-> rec]
  BY <1>1, <1>3, WriteOne
<1>6. Allowed([task |-> t, rec |-> rec], {})
  BY <1>1, <1>4 DEF Allowed
<1> QED
  BY <1>2, <1>5, <1>6, OrderRequest

\* A task is about to run, and then is given to a job.
LEMMA OrderRun ==
  ASSUME TypesInv, OrderInv, NEW t \in Tasks, Run(t)
  PROVE  OrderInv'
<1>1. /\ t \in Known(store) /\ api'.pc = "run" /\ api'.task = t
      /\ api'.snap \in TaskRec /\ api'.snap.status = "ready" /\ api'.snap.by = store[t].by
      /\ api'.writes = Write(t, api'.snap)
  BY RunTypes DEF TypesInv
<1>2. UNCHANGED <<store, job, loop, before>> /\ api.writes = <<>> /\ Blockers(t) = {}
  BY DEF Run, history, TypesInv, ApiInv
<1> DEFINE c == [task |-> t, rec |-> api'.snap]
<1>3. /\ DOMAIN api'.writes = {1} /\ api'.writes[1] = c
      /\ c.task = t /\ c.rec = api'.snap /\ c \in Upsert
  BY <1>1, WriteOne DEF Upsert
<1>4. before[t] = {} /\ [task |-> t, rec |-> store[t]] \in Copies
  BY <1>1, <1>2, FreeTask, StoreCopies
<1> HIDE DEF c
<1>5. ASSUME NEW e \in Copies'
      PROVE  Allowed(e, {})
  <2>1. CASE e = c
    BY <1>1, <1>3, <1>4, <2>1 DEF Allowed
  <2>2. CASE e \in Copies
    BY <2>2, OldCopies
  <2>3. e \in Upsert
    BY DEF Copies
  <2>4. e = c \/ e \in Copies
    <3>1. CASE api'.pc = "run" /\ api'.task = e.task /\ api'.snap = e.rec
      BY <1>1, <1>3, <2>3, <3>1 DEF Upsert
    <3>2. CASE \E i \in DOMAIN api'.writes : api'.writes[i] = e
      BY <1>3, <3>2
    <3> QED
      BY <1>2, <3>1, <3>2 DEF Copies
  <2> QED
    BY <2>1, <2>2, <2>4
<1>6. There \subseteq There'
  BY <1>2 DEF There, Lists
<1>7. ASSUME NEW u \in Taken'
      PROVE  before[u] = {}
  <2>1. u = t \/ u \in Taken
    BY <1>1, <1>2 DEF Taken
  <2> QED
    BY <1>4, <2>1 DEF OrderInv
<1>8. \A u \in Tasks : before'[u] = before[u] \ {}
  BY <1>2
<1> QED
  BY <1>1, <1>5, <1>6, <1>7, <1>8, OrderKept

LEMMA OrderSubmit ==
  ASSUME TypesInv, OrderInv, RunSubmit
  PROVE  OrderInv'
<1>1. /\ api'.pc = "await" /\ api'.writes = <<>>
      /\ api.task \in Known(store) /\ api.snap \in TaskRec
  BY RunSubmitTypes
<1>2. PICK j \in Jobs :
        \A k \in Jobs : job'[k] = IF k = j THEN [task |-> api.task, rec |-> api.snap] ELSE job[k]
  BY RunSubmitTypes
<1>3. UNCHANGED <<store, loop, before>> /\ api.writes = <<>> /\ api.pc = "run"
  BY DEF RunSubmit, history
<1> DEFINE t == api.task
           c == [task |-> t, rec |-> api.snap]
<1>4. t \in Tasks /\ c \in Upsert /\ c.task = t /\ c.rec = api.snap
  BY <1>1 DEF Known, Upsert
<1>5. \A k \in Jobs : job'[k] = IF k = j THEN c ELSE job[k]
  BY <1>2
<1>6. api.task = t /\ t \in Taken
  BY <1>3, <1>4 DEF Taken
<1> HIDE DEF t, c
<1>7. c \in Copies
  BY <1>3, <1>4, <1>6 DEF Copies
<1>8. Copies' \subseteq Copies
  BY <1>1, <1>3, <1>5, <1>7 DEF Copies
<1>9. Taken' \subseteq Taken
  BY <1>1, <1>4, <1>5, <1>6 DEF Taken
<1>10. There' = There
  BY <1>1, <1>3 DEF There, Lists
<1> QED
  BY <1>1, <1>3, <1>8, <1>9, <1>10, OrderFewer

\* What an import lists before its k-th task.
LEMMA BeforeOf ==
  ASSUME NEW n \in Nat \ {0}, NEW s \in News(n), NEW old \in [Tasks -> SUBSET Tasks]
  PROVE  LET new == Listed(s, n, old) IN
         /\ \A t \in Tasks : (\A k \in 1..n : s[k] # t) => new[t] = old[t]
         /\ new[s[1]] = {}
         /\ \A k \in 2..n : k - 1 \in 1..n /\ new[s[k]] = new[s[k - 1]] \cup {s[k - 1]}
<1> DEFINE new == Listed(s, n, old)
<1>1. \A k \in 1..n : s[k] \in Tasks
  BY NewsOf
<1>2. \A i, k \in 1..n : s[i] = s[k] => i = k
  BY NewsOf
<1>3. ASSUME NEW k \in 1..n
      PROVE  new[s[k]] = {s[i] : i \in 1..(k - 1)}
  <2>1. new[s[k]] = {s[i] : i \in {i \in 1..n : \E j \in (i+1)..n : s[j] = s[k]}}
    BY <1>1, <1>3 DEF Listed
  <2>2. \A i \in 1..n : (\E j \in (i+1)..n : s[j] = s[k]) <=> i \in 1..(k - 1)
    <3> TAKE i \in 1..n
    <3>1. ASSUME NEW j \in (i+1)..n, s[j] = s[k]
          PROVE  i \in 1..(k - 1)
      <4>1. j \in 1..n
        OBVIOUS
      <4>2. j = k
        BY <1>2, <3>1, <4>1
      <4> QED
        BY <4>2
    <3>2. ASSUME i \in 1..(k - 1)
          PROVE  k \in (i+1)..n
      BY <3>2
    <3> QED
      BY <3>1, <3>2
  <2>3. {i \in 1..n : \E j \in (i+1)..n : s[j] = s[k]} = 1..(k - 1)
    BY <2>2
  <2> QED
    BY <2>1, <2>3
<1>4. \A t \in Tasks : (\A k \in 1..n : s[k] # t) => new[t] = old[t]
  BY DEF Listed
<1> HIDE DEF new
<1>6. new[s[1]] = {}
  <2>1. 1 \in 1..n /\ 1..(1 - 1) = {}
    OBVIOUS
  <2> QED
    BY <1>3, <2>1
<1>5. ASSUME NEW k \in 2..n
      PROVE  k - 1 \in 1..n /\ new[s[k]] = new[s[k - 1]] \cup {s[k - 1]}
  <2>1. k \in 1..n /\ k - 1 \in 1..n
    OBVIOUS
  <2>2. new[s[k]] = {s[i] : i \in 1..(k - 1)} /\ new[s[k - 1]] = {s[i] : i \in 1..((k - 1) - 1)}
    BY <1>3, <2>1
  <2> DEFINE A == 1..(k - 1)
             B == 1..((k - 1) - 1)
             c == k - 1
  <2>3. \A i : i \in A <=> i \in B \/ i = c
    BY <2>1
  <2> HIDE DEF A, B, c
  <2>4. {s[i] : i \in A} = {s[i] : i \in B} \cup {s[c]}
    BY <2>3
  <2> QED
    BY <2>1, <2>2, <2>4 DEF A, B, c
<1> QED
  BY <1>4, <1>5, <1>6 DEF new

\* Those of t have p for a blocker.
LinkedIn(writes, t, p) == \A i \in DOMAIN writes : writes[i].task = t => p \in writes[i].rec.by

\* The upserts of an import: of its k-th task and of the one listed before it.
LEMMA ListedInOrder ==
  ASSUME NEW n \in Nat \ {0}, NEW s, \A i, k \in 1..n : s[i] = s[k] => i = k,
         NEW w, DOMAIN w = 1..(2 * n - 1), Listing(w, s, n), NEW k \in 2..n
  PROVE  /\ LinkedIn(w, s[k], s[k - 1])
         /\ Lists(w, s[k]) /\ Lists(w, s[k - 1])
<1> DEFINE D == 1..(2 * n - 1)
           K(i) == (i + 1) \div 2
<1>1. \A i \in D :
        /\ K(i) \in 1..n /\ (i = 2 * K(i) \/ i = 2 * K(i) - 1)
        /\ w[i].task = s[K(i)]
        /\ w[i].rec.by = IF K(i) = 1 THEN {} ELSE {s[K(i) - 1]}
        /\ w[i].rec.status = "ready"
  BY DEF Listing
<1>2. k \in 1..n /\ k - 1 \in 1..n /\ k # 1
  OBVIOUS
<1>3. ASSUME NEW j \in 1..n
      PROVE  \E i \in D : w[i].task = s[j]
  <2>1. 2 * j - 1 \in D
    OBVIOUS
  <2>2. K(2 * j - 1) = j
    OBVIOUS
  <2> HIDE DEF D, K
  <2>3. w[2 * j - 1].task = s[j]
    BY <1>1, <2>1, <2>2
  <2> QED
    BY <2>1, <2>3
<1> HIDE DEF D, K
<1>4. ASSUME NEW i \in D, w[i].task = s[k]
      PROVE  s[k - 1] \in w[i].rec.by
  <2>1. K(i) \in 1..n /\ s[K(i)] = s[k]
    BY <1>1, <1>4
  <2>2. K(i) = k
    BY <1>2, <2>1
  <2> QED
    BY <1>1, <1>2, <2>2
<1>5. DOMAIN w = D
  BY DEF D
<1>6. LinkedIn(w, s[k], s[k - 1])
  BY <1>4, <1>5 DEF LinkedIn
<1> QED
  BY <1>2, <1>3, <1>5, <1>6 DEF Lists

\* It writes no others.
LEMMA ListedOnly ==
  ASSUME NEW n \in Nat \ {0}, NEW s, NEW w, DOMAIN w = 1..(2 * n - 1), Listing(w, s, n)
  PROVE  \A i \in DOMAIN w : \E k \in 1..n : w[i].task = s[k]
<1> DEFINE D == 1..(2 * n - 1)
           K(i) == (i + 1) \div 2
<1>1. \A i \in D :
        /\ K(i) \in 1..n /\ (i = 2 * K(i) \/ i = 2 * K(i) - 1)
        /\ w[i].task = s[K(i)]
        /\ w[i].rec.by = IF K(i) = 1 THEN {} ELSE {s[K(i) - 1]}
        /\ w[i].rec.status = "ready"
  BY DEF Listing
<1> HIDE DEF K
<1> QED
  BY <1>1

\* An import hangs its tasks together, and knows of no others.
LEMMA OrderImport ==
  ASSUME TypesInv, OrderInv, Import
  PROVE  OrderInv'
<1>1. PICK n \in Nat \ {0} : \E s \in News(n) :
        /\ api'.writes = ImportWrites(s)
        /\ before' = Listed(s, n, before)
  BY ImportTypes DEF TypesInv
<1>2. PICK s \in News(n) :
        /\ api'.writes = ImportWrites(s)
        /\ before' = Listed(s, n, before)
  BY <1>1
<1> DEFINE w == api'.writes
<1>3. DOMAIN w = 1..(2 * n - 1) /\ Listing(w, s, n)
  BY <1>2, ImportWritesOf
<1>4. /\ \A k \in 1..n : s[k] \in Tasks /\ s[k] \notin Known(store)
      /\ \A i, k \in 1..n : s[i] = s[k] => i = k
  BY NewsOf
<1>5. before \in [Tasks -> SUBSET Tasks]
  BY DEF TypesInv, FilesInv
<1> DEFINE new == Listed(s, n, before)
<1>6. /\ \A t \in Tasks : (\A k \in 1..n : s[k] # t) => new[t] = before[t]
      /\ new[s[1]] = {}
      /\ \A k \in 2..n : k - 1 \in 1..n /\ new[s[k]] = new[s[k - 1]] \cup {s[k - 1]}
  <2>1. s \in News(n)
    OBVIOUS
  <2>2. \A t \in Tasks : (\A k \in 1..n : s[k] # t) => Listed(s, n, before)[t] = before[t]
    BY <1>5, <2>1, BeforeOf
  <2>3. Listed(s, n, before)[s[1]] = {}
    BY <1>5, <2>1, BeforeOf
  <2>4. \A k \in 2..n :
          /\ k - 1 \in 1..n
          /\ Listed(s, n, before)[s[k]] = Listed(s, n, before)[s[k - 1]] \cup {s[k - 1]}
    BY <1>5, <2>1, BeforeOf
  <2> QED
    BY <2>2, <2>3, <2>4
<1>7. before' = new
  BY <1>2
<1> HIDE DEF new
<1>8. /\ \A t \in Tasks : (\A k \in 1..n : s[k] # t) => before'[t] = before[t]
      /\ before'[s[1]] = {}
      /\ \A k \in 2..n : k - 1 \in 1..n /\ before'[s[k]] = before'[s[k - 1]] \cup {s[k - 1]}
  BY <1>6, <1>7
<1>9. /\ UNCHANGED <<store, job, loop>> /\ api.writes = <<>> /\ api.pc = "idle"
      /\ api'.pc = "write"
  BY ImportTypes DEF Import, TypesInv, ApiInv
<1> HIDE DEF w
<1>10. w = api'.writes
  BY DEF w
<1>11. \A i \in DOMAIN w : \E k \in 1..n : w[i].task = s[k]
  BY <1>3, ListedOnly
<1>12. \A i \in DOMAIN w : w[i].rec.status = "ready"
  <2>1. \A i \in 1..(2 * n - 1) : (i + 1) \div 2 \in Int
    OBVIOUS
  <2> QED
    BY <1>3, <2>1 DEF Listing
\* Until now there were copies only of tasks in the store.
<1>13. ASSUME NEW c \in Copies
       PROVE  c.task \in Known(store) /\ c.task \in Tasks /\ \A k \in 1..n : s[k] # c.task
  <2>1. c \in Upsert /\ c.task \in Tasks /\ c.rec \in TaskRec /\ c.rec # None
    BY DependenciesAssumption DEF Copies, Upsert
  <2>2. /\ loop.pc \in Busy => Known(loop.snap) \subseteq Known(store)
        /\ \A j \in Jobs : job[j] # None => job[j].task \in Known(store)
    BY DEF TypesInv, FilesInv, JobsInv, LoopInv, ThreadInv
  <2>3. c.task \in Known(store)
    BY <1>9, <2>1, <2>2 DEF Copies, Known
  <2> QED
    BY <1>4, <2>1, <2>3
<1>14. ASSUME NEW c \in Copies'
       PROVE  c \in Copies \/ \E i \in DOMAIN w : w[i] = c
  BY <1>9, <1>10 DEF Copies
<1>15. ASSUME NEW t \in Tasks, Lists(w, t)
       PROVE  t \in There'
  BY <1>10, <1>15 DEF There
<1>16. There \subseteq There'
  BY <1>9 DEF There, Lists
<1>17. ASSUME NEW k \in 2..n
       PROVE  Link(s[k], s[k - 1])'
  <2>1. \A i, j \in 1..n : s[i] = s[j] => i = j
    BY <1>4
  <2>2. DOMAIN w = 1..(2 * n - 1)
    BY <1>3
  <2>3. Listing(w, s, n)
    BY <1>3
  <2>4. LinkedIn(w, s[k], s[k - 1])
    BY <2>1, <2>2, <2>3, ListedInOrder
  <2>5. Lists(w, s[k]) /\ Lists(w, s[k - 1])
    BY <2>1, <2>2, <2>3, ListedInOrder
  <2>6. k \in 1..n /\ k - 1 \in 1..n
    OBVIOUS
  <2>7. s[k] \in There' /\ s[k - 1] \in There'
    BY <1>4, <1>15, <2>5, <2>6
  <2>8. ASSUME NEW c \in Copies', c.task = s[k]
        PROVE  s[k - 1] \in c.rec.by
    <3>1. c \notin Copies
      BY <1>13, <2>6, <2>8
    <3>2. PICK i \in DOMAIN w : w[i] = c
      BY <1>14, <3>1
    <3> QED
      BY <2>4, <2>8, <3>2 DEF LinkedIn
  <2>9. before'[s[k]] \subseteq before'[s[k - 1]] \cup {s[k - 1]}
    BY <1>8
  <2> QED
    BY <2>7, <2>8, <2>9 DEF Link
<1>18. ASSUME NEW t \in Tasks, before'[t] # {}
       PROVE  \E p \in Tasks : Link(t, p)'
  <2>1. CASE \A k \in 1..n : s[k] # t
    <3>1. before'[t] = before[t]
      BY <1>8, <2>1
    <3>2. PICK p \in Tasks : Link(t, p)
      BY <1>18, <3>1 DEF OrderInv
    <3>3. p \in Known(store)
      BY <1>9, <3>2 DEF Link, There, Lists
    <3>4. before'[p] = before[p]
      BY <1>4, <1>8, <3>3
    <3>5. ASSUME NEW c \in Copies', c.task = t
          PROVE  p \in c.rec.by
      <4>1. c \in Copies
        BY <1>11, <1>14, <2>1, <3>5
      <4> QED
        BY <3>2, <3>5, <4>1 DEF Link
    <3>6. Link(t, p)'
      BY <1>16, <3>1, <3>2, <3>4, <3>5 DEF Link
    <3> QED
      BY <3>6
  <2>2. ASSUME NEW k \in 1..n, s[k] = t
        PROVE  \E p \in Tasks : Link(t, p)'
    <3>1. k # 1
      BY <1>8, <1>18, <2>2
    <3>2. k \in 2..n /\ k - 1 \in 1..n
      BY <3>1
    <3>3. s[k - 1] \in Tasks
      BY <1>4, <3>2
    <3>4. Link(s[k], s[k - 1])'
      BY <1>17, <3>2
    <3> QED
      BY <2>2, <3>3, <3>4
  <2> QED
    BY <2>1, <2>2
<1>19. ASSUME NEW c \in Copies', Started(c.rec)
       PROVE  /\ before'[c.task] = {}
              /\ c.rec.status = "done" => \A u \in Tasks : c.task \notin before'[u]
  <2>1. c \in Copies
    BY <1>12, <1>14, <1>19 DEF Started
  <2>2. /\ c.task \in Known(store) /\ before'[c.task] = before[c.task]
        /\ \A k \in 1..n : s[k] # c.task
    BY <1>8, <1>13, <2>1
  <2>3. before'[c.task] = {}
    BY <1>19, <2>1, <2>2 DEF OrderInv
  <2>4. ASSUME c.rec.status = "done", NEW u \in Tasks, c.task \in before'[u]
        PROVE  FALSE
    <3>1. CASE \A k \in 1..n : s[k] # u
      BY <1>8, <2>1, <2>4, <3>1 DEF OrderInv
    <3>2. ASSUME NEW k \in 1..n, s[k] = u
          PROVE  FALSE
      <4>1. Listed(s, n, before)[u] = {s[i] : i \in {i \in 1..n : \E j \in (i+1)..n : s[j] = u}}
        BY <3>2 DEF Listed
      <4>2. \E i \in 1..n : s[i] = c.task
        BY <1>2, <2>4, <4>1
      <4> QED
        BY <2>2, <4>2
    <3> QED
      BY <3>1, <3>2
  <2> QED
    BY <2>3, <2>4
<1>20. ASSUME NEW t \in Taken'
       PROVE  before'[t] = {}
  <2>1. t \in Taken /\ t \in Tasks
    BY <1>9 DEF Taken
  <2>2. PICK j \in Jobs : job[j] # None /\ job[j].task = t
    BY <1>9, <2>1 DEF Taken
  <2>3. t \in Known(store)
    BY <2>2 DEF TypesInv, FilesInv, JobsInv
  <2>4. before'[t] = before[t]
    BY <1>4, <1>8, <2>1, <2>3
  <2> QED
    BY <2>1, <2>4 DEF OrderInv
<1>21. \A c \in Copies' : Started(c.rec) => before'[c.task] = {}
  BY <1>19
<1>22. \A c \in Copies' : c.rec.status = "done" => \A u \in Tasks : c.task \notin before'[u]
  BY <1>19 DEF Started
<1> QED
  BY <1>9, <1>18, <1>20, <1>21, <1>22 DEF OrderInv

\* What an import listed hangs together after every step.
LEMMA OrderStays ==
  ASSUME TypesInv, MemoryInv, Forward, OrderInv, [Next]_vars
  PROVE  OrderInv'
<1>1. /\ api.pc \in {"idle", "write", "run", "await"}
      /\ world.ops \cap {"remove", "reset", "patch", "analyze", "generate"} = {}
  BY DEF OrderInv, Forward
<1>2. CASE LoopStep
  <2>1. CASE LoopPass
    <3>1. loop'.pc \notin Busy /\ UNCHANGED <<store, job, api, before>>
      BY <2>1 DEF LoopPass, Idle, Busy, history
    <3> QED
      BY <3>1, OrderLoop
  <2> QED
    BY <1>2, <2>1, OrderAnalyse, OrderLoopFlush, OrderClaim DEF LoopStep
<1>3. CASE ApiStep
  <2>1. ~ApiAnalyse
    BY <1>1 DEF ApiAnalyse, Analyse, Ask, Apply, Applied, Mark, Marked
  <2>2. /\ ~RemoveFromBlocker /\ ~ResetBlocker /\ ~ResetTask
        /\ ~PlanFails /\ ~MakeTasks /\ ~WireTask /\ ~WireBlocker /\ ~Wired /\ ~CloseParent
    BY <1>1 DEF RemoveFromBlocker, ResetBlocker, ResetTask, PlanFails, MakeTasks, WireTask,
       WireBlocker, Wired, CloseParent
  <2> QED
    BY <1>3, <2>1, <2>2, OrderFlush, OrderOver, OrderSubmit, OrderCreate, OrderImport DEF ApiStep
<1>4. ASSUME NEW j \in Jobs, JobWrite(j) \/ JobEnd(j)
      PROVE  OrderInv'
  BY <1>4, OrderJob, OrderJobEnd
<1>5. ASSUME NEW t \in Tasks, Queue(t) \/ Run(t) \/ Patch(t) \/ Reset(t) \/ Generate(t)
      PROVE  OrderInv'
  BY <1>1, <1>5, OrderQueue, OrderRun DEF Patch, Reset, Generate
<1>6. ASSUME NEW t \in Tasks, NEW d \in Tasks, AddDependency(t, d) \/ RemoveDependency(t, d)
      PROVE  OrderInv'
  BY <1>1, <1>6, OrderAdd DEF RemoveDependency
<1>7. CASE UNCHANGED vars
  <2>1. Copies' = Copies /\ There' = There /\ Taken' = Taken
    BY <1>7 DEF vars, Copies, There, Taken
  <2> QED
    BY <1>7, <2>1, OrderFewer DEF vars, history, OrderInv
<1> QED
  BY <1>2, <1>3, <1>4, <1>5, <1>6, <1>7 DEF Next

\* What a PRD lists runs in that order: a job of an imported task is there only when
\* all that were listed before it have been done once, for every number of tasks and
\* of jobs, however the upserts of imports, requests, analyses and jobs interleave,
\* and although an import may send its tasks to a second job.
THEOREM ImportsRunInOrder == Spec => []ImportInOrder
<1>1. Init => MemoryInv
  BY DEF Init, Idle, MemoryInv, Busy
<1>2. Init => OrderInv
  <2> SUFFICES ASSUME Init PROVE OrderInv
    OBVIOUS
  <2>1. /\ before = [t \in Tasks |-> {}]
        /\ api.pc = "idle" /\ api.writes = <<>>
    BY DEF Init, Idle
  <2>2. \A c \in Copies : c.task \in Tasks
    BY DEF Copies, Upsert
  <2>3. \A t \in Taken : t \in Tasks
    BY DEF Taken
  <2> QED
    BY <2>1, <2>2, <2>3 DEF OrderInv
<1>3. /\ TypesInv /\ MemoryInv /\ (Forward => OrderInv) /\ [Next]_vars
      => MemoryInv' /\ (Forward => OrderInv)'
  <2> SUFFICES ASSUME TypesInv, MemoryInv, Forward => OrderInv, [Next]_vars
               PROVE  MemoryInv' /\ (Forward' => OrderInv')
    OBVIOUS
  <2>1. Forward' => Forward
    BY WorldStays DEF Forward
  <2> QED
    BY <2>1, MemoryStays, OrderStays
<1>4. TypesInv /\ (Forward => OrderInv) => ImportInOrder
  <2> SUFFICES ASSUME TypesInv, OrderInv, NEW j \in Jobs, job[j] # None
               PROVE  before[job[j].task] = {}
    BY DEF ImportInOrder, Forward
  <2>1. job[j].task \in Tasks
    BY DEF TypesInv, FilesInv, JobsInv, Known
  <2>2. job[j].task \in Taken
    BY <2>1 DEF Taken
  <2> QED
    BY <2>2 DEF OrderInv
<1> QED
  BY <1>1, <1>2, <1>3, <1>4, Whole, PTL DEF Spec

-----------------------------------------------------------------------------
(* The two ends of a dependency agree.                                     *)

\* A board with another object of one task.
With(board, x, rec) == [t \in Tasks |-> IF t = x THEN rec ELSE board[t]]

\* What the board will be when the upserts have been made: of every task the
\* last that is written of it, or what is there.
Leads(board, writes, goal) ==
  \A t \in Tasks :
    \/ goal[t] = board[t] /\ \A k \in DOMAIN writes : writes[k].task # t
    \/ \E i \in DOMAIN writes :
         /\ writes[i].task = t /\ goal[t] = writes[i].rec
         /\ \A k \in DOMAIN writes : writes[k].task = t => k <= i

\* The ends agree, but that x is no longer blocked by those in gone, whether they
\* have heard of it or not; the tasks of R do not count.
Agreeing(board, x, gone, R) ==
  /\ \A t \in Known(board) \ R : board[t].by \cup board[t].blocks \subseteq Known(board)
  /\ \A t, d \in Known(board) \ R :
       t # d => IF t = x /\ d \in gone THEN d \notin board[t].by
                ELSE d \in board[t].by <=> t \in board[d].blocks

SameEnds(rec, other) == rec.by = other.by /\ rec.blocks = other.blocks

\* Two boards of the same tasks with the same ends, but for those of the tasks of R.
SameBoard(board, other, R) ==
  /\ Known(board) = Known(other)
  /\ \A t \in Known(board) \ R : SameEnds(board[t], other[t])

\* What a request in each of its places knows of the board that it leads to.
AgreeOn(goal, th, R) ==
  /\ th.pc \in {"idle", "write", "plan", "wire", "run", "await"} => Agreeing(goal, None, {}, R)
  /\ th.pc = "unblock" => Agreeing(goal, th.task, {th.dep}, R)
  /\ th.pc = "reset" =>
       th.task \in Known(goal) /\ Agreeing(With(goal, th.task, th.snap), th.task, th.todo, R)
  /\ th.pc \in Busy => Agreeing(th.snap, None, {}, R) /\ SameBoard(goal, th.snap, R)
  /\ th.pc \in {"plan", "wire", "depends", "run"} =>
       th.task \in Known(goal) /\ (th.task \in R \/ SameEnds(goal[th.task], th.snap))
  /\ th.pc \in {"wire", "depends"} => th.task \notin th.made
  /\ th.pc = "depends" => Agreeing(With(goal, Head(th.wire), th.child), None, {}, R)
  /\ th.pc = "await" => th.writes = <<>>

Agreement(tasks, th, R) == \E goal \in Board : Leads(tasks, th.writes, goal) /\ AgreeOn(goal, th, R)

\* A job's object has the ends that the task has in the store.
JobsAgree(jobs, tasks, R) ==
  \A j \in Jobs : jobs[j] # None => jobs[j].task \in R \/ SameEnds(jobs[j].rec, tasks[jobs[j].task])

\* While the scheduler is paused the board that a request leads to has the same
\* dependencies from both their ends, and so have the jobs.
Told == world.paused /\ world.ops \cap {"create", "patch"} = {}

AgreeInv == Agreement(store, api, raced) /\ JobsAgree(job, store, raced)

\* A paused loop does nothing.
PausedInv == world.paused => loop.pc = "tick"

\* A board with another object of one task is a board.
LEMMA WithIs ==
  ASSUME NEW board \in Board, NEW x \in Tasks, NEW rec \in TaskRec
  PROVE  /\ With(board, x, rec) \in Board /\ Known(With(board, x, rec)) = Known(board) \cup {x}
         /\ With(board, x, rec)[x] = rec
         /\ \A t \in Tasks \ {x} : With(board, x, rec)[t] = board[t]
<1>1. rec # None
  BY DependenciesAssumption
<1>2. With(board, x, rec) \in Board
  BY DEF With, Board
<1> QED
  BY <1>1, <1>2 DEF With, Known

\* And it has the same tasks if that one was there.
LEMMA WithKnown ==
  ASSUME NEW board \in Board, NEW x \in Known(board), NEW rec \in TaskRec, NEW next,
         next = With(board, x, rec)
  PROVE  /\ next \in Board /\ Known(next) = Known(board) /\ x \in Tasks
         /\ next[x] = rec /\ \A t \in Tasks : t # x => next[t] = board[t]
<1>1. x \in Tasks
  BY DEF Known
<1>2. /\ next \in Board /\ Known(next) = Known(board) \cup {x}
      /\ next[x] = rec /\ \A t \in Tasks \ {x} : next[t] = board[t]
  BY <1>1, WithIs
<1> QED
  BY <1>1, <1>2

\* With nothing left to write, the board is what it leads to.
LEMMA LeadsNowhere ==
  ASSUME store \in Board, NEW goal \in Board, Leads(store, <<>>, goal)
  PROVE  goal = store
<1>1. \A t \in Tasks : goal[t] = store[t]
  BY DEF Leads
<1> QED
  BY <1>1 DEF Board

\* And where it is what the board leads to.
LEMMA LeadsHere ==
  Leads(store, <<>>, store)
  BY DEF Leads

\* One upsert.
LEMMA LeadsToOne ==
  ASSUME NEW t \in Tasks, NEW rec \in TaskRec
  PROVE  Leads(store, Write(t, rec), With(store, t, rec))
<1>1. DOMAIN Write(t, rec) = {1} /\ Write(t, rec)[1] = [task |-> t, rec |-> rec]
  BY WriteOne
<1>2. Write(t, rec)[1].task = t /\ Write(t, rec)[1].rec = rec
  BY <1>1
<1> QED
  BY <1>1, <1>2 DEF Leads, With

\* Two upserts, in this order.
LEMMA LeadsToTwo ==
  ASSUME NEW t \in Tasks, NEW rec \in TaskRec, NEW d \in Tasks, NEW other \in TaskRec,
         NEW w, DOMAIN w = {1, 2}, w[1] = [task |-> t, rec |-> rec],
         w[2] = [task |-> d, rec |-> other]
  PROVE  Leads(store, w, With(With(store, t, rec), d, other))
<1>1. w[1].task = t /\ w[1].rec = rec /\ w[2].task = d /\ w[2].rec = other
  OBVIOUS
<1>2. \A k \in DOMAIN w : k = 1 \/ k = 2
  OBVIOUS
<1>3. 1 \in DOMAIN w /\ 2 \in DOMAIN w /\ 1 <= 2 /\ 1 <= 1 /\ 2 <= 2
  OBVIOUS
<1> QED
  BY <1>1, <1>2, <1>3 DEF Leads, With

\* The same ends on another board.
LEMMA SameAgree ==
  ASSUME NEW board, NEW x, NEW gone, Agreeing(board, x, gone, raced), NEW next, SameBoard(next, board, raced)
  PROVE  Agreeing(next, x, gone, raced)
  BY DEF Agreeing, SameBoard, SameEnds

\* An object with the same ends is written.
LEMMA SameWritten ==
  ASSUME NEW board \in Board, NEW x \in Known(board), NEW rec \in TaskRec,
         x \in raced \/ SameEnds(rec, board[x])
  PROVE  SameBoard(With(board, x, rec), board, raced)
<1>1. x \in Tasks
  BY DEF Known
<1> QED
  BY <1>1, WithIs DEF SameBoard, SameEnds, Known

\* An upsert is made: the request leads to the same board.
LEMMA FlushLeads ==
  ASSUME NEW w \in Seq(Upsert), w # <<>>, NEW goal, Leads(store, w, goal),
         \A u \in Tasks : store'[u] = IF u = Head(w).task THEN Head(w).rec ELSE store[u]
  PROVE  Leads(store', Tail(w), goal)
<1> DEFINE rest == Tail(w)
<1>1. /\ DOMAIN w = 1..Len(w) /\ DOMAIN rest = 1..(Len(w) - 1) /\ Len(w) \in Nat \ {0}
      /\ Head(w) = w[1] /\ \A i \in DOMAIN rest : rest[i] = w[i + 1]
  BY TailOf
<1> HIDE DEF rest
<1> SUFFICES ASSUME NEW t \in Tasks
             PROVE  \/ goal[t] = store'[t] /\ \A k \in DOMAIN rest : rest[k].task # t
                    \/ \E i \in DOMAIN rest :
                         /\ rest[i].task = t /\ goal[t] = rest[i].rec
                         /\ \A k \in DOMAIN rest : rest[k].task = t => k <= i
  BY DEF Leads, rest
<1>2. \A k \in DOMAIN rest : k \in Int /\ k + 1 \in DOMAIN w /\ k + 1 # 1
  BY <1>1
<1>3. CASE goal[t] = store[t] /\ \A k \in DOMAIN w : w[k].task # t
  <2>1. 1 \in DOMAIN w
    BY <1>1
  <2>2. store'[t] = store[t]
    BY <1>1, <1>3, <2>1
  <2> QED
    BY <1>1, <1>2, <1>3, <2>2
<1>4. ASSUME NEW i \in DOMAIN w, w[i].task = t, goal[t] = w[i].rec,
             \A k \in DOMAIN w : w[k].task = t => k <= i
      PROVE  \/ goal[t] = store'[t] /\ \A k \in DOMAIN rest : rest[k].task # t
             \/ \E i1 \in DOMAIN rest :
                  /\ rest[i1].task = t /\ goal[t] = rest[i1].rec
                  /\ \A k \in DOMAIN rest : rest[k].task = t => k <= i1
  <2>1. CASE i = 1
    <3>1. \A k \in DOMAIN rest : rest[k].task # t
      BY <1>1, <1>2, <1>4, <2>1
    <3>2. store'[t] = goal[t]
      BY <1>1, <1>4, <2>1
    <3> QED
      BY <3>1, <3>2
  <2>2. CASE i # 1
    <3>1. i - 1 \in DOMAIN rest /\ (i - 1) + 1 = i
      BY <1>1, <2>2
    <3>2. rest[i - 1] = w[i]
      BY <1>1, <3>1
    <3>3. \A k \in DOMAIN rest : rest[k].task = t => k <= i - 1
      BY <1>1, <1>2, <1>4
    <3> QED
      BY <1>4, <3>1, <3>2, <3>3
  <2> QED
    BY <2>1, <2>2
<1> QED
  BY <1>3, <1>4 DEF Leads

\* A request that has written all it decided on knows of the board in the store.
LEMMA AgreeHere ==
  ASSUME FilesInv, Agreement(store, api, raced), api.writes = <<>>
  PROVE  AgreeOn(store, api, raced)
  BY LeadsNowhere DEF Agreement, FilesInv, SoundBoard

\* A request that decides on nothing.
LEMMA NothingAgrees ==
  ASSUME FilesInv, store' = store, api'.writes = <<>>, AgreeOn(store, api', raced)
  PROVE  Agreement(store', api', raced)
  BY LeadsHere DEF Agreement, FilesInv, SoundBoard

\* A request that decides on one upsert.
LEMMA OneAgrees ==
  ASSUME FilesInv, store' = store, NEW t \in Tasks, NEW rec \in TaskRec,
         api'.writes = Write(t, rec), AgreeOn(With(store, t, rec), api', raced)
  PROVE  Agreement(store', api', raced)
<1>1. store \in Board
  BY DEF FilesInv, SoundBoard
<1> QED
  BY <1>1, WithIs, LeadsToOne DEF Agreement

\* The object that a request is about to write has the ends that the task has.
LEMMA SameAgrees ==
  ASSUME FilesInv, store' = store, NEW t \in Known(store), NEW rec \in TaskRec,
         api'.writes = Write(t, rec), t \in raced \/ SameEnds(rec, store[t]),
         Agreeing(store, None, {}, raced),
         \/ api'.pc = "write"
         \/ api'.pc \in {"plan", "run"} /\ api'.task = t /\ api'.snap = rec
  PROVE  Agreement(store', api', raced)
<1>1. store \in Board /\ t \in Tasks
  BY DEF FilesInv, SoundBoard, Known
<1>2. Agreeing(With(store, t, rec), None, {}, raced)
  BY <1>1, SameWritten, SameAgree
<1>3. t \in Known(With(store, t, rec)) /\ With(store, t, rec)[t] = rec
  BY <1>1, WithIs
<1>4. AgreeOn(With(store, t, rec), api', raced)
  BY <1>2, <1>3 DEF AgreeOn, Busy, SameEnds
<1> QED
  BY <1>1, <1>4, OneAgrees

\* With more tasks left out, no less agrees.
LEMMA AgreeGrows ==
  ASSUME NEW goal, NEW th, AgreeOn(goal, th, raced), NEW R, raced \subseteq R
  PROVE  AgreeOn(goal, th, R)
<1>1. \A board, x, gone : Agreeing(board, x, gone, raced) => Agreeing(board, x, gone, R)
  BY DEF Agreeing
<1>2. \A board, other : SameBoard(board, other, raced) => SameBoard(board, other, R)
  BY DEF SameBoard
<1> QED
  BY <1>1, <1>2 DEF AgreeOn

\* An upsert of the request is made.
LEMMA FlushAgree ==
  ASSUME FilesInv, ApiInv, Agreement(store, api, raced), ApiFlush
  PROVE  Agreement(store', api', raced')
<1>0. Flush(api, api') /\ ThreadInv(api, store) /\ raced \subseteq raced'
  BY DEF ApiInv, ApiFlush
<1>1. /\ \A u \in Tasks : store'[u] = IF u = Head(api.writes).task THEN Head(api.writes).rec
                                      ELSE store[u]
      /\ api.writes \in Seq(Upsert) /\ api.writes # <<>> /\ api'.writes = Tail(api.writes)
      /\ api'.pc = api.pc /\ api'.snap = api.snap /\ api'.task = api.task /\ api'.dep = api.dep
      /\ api'.todo = api.todo /\ api'.made = api.made /\ api'.wire = api.wire
      /\ api'.child = api.child
  BY <1>0, Flushed
<1>2. PICK goal \in Board : Leads(store, api.writes, goal) /\ AgreeOn(goal, api, raced)
  BY DEF Agreement
<1>3. Leads(store', api'.writes, goal)
  BY <1>1, <1>2, FlushLeads
<1>4. AgreeOn(goal, api', raced)
  BY <1>1, <1>2 DEF AgreeOn
<1>5. AgreeOn(goal, api', raced')
  BY <1>0, <1>4, AgreeGrows
<1> QED
  BY <1>3, <1>5 DEF Agreement

\* A job's task whose ends it changes is left out from then on.
LEMMA FlushJobs ==
  ASSUME FilesInv, JobsAgree(job, store, raced), ApiFlush
  PROVE  JobsAgree(job', store', raced')
<1> SUFFICES ASSUME NEW j \in Jobs, job[j] # None, job[j].task \notin raced'
             PROVE  SameEnds(job[j].rec, store'[job[j].task])
  BY DEF JobsAgree, ApiFlush
<1> DEFINE t == job[j].task
<1>1. t \in Tasks
  BY DEF FilesInv, JobsInv, Known
<1>2. Live(t)
  BY DEF Live
<1>3. raced' = raced \cup
        {u \in Tasks : Live(u) /\ (store'[u].by # store[u].by \/ store'[u].blocks # store[u].blocks)}
  BY DEF ApiFlush
<1>4. t \notin raced /\ store'[t].by = store[t].by /\ store'[t].blocks = store[t].blocks
  BY <1>1, <1>2, <1>3
<1> QED
  BY <1>4 DEF JobsAgree, SameEnds

\* A transition to ready changes no dependency.
LEMMA QueueAgree ==
  ASSUME FilesInv, ApiInv, Agreement(store, api, raced), NEW t \in Tasks, Queue(t)
  PROVE  Agreement(store', api', raced)
<1>1. api.pc = "idle" /\ store' = store /\ t \in Known(store)
  BY QueueTypes DEF Queue
<1>2. Agreeing(store, None, {}, raced)
  BY <1>1, AgreeHere DEF ApiInv, AgreeOn
<1>3. \E rec \in TaskRec :
        /\ api'.pc = "write" /\ api'.writes = Write(t, rec)
        /\ rec.status = "ready" /\ rec.by = store[t].by /\ rec.blocks = store[t].blocks
  BY QueueTypes
<1> QED
  BY <1>1, <1>2, <1>3, SameAgrees DEF SameEnds

\* Nor does POST /run, before it gives the task to a job ...
LEMMA RunAgree ==
  ASSUME FilesInv, ApiInv, Agreement(store, api, raced), NEW t \in Tasks, Run(t)
  PROVE  Agreement(store', api', raced)
<1>1. api.pc = "idle" /\ store' = store
  BY DEF Run
<1>2. Agreeing(store, None, {}, raced)
  BY <1>1, AgreeHere DEF ApiInv, AgreeOn
<1>3. SameEnds(api'.snap, store[t])
  BY RunTypes DEF SameEnds
<1> QED
  BY <1>1, <1>2, <1>3, RunTypes, SameAgrees

\* ... and waits for that.
LEMMA RunEndAgree ==
  ASSUME FilesInv, ApiInv, Agreement(store, api, raced), RunSubmit \/ RunReturn
  PROVE  Agreement(store', api', raced)
<1>1. CASE RunSubmit
  <2>1. PICK j \in world.jobs : api' = [Idle EXCEPT !.pc = "await", !.job = j]
    BY <1>1 DEF RunSubmit
  <2>2. api.pc = "run" /\ api.writes = <<>> /\ store' = store /\ api'.pc = "await" /\ api'.writes = <<>>
    BY <1>1, <2>1 DEF RunSubmit, Idle
  <2>3. AgreeOn(store, api', raced)
    BY <2>2, AgreeHere DEF AgreeOn, Busy
  <2> QED
    BY <2>2, <2>3, NothingAgrees
<1>2. CASE RunReturn
  <2>1. api.pc = "await" /\ store' = store /\ api' = Idle
    BY <1>2 DEF RunReturn
  <2>2. api'.pc = "idle" /\ api'.writes = <<>>
    BY <2>1, IdleIsIdle
  <2>3. PICK goal \in Board : Leads(store, api.writes, goal) /\ AgreeOn(goal, api, raced)
    BY DEF Agreement
  <2>4. api.writes = <<>>
    BY <2>1, <2>3 DEF AgreeOn
  <2>5. AgreeOn(store, api', raced)
    BY <2>1, <2>2, <2>4, AgreeHere DEF AgreeOn, Busy
  <2> QED
    BY <2>1, <2>2, <2>5, NothingAgrees
<1> QED
  BY <1>1, <1>2

\* Of a dependency that a client adds, both ends are written.
LEMMA AddAgree ==
  ASSUME FilesInv, ApiInv, Agreement(store, api, raced), NEW t \in Tasks, NEW d \in Tasks, AddDependency(t, d)
  PROVE  Agreement(store', api', raced)
<1>1. api.pc = "idle" /\ store' = store /\ store \in Board
  BY DEF AddDependency, FilesInv, SoundBoard
<1>2. Agreeing(store, None, {}, raced)
  BY <1>1, AgreeHere DEF ApiInv, AgreeOn
<1>3. t \in Known(store) /\ d \in Known(store) /\ api'.pc = "write" /\ DOMAIN api'.writes = {1, 2}
  BY AddTypes
<1>4. PICK rec, other \in TaskRec :
        /\ api'.writes[1] = [task |-> t, rec |-> rec]
        /\ api'.writes[2] = [task |-> d, rec |-> other]
        /\ rec.by = store[t].by \cup {d} /\ rec.blocks = store[t].blocks
        /\ other.by = store[d].by /\ other.blocks = store[d].blocks \cup {t}
        /\ rec.status = store[t].status /\ other.status = store[d].status
  BY AddTypes
<1> DEFINE half == With(store, t, rec)
           goal == With(half, d, other)
<1>5. half \in Board /\ Known(half) = Known(store) /\ half[t] = rec
      /\ \A u \in Tasks : u # t => half[u] = store[u]
  BY <1>1, <1>3, WithKnown
<1> HIDE DEF half
<1>6. goal \in Board /\ Known(goal) = Known(store) /\ goal[d] = other
      /\ \A u \in Tasks : u # d => goal[u] = half[u]
  BY <1>3, <1>5, WithKnown
<1>7. Leads(store, api'.writes, goal)
  BY <1>3, <1>4, LeadsToTwo DEF half
<1> HIDE DEF goal
<1>8. Agreeing(goal, None, {}, raced)
  <2>1. ASSUME NEW u \in Known(goal)
        PROVE  /\ goal[u].by = IF u = t /\ t # d THEN store[u].by \cup {d} ELSE store[u].by
               /\ goal[u].blocks = IF u = d THEN store[u].blocks \cup {t} ELSE store[u].blocks
    BY <1>4, <1>5, <1>6, <2>1 DEF Known
  <2>2. ASSUME NEW u \in Known(goal) \ raced
        PROVE  goal[u].by \cup goal[u].blocks \subseteq Known(goal)
    <3>1. store[u].by \cup store[u].blocks \subseteq Known(store)
      BY <1>2, <1>6 DEF Agreeing
    <3>2. goal[u].by \subseteq store[u].by \cup {d}
      BY <2>1
    <3>3. goal[u].blocks \subseteq store[u].blocks \cup {t}
      BY <2>1
    <3> QED
      BY <1>3, <1>6, <3>1, <3>2, <3>3
  <2>3. ASSUME NEW u \in Known(goal) \ raced, NEW e \in Known(goal) \ raced, u # e
        PROVE  e \in goal[u].by <=> u \in goal[e].blocks
    <3>1. e \in store[u].by <=> u \in store[e].blocks
      BY <1>2, <1>6, <2>3 DEF Agreeing
    <3>2. /\ goal[u].by = IF u = t /\ t # d THEN store[u].by \cup {d} ELSE store[u].by
          /\ goal[e].blocks = IF e = d THEN store[e].blocks \cup {t} ELSE store[e].blocks
      BY <2>1
    <3> QED
      BY <2>3, <3>1, <3>2
  <2> QED
    BY <2>2, <2>3 DEF Agreeing
<1>9. AgreeOn(goal, api', raced)
  BY <1>3, <1>8 DEF AgreeOn, Busy
<1> QED
  BY <1>1, <1>6, <1>7, <1>9 DEF Agreement

\* The task of a dependency that a client takes away is written: its blocker has
\* yet to hear of it.
LEMMA RemoveAgree ==
  ASSUME FilesInv, ApiInv, Agreement(store, api, raced), NEW t \in Tasks, NEW d \in Tasks,
         RemoveDependency(t, d)
  PROVE  Agreement(store', api', raced)
<1>1. api.pc = "idle" /\ store' = store /\ store \in Board
  BY DEF RemoveDependency, FilesInv, SoundBoard
<1>2. Agreeing(store, None, {}, raced)
  BY <1>1, AgreeHere DEF ApiInv, AgreeOn
<1>3. t \in Known(store) /\ api'.pc = "unblock" /\ api'.task = t /\ api'.dep = d
  BY RemoveTypes
<1>4. PICK rec \in TaskRec :
        /\ api'.writes = Write(t, rec)
        /\ rec.by = store[t].by \ {d} /\ rec.blocks = store[t].blocks
  BY RemoveTypes
<1> DEFINE goal == With(store, t, rec)
<1>5. Known(goal) = Known(store) /\ goal[t] = rec /\ \A u \in Tasks : u # t => goal[u] = store[u]
  BY <1>1, <1>3, WithKnown
<1> HIDE DEF goal
<1>6. Agreeing(goal, t, {d}, raced)
  <2>1. ASSUME NEW u \in Known(goal)
        PROVE  /\ goal[u].by = IF u = t THEN store[u].by \ {d} ELSE store[u].by
               /\ goal[u].blocks = store[u].blocks
    BY <1>4, <1>5, <2>1 DEF Known
  <2>2. ASSUME NEW u \in Known(goal) \ raced
        PROVE  goal[u].by \cup goal[u].blocks \subseteq Known(goal)
    <3>1. store[u].by \cup store[u].blocks \subseteq Known(store)
      BY <1>2, <1>5 DEF Agreeing
    <3> QED
      BY <1>5, <2>1, <3>1
  <2>3. ASSUME NEW u \in Known(goal) \ raced, NEW e \in Known(goal) \ raced, u # e
        PROVE  IF u = t /\ e \in {d} THEN e \notin goal[u].by
               ELSE e \in goal[u].by <=> u \in goal[e].blocks
    <3>1. e \in store[u].by <=> u \in store[e].blocks
      BY <1>2, <1>5, <2>3 DEF Agreeing
    <3> QED
      BY <2>1, <3>1
  <2> QED
    BY <2>2, <2>3 DEF Agreeing
<1>7. AgreeOn(goal, api', raced)
  BY <1>3, <1>6 DEF AgreeOn, Busy
<1> QED
  BY <1>1, <1>4, <1>7, OneAgrees DEF goal

\* The blocker hears of it.
LEMMA UnblockAgree ==
  ASSUME FilesInv, ApiInv, Agreement(store, api, raced), RemoveFromBlocker
  PROVE  Agreement(store', api', raced)
<1>1. /\ api.pc = "unblock" /\ api.writes = <<>> /\ store' = store /\ store \in Board
      /\ api.dep \in Tasks
  BY DEF RemoveFromBlocker, FilesInv, SoundBoard, ApiInv, Known
<1> DEFINE t == api.task
           d == api.dep
<1>2. Agreeing(store, t, {d}, raced)
  BY <1>1, AgreeHere DEF AgreeOn
<1>3. api'.pc = "write" /\ d \in Known(store)
  BY UnblockTypes
<1>4. PICK rec \in TaskRec :
        /\ api'.writes = Write(d, rec)
        /\ rec.by = store[d].by /\ rec.blocks = store[d].blocks \ {t}
  BY UnblockTypes
<1> HIDE DEF t, d
<1>5. d \in Tasks
  BY <1>1 DEF d
<1> DEFINE goal == With(store, d, rec)
<1>6. Known(goal) = Known(store) /\ goal[d] = rec /\ \A u \in Tasks : u # d => goal[u] = store[u]
  BY <1>1, <1>3, WithKnown
<1> HIDE DEF goal
<1>7. Agreeing(goal, None, {}, raced)
  <2>1. ASSUME NEW u \in Known(goal)
        PROVE  /\ goal[u].by = store[u].by
               /\ goal[u].blocks = IF u = d THEN store[u].blocks \ {t} ELSE store[u].blocks
    BY <1>4, <1>6, <2>1 DEF Known
  <2>2. ASSUME NEW u \in Known(goal) \ raced
        PROVE  goal[u].by \cup goal[u].blocks \subseteq Known(goal)
    <3>1. store[u].by \cup store[u].blocks \subseteq Known(store)
      BY <1>2, <1>6 DEF Agreeing
    <3> QED
      BY <1>6, <2>1, <3>1
  <2>3. ASSUME NEW u \in Known(goal) \ raced, NEW e \in Known(goal) \ raced, u # e
        PROVE  e \in goal[u].by <=> u \in goal[e].blocks
    <3>1. IF u = t /\ e = d THEN e \notin store[u].by
          ELSE e \in store[u].by <=> u \in store[e].blocks
      BY <1>2, <1>6, <2>3 DEF Agreeing
    <3>2. /\ goal[u].by = store[u].by
          /\ goal[e].blocks = IF e = d THEN store[e].blocks \ {t} ELSE store[e].blocks
      BY <2>1
    <3> QED
      BY <3>1, <3>2
  <2> QED
    BY <2>2, <2>3 DEF Agreeing
<1>8. AgreeOn(goal, api', raced)
  BY <1>3, <1>7 DEF AgreeOn, Busy
<1> QED
  BY <1>1, <1>4, <1>5, <1>8, OneAgrees DEF goal

\* A reset takes the inferred blockers out of the object it has of the task.
LEMMA ResetAgree ==
  ASSUME FilesInv, ApiInv, Agreement(store, api, raced), NEW t \in Tasks, Reset(t)
  PROVE  Agreement(store', api', raced)
<1>1. api.pc = "idle" /\ store' = store /\ store \in Board
  BY DEF Reset, FilesInv, SoundBoard
<1>2. Agreeing(store, None, {}, raced)
  BY <1>1, AgreeHere DEF ApiInv, AgreeOn
<1>3. /\ t \in Known(store) /\ api'.pc = "reset" /\ api'.task = t /\ api'.writes = <<>>
      /\ api'.todo = store[t].inferred /\ api'.snap.blocks = store[t].blocks
      /\ api'.snap.by = store[t].by \ store[t].inferred /\ api'.snap \in TaskRec
  BY ResetTypes DEF ApiInv, Holding
<1> DEFINE gone == store[t].inferred
           rec == api'.snap
           goal == With(store, t, rec)
<1>4. rec \in TaskRec /\ rec.blocks = store[t].blocks /\ rec.by = store[t].by \ gone
  BY <1>3
<1> HIDE DEF gone, rec
<1>5. Known(goal) = Known(store) /\ goal[t] = rec /\ \A u \in Tasks : u # t => goal[u] = store[u]
  BY <1>1, <1>3, <1>4, WithKnown
<1> HIDE DEF goal
<1>6. Agreeing(goal, t, gone, raced)
  <2>1. ASSUME NEW u \in Known(goal)
        PROVE  /\ goal[u].by = IF u = t THEN store[u].by \ gone ELSE store[u].by
               /\ goal[u].blocks = store[u].blocks
    BY <1>4, <1>5, <2>1 DEF Known
  <2>2. ASSUME NEW u \in Known(goal) \ raced
        PROVE  goal[u].by \cup goal[u].blocks \subseteq Known(goal)
    <3>1. store[u].by \cup store[u].blocks \subseteq Known(store)
      BY <1>2, <1>5 DEF Agreeing
    <3> QED
      BY <1>5, <2>1, <3>1
  <2>3. ASSUME NEW u \in Known(goal) \ raced, NEW e \in Known(goal) \ raced, u # e
        PROVE  IF u = t /\ e \in gone THEN e \notin goal[u].by
               ELSE e \in goal[u].by <=> u \in goal[e].blocks
    <3>1. e \in store[u].by <=> u \in store[e].blocks
      BY <1>2, <1>5, <2>3 DEF Agreeing
    <3> QED
      BY <2>1, <3>1
  <2> QED
    BY <2>2, <2>3 DEF Agreeing
<1>7. AgreeOn(store, api', raced)
  BY <1>3, <1>6 DEF AgreeOn, Busy, goal, rec, gone
<1> QED
  BY <1>1, <1>3, <1>7, NothingAgrees

\* One of them hears of it, be it the task itself, whose object is written over.
LEMMA ResetBlockerAgree ==
  ASSUME FilesInv, ApiInv, Agreement(store, api, raced), ResetBlocker
  PROVE  Agreement(store', api', raced)
<1> DEFINE t == api.task
           snap == api.snap
           old == With(store, t, snap)
<1>1. /\ api.pc = "reset" /\ api.writes = <<>> /\ store' = store /\ store \in Board
      /\ t \in Tasks /\ snap \in TaskRec
  BY DEF ResetBlocker, FilesInv, SoundBoard, ApiInv, Holding
<1>2. t \in Known(store) /\ Agreeing(old, t, api.todo, raced)
  BY <1>1, AgreeHere DEF AgreeOn
<1>3. api'.pc = "reset" /\ api'.task = t /\ api'.snap = snap
  BY ResetBlockerTypes
<1>4. PICK b \in Known(store) : \E rec \in TaskRec :
        /\ b \in api.todo /\ api'.todo = api.todo \ {b} /\ api'.writes = Write(b, rec)
        /\ rec.by = store[b].by /\ rec.blocks = store[b].blocks \ {t}
  BY ResetBlockerTypes
<1>5. PICK rec \in TaskRec :
        /\ b \in api.todo /\ api'.todo = api.todo \ {b} /\ api'.writes = Write(b, rec)
        /\ rec.by = store[b].by /\ rec.blocks = store[b].blocks \ {t}
  BY <1>4
<1> HIDE DEF t, snap
<1> DEFINE goal == With(store, b, rec)
           next == With(goal, t, snap)
<1>6. /\ goal \in Board /\ Known(goal) = Known(store) /\ goal[b] = rec /\ b \in Tasks
      /\ \A u \in Tasks : u # b => goal[u] = store[u]
  BY <1>1, WithKnown
<1> HIDE DEF goal
<1>7. /\ Known(next) = Known(store) /\ next[t] = snap
      /\ \A u \in Tasks : u # t => next[u] = goal[u]
  BY <1>1, <1>2, <1>6, WithKnown
<1>8. /\ Known(old) = Known(store) /\ old[t] = snap
      /\ \A u \in Tasks : u # t => old[u] = store[u]
  BY <1>1, <1>2, WithKnown
<1> HIDE DEF next, old
<1>9. Agreeing(next, t, api.todo \ {b}, raced)
  <2>1. ASSUME NEW u \in Known(next)
        PROVE  /\ next[u].by = old[u].by
               /\ next[u].blocks = IF u = b /\ b # t THEN old[u].blocks \ {t} ELSE old[u].blocks
    BY <1>5, <1>6, <1>7, <1>8, <2>1 DEF Known
  <2>2. ASSUME NEW u \in Known(next) \ raced
        PROVE  next[u].by \cup next[u].blocks \subseteq Known(next)
    <3>1. old[u].by \cup old[u].blocks \subseteq Known(old)
      BY <1>2, <1>7, <1>8 DEF Agreeing
    <3> QED
      BY <1>7, <1>8, <2>1, <3>1
  <2>3. ASSUME NEW u \in Known(next) \ raced, NEW e \in Known(next) \ raced, u # e
        PROVE  IF u = t /\ e \in api.todo \ {b} THEN e \notin next[u].by
               ELSE e \in next[u].by <=> u \in next[e].blocks
    <3>1. IF u = t /\ e \in api.todo THEN e \notin old[u].by
          ELSE e \in old[u].by <=> u \in old[e].blocks
      BY <1>2, <1>7, <1>8, <2>3 DEF Agreeing
    <3>2. /\ next[u].by = old[u].by
          /\ next[e].blocks = IF e = b /\ b # t THEN old[e].blocks \ {t} ELSE old[e].blocks
      BY <2>1
    <3> QED
      BY <1>5, <2>3, <3>1, <3>2
  <2> QED
    BY <2>2, <2>3 DEF Agreeing
<1>10. AgreeOn(goal, api', raced)
  BY <1>2, <1>3, <1>5, <1>6, <1>9 DEF AgreeOn, Busy, next
<1> QED
  BY <1>1, <1>5, <1>6, <1>10, OneAgrees DEF goal

\* All have heard of it, and the task is about to be written.
LEMMA ResetTaskAgree ==
  ASSUME FilesInv, ApiInv, Agreement(store, api, raced), ResetTask
  PROVE  Agreement(store', api', raced)
<1>1. /\ api.pc = "reset" /\ api.writes = <<>> /\ store' = store /\ api.todo = {}
      /\ api.task \in Tasks /\ api.snap \in TaskRec
  BY DEF ResetTask, ApiInv, Holding
<1> DEFINE goal == With(store, api.task, api.snap)
<1>2. Agreeing(goal, api.task, {}, raced)
  BY <1>1, AgreeHere DEF AgreeOn
<1> HIDE DEF goal
<1>3. Agreeing(goal, None, {}, raced)
  BY <1>2 DEF Agreeing
<1>4. api'.pc = "write" /\ api'.writes = Write(api.task, api.snap)
  BY ResetTaskTypes
<1>5. AgreeOn(goal, api', raced)
  BY <1>3, <1>4 DEF AgreeOn, Busy
<1> QED
  BY <1>1, <1>4, <1>5, OneAgrees DEF goal

\* An analysis of the board that is in the store: it adds an edge at both ends,
\* and marks tasks without changing their dependencies.
LEMMA AnalyseAgree ==
  ASSUME FilesInv, ApiInv, Agreement(store, api, raced), ApiAnalyse
  PROVE  Agreement(store', api', raced)
<1>1. store' = store /\ store \in Board /\ ThreadInv(api, store)
  BY DEF ApiAnalyse, FilesInv, SoundBoard, ApiInv
<1>2. CASE Gather(api, api', "idle")
  <2>1. api'.pc \in Busy /\ api'.writes = <<>> /\ api'.snap = store
    BY <1>1, <1>2, GatherThread
  <2>2. Agreeing(store, None, {}, raced)
    BY <1>2, AgreeHere DEF Gather, AgreeOn
  <2>3. AgreeOn(store, api', raced)
    BY <2>1, <2>2 DEF AgreeOn, Busy, SameBoard, SameEnds
  <2> QED
    BY <1>1, <2>1, <2>3, NothingAgrees
<1>3. CASE Ask(api, api') \/ Applied(api, api')
  <2>1. /\ api.pc \in {"ask", "apply"} /\ api'.pc \in {"apply", "mark"}
        /\ api'.snap = api.snap /\ api'.writes = api.writes
    BY <1>1, <1>3, QuietEffect
  <2>2. PICK goal \in Board : Leads(store, api.writes, goal) /\ AgreeOn(goal, api, raced)
    BY DEF Agreement
  <2>3. AgreeOn(goal, api', raced)
    BY <2>1, <2>2 DEF AgreeOn, Busy
  <2> QED
    BY <1>1, <2>1, <2>2, <2>3 DEF Agreement
<1>4. CASE Apply(api, api')
  <2> DEFINE snap == api.snap
             next == api'.snap
  <2>1. /\ api.pc = "apply" /\ api.writes = <<>> /\ api'.pc = "apply" /\ Known(next) = Known(snap)
        /\ \/ api'.writes = <<>> /\ next = snap
           \/ EdgeAdded(snap, next, api'.writes)
        /\ next \in Board
    BY <1>1, <1>4, ApplyEffect DEF ThreadInv, SoundBoard, Busy
  <2>2. Agreeing(snap, None, {}, raced) /\ SameBoard(store, snap, raced)
    BY <2>1, AgreeHere DEF AgreeOn, Busy
  <2>3. CASE api'.writes = <<>> /\ next = snap
    <3>1. AgreeOn(store, api', raced)
      BY <2>1, <2>2, <2>3 DEF AgreeOn, Busy
    <3> QED
      BY <1>1, <2>3, <3>1, NothingAgrees
  <2>4. CASE EdgeAdded(snap, next, api'.writes)
    <3> HIDE DEF snap, next
    <3>1. PICK from \in Known(snap), to \in Known(snap) :
            /\ from # to
            /\ \A t \in Tasks \ {from, to} : next[t] = snap[t]
            /\ next[to].by = snap[to].by \cup {from} /\ next[from].by = snap[from].by
            /\ next[to].blocks = snap[to].blocks /\ next[from].blocks = snap[from].blocks \cup {to}
            /\ DOMAIN api'.writes = {1, 2}
            /\ api'.writes[1] = [task |-> from, rec |-> next[from]]
            /\ api'.writes[2] = [task |-> to, rec |-> next[to]]
      BY <2>4 DEF EdgeAdded
    <3>2. ASSUME NEW u \in Known(next)
          PROVE  /\ u \in Known(snap) /\ u \in Tasks
                 /\ next[u].by = IF u = to THEN snap[u].by \cup {from} ELSE snap[u].by
                 /\ next[u].blocks = IF u = from THEN snap[u].blocks \cup {to} ELSE snap[u].blocks
      BY <2>1, <3>1, <3>2 DEF Known
    <3>3. Agreeing(next, None, {}, raced)
      <4>1. ASSUME NEW u \in Known(next) \ raced
            PROVE  next[u].by \cup next[u].blocks \subseteq Known(next)
        <5>1. snap[u].by \cup snap[u].blocks \subseteq Known(snap)
          BY <2>2, <3>2 DEF Agreeing
        <5>2. next[u].by \subseteq snap[u].by \cup {from}
          BY <3>2
        <5>3. next[u].blocks \subseteq snap[u].blocks \cup {to}
          BY <3>2
        <5> QED
          BY <2>1, <5>1, <5>2, <5>3
      <4>2. ASSUME NEW u \in Known(next) \ raced, NEW e \in Known(next) \ raced, u # e
            PROVE  e \in next[u].by <=> u \in next[e].blocks
        <5>1. e \in snap[u].by <=> u \in snap[e].blocks
          BY <2>2, <3>2, <4>2 DEF Agreeing
        <5>2. /\ next[u].by = IF u = to THEN snap[u].by \cup {from} ELSE snap[u].by
              /\ next[e].blocks = IF e = from THEN snap[e].blocks \cup {to} ELSE snap[e].blocks
          BY <3>2
        <5> QED
          BY <5>1, <5>2
      <4> QED
        BY <4>1, <4>2 DEF Agreeing
    <3> DEFINE half == With(store, from, next[from])
               goal == With(half, to, next[to])
    <3>4. next[from] \in TaskRec /\ next[to] \in TaskRec /\ from \in Tasks /\ to \in Tasks
      BY <2>1, KnownIsTask
    <3>5. from \in Known(store) /\ to \in Known(store) /\ Known(store) = Known(snap)
      BY <2>2 DEF SameBoard
    <3>6. half \in Board /\ Known(half) = Known(store) /\ half[from] = next[from]
          /\ \A u \in Tasks : u # from => half[u] = store[u]
      BY <1>1, <3>4, <3>5, WithKnown
    <3>7. Leads(store, api'.writes, goal)
      BY <3>1, <3>4, LeadsToTwo
    <3> HIDE DEF half
    <3>8. goal \in Board /\ Known(goal) = Known(store) /\ goal[to] = next[to]
          /\ \A u \in Tasks : u # to => goal[u] = half[u]
      BY <3>4, <3>5, <3>6, WithKnown
    <3> HIDE DEF goal
    <3>9. SameBoard(goal, next, raced)
      <4>1. ASSUME NEW u \in Known(goal) \ raced
            PROVE  SameEnds(goal[u], next[u])
        <5>1. u \in Tasks /\ u \in Known(store)
          BY <3>8 DEF Known
        <5>2. CASE u \in {from, to}
          BY <3>1, <3>6, <3>8, <5>1, <5>2 DEF SameEnds
        <5>3. CASE u \notin {from, to}
          <6>1. goal[u] = store[u] /\ next[u] = snap[u]
            BY <3>1, <3>6, <3>8, <5>1, <5>3
          <6> QED
            BY <2>2, <5>1, <6>1 DEF SameBoard
        <5> QED
          BY <5>2, <5>3
      <4> QED
        BY <2>1, <3>5, <3>8, <4>1 DEF SameBoard
    <3>10. AgreeOn(goal, api', raced)
      BY <2>1, <3>3, <3>9 DEF AgreeOn, Busy, next
    <3> QED
      BY <1>1, <3>7, <3>8, <3>10 DEF Agreement
  <2> QED
    BY <2>1, <2>3, <2>4
<1>5. CASE Mark(api, api')
  <2>1. api.pc = "mark" /\ api.writes = <<>> /\ api'.pc = "mark" /\ api'.snap = api.snap
    BY <1>1, <1>5, MarkEffect
  <2>2. Agreeing(api.snap, None, {}, raced) /\ SameBoard(store, api.snap, raced)
    BY <2>1, AgreeHere DEF AgreeOn, Busy
  <2>3. PICK t \in Known(api.snap) : \E rec \in TaskRec :
          /\ api'.writes = Write(t, rec)
          /\ rec.by = api.snap[t].by /\ rec.blocks = api.snap[t].blocks
    BY <1>1, <1>5, MarkEffect
  <2>4. PICK rec \in TaskRec :
          /\ api'.writes = Write(t, rec)
          /\ rec.by = api.snap[t].by /\ rec.blocks = api.snap[t].blocks
    BY <2>3
  <2>5. t \in Known(store) /\ t \in Tasks
    BY <2>2 DEF SameBoard, Known
  <2>6. t \in raced \/ SameEnds(rec, store[t])
    BY <2>2, <2>4, <2>5 DEF SameBoard, SameEnds
  <2>7. SameBoard(With(store, t, rec), store, raced)
    BY <1>1, <2>5, <2>6, SameWritten
  <2>8. SameBoard(With(store, t, rec), api.snap, raced)
    BY <2>2, <2>7 DEF SameBoard, SameEnds
  <2>9. AgreeOn(With(store, t, rec), api', raced)
    BY <2>1, <2>2, <2>8 DEF AgreeOn, Busy
  <2> QED
    BY <1>1, <2>4, <2>5, <2>9, OneAgrees
<1>6. CASE Marked(api, api', "idle")
  <2>1. api.pc = "mark" /\ api.writes = <<>> /\ api' = [Idle EXCEPT !.pc = "idle"]
    BY <1>6 DEF Marked
  <2>2. api'.pc = "idle" /\ api'.writes = <<>>
    BY <2>1, IdleIsIdle
  <2>3. Agreeing(api.snap, None, {}, raced) /\ SameBoard(store, api.snap, raced)
    BY <2>1, AgreeHere DEF AgreeOn, Busy
  <2>4. Agreeing(store, None, {}, raced)
    BY <2>3, SameAgree
  <2>5. AgreeOn(store, api', raced)
    BY <2>2, <2>4 DEF AgreeOn, Busy
  <2> QED
    BY <1>1, <2>2, <2>5, NothingAgrees
<1> QED
  BY <1>2, <1>3, <1>4, <1>5, <1>6 DEF ApiAnalyse, Analyse

\* A request ends.
LEMMA EndAgree ==
  ASSUME FilesInv, ApiInv, Agreement(store, api, raced), ApiEnd
  PROVE  Agreement(store', api', raced)
<1>1. api.pc = "write" /\ api.writes = <<>> /\ store' = store /\ api' = Idle
  BY DEF ApiEnd
<1>2. Agreeing(store, None, {}, raced)
  BY <1>1, AgreeHere DEF AgreeOn
<1>3. api'.pc = "idle" /\ api'.writes = <<>>
  BY <1>1, IdleIsIdle
<1>4. AgreeOn(store, api', raced)
  BY <1>2, <1>3 DEF AgreeOn, Busy
<1> QED
  BY <1>1, <1>3, <1>4, NothingAgrees

\* A parent is about to be written as it was read.
LEMMA GenerateAgree ==
  ASSUME FilesInv, ApiInv, Agreement(store, api, raced), NEW t \in Tasks, Generate(t)
  PROVE  Agreement(store', api', raced)
<1>1. api.pc = "idle" /\ store' = store
  BY DEF Generate
<1>2. Agreeing(store, None, {}, raced)
  BY <1>1, AgreeHere DEF ApiInv, AgreeOn
<1>3. store[t] \in TaskRec /\ SameEnds(store[t], store[t])
  BY GenerateTypes, KnownIsTask DEF FilesInv, SoundBoard, SameEnds
<1> QED
  BY <1>1, <1>2, <1>3, GenerateTypes, SameAgrees

\* And once more if nothing comes of the plan.
LEMMA PlanFailsAgree ==
  ASSUME FilesInv, ApiInv, Agreement(store, api, raced), PlanFails
  PROVE  Agreement(store', api', raced)
<1>1. /\ api.pc = "plan" /\ api.writes = <<>> /\ store' = store
      /\ api.snap \in TaskRec
  BY DEF PlanFails, ApiInv, Holding
<1>2. /\ Agreeing(store, None, {}, raced) /\ api.task \in Known(store)
      /\ api.task \in raced \/ SameEnds(store[api.task], api.snap)
  BY <1>1, AgreeHere DEF AgreeOn
<1> QED
  BY <1>1, <1>2, PlanFailsTypes, SameAgrees DEF SameEnds

\* The tasks of a plan are about to be written, without dependencies.
LEMMA MakeTasksAgree ==
  ASSUME FilesInv, ApiInv, Agreement(store, api, raced), MakeTasks
  PROVE  Agreement(store', api', raced)
<1>1. api.pc = "plan" /\ api.writes = <<>> /\ store' = store /\ store \in Board
  BY DEF MakeTasks, FilesInv, SoundBoard
<1>2. /\ Agreeing(store, None, {}, raced) /\ api.task \in Known(store)
      /\ api.task \in raced \/ SameEnds(store[api.task], api.snap)
  BY <1>1, AgreeHere DEF AgreeOn
<1>3. PICK n \in Nat \ {0} : \E s \in News(n) :
        /\ api'.wire = s /\ api'.made = {s[k] : k \in 1..n}
        /\ api'.writes = [k \in 1..n |-> [task |-> s[k], rec |-> NewTask]]
  BY MakeTasksTypes
<1>4. PICK s \in News(n) :
        /\ api'.wire = s /\ api'.made = {s[k] : k \in 1..n}
        /\ api'.writes = [k \in 1..n |-> [task |-> s[k], rec |-> NewTask]]
  BY <1>3
<1>5. api'.pc = "wire" /\ api'.task = api.task /\ api'.snap = api.snap
  BY MakeTasksTypes
<1> DEFINE made == api'.made
           w == api'.writes
           goal == [t \in Tasks |-> IF t \in made THEN NewTask ELSE store[t]]
<1>6. /\ \A i \in 1..n : s[i] \in Tasks /\ s[i] \notin Known(store)
      /\ \A i, k \in 1..n : s[i] = s[k] => i = k
  BY NewsOf
<1>7. /\ \A t : t \in made <=> \E k \in 1..n : t = s[k]
      /\ DOMAIN w = 1..n /\ \A k \in 1..n : w[k].task = s[k] /\ w[k].rec = NewTask
  BY <1>4
<1> HIDE DEF made, w
<1>8. goal \in Board
  BY <1>1, NewTaskTyped DEF Board
<1>9. \A t \in Tasks : goal[t] = IF t \in made THEN NewTask ELSE store[t]
  OBVIOUS
<1> HIDE DEF goal
<1>10. NewTask # None /\ NewTask.by = {} /\ NewTask.blocks = {}
  BY NewTaskTyped, DependenciesAssumption DEF NewTask
<1>11. made \subseteq Tasks /\ made \cap Known(store) = {}
  BY <1>6, <1>7
<1>12. \A t : t \in Known(goal) <=> t \in Known(store) \/ t \in made
  BY <1>9, <1>10, <1>11 DEF Known
<1>13. Leads(store, w, goal)
  <2> SUFFICES ASSUME NEW t \in Tasks
               PROVE  \/ goal[t] = store[t] /\ \A k \in DOMAIN w : w[k].task # t
                      \/ \E i \in DOMAIN w :
                           /\ w[i].task = t /\ goal[t] = w[i].rec
                           /\ \A k \in DOMAIN w : w[k].task = t => k <= i
    BY DEF Leads
  <2>1. CASE t \notin made
    BY <1>7, <1>9, <2>1
  <2>2. CASE t \in made
    <3>1. PICK i \in 1..n : t = s[i]
      BY <1>7, <2>2
    <3>2. \A k \in 1..n : w[k].task = t => k <= i
      BY <1>6, <1>7, <3>1
    <3> QED
      BY <1>7, <1>9, <2>2, <3>1, <3>2
  <2> QED
    BY <2>1, <2>2
<1>14. Agreeing(goal, None, {}, raced)
  <2>0. ASSUME NEW u \in Known(store) \ raced
        PROVE  store[u].by \cup store[u].blocks \subseteq Known(store)
    BY <1>2 DEF Agreeing
  <2>1. ASSUME NEW u \in Known(store)
        PROVE  goal[u] = store[u]
    BY <1>9, <1>11 DEF Known
  <2>2. ASSUME NEW u \in made
        PROVE  goal[u].by = {} /\ goal[u].blocks = {}
    BY <1>9, <1>10, <1>11
  <2>3. ASSUME NEW u \in Known(goal) \ raced
        PROVE  goal[u].by \cup goal[u].blocks \subseteq Known(goal)
    BY <1>12, <2>0, <2>1, <2>2
  <2>4. ASSUME NEW u \in Known(goal) \ raced, NEW e \in Known(goal) \ raced, u # e
        PROVE  e \in goal[u].by <=> u \in goal[e].blocks
    <3>1. CASE u \in Known(store) /\ e \in Known(store)
      BY <1>2, <2>1, <2>4, <3>1 DEF Agreeing
    <3>2. CASE u \in made \/ e \in made
      BY <1>11, <1>12, <2>0, <2>1, <2>2, <3>2
    <3> QED
      BY <1>12, <3>1, <3>2
  <2> QED
    BY <2>3, <2>4 DEF Agreeing
<1>15. api.task \in Known(goal) /\ goal[api.task] = store[api.task] /\ api.task \notin made
  BY <1>2, <1>9, <1>11, <1>12 DEF Known
<1>16. AgreeOn(goal, api', raced)
  BY <1>2, <1>5, <1>14, <1>15 DEF AgreeOn, Busy, made
<1> QED
  BY <1>8, <1>13, <1>16, <1>1 DEF Agreement, w

\* The next of them is read.
LEMMA WireTaskAgree ==
  ASSUME FilesInv, ApiInv, Agreement(store, api, raced), WireTask
  PROVE  Agreement(store', api', raced)
<1>1. api.pc = "wire" /\ api.writes = <<>> /\ store' = store /\ store \in Board
  BY DEF WireTask, FilesInv, SoundBoard
<1>2. /\ Agreeing(store, None, {}, raced) /\ api.task \in Known(store)
      /\ api.task \in raced \/ SameEnds(store[api.task], api.snap)
      /\ api.task \notin api.made
  BY <1>1, AgreeHere DEF AgreeOn
<1>3. /\ api'.task = api.task /\ api'.snap = api.snap /\ api'.writes = <<>> /\ api'.made = api.made
      /\ \/ api'.pc = "wire"
         \/ /\ api'.pc = "depends" /\ Head(api'.wire) \in Known(store)
            /\ api'.child = store[Head(api'.wire)]
  BY WireTaskTypes
<1>4. CASE api'.pc = "wire"
  <2>1. AgreeOn(store, api', raced)
    BY <1>2, <1>3, <1>4 DEF AgreeOn, Busy
  <2> QED
    BY <1>1, <1>3, <2>1, NothingAgrees
<1>5. CASE /\ api'.pc = "depends" /\ Head(api'.wire) \in Known(store)
           /\ api'.child = store[Head(api'.wire)]
  <2> DEFINE h == Head(api'.wire)
  <2>1. store[h] \in TaskRec /\ SameEnds(store[h], store[h])
    BY <1>1, <1>5, KnownIsTask DEF SameEnds
  <2>2. Agreeing(With(store, h, store[h]), None, {}, raced)
    BY <1>1, <1>2, <1>5, <2>1, SameWritten, SameAgree
  <2>3. AgreeOn(store, api', raced)
    BY <1>2, <1>3, <1>5, <2>2 DEF AgreeOn, Busy
  <2> QED
    BY <1>1, <1>3, <2>3, NothingAgrees
<1> QED
  BY <1>3, <1>4, <1>5

\* One that it depends on is about to be written: it has the task in blocks, which
\* has it in blocked_by, if only in memory.
LEMMA WireBlockerAgree ==
  ASSUME FilesInv, ApiInv, Agreement(store, api, raced), WireBlocker
  PROVE  Agreement(store', api', raced)
<1> DEFINE h == Head(api.wire)
           child == api.child
           next == api'.child
           old == With(store, h, child)
<1>1. /\ api.pc = "depends" /\ api.writes = <<>> /\ store' = store /\ store \in Board
      /\ child \in TaskRec /\ api.wire # <<>>
  BY DEF WireBlocker, FilesInv, SoundBoard, ApiInv
<1>2. /\ api.task \in Known(store) /\ (api.task \in raced \/ SameEnds(store[api.task], api.snap))
      /\ api.task \notin api.made /\ Agreeing(old, None, {}, raced)
  BY <1>1, AgreeHere DEF AgreeOn
<1>3. h \in Known(store) /\ h \in api.made /\ api.todo \subseteq api.made \ {h}
  BY <1>1, WiringHas DEF ApiInv
<1>4. /\ api'.pc = "depends" /\ api'.task = api.task /\ api'.snap = api.snap
      /\ api'.made = api.made /\ api'.wire = api.wire /\ next \in TaskRec
  BY WireBlockerTypes DEF ApiInv
<1>5. PICK d \in Known(store) : \E rec \in TaskRec :
        /\ d \in api.todo /\ api'.writes = Write(d, rec)
        /\ rec.by = store[d].by /\ rec.blocks = store[d].blocks \cup {h}
        /\ next.by = child.by \cup {d} /\ next.blocks = child.blocks
  BY WireBlockerTypes
<1>6. PICK rec \in TaskRec :
        /\ d \in api.todo /\ api'.writes = Write(d, rec)
        /\ rec.by = store[d].by /\ rec.blocks = store[d].blocks \cup {h}
        /\ next.by = child.by \cup {d} /\ next.blocks = child.blocks
  BY <1>5
<1> HIDE DEF h, child, next
<1>7. d # h /\ d # api.task /\ d \in Tasks
  BY <1>2, <1>3, <1>6 DEF Known
<1> DEFINE goal == With(store, d, rec)
           both == With(goal, h, next)
<1>8. /\ goal \in Board /\ Known(goal) = Known(store) /\ goal[d] = rec
      /\ \A u \in Tasks : u # d => goal[u] = store[u]
  BY <1>1, WithKnown
<1>9. /\ Known(old) = Known(store) /\ old[h] = child
      /\ \A u \in Tasks : u # h => old[u] = store[u]
  BY <1>1, <1>3, WithKnown
<1> HIDE DEF goal, old
<1>10. /\ Known(both) = Known(store) /\ both[h] = next
       /\ \A u \in Tasks : u # h => both[u] = goal[u]
  BY <1>3, <1>4, <1>8, WithKnown
<1> HIDE DEF both
<1>11. Agreeing(both, None, {}, raced)
  <2>1. ASSUME NEW u \in Known(both)
        PROVE  /\ both[u].by = IF u = h THEN old[u].by \cup {d} ELSE old[u].by
               /\ both[u].blocks = IF u = d THEN old[u].blocks \cup {h} ELSE old[u].blocks
    BY <1>6, <1>7, <1>8, <1>9, <1>10, <2>1 DEF Known
  <2>2. ASSUME NEW u \in Known(both) \ raced
        PROVE  both[u].by \cup both[u].blocks \subseteq Known(both)
    <3>1. old[u].by \cup old[u].blocks \subseteq Known(old)
      BY <1>2, <1>9, <1>10 DEF Agreeing
    <3>2. both[u].by \subseteq old[u].by \cup {d}
      BY <2>1
    <3>3. both[u].blocks \subseteq old[u].blocks \cup {h}
      BY <2>1
    <3> QED
      BY <1>3, <1>9, <1>10, <3>1, <3>2, <3>3
  <2>3. ASSUME NEW u \in Known(both) \ raced, NEW e \in Known(both) \ raced, u # e
        PROVE  e \in both[u].by <=> u \in both[e].blocks
    <3>1. e \in old[u].by <=> u \in old[e].blocks
      BY <1>2, <1>9, <1>10, <2>3 DEF Agreeing
    <3>2. /\ both[u].by = IF u = h THEN old[u].by \cup {d} ELSE old[u].by
          /\ both[e].blocks = IF e = d THEN old[e].blocks \cup {h} ELSE old[e].blocks
      BY <2>1
    <3> QED
      BY <3>1, <3>2
  <2> QED
    BY <2>2, <2>3 DEF Agreeing
<1>12. api.task \in Known(goal) /\ goal[api.task] = store[api.task]
  BY <1>2, <1>7, <1>8 DEF Known
<1>13. AgreeOn(goal, api', raced)
  BY <1>2, <1>4, <1>11, <1>12 DEF AgreeOn, Busy, both, h, next
<1> QED
  BY <1>1, <1>6, <1>7, <1>13, OneAgrees DEF goal

\* The task is about to be written as it is in memory.
LEMMA WiredAgree ==
  ASSUME FilesInv, ApiInv, Agreement(store, api, raced), Wired
  PROVE  Agreement(store', api', raced)
<1> DEFINE h == Head(api.wire)
           goal == With(store, h, api.child)
<1>1. /\ api.pc = "depends" /\ api.writes = <<>> /\ store' = store /\ store \in Board
      /\ api.child \in TaskRec /\ api.wire # <<>>
  BY DEF Wired, FilesInv, SoundBoard, ApiInv
<1>2. /\ api.task \in Known(store) /\ (api.task \in raced \/ SameEnds(store[api.task], api.snap))
      /\ api.task \notin api.made /\ Agreeing(goal, None, {}, raced)
  BY <1>1, AgreeHere DEF AgreeOn
<1>3. h \in Known(store) /\ h \in api.made
  BY <1>1, WiringHas
<1>4. /\ api'.pc = "wire" /\ api'.task = api.task /\ api'.snap = api.snap
      /\ api'.made = api.made /\ api'.writes = Write(h, api.child)
  BY WiredTypes
<1> HIDE DEF h
<1>5. Known(goal) = Known(store) /\ h \in Tasks /\ \A u \in Tasks : u # h => goal[u] = store[u]
  BY <1>1, <1>3, WithKnown
<1> HIDE DEF goal
<1>6. goal[api.task] = store[api.task]
  BY <1>2, <1>3, <1>5 DEF Known
<1>7. AgreeOn(goal, api', raced)
  BY <1>2, <1>4, <1>5, <1>6 DEF AgreeOn, Busy
<1> QED
  BY <1>1, <1>4, <1>5, <1>7, OneAgrees DEF goal

\* The parent is about to be written, twice, as it was.
LEMMA CloseParentAgree ==
  ASSUME FilesInv, ApiInv, Agreement(store, api, raced), CloseParent
  PROVE  Agreement(store', api', raced)
<1> DEFINE t == api.task
           rec == api.snap
           w == api'.writes
<1>1. /\ api.pc = "wire" /\ api.writes = <<>> /\ store' = store /\ store \in Board
      /\ rec \in TaskRec
  BY DEF CloseParent, FilesInv, SoundBoard, ApiInv, Holding
<1>2. /\ Agreeing(store, None, {}, raced) /\ t \in Known(store)
      /\ t \in raced \/ SameEnds(rec, store[t])
  BY <1>1, AgreeHere DEF AgreeOn, SameEnds
<1>3. api'.pc = "write" /\ w = Write(t, rec) \o Write(t, rec)
  BY CloseParentTypes
<1> HIDE DEF t, rec, w
<1>4. t \in Tasks
  BY <1>2 DEF Known
<1>5. /\ DOMAIN w = {1, 2} /\ w[1] = [task |-> t, rec |-> rec] /\ w[2] = [task |-> t, rec |-> rec]
  BY <1>1, <1>3, <1>4, WriteTwo
<1> DEFINE half == With(store, t, rec)
           goal == With(half, t, rec)
<1>6. half \in Board /\ Known(half) = Known(store) /\ half[t] = rec
  BY <1>1, <1>2, WithKnown
<1>7. SameBoard(half, store, raced)
  BY <1>1, <1>2, SameWritten
<1>8. Leads(store, w, goal)
  BY <1>1, <1>4, <1>5, LeadsToTwo
<1> HIDE DEF half
<1>9. goal \in Board
  BY <1>1, <1>4, <1>6, WithIs
<1>10. SameEnds(rec, half[t])
  BY <1>6 DEF SameEnds
<1>11. SameBoard(goal, half, raced)
  BY <1>1, <1>2, <1>6, <1>10, SameWritten
<1> HIDE DEF goal
<1>12. Agreeing(goal, None, {}, raced)
  BY <1>2, <1>7, <1>11, SameAgree
<1>13. AgreeOn(goal, api', raced)
  BY <1>3, <1>12 DEF AgreeOn, Busy
<1> QED
  BY <1>1, <1>8, <1>9, <1>13 DEF Agreement, w

\* The last upsert of the k-th task of an import.
LastOf(n, k) == IF k = n THEN 2 * n - 1 ELSE 2 * k

\* The task listed before the k-th, and the one after it.
Previous(s, k) == IF k = 1 THEN {} ELSE {s[k - 1]}
Following(s, n, k) == IF k = n THEN {} ELSE {s[k + 1]}

\* It has the task listed before it in blocked_by and the one after it in blocks.
LEMMA ImportEnds ==
  ASSUME NEW n \in Nat \ {0}, NEW s \in News(n), NEW k \in 1..n, NEW w, w = ImportWrites(s),
         NEW i, i = LastOf(n, k)
  PROVE  /\ i \in DOMAIN w /\ w[i].task = s[k]
         /\ w[i].rec.by = Previous(s, k)
         /\ w[i].rec.blocks = Following(s, n, k)
         /\ \A j \in DOMAIN w : w[j].task = s[k] => j <= i
<1> DEFINE D == 1..(2 * n - 1)
           K(j) == (j + 1) \div 2
<1>0. Listing(w, s, n)
  BY ImportWritesOf
<1>1. /\ w \in Seq(Upsert) /\ DOMAIN w = D
      /\ Len(s) = n /\ \A a, b \in 1..n : s[a] = s[b] => a = b
  BY ImportWritesOf, NewsOf
<1>2. \A j \in D :
        /\ K(j) \in 1..n /\ (j = 2 * K(j) \/ j = 2 * K(j) - 1)
        /\ w[j].task = s[K(j)] /\ w[j].rec.by = Previous(s, K(j))
  <2>1. \A j \in D :
          /\ K(j) \in 1..n /\ (j = 2 * K(j) \/ j = 2 * K(j) - 1)
          /\ w[j].task = s[K(j)]
          /\ w[j].rec.by = IF K(j) = 1 THEN {} ELSE {s[K(j) - 1]}
    BY <1>0 DEF Listing
  <2> HIDE DEF D, K
  <2> QED
    BY <2>1 DEF Previous
<1>3. i \in D /\ K(i) = k /\ (k = n => i % 2 = 1) /\ (k # n => i % 2 # 1)
  <2>1. CASE k = n
    <3>1. i = 2 * n - 1
      BY <2>1 DEF LastOf
    <3> QED
      BY <2>1, <3>1
  <2>2. CASE k # n
    <3>1. i = 2 * k /\ k < n
      BY <2>2 DEF LastOf
    <3> QED
      BY <2>2, <3>1
  <2> QED
    BY <2>1, <2>2
<1>4. w[i].rec.blocks = Following(s, n, k)
  <2> DEFINE item == Item(s, k)
             again == [item EXCEPT !.blocks = {s[k + 1]}]
  <2>1. w[i] = [task |-> s[k], rec |-> IF i % 2 = 1 THEN item ELSE again]
    BY <1>1, <1>3 DEF ImportWrites
  <2>2. item.blocks = {} /\ again.blocks = {s[k + 1]}
    BY DEF Item, NewTask
  <2> HIDE DEF item, again
  <2>3. w[i].rec = IF i % 2 = 1 THEN item ELSE again
    BY <2>1
  <2>4. CASE k = n
    BY <1>3, <2>2, <2>3, <2>4 DEF Following
  <2>5. CASE k # n
    BY <1>3, <2>2, <2>3, <2>5 DEF Following
  <2> QED
    BY <2>4, <2>5
<1>5. w[i].task = s[k] /\ w[i].rec.by = Previous(s, k)
  BY <1>2, <1>3
<1>6. ASSUME NEW j \in D, w[j].task = s[k]
      PROVE  j <= i
  <2> HIDE DEF K
  <2>1. K(j) \in 1..n /\ (j = 2 * K(j) \/ j = 2 * K(j) - 1) /\ s[K(j)] = s[k]
    BY <1>2, <1>6
  <2>2. K(j) = k
    BY <1>1, <2>1
  <2>3. j \in Int /\ j <= 2 * n - 1 /\ j <= 2 * k
    BY <2>1, <2>2
  <2> QED
    BY <2>3 DEF LastOf
<1> QED
  BY <1>1, <1>3, <1>4, <1>5, <1>6

\* An import is about to write a chain of tasks, with every link at both ends.
LEMMA ImportAgree ==
  ASSUME FilesInv, ApiInv, Agreement(store, api, raced), Import
  PROVE  Agreement(store', api', raced)
<1>1. api.pc = "idle" /\ store' = store /\ store \in Board /\ api'.pc = "write"
  BY ImportTypes DEF Import, FilesInv, SoundBoard
<1>2. Agreeing(store, None, {}, raced)
  BY <1>1, AgreeHere DEF ApiInv, AgreeOn
<1>3. PICK n \in Nat \ {0} : \E s \in News(n) : api'.writes = ImportWrites(s)
  BY ImportTypes
<1>4. PICK s \in News(n) : api'.writes = ImportWrites(s)
  BY <1>3
<1> DEFINE w == api'.writes
           at(t) == CHOOSE k \in 1..n : s[k] = t
           goal == [t \in Tasks |-> IF \E k \in 1..n : s[k] = t THEN w[LastOf(n, at(t))].rec
                                    ELSE store[t]]
<1>5. /\ \A i \in 1..n : s[i] \in Tasks /\ s[i] \notin Known(store)
      /\ \A i, k \in 1..n : s[i] = s[k] => i = k
  BY NewsOf
<1>6. w \in Seq(Upsert) /\ DOMAIN w = 1..(2 * n - 1) /\ Listing(w, s, n)
  BY <1>4, ImportWritesOf
<1>7. ASSUME NEW k \in 1..n
      PROVE  /\ LastOf(n, k) \in DOMAIN w /\ w[LastOf(n, k)].task = s[k]
             /\ w[LastOf(n, k)].rec.by = Previous(s, k)
             /\ w[LastOf(n, k)].rec.blocks = Following(s, n, k)
             /\ w[LastOf(n, k)].rec \in TaskRec
             /\ \A j \in DOMAIN w : w[j].task = s[k] => j <= LastOf(n, k)
  <2>1. /\ LastOf(n, k) \in DOMAIN w /\ w[LastOf(n, k)].task = s[k]
        /\ w[LastOf(n, k)].rec.by = Previous(s, k)
        /\ w[LastOf(n, k)].rec.blocks = Following(s, n, k)
        /\ \A j \in DOMAIN w : w[j].task = s[k] => j <= LastOf(n, k)
    BY <1>4, ImportEnds
  <2> QED
    BY <1>6, <2>1, UpsertIn
<1> HIDE DEF w
<1>8. ASSUME NEW k \in 1..n
      PROVE  goal[s[k]] = w[LastOf(n, k)].rec
  <2>1. at(s[k]) = k
    BY <1>5
  <2> QED
    BY <1>5, <2>1
<1>9. \A t \in Tasks : (\A k \in 1..n : s[k] # t) => goal[t] = store[t]
  OBVIOUS
<1>10. goal \in Board
  <2>1. ASSUME NEW t \in Tasks
        PROVE  goal[t] \in TaskRec \cup {None}
    <3>1. CASE \E k \in 1..n : s[k] = t
      BY <1>7, <1>8, <3>1
    <3>2. CASE \A k \in 1..n : s[k] # t
      BY <1>1, <1>9, <3>2 DEF Board
    <3> QED
      BY <3>1, <3>2
  <2> QED
    BY <2>1 DEF Board
<1> HIDE DEF goal
<1>11. Leads(store, w, goal)
  <2> SUFFICES ASSUME NEW t \in Tasks
               PROVE  \/ goal[t] = store[t] /\ \A k \in DOMAIN w : w[k].task # t
                      \/ \E i \in DOMAIN w :
                           /\ w[i].task = t /\ goal[t] = w[i].rec
                           /\ \A k \in DOMAIN w : w[k].task = t => k <= i
    BY DEF Leads
  <2>1. CASE \E k \in 1..n : s[k] = t
    <3>1. PICK k \in 1..n : s[k] = t
      BY <2>1
    <3> QED
      BY <1>7, <1>8, <3>1
  <2>2. CASE \A k \in 1..n : s[k] # t
    BY <1>6, <1>9, <2>2, ListedOnly
  <2> QED
    BY <2>1, <2>2
<1>12. ASSUME NEW k \in 1..n
       PROVE  /\ s[k] \in Known(goal)
              /\ goal[s[k]].by = Previous(s, k)
              /\ goal[s[k]].blocks = Following(s, n, k)
  <2>1. goal[s[k]] \in TaskRec /\ s[k] \in Tasks
    BY <1>5, <1>7, <1>8
  <2>2. s[k] \in Known(goal)
    BY <2>1, DependenciesAssumption DEF Known
  <2> QED
    BY <1>7, <1>8, <2>2
<1>13. ASSUME NEW u \in Known(store)
       PROVE  /\ goal[u] = store[u] /\ u \in Known(goal) /\ \A k \in 1..n : s[k] # u
              /\ u \notin raced => store[u].by \cup store[u].blocks \subseteq Known(store)
  BY <1>2, <1>5, <1>9 DEF Known, Agreeing
<1>14. ASSUME NEW u \in Known(goal), u \notin Known(store)
       PROVE  \E k \in 1..n : u = s[k]
  BY <1>9, <1>14 DEF Known
<1>15. ASSUME NEW k \in 1..n
       PROVE  /\ Previous(s, k) \cup Following(s, n, k) \subseteq Known(goal) \ Known(store)
              /\ \A j \in 1..n : s[j] \in Previous(s, k) <=> s[k] \in Following(s, n, j)
  <2>1. k # 1 => /\ k - 1 \in 1..n /\ s[k - 1] \in Known(goal) /\ s[k - 1] \notin Known(store)
                 /\ k - 1 # n /\ (k - 1) + 1 = k
    <3>1. k # 1 => k - 1 \in 1..n /\ k - 1 # n /\ (k - 1) + 1 = k
      OBVIOUS
    <3> QED
      BY <1>5, <1>12, <3>1
  <2>2. k # n => k + 1 \in 1..n /\ s[k + 1] \in Known(goal) /\ s[k + 1] \notin Known(store)
    <3>1. k # n => k + 1 \in 1..n
      OBVIOUS
    <3> QED
      BY <1>5, <1>12, <3>1
  <2>3. ASSUME NEW j \in 1..n, s[j] \in Previous(s, k)
        PROVE  s[k] \in Following(s, n, j)
    <3>1. k # 1 /\ s[j] = s[k - 1]
      BY <2>3 DEF Previous
    <3>2. j = k - 1
      BY <1>5, <2>1, <3>1
    <3>3. j # n /\ j + 1 = k
      BY <2>1, <3>1, <3>2
    <3> QED
      BY <3>3 DEF Following
  <2>4. ASSUME NEW j \in 1..n, s[k] \in Following(s, n, j)
        PROVE  s[j] \in Previous(s, k)
    <3>1. j # n /\ s[k] = s[j + 1]
      BY <2>4 DEF Following
    <3>2. j + 1 \in 1..n
      BY <3>1
    <3>3. k = j + 1
      BY <1>5, <3>1, <3>2
    <3>4. k # 1 /\ k - 1 = j
      BY <3>3
    <3> QED
      BY <3>4 DEF Previous
  <2>5. Previous(s, k) \subseteq Known(goal) \ Known(store)
    BY <2>1 DEF Previous
  <2>6. Following(s, n, k) \subseteq Known(goal) \ Known(store)
    BY <2>2 DEF Following
  <2> QED
    BY <2>3, <2>4, <2>5, <2>6
<1>16. Agreeing(goal, None, {}, raced)
  <2>1. ASSUME NEW u \in Known(goal) \ raced
        PROVE  goal[u].by \cup goal[u].blocks \subseteq Known(goal)
    <3>1. CASE u \in Known(store)
      BY <1>13, <3>1
    <3>2. CASE u \notin Known(store)
      <4>1. PICK k \in 1..n : u = s[k]
        BY <1>14, <3>2
      <4> QED
        BY <1>12, <1>15, <4>1
    <3> QED
      BY <3>1, <3>2
  <2>2. ASSUME NEW u \in Known(goal) \ raced, NEW e \in Known(goal) \ raced, u # e
        PROVE  e \in goal[u].by <=> u \in goal[e].blocks
    <3>1. CASE u \in Known(store) /\ e \in Known(store)
      BY <1>2, <1>13, <2>2, <3>1 DEF Agreeing
    <3>2. CASE u \in Known(store) /\ e \notin Known(store)
      <4>1. PICK k \in 1..n : e = s[k]
        BY <1>14, <3>2
      <4>2. e \notin goal[u].by
        BY <1>13, <3>2
      <4>3. u \notin goal[e].blocks
        BY <1>12, <1>15, <3>2, <4>1
      <4> QED
        BY <4>2, <4>3
    <3>3. CASE u \notin Known(store) /\ e \in Known(store)
      <4>1. PICK k \in 1..n : u = s[k]
        BY <1>14, <3>3
      <4>2. u \notin goal[e].blocks
        BY <1>13, <3>3
      <4>3. e \notin goal[u].by
        BY <1>12, <1>15, <3>3, <4>1
      <4> QED
        BY <4>2, <4>3
    <3>4. CASE u \notin Known(store) /\ e \notin Known(store)
      <4>1. PICK k \in 1..n : u = s[k]
        BY <1>14, <3>4
      <4>2. PICK j \in 1..n : e = s[j]
        BY <1>14, <3>4
      <4> QED
        BY <1>12, <1>15, <4>1, <4>2
    <3> QED
      BY <3>1, <3>2, <3>3, <3>4
  <2> QED
    BY <2>1, <2>2 DEF Agreeing
<1>17. AgreeOn(goal, api', raced)
  BY <1>1, <1>16 DEF AgreeOn, Busy
<1> QED
  BY <1>1, <1>10, <1>11, <1>17 DEF Agreement, w

\* Two boards with the same ends, with the same object of one task.
LEMMA SameWith ==
  ASSUME NEW goal, NEW next, SameBoard(next, goal, raced), NEW x, NEW rec
  PROVE  SameBoard(With(next, x, rec), With(goal, x, rec), raced)
<1>1. \A t : t \in Known(next) <=> t \in Known(goal)
  BY DEF SameBoard
<1>2. \A t \in Tasks : /\ With(next, x, rec)[t] = IF t = x THEN rec ELSE next[t]
                       /\ With(goal, x, rec)[t] = IF t = x THEN rec ELSE goal[t]
  BY DEF With
<1>3. Known(With(next, x, rec)) = Known(With(goal, x, rec))
  BY <1>1, <1>2 DEF Known
<1>4. ASSUME NEW t \in Known(With(next, x, rec)) \ raced
      PROVE  SameEnds(With(next, x, rec)[t], With(goal, x, rec)[t])
  <2>1. t \in Tasks
    BY DEF Known
  <2>2. CASE t = x
    BY <1>2, <2>1, <2>2 DEF SameEnds
  <2>3. CASE t # x
    <3>1. t \in Known(next)
      BY <1>2, <1>4, <2>1, <2>3 DEF Known
    <3> QED
      BY <1>2, <1>4, <2>1, <2>3, <3>1 DEF SameBoard
  <2> QED
    BY <2>2, <2>3
<1> QED
  BY <1>3, <1>4 DEF SameBoard

\* What a request knows of a board holds of one with the same ends.
LEMMA SameOn ==
  ASSUME NEW goal, NEW next, SameBoard(next, goal, raced), NEW th, AgreeOn(goal, th, raced)
  PROVE  AgreeOn(next, th, raced)
<1>1. \A x, gone : Agreeing(goal, x, gone, raced) => Agreeing(next, x, gone, raced)
  BY SameAgree
<1>2. \A x, rec, y, gone :
        Agreeing(With(goal, x, rec), y, gone, raced) => Agreeing(With(next, x, rec), y, gone, raced)
  BY SameWith, SameAgree
<1>3. th.pc \in {"idle", "write", "plan", "wire", "run", "await"} => Agreeing(next, None, {}, raced)
  BY <1>1 DEF AgreeOn
<1>4. th.pc = "unblock" => Agreeing(next, th.task, {th.dep}, raced)
  BY <1>1 DEF AgreeOn
<1>5. th.pc = "reset" =>
        th.task \in Known(next) /\ Agreeing(With(next, th.task, th.snap), th.task, th.todo, raced)
  BY <1>2 DEF AgreeOn, SameBoard
<1>6. th.pc \in Busy => Agreeing(th.snap, None, {}, raced) /\ SameBoard(next, th.snap, raced)
  BY DEF AgreeOn, SameBoard, SameEnds
<1>7. th.pc \in {"plan", "wire", "depends", "run"} =>
        th.task \in Known(next) /\ (th.task \in raced \/ SameEnds(next[th.task], th.snap))
  BY DEF AgreeOn, SameBoard, SameEnds
<1>8. th.pc = "depends" => Agreeing(With(next, Head(th.wire), th.child), None, {}, raced)
  BY <1>2 DEF AgreeOn
<1>9. /\ th.pc \in {"wire", "depends"} => th.task \notin th.made
      /\ th.pc = "await" => th.writes = <<>>
  BY DEF AgreeOn
<1> QED
  BY <1>3, <1>4, <1>5, <1>6, <1>7, <1>8, <1>9 DEF AgreeOn

\* A job writes a task with the ends that it has.
LEMMA JobAgree ==
  ASSUME FilesInv, AgreeInv, NEW j \in Jobs, JobWrite(j)
  PROVE  Agreement(store', api', raced) /\ JobsAgree(job', store', raced)
<1> DEFINE t == job[j].task
           w == api.writes
<1>1. t \in Tasks /\ t \in Known(store) /\ store \in Board /\ job[j] # None /\ api' = api
  BY JobEffect DEF Known, FilesInv, SoundBoard, JobWrite
<1>2. PICK rec \in TaskRec :
        /\ rec.by = job[j].rec.by /\ rec.blocks = job[j].rec.blocks
        /\ rec.status \in After[job[j].rec.status]
        /\ \A u \in Tasks : store'[u] = IF u = job[j].task THEN rec ELSE store[u]
        /\ \A k \in Jobs : job'[k] = IF k = j THEN [task |-> job[j].task, rec |-> rec] ELSE job[k]
        /\ \A u \in Tasks : before'[u] = IF rec.status = "done" THEN before[u] \ {job[j].task}
                                         ELSE before[u]
  BY JobEffect
<1>3. t \in raced \/ SameEnds(rec, store[t])
  BY <1>1, <1>2 DEF AgreeInv, JobsAgree, SameEnds
<1>4. \A u \in Tasks : store'[u] = IF u = t THEN rec ELSE store[u]
  BY <1>2
<1>5. \A k \in Jobs : job'[k] = IF k = j THEN [task |-> t, rec |-> rec] ELSE job[k]
  BY <1>2
<1> HIDE DEF t
<1>6. JobsAgree(job', store', raced)
  <2> SUFFICES ASSUME NEW k \in Jobs, job'[k] # None, job'[k].task \notin raced
               PROVE  SameEnds(job'[k].rec, store'[job'[k].task])
    BY DEF JobsAgree
  <2>1. CASE k = j
    <3>1. job'[k].task = t /\ job'[k].rec = rec /\ store'[t] = rec
      BY <1>1, <1>4, <1>5, <2>1
    <3> QED
      BY <3>1 DEF SameEnds
  <2>2. CASE k # j
    <3>1. job'[k] = job[k] /\ job[k] # None
      BY <1>5, <2>2
    <3>2. job[k].task \in Tasks /\ SameEnds(job[k].rec, store[job[k].task])
      BY <3>1 DEF AgreeInv, JobsAgree, FilesInv, JobsInv, Known
    <3>3. CASE job[k].task = t
      BY <1>1, <1>3, <1>4, <3>1, <3>2, <3>3 DEF SameEnds
    <3>4. CASE job[k].task # t
      BY <1>4, <3>1, <3>2, <3>4
    <3> QED
      BY <3>3, <3>4
  <2> QED
    BY <2>1, <2>2
<1>7. PICK goal \in Board : Leads(store, w, goal) /\ AgreeOn(goal, api, raced)
  BY DEF AgreeInv, Agreement
<1> HIDE DEF w
<1>8. CASE \E i \in DOMAIN w : w[i].task = t
  <2>1. Leads(store', w, goal)
    BY <1>4, <1>7, <1>8 DEF Leads
  <2> QED
    BY <1>1, <1>6, <1>7, <2>1 DEF Agreement, w
<1>9. CASE \A i \in DOMAIN w : w[i].task # t
  <2> DEFINE next == With(goal, t, rec)
  <2>1. goal[t] = store[t]
    BY <1>1, <1>7, <1>9 DEF Leads
  <2>2. t \in Known(goal)
    BY <1>1, <2>1 DEF Known
  <2>3. SameBoard(next, goal, raced)
    BY <1>3, <2>1, <2>2, SameWritten
  <2>4. next \in Board /\ \A u \in Tasks : next[u] = IF u = t THEN rec ELSE goal[u]
    BY <1>1, WithIs
  <2> HIDE DEF next
  <2>5. Leads(store', w, next)
    BY <1>4, <1>7, <1>9, <2>4 DEF Leads
  <2>6. AgreeOn(next, api, raced)
    BY <1>7, <2>3, SameOn
  <2> QED
    BY <1>1, <1>6, <2>4, <2>5, <2>6 DEF Agreement, w
<1> QED
  BY <1>8, <1>9

\* A job starts with the object of the task that POST /run wrote, and jobs end.
LEMMA JobsStay ==
  ASSUME TypesInv, AgreeInv, store' = store, raced' = raced,
         \/ job' = job
         \/ RunSubmit
         \/ \E j \in Jobs : JobEnd(j)
  PROVE  JobsAgree(job', store', raced')
<1>1. CASE job' = job
  BY <1>1 DEF AgreeInv
<1>2. CASE RunSubmit
  <2>1. PICK j \in Jobs :
          /\ job[j] = None
          /\ \A k \in Jobs : job'[k] = IF k = j THEN [task |-> api.task, rec |-> api.snap]
                                       ELSE job[k]
    BY <1>2, RunSubmitTypes
  <2>2. AgreeOn(store, api, raced)
    BY <1>2, AgreeHere DEF RunSubmit, AgreeInv, TypesInv
  <2>3. api.task \in raced \/ SameEnds(api.snap, store[api.task])
    BY <1>2, <2>2 DEF RunSubmit, AgreeOn, SameEnds
  <2> SUFFICES ASSUME NEW k \in Jobs, job'[k] # None, job'[k].task \notin raced
               PROVE  SameEnds(job'[k].rec, store[job'[k].task])
    BY DEF JobsAgree
  <2>4. CASE k = j
    <3>1. job'[k].task = api.task /\ job'[k].rec = api.snap
      BY <2>1, <2>4
    <3> QED
      BY <2>3, <3>1
  <2>5. CASE k # j
    <3>1. job'[k] = job[k]
      BY <2>1, <2>5
    <3> QED
      BY <3>1 DEF AgreeInv, JobsAgree
  <2> QED
    BY <2>4, <2>5
<1>3. ASSUME NEW j \in Jobs, JobEnd(j)
      PROVE  JobsAgree(job', store', raced')
  <2>1. \A k \in Jobs : job'[k] = IF k = j THEN None ELSE job[k]
    BY <1>3, JobEndEffect DEF TypesInv
  <2> QED
    BY <2>1 DEF AgreeInv, JobsAgree
<1> QED
  BY <1>1, <1>2, <1>3

\* The first board has every dependency at both ends, and so have the jobs.
LEMMA InitAgree ==
  ASSUME Init
  PROVE  AgreeInv /\ PausedInv
<1>1. PICK by \in [world.there -> SUBSET world.there] :
        /\ Acyclic(by, world.there)
        /\ \A t \in world.there :
             /\ store[t] \in TaskRec /\ store[t].inferred \subseteq world.there
             /\ store[t].by = by[t] /\ store[t].status \in {"backlog", "in_progress"}
             /\ store[t].blocks = {u \in world.there : t \in by[u]}
  BY FirstBoard
<1>2. store \in Board /\ Known(store) = world.there /\ api = Idle /\ raced = {}
  BY FirstBoard DEF Init
<1>3. api.pc = "idle" /\ api.writes = <<>>
  BY <1>2, IdleIsIdle
<1>4. Agreeing(store, None, {}, raced)
  <2>1. ASSUME NEW t \in world.there
        PROVE  store[t].by = by[t] /\ store[t].blocks = {u \in world.there : t \in by[u]}
    BY <1>1
  <2> QED
    BY <1>2, <2>1 DEF Agreeing
<1>5. AgreeOn(store, api, raced)
  BY <1>3, <1>4 DEF AgreeOn, Busy
<1>6. JobsAgree(job, store, raced)
  BY FirstBoard DEF JobsAgree, SameEnds
<1>7. PausedInv
  BY DEF Init, Idle, PausedInv
<1> QED
  BY <1>2, <1>3, <1>5, <1>6, <1>7, LeadsHere DEF Agreement, AgreeInv

\* A paused loop has nothing to do.
LEMMA LoopRests ==
  ASSUME TypesInv, PausedInv, world.paused
  PROVE  ~LoopStep
<1>1. loop.pc = "tick" /\ loop.writes = <<>>
  BY DEF TypesInv, PausedInv, LoopInv
<1> QED
  BY <1>1 DEF LoopStep, LoopAnalyse, LoopFlush, LoopClaim, LoopPass, Flush

\* Every step of a paused world in which clients tell both ends.
LEMMA AgreeStays ==
  ASSUME TypesInv, PausedInv, Told, AgreeInv, [Next]_vars
  PROVE  AgreeInv'
<1>1. /\ FilesInv /\ ApiInv /\ Agreement(store, api, raced) /\ JobsAgree(job, store, raced)
      /\ ~LoopStep
  BY LoopRests DEF TypesInv, AgreeInv, Told
<1> SUFFICES Agreement(store', api', raced') /\ JobsAgree(job', store', raced')
  BY DEF AgreeInv
<1>2. CASE ApiFlush
  BY <1>1, <1>2, FlushAgree, FlushJobs
<1>3. CASE ApiStep /\ ~ApiFlush
  <2>1. ~Create
    BY DEF Create, Told
  <2>2. Agreement(store', api', raced)
    BY <1>1, <1>3, <2>1, EndAgree, RunEndAgree, UnblockAgree, ResetBlockerAgree, ResetTaskAgree,
       AnalyseAgree, ImportAgree, PlanFailsAgree, MakeTasksAgree, WireTaskAgree, WireBlockerAgree,
       WiredAgree, CloseParentAgree DEF ApiStep
  <2>3. store' = store /\ raced' = raced /\ (job' = job \/ RunSubmit)
    BY <1>3, <2>1 DEF ApiStep, ApiEnd, RunSubmit, RunReturn, RemoveFromBlocker, ResetBlocker,
       ResetTask, ApiAnalyse, Import, PlanFails, MakeTasks, WireTask, WireBlocker, Wired,
       CloseParent, history
  <2> QED
    BY <2>2, <2>3, JobsStay
<1>4. ASSUME NEW j \in Jobs, JobWrite(j)
      PROVE  Agreement(store', api', raced') /\ JobsAgree(job', store', raced')
  <2>1. raced' = raced
    BY <1>4 DEF JobWrite
  <2> QED
    BY <1>1, <1>4, <2>1, JobAgree
<1>5. ASSUME NEW j \in Jobs, JobEnd(j)
      PROVE  Agreement(store', api', raced') /\ JobsAgree(job', store', raced')
  <2>1. store' = store /\ raced' = raced /\ api' = api
    BY <1>5 DEF JobEnd, history
  <2> QED
    BY <1>1, <1>5, <2>1, JobsStay
<1>6. ASSUME NEW t \in Tasks, Queue(t) \/ Run(t) \/ Patch(t) \/ Reset(t) \/ Generate(t)
      PROVE  Agreement(store', api', raced') /\ JobsAgree(job', store', raced')
  <2>1. ~Patch(t)
    BY DEF Patch, Told
  <2>2. Agreement(store', api', raced)
    BY <1>1, <1>6, <2>1, QueueAgree, RunAgree, ResetAgree, GenerateAgree
  <2>3. store' = store /\ raced' = raced /\ job' = job
    BY <1>6, <2>1 DEF Queue, Run, Reset, Generate, history
  <2> QED
    BY <2>2, <2>3, JobsStay
<1>7. ASSUME NEW t \in Tasks, NEW d \in Tasks, AddDependency(t, d) \/ RemoveDependency(t, d)
      PROVE  Agreement(store', api', raced') /\ JobsAgree(job', store', raced')
  <2>1. Agreement(store', api', raced)
    BY <1>1, <1>7, AddAgree, RemoveAgree
  <2>2. store' = store /\ raced' = raced /\ job' = job
    BY <1>7 DEF AddDependency, RemoveDependency, history
  <2> QED
    BY <2>1, <2>2, JobsStay
<1>8. CASE UNCHANGED vars
  <2>1. store' = store /\ api' = api /\ raced' = raced /\ job' = job
    BY <1>8 DEF vars, history
  <2> QED
    BY <1>1, <2>1
<1> QED
  BY <1>1, <1>2, <1>3, <1>4, <1>5, <1>6, <1>7, <1>8 DEF Next

\* And the loop rests on.
LEMMA PausedStays ==
  ASSUME TypesInv, PausedInv, [Next]_vars
  PROVE  PausedInv'
<1> SUFFICES ASSUME world'.paused PROVE loop'.pc = "tick"
  BY DEF PausedInv
<1>1. world' = world
  BY WorldStays
<1>2. ~LoopStep /\ loop.pc = "tick"
  BY <1>1, LoopRests DEF PausedInv
<1>3. loop' = loop
  BY <1>2 DEF Next, ApiStep, ApiFlush, ApiEnd, RunSubmit, RunReturn, RemoveFromBlocker, ResetBlocker,
     ResetTask, ApiAnalyse, Create, Import, PlanFails, MakeTasks, WireTask, WireBlocker, Wired,
     CloseParent, JobWrite, JobEnd, Queue, Run, Patch, Reset, Generate, AddDependency,
     RemoveDependency, vars
<1> QED
  BY <1>2, <1>3

\* While the scheduler is paused the two ends of a dependency agree between
\* requests, whatever jobs still write and clients ask for, but tasks that are made
\* or patched with blockers and those that a request changed beneath a job: for
\* every number of tasks and of jobs, and however long the requests, analyses, plans
\* and imports are.
THEOREM EndsKept == Spec => []EndsAgree
<1>1. Init => PausedInv /\ AgreeInv
  BY InitAgree
<1>2. TypesInv /\ PausedInv /\ (Told => AgreeInv) /\ [Next]_vars => PausedInv' /\ (Told => AgreeInv)'
  <2> SUFFICES ASSUME TypesInv, PausedInv, Told => AgreeInv, [Next]_vars
               PROVE  PausedInv' /\ (Told' => AgreeInv')
    OBVIOUS
  <2>1. Told' => Told
    BY WorldStays DEF Told
  <2> QED
    BY <2>1, AgreeStays, PausedStays
<1>3. TypesInv /\ (Told => AgreeInv) => EndsAgree
  <2> SUFFICES ASSUME TypesInv, AgreeInv, api.pc = "idle"
               PROVE  \A t, d \in Known(store) \ raced :
                        t # d => (d \in store[t].by <=> t \in store[d].blocks)
    BY DEF EndsAgree, Told
  <2>1. AgreeOn(store, api, raced)
    BY AgreeHere DEF TypesInv, ApiInv, AgreeInv
  <2> QED
    BY <2>1 DEF AgreeOn, Agreeing
<1> QED
  BY <1>1, <1>2, <1>3, Whole, PTL DEF Spec
=============================================================================
