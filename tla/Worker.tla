------------------------------- MODULE Worker -------------------------------
(***************************************************************************)
(* One call of LiveWorkerAdapter.run_step: a worker is started, watched    *)
(* until it ends, is silent too long or takes too long, and what it said   *)
(* becomes the StepResult that the pipeline goes by.                       *)
(*                                                                         *)
(* Workers are command lines ("cli": codex and claude, a subprocess) or a  *)
(* model behind HTTP ("ollama", a stream of lines).  Time is discrete, a   *)
(* unit standing for 5 s; it passes only where the code waits.  A test for *)
(* more than a limit may go either way when the limit is just reached.     *)
(*                                                                         *)
(* Abstracted: prompts, logs, which worker is configured; an answer is     *)
(* prose, the list that the step asks for, or the word that it failed; the *)
(* clock of a heartbeat is right, and heartbeats do not go back in time.   *)
(***************************************************************************)
EXTENDS Integers

CONSTANTS
  Providers,    \* kinds of workers
  Categories,   \* kinds of steps
  Timeout,      \* of the step
  Grace,        \* heartbeat_grace_seconds
  Poll,         \* poll_interval
  Term,         \* time to terminate, and to join a log thread
  Sock,         \* the socket's timeout, of each recv
  PromptFits,   \* the pipe of stdin takes the whole prompt
  Horizon       \* bound: until when a prompt is being written or a line dragged on

Listing == {"review", "scanning", "task_generation", "dependency_analysis"}

ASSUME WorkerAssumption ==
  /\ Providers \subseteq {"cli", "ollama"}
  /\ Categories \subseteq Listing \cup {"verification", "implementation"}
  /\ Timeout \in Nat /\ Grace \in Nat /\ Horizon \in Nat
  /\ Poll \in Nat \ {0} /\ Term \in Nat \ {0} /\ Sock \in Nat \ {0}
  /\ PromptFits \in BOOLEAN

VARIABLES
  ask,      \* the worker's kind and the step's
  pc,       \* where run_step is
  now,      \* time since the start
  until,    \* end of the wait in progress
  proc,     \* the subprocess
  last,     \* latest sign of life: log, heartbeat, line
  text,     \* what the worker has said last
  human,    \* progress.json asks for a human
  late, stalled, failed,   \* timed_out, no_heartbeat, an exit code of its own making
  broken,   \* the stream has timed out once
  dragged,  \* history: the server has sent a part of something, and not its end
  answer    \* the StepResult

said == <<last, text, human>>
result == <<late, stalled, failed, broken, dragged>>
vars == <<ask, pc, now, until, proc, said, result, answer>>

Text == {"none", "prose", "list", "failed"}
NoAnswer == [status |-> "none", list |-> FALSE]

Init ==
  /\ ask \in [provider : Providers, category : Categories]
  /\ pc = "resolve" /\ now = 0 /\ until = 0
  /\ proc = "none" /\ last = 0 /\ text = "none" /\ human = FALSE
  /\ late = FALSE /\ stalled = FALSE /\ failed = FALSE /\ broken = FALSE
  /\ dragged = FALSE
  /\ answer = NoAnswer

-----------------------------------------------------------------------------
(* The subprocess.                                                         *)

\* It writes to its logs.
Speak ==
  /\ proc = "running"
  /\ last' = now /\ text' \in Text \ {"none"}
  /\ UNCHANGED <<ask, pc, now, until, proc, human, result, answer>>

\* It writes progress.json whole: a heartbeat of now or the one it had, and
\* whether it asks for a human.
Progress ==
  /\ proc = "running"
  /\ last' \in {last, now} /\ human' \in BOOLEAN
  /\ UNCHANGED <<ask, pc, now, until, proc, text, result, answer>>

\* It ends, by itself or on SIGTERM, which it may handle and exit with 0.
Exit ==
  /\ proc = "running"
  /\ proc' \in {"ok", "failed"}
  /\ UNCHANGED <<ask, pc, now, until, said, result, answer>>

-----------------------------------------------------------------------------
(* run_step, up to the start of a worker.                                  *)

Answered(status, list) == answer' = [status |-> status, list |-> list]

\* No such worker, not available, or it cannot be started.
Refused ==
  /\ pc = "resolve"
  /\ Answered("error", FALSE)
  /\ pc' = "done"
  /\ UNCHANGED <<ask, now, until, proc, said, result>>

\* test_worker asks the model's server, and reading its answer times out: no
\* URLError, so the exception leaves run_step.
ProbeRaises ==
  /\ pc = "resolve" /\ ask.provider = "ollama"
  /\ pc' = "raised"
  /\ UNCHANGED <<ask, now, until, proc, said, result, answer>>

Spawn ==
  /\ pc = "resolve" /\ ask.provider = "cli"
  /\ proc' = "running"
  /\ pc' = "feed"
  /\ UNCHANGED <<ask, now, until, said, result, answer>>

\* process.stdin.write(prompt) returns: the pipe takes it, the worker reads it
\* (sooner or later, if the pipe does not), or is gone.
Feed ==
  /\ pc = "feed"
  /\ pc' = "check"
  /\ UNCHANGED <<ask, now, until, proc, said, result, answer>>

-----------------------------------------------------------------------------
(* The watch over a subprocess.                                            *)

Silence == now - last

\* SIGTERM, and five seconds to go.
Terminate == pc' = "term" /\ until' = now + Term

TimedOut ==
  /\ pc = "check" /\ now >= Timeout
  /\ late' = TRUE
  /\ Terminate
  /\ UNCHANGED <<ask, now, proc, said, stalled, failed, broken, dragged, answer>>

Stalled ==
  /\ pc = "check" /\ now <= Timeout /\ Silence >= Grace
  /\ stalled' = TRUE
  /\ Terminate
  /\ UNCHANGED <<ask, now, proc, said, late, failed, broken, dragged, answer>>

\* _load_data raises: progress.json is being written, and what is there ends
\* within a character.  run_step makes that an error; nobody ends the worker.
Abandon ==
  /\ pc = "check" /\ now <= Timeout
  /\ Answered("error", FALSE)
  /\ pc' = "abandoned"
  /\ UNCHANGED <<ask, now, until, proc, said, result>>

\* Mutant of Await: each sign of life starts the step's time again.
AwaitRenewed ==
  /\ pc = "check" /\ Silence <= Grace
  /\ pc' = "wait" /\ until' = now + Poll
  /\ UNCHANGED <<ask, now, proc, said, result, answer>>

\* Mutant of Await: silence is not looked at.
AwaitDeaf ==
  /\ pc = "check" /\ now <= Timeout
  /\ pc' = "wait" /\ until' = now + Poll
  /\ UNCHANGED <<ask, now, proc, said, result, answer>>

\* process.wait(timeout=poll_interval)
Await ==
  /\ pc = "check" /\ now <= Timeout /\ Silence <= Grace
  /\ pc' = "wait" /\ until' = now + Poll
  /\ UNCHANGED <<ask, now, proc, said, result, answer>>

\* Mutant of Again: process.wait() has no timeout.
AgainNever ==
  /\ pc = "wait" /\ proc # "running" /\ now = until
  /\ pc' = "check"
  /\ UNCHANGED <<ask, now, until, proc, said, result, answer>>

Again ==
  /\ pc = "wait" /\ proc = "running" /\ now = until
  /\ pc' = "check"
  /\ UNCHANGED <<ask, now, until, proc, said, result, answer>>

\* The wait finds the process gone.
Gone ==
  /\ pc \in {"wait", "term"} /\ proc # "running"
  /\ pc' = "join" /\ until' = now + 2 * Term
  /\ UNCHANGED <<ask, now, proc, said, result, answer>>

\* Mutant of Kill: a process that ignores SIGTERM is left alone.
KillNot ==
  /\ pc = "term" /\ proc = "running" /\ now = until
  /\ pc' = "join" /\ until' = now + 2 * Term
  /\ UNCHANGED <<ask, now, proc, said, result, answer>>

Kill ==
  /\ pc = "term" /\ proc = "running" /\ now = until
  /\ proc' = "failed"
  /\ pc' = "join" /\ until' = now + 2 * Term
  /\ UNCHANGED <<ask, now, said, result, answer>>

\* The log threads end, or are left behind after five seconds each.
Join ==
  /\ pc = "join"
  /\ failed' = (proc = "failed")
  /\ pc' = "map"
  /\ UNCHANGED <<ask, now, until, proc, said, late, stalled, broken, dragged, answer>>

-----------------------------------------------------------------------------
(* The stream of a model.  The socket's timeout is that of one recv: a     *)
(* connection or a line takes as many as its bytes come in.                *)

\* Bytes come, but not the last of an answer, of the headers or of a line: the
\* next recv waits for as long again.
Drag ==
  /\ pc \in {"resolve", "connect", "read"} /\ ask.provider = "ollama" /\ now < Horizon
  /\ until' = now + Sock
  /\ dragged' = TRUE
  /\ UNCHANGED <<ask, pc, now, proc, said, late, stalled, failed, broken, answer>>

Connect ==
  /\ pc = "resolve" /\ ask.provider = "ollama"
  /\ pc' = "connect" /\ until' = now + Sock
  /\ UNCHANGED <<ask, now, proc, said, result, answer>>

Connected ==
  /\ pc = "connect"
  /\ pc' = "stream" /\ last' = now
  /\ UNCHANGED <<ask, now, until, proc, text, human, result, answer>>

\* No connection, an HTTP error, or an exception while reading.
StreamFails ==
  /\ pc \in {"connect", "read"} \/ (pc = "stream" /\ now <= Timeout /\ broken)
  /\ failed' = TRUE
  /\ pc' = "map"
  /\ UNCHANGED <<ask, now, until, proc, said, late, stalled, broken, dragged, answer>>

StreamLate ==
  /\ pc = "stream" /\ now >= Timeout
  /\ late' = TRUE
  /\ pc' = "map"
  /\ UNCHANGED <<ask, now, until, proc, said, stalled, failed, broken, dragged, answer>>

Read ==
  /\ pc = "stream" /\ now <= Timeout /\ ~broken
  /\ pc' = "read" /\ until' = now + Sock
  /\ UNCHANGED <<ask, now, proc, said, result, answer>>

\* A line: a piece of the answer, or something that is not JSON, which goes to
\* the error log and makes the run a failure.
Line ==
  /\ pc = "read"
  /\ last' = now
  /\ \/ text' \in Text \ {"none"} /\ failed' = failed
     \/ failed' = TRUE /\ text' = text
  /\ pc' = "stream"
  /\ UNCHANGED <<ask, now, until, proc, human, late, stalled, broken, dragged, answer>>

\* socket.timeout: the loop goes on, but a stream that has timed out once
\* cannot be read any more.
Pause ==
  /\ pc = "read" /\ now = until
  /\ broken' = TRUE
  /\ pc' = "stream"
  /\ UNCHANGED <<ask, now, until, proc, said, late, stalled, failed, dragged, answer>>

\* done, or the end of the stream.
StreamEnds ==
  /\ pc = "read"
  /\ pc' = "map"
  /\ UNCHANGED <<ask, now, until, proc, said, result, answer>>

-----------------------------------------------------------------------------
(* _map_result.                                                            *)

\* WorkerRunResult.response_text: that of a command line stays empty.
Heard == IF ask.provider = "ollama" THEN text ELSE "none"

MapHuman ==
  /\ pc = "map" /\ human
  /\ Answered("human_blocked", FALSE)
  /\ pc' = "done"
  /\ UNCHANGED <<ask, now, until, proc, said, result>>

MapError ==
  /\ pc = "map" /\ ~human /\ (stalled \/ late \/ failed)
  /\ Answered("error", FALSE)
  /\ pc' = "done"
  /\ UNCHANGED <<ask, now, until, proc, said, result>>

\* Mutant of MapOk: the exit code alone decides.
MapOkByExitCode ==
  /\ pc = "map" /\ ~human /\ ~failed
  /\ Answered(IF ask.category = "verification" /\ Heard = "failed" THEN "error" ELSE "ok",
              ask.category \in Listing /\ Heard = "list")
  /\ pc' = "done"
  /\ UNCHANGED <<ask, now, until, proc, said, result>>

MapOk ==
  /\ pc = "map" /\ ~human /\ ~(stalled \/ late \/ failed)
  /\ Answered(IF ask.category = "verification" /\ Heard = "failed" THEN "error" ELSE "ok",
              ask.category \in Listing /\ Heard = "list")
  /\ pc' = "done"
  /\ UNCHANGED <<ask, now, until, proc, said, result>>

-----------------------------------------------------------------------------
\* Whether run_step may stand still until later.
Waiting ==
  \/ pc = "feed" /\ ~PromptFits /\ proc = "running" /\ now < Horizon
  \/ pc \in {"wait", "term"} /\ proc = "running" /\ now < until
  \/ pc \in {"join", "connect", "read"} /\ now < until
  \/ pc = "stream" /\ now <= Timeout

Tick ==
  /\ Waiting
  /\ now' = now + 1
  /\ UNCHANGED <<ask, pc, until, proc, said, result, answer>>

Watch == TimedOut \/ Abandon \/ Stalled \/ Await \/ Again \/ Gone \/ Kill \/ Join

Stream == Connect \/ Connected \/ StreamFails \/ StreamLate \/ Read \/ Line \/ Pause \/ StreamEnds

Step == Refused \/ ProbeRaises \/ Spawn \/ Feed \/ Watch \/ Stream \/ MapHuman \/ MapError \/ MapOk

Next == Step \/ Speak \/ Progress \/ Exit \/ Drag \/ Tick

Spec == Init /\ [][Next]_vars

\* The thread runs on and time passes; the worker owes nothing: nor does
\* the server of a model.
FairSpec == Spec /\ WF_vars(Step) /\ WF_vars(Tick)

-----------------------------------------------------------------------------
(* Properties.                                                             *)

PC == {"resolve", "feed", "check", "wait", "term", "join", "connect", "stream", "read",
       "map", "done", "abandoned", "raised"}

\* Types; a sign of life is never later than the clock, and no wait for a process,
\* a thread or the next bytes is overdue.
TypeOK ==
  /\ ask \in [provider : Providers, category : Categories]
  /\ pc \in PC
  /\ now \in Nat /\ until \in Nat
  /\ pc \in {"wait", "term", "join", "connect", "read"} => now <= until
  /\ proc \in {"none", "running", "ok", "failed"}
  /\ last \in Nat /\ last <= now
  /\ text \in Text /\ human \in BOOLEAN
  /\ late \in BOOLEAN /\ stalled \in BOOLEAN /\ failed \in BOOLEAN /\ broken \in BOOLEAN
  /\ dragged \in BOOLEAN
  /\ answer \in [status : {"none", "ok", "error", "human_blocked"}, list : BOOLEAN]

\* The time that a step may take beyond its timeout: a poll, SIGTERM and two
\* log threads; or a recv.
Slack == IF ask.provider = "cli" THEN Poll + 3 * Term ELSE Sock

\* worker.py:1: "Run Codex worker subprocesses and enforce heartbeat/timeout
\* behavior."  A step is over soon after its timeout, whatever a subprocess does
\* that was given its prompt, and whatever a model's server does that ends the
\* lines and headers it has begun; one that drags them on is waited for until a
\* recv after its latest bytes.
RunBounded ==
  /\ ask.provider = "cli" /\ PromptFits => now <= Timeout + Slack
  /\ ask.provider = "ollama" => now <= Timeout + Slack \/ (dragged /\ now <= until)

\* No worker is watched any longer that has been silent for a grace and a poll.
SilenceEnds == pc = "wait" => Silence <= Grace + Poll

\* When the watch ends so does the worker: nobody edits the worktree that is about
\* to be committed or removed.  Only an exception in the watch leaves one behind.
NothingLeft == pc \in {"map", "done"} => proc # "running"

\* A step succeeds only if its worker ended by itself and well, not if it was
\* terminated and exited with 0.
OkMeansFinished ==
  answer.status = "ok" => /\ ~late /\ ~stalled /\ ~failed
                          /\ ask.provider = "cli" => proc = "ok"

\* Every step is answered, or raises, if the pipe takes the prompt and the server
\* drags nothing on: a subprocess that does not read its prompt, and a server that
\* sends a line for ever, are waited for as long.
Ends == PromptFits => <>(pc \in {"done", "abandoned", "raised"} \/ dragged)

\* live_worker_adapter.py:561: "Dependency analysis: always parse response text
\* (both codex and ollama)".  The edges that an analysis lists reach the pipeline.
AnswersHeard ==
  answer.status = "ok" /\ text = "list" /\ ask.category = "dependency_analysis" => answer.list
=============================================================================
