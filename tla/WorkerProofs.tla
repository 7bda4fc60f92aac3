---------------------------- MODULE WorkerProofs ----------------------------
(***************************************************************************)
(* Proofs about Worker, for any timeout, grace, poll interval, time to     *)
(* terminate and socket timeout.                                           *)
(***************************************************************************)
EXTENDS Worker, TLAPS

Watching == {"feed", "check", "wait", "term", "join"}
Streaming == {"connect", "stream", "read"}

\* Which kind of worker is where, and what is known of its process there.
PlaceInv ==
  /\ pc \in Watching => ask.provider = "cli" /\ proc # "none"
  /\ pc \in Streaming => ask.provider = "ollama" /\ proc = "none"
  /\ pc \in {"map", "done"} /\ ask.provider = "ollama" => proc = "none"
  /\ pc \in {"join", "map", "done"} => proc # "running"
  /\ pc = "resolve" => proc = "none"
  /\ pc = "map" /\ ask.provider = "cli" =>
       proc \in {"ok", "failed"} /\ (failed <=> proc = "failed")
  /\ pc = "abandoned" => answer.status = "error"
  /\ pc \notin {"done", "abandoned"} => answer.status = "none"

\* How far the clock can be at each place.
TimeInv ==
  /\ pc \in {"resolve", "feed"} => now = 0
  /\ pc = "check" => now <= Timeout + Poll
  /\ pc = "wait" => until <= Timeout + Poll
  /\ pc = "term" => until <= Timeout + Poll + Term
  /\ pc = "join" => until <= Timeout + Poll + 3 * Term
  /\ pc \in {"connect", "read"} => until <= Timeout + Sock \/ dragged
  /\ pc = "stream" => now <= Timeout + Sock \/ (dragged /\ now <= until)
  /\ now <= Timeout + Slack \/ (ask.provider = "ollama" /\ dragged /\ now <= until)

\* An answer that all went well is given once, of a worker that ended well.
OkInv ==
  answer.status = "ok" => /\ pc = "done" /\ ~late /\ ~stalled /\ ~failed
                          /\ ask.provider = "cli" => proc = "ok"

\* No wait ends later than a grace and a poll after the latest sign of life.
SilenceInv == pc = "wait" => until <= last + Grace + Poll

\* What the arithmetic needs of the constants.
LEMMA Limits == /\ Timeout \in Nat /\ Grace \in Nat
                /\ Poll \in Nat /\ Term \in Nat /\ Sock \in Nat /\ 1 <= Sock
BY WorkerAssumption DEF WorkerAssumption

\* TypeOK, flags and answer apart.
Types ==
  /\ ask \in [provider : Providers, category : Categories]
  /\ pc \in PC
  /\ now \in Nat /\ until \in Nat
  /\ pc \in {"wait", "term", "join", "connect", "read"} => now <= until
  /\ proc \in {"none", "running", "ok", "failed"}
  /\ last \in Nat /\ last <= now
  /\ text \in Text

\* What the watch has found is true or false.
Flags ==
  /\ human \in BOOLEAN
  /\ late \in BOOLEAN /\ stalled \in BOOLEAN /\ failed \in BOOLEAN /\ broken \in BOOLEAN
  /\ dragged \in BOOLEAN

\* run_step returns a StepResult with a status and perhaps a list, or is not there yet.
AnswerType == answer \in [status : {"none", "ok", "error", "human_blocked"}, list : BOOLEAN]

\* Clock and places keep their types at every step.
LEMMA TypesKept == Spec => []Types
<1> USE Limits
<1>1. Init => Types
  BY DEF Init, Types, PC, Text
<1>2. Types /\ [Next]_vars => Types'
  <2> SUFFICES ASSUME Types, [Next]_vars
               PROVE  Types'
    OBVIOUS
  <2> USE DEF Types, PC, Text
  <2>1. CASE Speak \/ Progress \/ Exit \/ Drag
    BY <2>1 DEF Speak, Progress, Exit, Drag, said, result
  <2>2. CASE Refused \/ ProbeRaises \/ Spawn \/ Feed
    BY <2>2 DEF Refused, ProbeRaises, Spawn, Feed, said, result
  <2>3. CASE TimedOut \/ Abandon \/ Stalled \/ Await \/ Again
    BY <2>3 DEF TimedOut, Abandon, Stalled, Await, Again, Terminate, Answered, said, result
  <2>4. CASE Gone \/ Kill \/ Join
    BY <2>4 DEF Gone, Kill, Join, said, result
  <2>5. CASE Connect \/ Connected \/ StreamFails \/ StreamLate
    BY <2>5 DEF Connect, Connected, StreamFails, StreamLate, said, result
  <2>6. CASE Read \/ Line \/ Pause \/ StreamEnds
    BY <2>6 DEF Read, Line, Pause, StreamEnds, said, result
  <2>7. CASE MapHuman \/ MapError \/ MapOk
    BY <2>7 DEF MapHuman, MapError, MapOk, said, result
  <2>8. CASE Tick
    BY <2>8 DEF Tick, Waiting, said, result
  <2>9. CASE UNCHANGED vars
    BY <2>9 DEF vars, said, result
  <2>10. QED
    BY <2>1, <2>2, <2>3, <2>4, <2>5, <2>6, <2>7, <2>8, <2>9
       DEF Next, Step, Watch, Stream
<1>3. QED
  BY <1>1, <1>2, PTL DEF Spec

\* No step makes a flag anything but true or false.
LEMMA FlagsKept == Spec => []Flags
<1>1. Init => Flags
  BY DEF Init, Flags
<1>2. Flags /\ [Next]_vars => Flags'
  <2> SUFFICES ASSUME Flags, [Next]_vars
               PROVE  Flags'
    OBVIOUS
  <2> USE DEF Flags
  <2>1. CASE Progress
    BY <2>1 DEF Progress, result
  <2>2. CASE TimedOut \/ Stalled \/ StreamLate
    BY <2>2 DEF TimedOut, Stalled, StreamLate, said
  <2>3. CASE Join \/ StreamFails \/ Line
    BY <2>3 DEF Join, StreamFails, Line, said
  <2>4. CASE Pause \/ Drag
    BY <2>4 DEF Pause, Drag, said
  <2>5. CASE UNCHANGED <<human, result>>
    BY <2>5 DEF result
  <2>6. QED
    BY <2>1, <2>2, <2>3, <2>4, <2>5
       DEF Next, Step, Watch, Stream, Speak, Exit, Refused, ProbeRaises, Spawn, Feed, Abandon, Await, Again,
           Gone, Kill, Connect, Connected, Read, StreamEnds, MapHuman, MapError, MapOk,
           Tick, vars, said
<1>3. QED
  BY <1>1, <1>2, PTL DEF Spec

\* The types, the answer's with them: no wait for a process, for threads or for
\* the next bytes is overdue, and no sign of life lies ahead of the clock.
THEOREM TypeCorrect == Spec => []TypeOK
<1>1. Init => AnswerType
  BY DEF Init, AnswerType, NoAnswer
<1>2. AnswerType /\ [Next]_vars => AnswerType'
  <2> SUFFICES ASSUME AnswerType, [Next]_vars
               PROVE  AnswerType'
    OBVIOUS
  <2> USE DEF AnswerType
  <2>1. ASSUME NEW status \in {"ok", "error", "human_blocked"}, NEW list \in BOOLEAN,
               Answered(status, list)
        PROVE  AnswerType'
    BY <2>1 DEF Answered
  <2>2. CASE Refused \/ Abandon \/ MapHuman \/ MapError
    BY <2>1, <2>2 DEF Refused, Abandon, MapHuman, MapError
  <2>3. CASE MapOk
    <3> DEFINE status == IF ask.category = "verification" /\ Heard = "failed" THEN "error" ELSE "ok"
               list == ask.category \in Listing /\ Heard = "list"
    <3>1. status \in {"ok", "error", "human_blocked"} /\ list \in BOOLEAN
      OBVIOUS
    <3>2. Answered(status, list)
      BY <2>3 DEF MapOk
    <3> HIDE DEF status, list
    <3>3. QED
      BY <2>1, <3>1, <3>2
  <2>4. CASE UNCHANGED answer
    BY <2>4
  <2>5. QED
    BY <2>2, <2>3, <2>4
       DEF Next, Step, Watch, Stream, Speak, Progress, Exit, ProbeRaises, Spawn, Feed, TimedOut, Stalled,
           Await, Again, Gone, Kill, Join, Connect, Connected, StreamFails, StreamLate,
           Read, Line, Pause, StreamEnds, Drag, Tick, vars
<1>3. Types /\ Flags /\ AnswerType <=> TypeOK
  BY Zenon DEF Types, Flags, AnswerType, TypeOK
<1>4. QED
  BY <1>1, <1>2, <1>3, TypesKept, FlagsKept, PTL DEF Spec

\* The places: a step that ends well or ill has no worker left.
LEMMA PlacesKept == Spec => []PlaceInv
<1> USE Limits
<1>1. Init => PlaceInv
  BY DEF Init, PlaceInv, Watching, Streaming, NoAnswer
<1>2. Types /\ PlaceInv /\ [Next]_vars => PlaceInv'
  <2> SUFFICES ASSUME Types, PlaceInv, [Next]_vars
               PROVE  PlaceInv'
    OBVIOUS
  <2> USE DEF Types, PC, PlaceInv, Watching, Streaming
  <2>1. CASE Speak \/ Progress \/ Exit \/ Drag
    BY <2>1 DEF Speak, Progress, Exit, Drag, said, result
  <2>2. CASE Refused \/ ProbeRaises \/ Spawn \/ Feed
    BY <2>2 DEF Refused, ProbeRaises, Spawn, Feed, Answered, said, result
  <2>3. CASE TimedOut \/ Abandon \/ Stalled \/ Await \/ Again
    BY <2>3 DEF TimedOut, Abandon, Stalled, Await, Again, Terminate, Answered, said, result
  <2>4. CASE Gone \/ Kill \/ Join
    BY <2>4 DEF Gone, Kill, Join, said, result
  <2>5. CASE Connect \/ Connected \/ StreamFails \/ StreamLate
    BY <2>5 DEF Connect, Connected, StreamFails, StreamLate, said, result
  <2>6. CASE Read \/ Line \/ Pause \/ StreamEnds
    BY <2>6 DEF Read, Line, Pause, StreamEnds, said, result
  <2>7. CASE MapHuman \/ MapError \/ MapOk
    BY <2>7 DEF MapHuman, MapError, MapOk, Answered, said, result
  <2>8. CASE Tick
    BY <2>8 DEF Tick, said, result
  <2>9. CASE UNCHANGED vars
    BY <2>9 DEF vars, said, result
  <2>10. QED
    BY <2>1, <2>2, <2>3, <2>4, <2>5, <2>6, <2>7, <2>8, <2>9
       DEF Next, Step, Watch, Stream
<1>3. QED
  BY <1>1, <1>2, TypesKept, PTL DEF Spec

\* _run_codex_worker: however a worker ends or is ended, nothing of it runs
\* when its step is over.
THEOREM WorkerGone == Spec => []NothingLeft
<1>1. PlaceInv => NothingLeft
  BY DEF PlaceInv, NothingLeft
<1>2. QED
  BY <1>1, PlacesKept, PTL

\* _run_codex_worker and _run_ollama_generate: whatever a subprocess does that the
\* pipe has taken the prompt for, a step is over a poll, a SIGTERM and two log
\* threads after its timeout; that of a model is over a recv after its timeout, or,
\* if the server drags a line or its headers on, a recv after the latest bytes.
THEOREM Bounded == Spec => []RunBounded
<1> USE Limits
<1> DEFINE Bound == (ask.provider = "cli" => PromptFits) => TimeInv
<1>1. Init => Bound
  BY DEF Init, TimeInv, Slack, PlaceInv, Watching, Streaming
<1>2. Types /\ PlaceInv /\ Bound /\ [Next]_vars => Bound'
  <2> SUFFICES ASSUME Types, PlaceInv, Bound, [Next]_vars
               PROVE  Bound'
    OBVIOUS
  <2> USE DEF Types, PC, TimeInv, Slack, PlaceInv, Watching, Streaming
  <2>1. CASE Speak \/ Progress \/ Exit \/ Drag
    BY <2>1 DEF Speak, Progress, Exit, Drag, said, result
  <2>2. CASE Refused \/ ProbeRaises \/ Spawn \/ Feed
    BY <2>2 DEF Refused, ProbeRaises, Spawn, Feed, Answered, said, result
  <2>3. CASE TimedOut \/ Abandon \/ Stalled \/ Await \/ Again
    BY <2>3 DEF TimedOut, Abandon, Stalled, Await, Again, Terminate, Answered, said, result
  <2>4. CASE Gone \/ Kill \/ Join
    BY <2>4 DEF Gone, Kill, Join, said, result
  <2>5. CASE Connect \/ Connected \/ StreamFails \/ StreamLate
    BY <2>5 DEF Connect, Connected, StreamFails, StreamLate, said, result
  <2>6. CASE Read \/ Line \/ Pause \/ StreamEnds
    BY <2>6 DEF Read, Line, Pause, StreamEnds, said, result
  <2>7. CASE MapHuman \/ MapError \/ MapOk
    BY <2>7 DEF MapHuman, MapError, MapOk, Answered, said, result
  <2>8. CASE Tick
    BY <2>8 DEF Tick, Waiting, said, result
  <2>9. CASE UNCHANGED vars
    BY <2>9 DEF vars, said, result
  <2>10. QED
    BY <2>1, <2>2, <2>3, <2>4, <2>5, <2>6, <2>7, <2>8, <2>9
       DEF Next, Step, Watch, Stream
<1>3. Bound => RunBounded
  BY DEF TimeInv, RunBounded, Slack
<1> HIDE DEF Bound
<1>4. QED
  BY <1>1, <1>2, <1>3, TypesKept, PlacesKept, PTL DEF Spec

\* _run_codex_worker: nobody waits for a worker that has said nothing, in a log
\* or by a heartbeat, for longer than a grace and a poll.
THEOREM SilenceNoticed == Spec => []SilenceEnds
<1> USE Limits
<1>1. Init => SilenceInv
  BY DEF Init, SilenceInv, Silence
<1>2. Types /\ SilenceInv /\ [Next]_vars => SilenceInv'
  <2> SUFFICES ASSUME Types, SilenceInv, [Next]_vars
               PROVE  SilenceInv'
    OBVIOUS
  <2> USE DEF Types, PC, SilenceInv, Silence
  <2>1. CASE Speak \/ Progress \/ Exit \/ Drag
    BY <2>1 DEF Speak, Progress, Exit, Drag, said, result
  <2>2. CASE Refused \/ ProbeRaises \/ Spawn \/ Feed
    BY <2>2 DEF Refused, ProbeRaises, Spawn, Feed, Answered, said, result
  <2>3. CASE TimedOut \/ Abandon \/ Stalled \/ Await \/ Again
    BY <2>3 DEF TimedOut, Abandon, Stalled, Await, Again, Terminate, Answered, said, result
  <2>4. CASE Gone \/ Kill \/ Join
    BY <2>4 DEF Gone, Kill, Join, said, result
  <2>5. CASE Connect \/ Connected \/ StreamFails \/ StreamLate
    BY <2>5 DEF Connect, Connected, StreamFails, StreamLate, said, result
  <2>6. CASE Read \/ Line \/ Pause \/ StreamEnds
    BY <2>6 DEF Read, Line, Pause, StreamEnds, said, result
  <2>7. CASE MapHuman \/ MapError \/ MapOk
    BY <2>7 DEF MapHuman, MapError, MapOk, Answered, said, result
  <2>8. CASE Tick
    BY <2>8 DEF Tick, Waiting, said, result
  <2>9. CASE UNCHANGED vars
    BY <2>9 DEF vars, said, result
  <2>10. QED
    BY <2>1, <2>2, <2>3, <2>4, <2>5, <2>6, <2>7, <2>8, <2>9
       DEF Next, Step, Watch, Stream
<1>3. Types /\ SilenceInv => SilenceEnds
  BY DEF Types, SilenceInv, SilenceEnds, Silence
<1>4. QED
  BY <1>1, <1>2, <1>3, TypesKept, PTL DEF Spec

\* _map_result: ok is said only of a worker that was neither late nor silent and
\* ended by itself without an error.
THEOREM OkFinished == Spec => []OkMeansFinished
<1>1. Init => OkInv
  BY DEF Init, OkInv, PlaceInv, Watching, Streaming, NoAnswer
<1>2. Types /\ PlaceInv /\ OkInv /\ [Next]_vars => OkInv'
  <2> SUFFICES ASSUME Types, PlaceInv, OkInv, [Next]_vars
               PROVE  OkInv'
    OBVIOUS
  <2> USE DEF Types, PC, OkInv, PlaceInv, Watching, Streaming
  <2>1. CASE Speak \/ Progress \/ Exit \/ Drag
    BY <2>1 DEF Speak, Progress, Exit, Drag, said, result
  <2>2. CASE Refused \/ ProbeRaises \/ Spawn \/ Feed
    BY <2>2 DEF Refused, ProbeRaises, Spawn, Feed, Answered, said, result
  <2>3. CASE TimedOut \/ Abandon \/ Stalled \/ Await \/ Again
    BY <2>3 DEF TimedOut, Abandon, Stalled, Await, Again, Terminate, Answered, said, result
  <2>4. CASE Gone \/ Kill \/ Join
    BY <2>4 DEF Gone, Kill, Join, said, result
  <2>5. CASE Connect \/ Connected \/ StreamFails \/ StreamLate
    BY <2>5 DEF Connect, Connected, StreamFails, StreamLate, said, result
  <2>6. CASE Read \/ Line \/ Pause \/ StreamEnds
    BY <2>6 DEF Read, Line, Pause, StreamEnds, said, result
  <2>7. CASE MapHuman \/ MapError \/ MapOk
    BY <2>7 DEF MapHuman, MapError, MapOk, Answered, said, result
  <2>8. CASE Tick
    BY <2>8 DEF Tick, Waiting, said, result
  <2>9. CASE UNCHANGED vars
    BY <2>9 DEF vars, said, result
  <2>10. QED
    BY <2>1, <2>2, <2>3, <2>4, <2>5, <2>6, <2>7, <2>8, <2>9
       DEF Next, Step, Watch, Stream
<1>3. OkInv => OkMeansFinished
  BY DEF OkInv, OkMeansFinished
<1>4. QED
  BY <1>1, <1>2, <1>3, TypesKept, PlacesKept, PTL DEF Spec
=============================================================================
