--------------------------- MODULE MCDependencies ---------------------------
(***************************************************************************)
(* Dependencies for TLC: boards that are queued, reopened and analysed     *)
(* while jobs run, the editing of one whose scheduler is paused, tasks     *)
(* made from plans, imports, single tasks made while the scheduler runs,   *)
(* and patches.                                                            *)
(***************************************************************************)
EXTENDS Dependencies

CONSTANTS t1, t2, t3, j1, j2

Running(tasks, jobs, ops, edges) ==
  [there |-> tasks, found |-> FALSE, paused |-> FALSE, ops |-> ops, edges |-> edges, jobs |-> jobs]

Paused(tasks, jobs, ops) ==
  [there |-> tasks, found |-> TRUE, paused |-> TRUE, ops |-> ops, edges |-> 1, jobs |-> jobs]

MCWorlds ==
  {Running({t1, t2}, {j1, j2}, {"queue", "reopen"}, 1),
   Running({t1, t2}, {j1}, {"queue", "create"}, 1),
   Running({}, {j1}, {"import"}, 0),
   Running({t1}, {j1, j2}, {"import"}, 0),
   Running({t1}, {j1}, {"import", "run"}, 0),
   Paused({t1, t2}, {j1}, {"run", "add", "remove", "reset"}),
   Paused({t1, t2}, {j1}, {"requeue", "reset", "analyze"}),
   Paused({t1}, {j1}, {"generate", "import", "remove", "reset"}),
   Paused({t1, t2}, {}, {"patch"})}
=============================================================================
