----------------------------- MODULE CycleCheck -----------------------------
(***************************************************************************)
(* _has_cycle, step by step: a search from to_id along adj, the tasks that *)
(* wait for each task, until it meets from_id or has nowhere left to go.   *)
(*                                                                         *)
(* The stack is a set: a node in it twice is skipped the second time, and  *)
(* which one is popped is left open.                                       *)
(***************************************************************************)
EXTENDS Blockers

VARIABLES
  from_id, to_id, \* the edge in question
  visited, stack, \* of the search
  answer          \* "unknown" until it returns

searching == <<from_id, to_id, visited, stack, answer>>
vars == <<by, searching>>

\* adj[n], the dependents of n.
Adj(n) == {t \in Nodes : n \in by[t]}

Init ==
  /\ by \in [Nodes -> SUBSET Nodes]
  /\ from_id \in Nodes /\ to_id \in Nodes \ {from_id}
  /\ visited = {} /\ stack = {to_id}
  /\ answer = "unknown"

Found ==
  /\ answer = "unknown" /\ from_id \in stack
  /\ answer' = "cycle"
  /\ UNCHANGED <<by, from_id, to_id, visited, stack>>

Skip ==
  /\ answer = "unknown"
  /\ \E node \in (stack \cap visited) \ {from_id} : stack' = stack \ {node}
  /\ UNCHANGED <<by, from_id, to_id, visited, answer>>

\* Mutant of Visit: only the direct dependents are looked at.
VisitShallow ==
  /\ answer = "unknown"
  /\ \E node \in stack \ (visited \cup {from_id}) :
       /\ visited' = visited \cup {node}
       /\ stack' = (stack \ {node}) \cup (IF node = to_id THEN Adj(node) ELSE {})
  /\ UNCHANGED <<by, from_id, to_id, answer>>

\* Mutant of Visit: visited nodes are not remembered.
VisitForgetful ==
  /\ answer = "unknown"
  /\ \E node \in stack \ (visited \cup {from_id}) :
       stack' = (stack \ {node}) \cup Adj(node)
  /\ UNCHANGED <<by, from_id, to_id, visited, answer>>

Visit ==
  /\ answer = "unknown"
  /\ \E node \in stack \ (visited \cup {from_id}) :
       /\ visited' = visited \cup {node}
       /\ stack' = (stack \ {node}) \cup Adj(node)
  /\ UNCHANGED <<by, from_id, to_id, answer>>

Exhausted ==
  /\ answer = "unknown" /\ stack = {}
  /\ answer' = "no cycle"
  /\ UNCHANGED <<by, from_id, to_id, visited, stack>>

Next == Found \/ Skip \/ Visit \/ Exhausted

Spec == Init /\ [][Next]_vars

-----------------------------------------------------------------------------
TypeOK ==
  /\ by \in [Nodes -> SUBSET Nodes]
  /\ from_id \in Nodes /\ to_id \in Nodes
  /\ visited \subseteq Nodes /\ stack \subseteq Nodes
  /\ answer \in {"unknown", "cycle", "no cycle"}

\* _has_cycle says that the edge would create a cycle exactly when from_id
\* already waits for to_id.
AnswerRight ==
  /\ answer = "cycle" => WaitsFor(by, from_id, to_id)
  /\ answer = "no cycle" => ~WaitsFor(by, from_id, to_id)

\* What makes it inductive: the search stays among what waits for to_id, and
\* beyond visited and stack there is nothing to find.
SearchInv ==
  /\ AnswerRight
  /\ \A n \in visited \cup stack : WaitsFor(by, n, to_id)
  /\ to_id \in visited \cup stack
  /\ \A n \in visited : Adj(n) \subseteq visited \cup stack
  /\ from_id \notin visited

\* The answer keeps an acyclic graph acyclic: an edge it lets pass closes no cycle.
SafeToAdd ==
  answer = "no cycle" /\ Acyclic(by, Nodes) => Acyclic(WithEdge(by, from_id, to_id), Nodes)
=============================================================================
