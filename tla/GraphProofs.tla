---------------------------- MODULE GraphProofs ----------------------------
(***************************************************************************)
(* For every graph: _has_cycle answers right, an edge that it lets pass    *)
(* closes no cycle, and _execution_batches brings its tasks in order.      *)
(***************************************************************************)
EXTENDS CycleCheck, Batches, FiniteSetTheorems, TLAPS

-----------------------------------------------------------------------------
(* _has_cycle.                                                             *)

\* Types.
LEMMA TypeCorrect == Spec => []TypeOK
<1>1. Init => TypeOK
  BY DEF Init, TypeOK
<1>2. TypeOK /\ [Next]_vars => TypeOK'
  BY DEF TypeOK, Next, Found, Skip, Visit, Exhausted, Adj, vars, searching
<1> QED
  BY <1>1, <1>2, PTL DEF Spec

\* What waits for a task that waits for a waits for a.
LEMMA WaitsOn ==
  ASSUME NEW g \in [Nodes -> SUBSET Nodes], NEW a \in Nodes, NEW n \in Nodes, NEW t \in Nodes,
         WaitsFor(g, n, a), n \in g[t]
  PROVE  WaitsFor(g, t, a)
  BY DEF WaitsFor, Closed

\* The search explores exactly what waits for to_id.
LEMMA SearchInductive == TypeOK /\ SearchInv /\ [Next]_vars => SearchInv'
<1> SUFFICES ASSUME TypeOK, SearchInv, [Next]_vars PROVE SearchInv'
  OBVIOUS
<1>1. CASE Found
  BY <1>1 DEF Found, SearchInv, AnswerRight, Adj
<1>2. CASE Skip
  BY <1>2 DEF Skip, SearchInv, AnswerRight, Adj
<1>3. CASE Visit
  <2>1. PICK node \in stack \ (visited \cup {from_id}) :
          visited' = visited \cup {node} /\ stack' = (stack \ {node}) \cup Adj(node)
    BY <1>3 DEF Visit
  <2>2. UNCHANGED <<by, from_id, to_id, answer>>
    BY <1>3 DEF Visit
  <2>3. visited' \cup stack' = visited \cup stack \cup Adj(node)
    BY <2>1
  <2>4. \A n \in Adj(node) : WaitsFor(by, n, to_id)
    BY <2>1, WaitsOn DEF Adj, SearchInv, TypeOK
  <2>5. \A n \in visited' : Adj(n)' \subseteq visited' \cup stack'
    BY <2>1, <2>2, <2>3 DEF Adj, SearchInv
  <2> QED
    BY <2>1, <2>2, <2>3, <2>4, <2>5 DEF SearchInv, AnswerRight
<1>4. CASE Exhausted
  <2>1. to_id \in visited /\ from_id \notin visited /\ visited \in SUBSET DOMAIN by
    BY <1>4 DEF Exhausted, SearchInv, TypeOK
  <2>2. Closed(by, visited)
    BY <1>4 DEF Exhausted, SearchInv, TypeOK, Closed, Adj
  <2>3. ~WaitsFor(by, from_id, to_id)
    BY <2>1, <2>2 DEF WaitsFor
  <2> QED
    BY <1>4, <2>3 DEF Exhausted, SearchInv, AnswerRight, Adj
<1>5. CASE UNCHANGED vars
  BY <1>5 DEF vars, searching, SearchInv, AnswerRight, Adj
<1> QED
  BY <1>1, <1>2, <1>3, <1>4, <1>5 DEF Next

\* For every graph and every edge, whatever _has_cycle returns is right.
THEOREM SearchRight == Spec => []AnswerRight
<1>1. Init => SearchInv
  BY DEF Init, SearchInv, AnswerRight, WaitsFor
<1>2. SearchInv => AnswerRight
  BY DEF SearchInv
<1> QED
  BY <1>1, <1>2, TypeCorrect, SearchInductive, PTL DEF Spec

\* An edge to a task that its source does not wait for closes no cycle.
LEMMA EdgeKeepsAcyclic ==
  ASSUME NEW g \in [Nodes -> SUBSET Nodes], NEW from \in Nodes, NEW to \in Nodes,
         Acyclic(g, Nodes), ~WaitsFor(g, from, to)
  PROVE  Acyclic(WithEdge(g, from, to), Nodes)
<1> DEFINE h == WithEdge(g, from, to)
<1>1. PICK C \in SUBSET Nodes : to \in C /\ Closed(g, C) /\ from \notin C
  BY DEF WaitsFor
<1>2. \A t \in Nodes : h[t] = IF t = to THEN g[t] \cup {from} ELSE g[t]
  BY DEF WithEdge
<1> SUFFICES ASSUME NEW S \in SUBSET Nodes, Stuck(h, S), S # {} PROVE FALSE
  BY DEF Acyclic
<1> HIDE DEF h
<1>3. Stuck(g, S \ C)
  <2> SUFFICES ASSUME NEW t \in S \ C PROVE g[t] \cap (S \ C) # {}
    BY DEF Stuck
  <2>1. PICK b \in S : b \in g[t]
    BY <1>1, <1>2 DEF Stuck
  <2>2. b \notin C
    BY <1>1, <2>1 DEF Closed
  <2> QED
    BY <2>1, <2>2
<1>4. S \subseteq C
  BY <1>3 DEF Acyclic
<1>5. Stuck(g, S)
  <2> SUFFICES ASSUME NEW t \in S PROVE g[t] \cap S # {}
    BY DEF Stuck
  <2>1. PICK b \in S : b \in h[t]
    BY DEF Stuck
  <2>2. t \in Nodes /\ b # from
    BY <1>1, <1>4
  <2> QED
    BY <1>2, <2>1, <2>2
<1> QED
  BY <1>5 DEF Acyclic

\* An edge that _has_cycle lets pass keeps every acyclic graph acyclic.
THEOREM AddingIsSafe == Spec => []SafeToAdd
<1>1. TypeOK /\ AnswerRight => SafeToAdd
  BY EdgeKeepsAcyclic DEF TypeOK, AnswerRight, SafeToAdd
<1> QED
  BY <1>1, TypeCorrect, SearchRight, PTL

-----------------------------------------------------------------------------
(* _execution_batches.                                                     *)

\* Those that have been counted off.
Counted == Batched \ batch

\* The blockers of t that have not.
Left(t) == (by[t] \cap tasks) \ Counted

OrderTypes ==
  /\ by \in [Nodes -> SUBSET Nodes] /\ tasks \subseteq Nodes /\ IsFiniteSet(tasks)
  /\ batches \in Seq(SUBSET tasks)
  /\ indegree \in [tasks -> Int] /\ ready \subseteq tasks /\ batch \subseteq tasks

\* Every batch has its place.
Placed(i) ==
  \A t \in batches[i] :
    /\ \A j \in DOMAIN batches : t \in batches[j] => j = i
    /\ \A b \in by[t] \cap tasks : \E j \in 1..(i - 1) : b \in batches[j]
    /\ i > 1 => by[t] \cap batches[i - 1] # {}

\* The counters count what is left, and a task is in a batch, or in the next, as
\* soon as nothing is.
OrderInv ==
  /\ OrderTypes
  /\ \A t \in tasks : indegree[t] = Cardinality(Left(t))
  /\ \A t \in tasks : Left(t) = {} <=> t \in Batched \cup ready
  /\ ready \cap Batched = {}
  /\ batch # {} => batches # <<>> /\ batch \subseteq batches[Len(batches)]
  /\ batches # <<>> => \A t \in ready : by[t] \cap batches[Len(batches)] # {}
  /\ \A i \in DOMAIN batches : Placed(i)

\* A part of the board is finite.
LEMMA LeftFinite ==
  ASSUME OrderTypes, NEW t \in tasks
  PROVE  IsFiniteSet(Left(t)) /\ Cardinality(Left(t)) \in Nat
         /\ (Cardinality(Left(t)) = 0 <=> Left(t) = {})
<1>1. IsFiniteSet(Left(t))
  BY FS_Subset DEF Left, OrderTypes
<1> QED
  BY <1>1, FS_CardinalityType, FS_EmptySet

\* Before the first batch is taken nothing is counted off.
LEMMA OrderFirst ==
  ASSUME OrderInit
  PROVE  OrderInv
<1>1. /\ by \in [Nodes -> SUBSET Nodes] /\ tasks \subseteq Nodes /\ IsFiniteSet(tasks)
      /\ batch = {} /\ batches = <<>>
      /\ indegree = [t \in tasks |-> Degree(t)] /\ ready = {t \in tasks : indegree[t] = 0}
  BY DEF OrderInit
<1>2. Batched = {} /\ DOMAIN batches = {}
  BY <1>1 DEF Batched
<1>3. \A t \in tasks : Left(t) = by[t] \cap tasks
  BY <1>2 DEF Left, Counted
<1>4. \A t \in tasks : IsFiniteSet(by[t] \cap tasks)
  BY <1>1, FS_Subset
<1>5. \A t \in tasks : Degree(t) \in Int /\ (Degree(t) = 0 <=> by[t] \cap tasks = {})
  BY <1>4, FS_CardinalityType, FS_EmptySet DEF Degree
<1>6. OrderTypes
  BY <1>1, <1>5 DEF OrderTypes
<1>7. \A t \in tasks : indegree[t] = Cardinality(Left(t))
  BY <1>1, <1>3 DEF Degree
<1>8. \A t \in tasks : Left(t) = {} <=> t \in Batched \cup ready
  BY <1>1, <1>2, <1>3, <1>5
<1> QED
  BY <1>1, <1>2, <1>6, <1>7, <1>8 DEF OrderInv

\* A batch is taken once the one before it is counted off.
LEMMA TakeRight ==
  ASSUME OrderInv, TakeBatch
  PROVE  OrderInv'
<1> DEFINE n == Len(batches)
<1>1. /\ batch = {} /\ ready # {} /\ batch' = ready /\ batches' = Append(batches, ready)
      /\ ready' = {} /\ UNCHANGED <<by, tasks, indegree>>
  BY DEF TakeBatch
<1>2. batches \in Seq(SUBSET tasks) /\ ready \in SUBSET tasks
  BY DEF OrderInv, OrderTypes
<1>3. /\ batches' \in Seq(SUBSET tasks) /\ n \in Nat
      /\ DOMAIN batches = 1..n /\ DOMAIN batches' = 1..(n + 1) /\ Len(batches') = n + 1
      /\ batches'[n + 1] = ready /\ \A i \in 1..n : batches'[i] = batches[i]
  BY <1>1, <1>2
<1> HIDE DEF n
<1>4. \A t \in tasks : t \in Batched' <=> t \in Batched \/ t \in ready
  <2> SUFFICES ASSUME NEW t \in tasks
               PROVE  (\E i \in 1..(n + 1) : t \in batches'[i])
                      <=> ((\E i \in 1..n : t \in batches[i]) \/ t \in ready)
    BY <1>1, <1>3 DEF Batched
  <2>1. \A i \in 1..(n + 1) : i = n + 1 \/ i \in 1..n
    BY <1>3
  <2>2. n + 1 \in 1..(n + 1) /\ \A i \in 1..n : i \in 1..(n + 1)
    BY <1>3
  <2> QED
    BY <1>3, <2>1, <2>2
<1>5. Batched \subseteq tasks /\ Batched' \subseteq tasks /\ ready \cap Batched = {}
  BY <1>1 DEF Batched, OrderInv
<1>6. Counted = Batched /\ Counted' = Batched
  BY <1>1, <1>2, <1>4, <1>5 DEF Counted
<1>7. \A t \in tasks : Left(t)' = Left(t)
  BY <1>1, <1>6 DEF Left
<1>8. OrderTypes'
  BY <1>1, <1>2, <1>3 DEF OrderInv, OrderTypes
<1>9. (\A t \in tasks : indegree[t] = Cardinality(Left(t)))'
  BY <1>1, <1>7 DEF OrderInv
<1>10. (\A t \in tasks : Left(t) = {} <=> t \in Batched \cup ready)'
  BY <1>1, <1>4, <1>7 DEF OrderInv
<1>11. (\A i \in DOMAIN batches : Placed(i))'
  <2> SUFFICES ASSUME NEW i \in 1..(n + 1), NEW t \in batches'[i]
               PROVE  /\ \A j \in 1..(n + 1) : t \in batches'[j] => j = i
                      /\ \A b \in by[t] \cap tasks : \E j \in 1..(i - 1) : b \in batches'[j]
                      /\ i > 1 => by[t] \cap batches'[i - 1] # {}
    BY <1>1, <1>3 DEF Placed
  <2>1. CASE i = n + 1
    <3>1. t \in ready /\ t \in tasks /\ t \notin Batched
      BY <1>2, <1>3, <1>5, <2>1
    <3>2. \A j \in 1..(n + 1) : t \in batches'[j] => j = n + 1
      <4>1. \A j \in 1..n : t \notin batches[j]
        BY <1>3, <3>1 DEF Batched
      <4>2. \A j \in 1..(n + 1) : j = n + 1 \/ j \in 1..n
        BY <1>3
      <4> QED
        BY <1>3, <4>1, <4>2
    <3>3. by[t] \cap tasks \subseteq Batched
      BY <1>6, <3>1 DEF OrderInv, Left
    <3>4. \A b \in by[t] \cap tasks : \E j \in 1..n : b \in batches'[j]
      BY <1>3, <3>3 DEF Batched
    <3>5. n \in Nat /\ i - 1 = n
      BY <1>3, <2>1
    <3>6. n > 0 => by[t] \cap batches[n] # {} /\ n \in 1..n
      <4>1. n > 0 => batches # <<>>
        BY <1>2 DEF n
      <4> QED
        BY <3>1, <3>5, <4>1 DEF OrderInv, n
    <3> QED
      BY <1>3, <2>1, <3>2, <3>4, <3>5, <3>6
  <2>2. CASE i # n + 1
    <3>1. i \in 1..n /\ batches'[i] = batches[i] /\ Placed(i)
      BY <1>3, <2>2 DEF OrderInv
    <3>2. t \in tasks /\ t \in Batched /\ t \notin ready
      BY <1>2, <1>3, <1>5, <3>1 DEF Batched
    <3>3. \A j \in 1..(n + 1) : t \in batches'[j] => j \in 1..n
      BY <1>3, <3>2
    <3>4. \A j \in 1..(i - 1) : j \in 1..n
      BY <1>3, <3>1
    <3>5. i > 1 => i - 1 \in 1..n
      BY <1>3, <3>1
    <3> QED
      BY <1>3, <3>1, <3>3, <3>4, <3>5 DEF Placed
  <2> QED
    BY <2>1, <2>2
<1>12. (batch # {} => batches # <<>> /\ batch \subseteq batches[Len(batches)])'
  BY <1>1, <1>3
<1>13. (ready \cap Batched = {})' /\ (batches # <<>> => \A t \in ready : by[t] \cap batches[Len(batches)] # {})'
  BY <1>1
<1> QED
  BY <1>8, <1>9, <1>10, <1>11, <1>12, <1>13 DEF OrderInv

\* A task is counted off: its dependents have one blocker fewer to wait for.
LEMMA CountRight ==
  ASSUME OrderInv, CountOff
  PROVE  OrderInv'
<1>1. PICK t \in batch :
        /\ batch' = batch \ {t}
        /\ indegree' = [d \in tasks |-> IF t \in by[d] THEN indegree[d] - 1 ELSE indegree[d]]
        /\ ready' = ready \cup {d \in tasks : t \in by[d] /\ indegree'[d] = 0}
        /\ UNCHANGED <<by, tasks, batches>>
  BY DEF CountOff
<1> DEFINE n == Len(batches)
<1>2. n \in DOMAIN batches /\ t \in batches[n] /\ t \in tasks /\ batches # <<>>
  BY DEF OrderInv, OrderTypes
<1>3. t \in Batched /\ t \notin Counted /\ Batched' = Batched
  BY <1>1, <1>2 DEF Batched, Counted
<1>4. Counted' = Counted \cup {t}
  BY <1>1, <1>3 DEF Counted
<1>5. \A d \in tasks : Left(d)' = Left(d) \ {t}
  BY <1>1, <1>4 DEF Left
<1>6. ASSUME NEW d \in tasks
      PROVE  /\ indegree[d] = Cardinality(Left(d)) /\ IsFiniteSet(Left(d))
             /\ t \in Left(d) <=> t \in by[d]
             /\ Left(d) = {} <=> d \in Batched \cup ready
  BY <1>2, <1>3, LeftFinite DEF OrderInv, Left
<1>7. ASSUME NEW d \in tasks
      PROVE  /\ indegree'[d] = Cardinality(Left(d)') /\ indegree'[d] \in Int
             /\ indegree'[d] = 0 <=> Left(d)' = {}
  <2> DEFINE rest == Left(d) \ {t}
  <2>1. IsFiniteSet(rest) /\ Cardinality(rest) \in Int /\ (Cardinality(rest) = 0 <=> rest = {})
    <3>1. IsFiniteSet(rest)
      BY <1>6, FS_Subset
    <3> QED
      BY <3>1, FS_CardinalityType, FS_EmptySet
  <2>2. Cardinality(rest) = IF t \in Left(d) THEN Cardinality(Left(d)) - 1 ELSE Cardinality(Left(d))
    <3>1. CASE t \in Left(d)
      BY <1>6, <3>1, FS_RemoveElement
    <3>2. CASE t \notin Left(d)
      <4>1. rest = Left(d)
        BY <3>2
      <4> QED
        BY <3>2, <4>1
    <3> QED
      BY <3>1, <3>2
  <2> HIDE DEF rest
  <2>3. indegree'[d] = IF t \in by[d] THEN indegree[d] - 1 ELSE indegree[d]
    BY <1>1
  <2>4. indegree'[d] = Cardinality(rest)
    BY <1>6, <2>3, <2>2
  <2> QED
    BY <1>5, <2>1, <2>4 DEF rest
<1>8. ASSUME NEW d \in tasks
      PROVE  /\ Left(d)' = {} <=> d \in Batched \cup ready'
             /\ d \in ready' => /\ d \notin Batched
                                /\ d \in ready \/ t \in by[d]
  <2>1. d \in ready' <=> d \in ready \/ (t \in by[d] /\ Left(d)' = {})
    BY <1>1, <1>7
  <2>2. CASE t \in by[d]
    BY <1>5, <1>6, <2>1, <2>2
  <2>3. CASE t \notin by[d]
    <3>1. Left(d)' = Left(d)
      BY <1>5, <1>6, <2>3
    <3> QED
      BY <1>6, <2>1, <2>3, <3>1 DEF OrderInv
  <2> QED
    BY <2>2, <2>3
<1>9. OrderTypes'
  <2>1. indegree' \in [tasks -> Int]
    BY <1>1, <1>7
  <2>2. ready' \subseteq tasks /\ batch' \subseteq tasks
    BY <1>1 DEF OrderInv, OrderTypes
  <2> QED
    BY <1>1, <2>1, <2>2 DEF OrderInv, OrderTypes
<1>10. (\A d \in tasks : indegree[d] = Cardinality(Left(d)))'
  BY <1>1, <1>7
<1>11. (\A d \in tasks : Left(d) = {} <=> d \in Batched \cup ready)'
  BY <1>1, <1>3, <1>8
<1>12. (ready \cap Batched = {})'
  BY <1>3, <1>8, <1>9 DEF OrderTypes, Batched
<1>13. (batch # {} => batches # <<>> /\ batch \subseteq batches[Len(batches)])'
  BY <1>1, <1>2 DEF OrderInv
<1>14. (batches # <<>> => \A d \in ready : by[d] \cap batches[Len(batches)] # {})'
  <2> SUFFICES ASSUME NEW d \in ready' PROVE by[d] \cap batches[n] # {}
    BY <1>1
  <2>1. d \in tasks
    BY <1>1, <1>9 DEF OrderTypes
  <2> QED
    BY <1>2, <1>8, <2>1 DEF OrderInv
<1>15. (\A i \in DOMAIN batches : Placed(i))'
  BY <1>1 DEF OrderInv, Placed
<1> QED
  BY <1>9, <1>10, <1>11, <1>12, <1>13, <1>14, <1>15 DEF OrderInv

\* For every finite board and any graph of blockers, cycles and ids without a task
\* included: _execution_batches puts every task right after the last of its
\* blockers, and leaves out only what waits for a cycle.
THEOREM BatchesRight == OrderSpec => []OrderRight
<1>1. OrderInit => OrderInv
  BY OrderFirst
<1>2. OrderInv /\ [OrderNext]_<<by, ordering>> => OrderInv'
  <2> SUFFICES ASSUME OrderInv, [OrderNext]_<<by, ordering>> PROVE OrderInv'
    OBVIOUS
  <2>1. CASE UNCHANGED <<by, ordering>>
    <3>1. UNCHANGED <<by, tasks, indegree, ready, batch, batches>>
      BY <2>1 DEF ordering
    <3>2. Batched' = Batched /\ (\A t \in tasks : Left(t)' = Left(t)) /\ OrderTypes'
      BY <3>1 DEF OrderInv, OrderTypes, Left, Counted, Batched
    <3>3. (\A i \in DOMAIN batches : Placed(i))'
      BY <3>1 DEF OrderInv, Placed
    <3>4. /\ (\A t \in tasks : indegree[t] = Cardinality(Left(t)))'
          /\ (\A t \in tasks : Left(t) = {} <=> t \in Batched \cup ready)'
      BY <3>1, <3>2 DEF OrderInv
    <3>5. /\ (ready \cap Batched = {})'
          /\ (batch # {} => batches # <<>> /\ batch \subseteq batches[Len(batches)])'
          /\ (batches # <<>> => \A t \in ready : by[t] \cap batches[Len(batches)] # {})'
      BY <3>1, <3>2 DEF OrderInv
    <3> QED
      BY <3>2, <3>3, <3>4, <3>5 DEF OrderInv
  <2> QED
    BY <2>1, TakeRight, CountRight DEF OrderNext
<1>3. OrderInv => OrderRight
  <2> SUFFICES ASSUME OrderInv, Returned PROVE Stuck(by, tasks \ Batched)
    BY DEF OrderInv, OrderRight, Placed
  <2> SUFFICES ASSUME NEW t \in tasks \ Batched PROVE by[t] \cap (tasks \ Batched) # {}
    BY DEF Stuck
  <2>1. Left(t) # {} /\ batch = {}
    BY DEF OrderInv, Returned
  <2> QED
    BY <2>1 DEF Left, Counted
<1> QED
  BY <1>1, <1>2, <1>3, PTL DEF OrderSpec
=============================================================================
