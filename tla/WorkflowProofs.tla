--------------------------- MODULE WorkflowProofs ---------------------------
(***************************************************************************)
(* Safety of the workflow executor for every set of nodes, every graph and *)
(* every pattern of spawn failures, and correctness of TopologicalOrder    *)
(* for every graph and every order of its map iterations.                  *)
(***************************************************************************)
EXTENDS WorkflowOrder, FiniteSetTheorems, SequenceTheorems, TLAPS

\* While the caller still builds the workflow nothing has left pending, and
\* the graph mentions only nodes that were added (workflow.go AddTask runs
\* AddNode and InitNode before AddDependency).
Building ==
  /\ ~built => \A n \in Node : state[n] \in {"none", "pending"}
  /\ edges \subseteq nodes \X nodes
  /\ \A n \in Node : n \in nodes <=> state[n] # "none"

\* The inductive invariant.
WorkflowInv ==
  /\ TypeOK
  /\ Building
  /\ DepsDone
  /\ SpawnedOnce
  /\ ReadyNodeRunsUnlessAborted

\* What one pass of the readying loop (executor.go readyNode, called from
\* Start and MarkNodeCompleted) can do to the states st it starts from.
LEMMA ReadyAllEffect ==
  ASSUME NEW candidates \in SUBSET Node,
         NEW st \in [Node -> NodeStates \cup {"none"}],
         spawned \in [Node -> Nat], aborted \in BOOLEAN,
         ReadyAll(candidates, st)
  PROVE  /\ state' \in [Node -> NodeStates \cup {"none"}]
         /\ spawned' \in [Node -> Nat]
         /\ aborted' \in BOOLEAN
         /\ \A n \in Node :
              \/ state'[n] = st[n] /\ spawned'[n] = spawned[n]
              \/ /\ n \in candidates
                 /\ st[n] = "pending"
                 /\ state'[n] = "running"
                 /\ spawned'[n] \in {spawned[n], spawned[n] + 1}
         /\ ~aborted' => /\ ~aborted
                         /\ \A n \in candidates : state'[n] = "running"
<1>1. PICK done \in SUBSET {c \in candidates : st[c] = "pending"} :
        /\ spawned' = [n \in Node |->
                         IF n \in done THEN spawned[n] + 1 ELSE spawned[n]]
        /\ \/ /\ done = candidates
              /\ state' = [n \in Node |->
                             IF n \in done THEN "running" ELSE st[n]]
              /\ UNCHANGED aborted
           \/ \E bad \in candidates \ done :
                /\ aborted' = TRUE
                /\ \/ /\ st[bad] # "pending"
                      /\ state' = [n \in Node |->
                                     IF n \in done THEN "running" ELSE st[n]]
                   \/ /\ st[bad] = "pending"
                      /\ SpawnMayFail
                      /\ state' = [n \in Node |->
                                     IF n \in done \cup {bad}
                                       THEN "running" ELSE st[n]]
  BY DEF ReadyAll
<1>2. CASE /\ done = candidates
           /\ state' = [n \in Node |->
                          IF n \in done THEN "running" ELSE st[n]]
           /\ UNCHANGED aborted
  BY <1>1, <1>2 DEF NodeStates
<1>3. CASE \E bad \in candidates \ done :
             /\ aborted' = TRUE
             /\ \/ /\ st[bad] # "pending"
                   /\ state' = [n \in Node |->
                                  IF n \in done THEN "running" ELSE st[n]]
                \/ /\ st[bad] = "pending"
                   /\ SpawnMayFail
                   /\ state' = [n \in Node |->
                                  IF n \in done \cup {bad}
                                    THEN "running" ELSE st[n]]
  BY <1>1, <1>3 DEF NodeStates
<1>4. QED
  BY <1>1, <1>2, <1>3

\* The invariant holds for the empty workflow.
LEMMA InitWorkflowInv == Init => WorkflowInv
<1> SUFFICES ASSUME Init PROVE WorkflowInv
  OBVIOUS
<1>1. TypeOK
  BY DEF Init, TypeOK
<1>2. Building /\ DepsDone /\ SpawnedOnce /\ ReadyNodeRunsUnlessAborted
  BY DEF Init, Building, DepsDone, SpawnedOnce, ReadyNodeRunsUnlessAborted
<1>3. QED
  BY <1>1, <1>2 DEF WorkflowInv

\* AddTask keeps it: before Start nothing has left pending.
LEMMA AddTaskPreserves ==
  ASSUME WorkflowInv, NEW n \in Node, NEW deps \in SUBSET Node,
         AddTask(n, deps)
  PROVE  WorkflowInv'
<1> USE DEF WorkflowInv, AddTask
<1>1. PICK added \in SUBSET (deps \cap nodes') :
        edges' = edges \cup {<<d, n>> : d \in added}
  OBVIOUS
<1>2. TypeOK'
  BY <1>1 DEF TypeOK, NodeStates
<1>3. Building'
  BY <1>1 DEF Building, TypeOK, NodeStates
<1>4. DepsDone' /\ ReadyNodeRunsUnlessAborted'
  BY <1>2, <1>3 DEF DepsDone, Building, ReadyNodeRunsUnlessAborted, TypeOK
<1>5. SpawnedOnce'
  BY DEF SpawnedOnce, Building, TypeOK
<1>6. QED
  BY <1>2, <1>3, <1>4, <1>5

\* Start keeps it: the roots have no dependencies, and after a loop without
\* an error none of them is pending.
LEMMA StartPreserves ==
  ASSUME WorkflowInv, Start
  PROVE  WorkflowInv'
<1> DEFINE roots == {n \in nodes : Dependencies(n) = {}}
<1> USE DEF WorkflowInv
<1>1. /\ ReadyAll(roots, state)
      /\ UNCHANGED <<nodes, edges>> /\ built' = TRUE
  BY DEF Start
<1>2. roots \in SUBSET Node
  BY DEF TypeOK
<1> HIDE DEF roots
<1>3. /\ state' \in [Node -> NodeStates \cup {"none"}]
      /\ spawned' \in [Node -> Nat]
      /\ aborted' \in BOOLEAN
      /\ \A n \in Node :
           \/ state'[n] = state[n] /\ spawned'[n] = spawned[n]
           \/ /\ n \in roots
              /\ state[n] = "pending"
              /\ state'[n] = "running"
              /\ spawned'[n] \in {spawned[n], spawned[n] + 1}
      /\ ~aborted' => /\ ~aborted
                      /\ \A n \in roots : state'[n] = "running"
  BY <1>1, <1>2, ReadyAllEffect DEF TypeOK
<1>4. TypeOK'
  BY <1>1, <1>3 DEF TypeOK
<1>5. Building'
  BY <1>1, <1>3 DEF Building, TypeOK
<1>6. DepsDone'
  <2> SUFFICES ASSUME NEW n \in Node, state'[n] \notin {"none", "pending"},
                      NEW d \in Dependencies(n)'
               PROVE  state'[d] = "completed"
    BY DEF DepsDone
  <2>1. d \in Node /\ d \in Dependencies(n)
    BY <1>1 DEF Dependencies
  <2>2. n \notin roots
    BY <2>1 DEF roots
  <2>3. state[d] = "completed"
    BY <1>3, <2>1, <2>2 DEF DepsDone
  <2>4. QED
    BY <1>3, <2>1, <2>3
<1>7. SpawnedOnce'
  BY <1>3 DEF SpawnedOnce, TypeOK
<1>8. ReadyNodeRunsUnlessAborted'
  <2> SUFFICES ASSUME ~aborted', NEW n \in nodes', state'[n] = "pending",
                      \A d \in Dependencies(n)' : state'[d] = "completed"
               PROVE  FALSE
    BY DEF ReadyNodeRunsUnlessAborted
  <2>1. n \in nodes /\ n \in Node /\ Dependencies(n)' = Dependencies(n)
    BY <1>1 DEF TypeOK, Dependencies
  <2>2. n \notin roots /\ state[n] = "pending"
    BY <1>3, <2>1
  <2>3. PICK d \in Node : d \in Dependencies(n)
    BY <2>1, <2>2 DEF roots, Dependencies
  <2>4. \A e \in Dependencies(n) : e \in Node /\ state[e] = "completed"
    BY <1>3, <2>1 DEF Dependencies
  <2>5. built /\ ~aborted
    BY <1>3, <2>3, <2>4 DEF Building, TypeOK
  <2>6. QED
    BY <2>1, <2>2, <2>4, <2>5 DEF ReadyNodeRunsUnlessAborted
<1>9. QED
  BY <1>4, <1>5, <1>6, <1>7, <1>8

\* MarkNodeCompleted keeps it: a dependent is readied only in the step that
\* completes its last dependency.
LEMMA MarkCompletedPreserves ==
  ASSUME WorkflowInv, NEW n \in Node, MarkCompleted(n)
  PROVE  WorkflowInv'
<1> DEFINE st == [state EXCEPT ![n] = "completed"]
           ready == {m \in Dependents(n) : IsNodeReady(m, st)}
<1> USE DEF WorkflowInv
<1>1. /\ built /\ state[n] = "running"
      /\ ReadyAll(ready, st)
      /\ UNCHANGED <<nodes, edges, built>>
  BY DEF MarkCompleted, AllowedTransition
<1>2. ready \in SUBSET Node /\ st \in [Node -> NodeStates \cup {"none"}]
  BY DEF TypeOK, NodeStates, Dependents
<1>3. \A m \in Node : st[m] = IF m = n THEN "completed" ELSE state[m]
  BY DEF TypeOK
<1>4. \A m \in Node : m \in ready <=>
        /\ <<n, m>> \in edges
        /\ \A d \in Dependencies(m) : st[d] = "completed"
        /\ st[m] \in {"pending", "running"}
  BY DEF Dependents, IsNodeReady
<1> HIDE DEF st, ready
<1>5. /\ state' \in [Node -> NodeStates \cup {"none"}]
      /\ spawned' \in [Node -> Nat]
      /\ aborted' \in BOOLEAN
      /\ \A m \in Node :
           \/ state'[m] = st[m] /\ spawned'[m] = spawned[m]
           \/ /\ m \in ready
              /\ st[m] = "pending"
              /\ state'[m] = "running"
              /\ spawned'[m] \in {spawned[m], spawned[m] + 1}
      /\ ~aborted' => /\ ~aborted
                      /\ \A m \in ready : state'[m] = "running"
  BY <1>1, <1>2, ReadyAllEffect DEF TypeOK
<1>6. TypeOK'
  BY <1>1, <1>5 DEF TypeOK
<1>7. Building'
  BY <1>1, <1>3, <1>5 DEF Building, TypeOK
<1>8. DepsDone'
  <2> SUFFICES ASSUME NEW m \in Node, state'[m] \notin {"none", "pending"},
                      NEW d \in Dependencies(m)'
               PROVE  state'[d] = "completed"
    BY DEF DepsDone
  <2>1. d \in Node /\ d \in Dependencies(m)
    BY <1>1 DEF Dependencies
  <2>2. st[d] = "completed"
    <3>1. CASE m \in ready
      BY <1>4, <2>1, <3>1
    <3>2. CASE m \notin ready
      <4>1. state[m] \notin {"none", "pending"}
        BY <1>1, <1>3, <1>5, <3>2
      <4>2. state[d] = "completed"
        BY <2>1, <4>1 DEF DepsDone
      <4>3. QED
        BY <1>3, <2>1, <4>2
    <3>3. QED
      BY <3>1, <3>2
  <2>3. QED
    BY <1>5, <2>1, <2>2
<1>9. SpawnedOnce'
  BY <1>1, <1>3, <1>5 DEF SpawnedOnce, TypeOK
<1>10. ReadyNodeRunsUnlessAborted'
  <2> SUFFICES ASSUME ~aborted', NEW m \in nodes', state'[m] = "pending",
                      \A d \in Dependencies(m)' : state'[d] = "completed"
               PROVE  FALSE
    BY DEF ReadyNodeRunsUnlessAborted
  <2>1. m \in nodes /\ m \in Node /\ Dependencies(m)' = Dependencies(m)
    BY <1>1 DEF TypeOK, Dependencies
  <2>2. /\ ~aborted /\ m \notin ready
        /\ st[m] = "pending" /\ state[m] = "pending"
    BY <1>3, <1>5, <2>1
  <2>3. \A d \in Dependencies(m) : d \in Node /\ st[d] = "completed"
    BY <1>5, <2>1 DEF Dependencies
  <2>4. <<n, m>> \notin edges
    BY <1>4, <2>1, <2>2, <2>3
  <2>5. \A d \in Dependencies(m) : state[d] = "completed"
    BY <1>3, <2>3, <2>4 DEF Dependencies
  <2>6. QED
    BY <1>1, <2>1, <2>2, <2>5 DEF ReadyNodeRunsUnlessAborted
<1>11. QED
  BY <1>6, <1>7, <1>8, <1>9, <1>10

\* MarkNodeFailed keeps it: only a running node fails.
LEMMA MarkFailedPreserves ==
  ASSUME WorkflowInv, NEW n \in Node, MarkFailed(n)
  PROVE  WorkflowInv'
BY DEF MarkFailed, AllowedTransition, WorkflowInv, TypeOK, NodeStates,
       Building, DepsDone, SpawnedOnce, ReadyNodeRunsUnlessAborted,
       Dependencies

\* The invariant holds in every reachable state.
LEMMA WorkflowInvariant == Spec => []WorkflowInv
<1>1. WorkflowInv /\ [Next]_vars => WorkflowInv'
  <2> SUFFICES ASSUME WorkflowInv, [Next]_vars
               PROVE  WorkflowInv'
    OBVIOUS
  <2>1. CASE UNCHANGED vars
    BY <2>1 DEF vars, WorkflowInv, TypeOK, Building, DepsDone, SpawnedOnce,
                ReadyNodeRunsUnlessAborted, Dependencies
  <2>2. QED
    BY <2>1, AddTaskPreserves, StartPreserves, MarkCompletedPreserves,
       MarkFailedPreserves DEF Next
<1>2. QED
  BY InitWorkflowInv, <1>1, PTL DEF Spec

\* For every graph, iteration order and pattern of spawn failures: an agent
\* never starts before all dependencies of its node completed.
THEOREM WorkflowSafety == Spec => [](TypeOK /\ DepsDone)
<1>1. WorkflowInv => TypeOK /\ DepsDone
  BY DEF WorkflowInv
<1>2. QED
  BY WorkflowInvariant, <1>1, PTL

\* For every graph: a node's agent is started at most once, and only for a node
\* that has left pending, in whatever order the nodes of a diamond become ready.
THEOREM SpawnsOnce == Spec => []SpawnedOnce
<1>1. WorkflowInv => SpawnedOnce
  BY DEF WorkflowInv
<1>2. QED
  BY WorkflowInvariant, <1>1, PTL

\* For every graph and pattern of spawn failures: a ready node is left behind
\* only by a loop of Start or MarkNodeCompleted that returned an error.
THEOREM ReadyNodesRun == Spec => []ReadyNodeRunsUnlessAborted
<1>1. WorkflowInv => ReadyNodeRunsUnlessAborted
  BY DEF WorkflowInv
<1>2. QED
  BY WorkflowInvariant, <1>1, PTL

\* A completed or failed node keeps its state and is never spawned again,
\* whatever Start, MarkCompleted and MarkFailed calls follow.
THEOREM SettledNodesStaySettled == Spec => SettledStaysSettled
<1>1. ASSUME TypeOK, Building, [Next]_vars
      PROVE  [\A n \in Node : state[n] \in {"completed", "failed"} =>
                state'[n] = state[n] /\ spawned'[n] = spawned[n]]_vars
  <2> SUFFICES ASSUME Next, NEW n \in Node,
                      state[n] \in {"completed", "failed"}
               PROVE  state'[n] = state[n] /\ spawned'[n] = spawned[n]
    BY <1>1
  <2>1. ASSUME NEW m \in Node, NEW deps \in SUBSET Node, AddTask(m, deps)
        PROVE  state'[n] = state[n] /\ spawned'[n] = spawned[n]
    BY <1>1, <2>1 DEF AddTask, Building
  <2>2. CASE Start
    <3>1. {r \in nodes : Dependencies(r) = {}} \in SUBSET Node
      BY <1>1 DEF TypeOK
    <3>2. QED
      BY <1>1, <2>2, <3>1, ReadyAllEffect DEF Start, TypeOK
  <2>3. ASSUME NEW m \in Node, MarkCompleted(m)
        PROVE  state'[n] = state[n] /\ spawned'[n] = spawned[n]
    <3> DEFINE st == [state EXCEPT ![m] = "completed"]
               ready == {k \in Dependents(m) : IsNodeReady(k, st)}
    <3>1. /\ ready \in SUBSET Node /\ st \in [Node -> NodeStates \cup {"none"}]
          /\ state[m] = "running" /\ ReadyAll(ready, st)
      BY <1>1, <2>3 DEF TypeOK, NodeStates, Dependents, MarkCompleted,
                        AllowedTransition
    <3>2. st[n] = state[n]
      BY <1>1, <3>1 DEF TypeOK
    <3> HIDE DEF st, ready
    <3>3. QED
      BY <1>1, <3>1, <3>2, ReadyAllEffect DEF TypeOK
  <2>4. ASSUME NEW m \in Node, MarkFailed(m)
        PROVE  state'[n] = state[n] /\ spawned'[n] = spawned[n]
    BY <1>1, <2>4 DEF MarkFailed, AllowedTransition, TypeOK
  <2>5. QED
    BY <2>1, <2>2, <2>3, <2>4 DEF Next
<1>2. QED
  <2>1. WorkflowInv => TypeOK /\ Building
    BY DEF WorkflowInv
  <2>2. QED
    BY <1>1, <2>1, WorkflowInvariant, PTL DEF Spec, SettledStaysSettled

-----------------------------------------------------------------------------
(* TopologicalOrder *)

\* The instance of DagOrder has a Cardinality of its own: the same one.
LEMMA SameCardinality ==
  ASSUME NEW S
  PROVE  D!Cardinality(S) = Cardinality(S)
BY Zenon DEF D!Cardinality, Cardinality

\* Any order a map iteration takes lists every key, and none twice.
LEMMA Listing ==
  ASSUME NEW S, IsFiniteSet(S), NEW s \in D!SetToSeqs(S)
  PROVE  /\ s \in Seq(S)
         /\ Range(s) = S
         /\ IsInjective(s)
<1> DEFINE n == Cardinality(S)
<1>1. n \in Nat
  BY FS_CardinalityType
<1>2. s \in [1..n -> S] /\ \A i, j \in 1..n : i # j => s[i] # s[j]
  BY SameCardinality DEF D!SetToSeqs
<1>3. Cardinality(1..n) = n
  BY <1>1, FS_Interval
<1>4. s \in Injection(1..n, S)
  BY <1>2 DEF Injection, IsInjective
<1> HIDE DEF n
<1>5. s \in Surjection(1..n, S)
  BY <1>3, <1>4, FS_Injection DEF n
<1>6. Range(s) = S
  BY <1>5 DEF Surjection, Range
<1>7. QED
  BY <1>1, <1>2, <1>4, <1>6 DEF Injection

\* What a queue or an order holds after the moves of the loop.
LEMMA RangeOfAppend ==
  ASSUME NEW S, NEW s \in Seq(S), NEW x \in S
  PROVE  Range(Append(s, x)) = Range(s) \cup {x}
<1> DEFINE t == Append(s, x)
<1>1. /\ t \in Seq(S) /\ Len(t) = Len(s) + 1 /\ t[Len(s) + 1] = x
      /\ \A i \in 1..Len(s) : t[i] = s[i]
  BY AppendProperties
<1>2. DOMAIN t = 1..(Len(s) + 1) /\ DOMAIN s = 1..Len(s) /\ Len(s) \in Nat
  BY <1>1
<1> HIDE DEF t
<1>3. QED
  BY <1>1, <1>2 DEF Range, t

LEMMA RangeOfTail ==
  ASSUME NEW S, NEW s \in Seq(S), s # <<>>, IsInjective(s)
  PROVE  /\ Head(s) \in S /\ Head(s) \in Range(s)
         /\ Tail(s) \in Seq(S)
         /\ Range(Tail(s)) = Range(s) \ {Head(s)}
         /\ IsInjective(Tail(s))
<1> DEFINE t == Tail(s)
<1>1. /\ Head(s) \in S /\ t \in Seq(S) /\ Len(t) = Len(s) - 1
      /\ \A i \in 1..Len(t) : t[i] = s[i + 1]
  BY HeadTailProperties
<1>2. /\ DOMAIN t = 1..Len(t) /\ DOMAIN s = 1..Len(s)
      /\ Len(s) \in Nat /\ Len(s) >= 1 /\ Head(s) = s[1]
  BY <1>1
<1> HIDE DEF t
<1>3. \A i, j \in 1..Len(s) : s[i] = s[j] => i = j
  BY <1>2 DEF IsInjective
<1>4. Range(t) \subseteq Range(s) \ {Head(s)}
  <2> SUFFICES ASSUME NEW i \in 1..Len(t)
               PROVE  t[i] # s[1] /\ \E j \in 1..Len(s) : t[i] = s[j]
    BY <1>2 DEF Range
  <2>1. i + 1 \in 1..Len(s) /\ i + 1 # 1 /\ t[i] = s[i + 1]
    BY <1>1, <1>2
  <2>2. QED
    BY <1>2, <1>3, <2>1
<1>5. Range(s) \ {Head(s)} \subseteq Range(t)
  <2> SUFFICES ASSUME NEW i \in 1..Len(s), s[i] # s[1]
               PROVE  \E j \in 1..Len(t) : t[j] = s[i]
    BY <1>2 DEF Range
  <2>1. i - 1 \in 1..Len(t) /\ t[i - 1] = s[(i - 1) + 1] /\ (i - 1) + 1 = i
    BY <1>1, <1>2
  <2>2. QED
    BY <2>1
<1>6. IsInjective(t)
  BY <1>1, <1>2, <1>3 DEF IsInjective
<1>7. Head(s) \in Range(s)
  BY <1>2 DEF Range
<1>8. QED
  BY <1>1, <1>4, <1>5, <1>6, <1>7 DEF t

LEMMA RangeOfConcat ==
  ASSUME NEW S, NEW s \in Seq(S), NEW t \in Seq(S),
         IsInjective(s), IsInjective(t), Range(s) \cap Range(t) = {}
  PROVE  /\ s \o t \in Seq(S)
         /\ Range(s \o t) = Range(s) \cup Range(t)
         /\ IsInjective(s \o t)
<1> DEFINE u == s \o t
<1>1. /\ u \in Seq(S) /\ Len(u) = Len(s) + Len(t)
      /\ \A i \in 1..(Len(s) + Len(t)) :
           u[i] = IF i <= Len(s) THEN s[i] ELSE t[i - Len(s)]
  BY ConcatProperties
<1>2. /\ DOMAIN u = 1..(Len(s) + Len(t)) /\ DOMAIN s = 1..Len(s)
      /\ DOMAIN t = 1..Len(t) /\ Len(s) \in Nat /\ Len(t) \in Nat
  BY <1>1
<1> HIDE DEF u
<1>3. \A i \in 1..Len(s) : i \in DOMAIN u /\ u[i] = s[i]
  BY <1>1, <1>2
<1>4. ASSUME NEW i \in 1..Len(t)
      PROVE  Len(s) + i \in DOMAIN u /\ u[Len(s) + i] = t[i]
  <2>1. /\ Len(s) + i \in 1..(Len(s) + Len(t))
        /\ ~ (Len(s) + i <= Len(s)) /\ (Len(s) + i) - Len(s) = i
    BY <1>2
  <2>2. QED
    BY <1>1, <1>2, <2>1
<1>5. Range(s) \cup Range(t) \subseteq Range(u)
  BY <1>2, <1>3, <1>4 DEF Range
<1>6. \A i \in DOMAIN u :
        \/ i \in 1..Len(s) /\ u[i] = s[i]
        \/ i - Len(s) \in 1..Len(t) /\ u[i] = t[i - Len(s)]
  BY <1>1, <1>2
<1>7. \A i \in 1..Len(s), j \in 1..Len(t) : s[i] # t[j]
  BY <1>2 DEF Range
<1>8. Range(u) \subseteq Range(s) \cup Range(t)
  BY <1>2, <1>6 DEF Range
<1>9. IsInjective(u)
  <2> SUFFICES ASSUME NEW i \in DOMAIN u, NEW j \in DOMAIN u, u[i] = u[j]
               PROVE  i = j
    BY DEF IsInjective
  <2>1. CASE i \in 1..Len(s) /\ u[i] = s[i]
    BY <1>2, <1>6, <1>7, <2>1 DEF IsInjective
  <2>2. CASE i - Len(s) \in 1..Len(t) /\ u[i] = t[i - Len(s)]
    <3>1. j - Len(s) \in 1..Len(t) /\ u[j] = t[j - Len(s)]
      BY <1>6, <1>7, <2>2
    <3>2. i - Len(s) = j - Len(s)
      BY <1>2, <2>2, <3>1 DEF IsInjective
    <3>3. QED
      BY <1>2, <3>2
  <2>3. QED
    BY <1>6, <2>1, <2>2
<1>10. QED
  BY <1>1, <1>5, <1>8, <1>9 DEF u

\* The dependencies of m that are not in the order yet: what indegree counts.
Left(m) == {d \in nodes : <<d, m>> \in edges} \ Range(order)

\* While the loop runs, a node's count is the number of its dependencies
\* still to come, and the nodes whose count is zero are exactly the ones listed
\* or queued (dag.go:66-92).
Counts ==
  verdict = "running" =>
    /\ queue \in Seq(nodes) /\ IsInjective(queue)
    /\ indegree \in [nodes -> Nat]
    /\ Range(order) \cap Range(queue) = {}
    /\ \A m \in nodes : indegree[m] = Cardinality(Left(m))
    /\ \A m \in nodes : Left(m) = {} <=> m \in Range(order) \cup Range(queue)

\* The inductive invariant of the ordering loop.
KahnInv ==
  /\ IsFiniteSet(nodes)
  /\ order \in Seq(nodes)
  /\ verdict # "running" => queue = <<>>
  /\ Counts
  /\ OrderRespectsEdges
  /\ VerdictIsRight

\* Listed nodes fill at most as many places as there are nodes, and all nodes are
\* listed exactly when the lengths agree: the comparison at dag.go:94.
LEMMA LengthTells ==
  ASSUME IsFiniteSet(nodes), order \in Seq(nodes), IsInjective(order)
  PROVE  Len(order) = Cardinality(nodes) <=> Range(order) = nodes
<1> DEFINE k == Len(order)
<1>1. k \in Nat /\ DOMAIN order = 1..k /\ order \in [1..k -> nodes]
  OBVIOUS
<1>2. Cardinality(1..k) = k
  BY <1>1, FS_Interval
<1>3. order \in Injection(1..k, nodes)
  BY <1>1 DEF Injection
<1> HIDE DEF k
<1>4. k = Cardinality(nodes) <=> order \in Surjection(1..k, nodes)
  BY <1>2, <1>3, FS_Injection
<1>5. order \in Surjection(1..k, nodes) <=> Range(order) = nodes
  BY <1>1 DEF Surjection, Range
<1>6. QED
  BY <1>4, <1>5 DEF k

\* A complete order ranks the nodes.
LEMMA OrderRanks ==
  ASSUME IsFiniteSet(nodes), order \in Seq(nodes), Range(order) = nodes,
         edges \subseteq nodes \X nodes, OrderRespectsEdges
  PROVE  D!Acyclic
<1>1. /\ \A i, j \in DOMAIN order : order[i] = order[j] => i = j
      /\ \A j \in DOMAIN order : \A d \in nodes :
           <<d, order[j]>> \in edges => \E i \in 1..(j - 1) : order[i] = d
  BY DEF OrderRespectsEdges, D!OrderRespectsEdges
<1>2. DOMAIN order = 1..Len(order) /\ Len(order) \in Nat
  OBVIOUS
<1>3. Len(order) = Cardinality(nodes)
  BY <1>1, LengthTells DEF IsInjective
<1> DEFINE rank == [m \in nodes |-> CHOOSE i \in 1..Len(order) : order[i] = m]
<1>4. \A m \in nodes : rank[m] \in 1..Len(order) /\ order[rank[m]] = m
  BY <1>2 DEF Range
<1> HIDE DEF rank
<1>5. ASSUME NEW e \in edges
      PROVE  rank[e[1]] < rank[e[2]]
  <2>1. e[1] \in nodes /\ e[2] \in nodes /\ e = <<e[1], e[2]>>
    OBVIOUS
  <2>2. /\ rank[e[1]] \in 1..Len(order) /\ order[rank[e[1]]] = e[1]
        /\ rank[e[2]] \in 1..Len(order) /\ order[rank[e[2]]] = e[2]
    BY <1>4, <2>1
  <2>3. PICK i \in 1..(rank[e[2]] - 1) : order[i] = e[1]
    BY <1>1, <1>2, <2>1, <2>2
  <2>4. i \in 1..Len(order) /\ i < rank[e[2]]
    BY <1>2, <2>2, <2>3
  <2>5. i = rank[e[1]]
    BY <1>1, <1>2, <2>2, <2>3, <2>4
  <2>6. QED
    BY <2>4, <2>5
<1>6. rank \in [nodes -> 1..D!Cardinality(nodes)]
  BY <1>3, <1>4, SameCardinality DEF rank
<1>7. QED
  BY <1>5, <1>6 DEF D!Acyclic

\* Nodes that all wait for one another cannot be ranked.
LEMMA WaitingIsCyclic ==
  ASSUME IsFiniteSet(nodes), edges \subseteq nodes \X nodes,
         NEW W \in SUBSET nodes, W # {},
         \A m \in W : \E d \in W : <<d, m>> \in edges
  PROVE  ~ D!Acyclic
<1> SUFFICES ASSUME NEW rank \in [nodes -> 1..Cardinality(nodes)],
                    \A e \in edges : rank[e[1]] < rank[e[2]]
             PROVE  FALSE
  BY SameCardinality DEF D!Acyclic
<1>1. Cardinality(nodes) \in Nat
  BY FS_CardinalityType
<1> DEFINE ranks == {rank[m] : m \in W}
<1>2. ranks \subseteq Nat /\ ranks # {}
  BY <1>1
<1> HIDE DEF ranks
<1> DEFINE below == {p \in Nat \X Nat : p[1] < p[2]}
<1>3. IsWellFoundedOn(below, Nat)
  BY NatLessThanWellFounded, Zenon DEF OpToRel
<1>4. \A p, q \in Nat : p < q => <<p, q>> \in below
  OBVIOUS
<1> HIDE DEF below
<1>5. PICK r \in ranks : \A q \in ranks : ~ (<<q, r>> \in below)
  BY <1>2, <1>3, WFMin
<1>6. \A q \in ranks : ~ (q < r)
  BY <1>2, <1>4, <1>5
<1>7. PICK m \in W : rank[m] = r
  BY DEF ranks
<1>8. PICK d \in W : <<d, m>> \in edges
  OBVIOUS
<1>9. rank[d] < rank[m]
  BY <1>8
<1>10. rank[d] \in ranks
  BY DEF ranks
<1>11. QED
  BY <1>6, <1>7, <1>9, <1>10

\* The loop starts with the roots queued and nothing listed.
LEMMA BeginPreserves ==
  ASSUME KahnInv, D!Begin
  PROVE  KahnInv'
<1>1. /\ indegree' = [n \in nodes |-> D!Indegree(n)]
      /\ queue' \in D!SetToSeqs({n \in nodes : indegree'[n] = 0})
      /\ order' = <<>> /\ verdict' = "running"
      /\ nodes' = nodes /\ edges' = edges
  BY DEF D!Begin
<1>2. /\ order' \in Seq(nodes') /\ DOMAIN order' = {}
      /\ Range(order') = {}
  BY <1>1 DEF Range
<1>3. IsFiniteSet(nodes) /\ IsFiniteSet(nodes')
  BY <1>1 DEF KahnInv
<1>4. ASSUME NEW m \in nodes
      PROVE  /\ IsFiniteSet(Left(m)') /\ indegree'[m] = Cardinality(Left(m)')
             /\ indegree'[m] \in Nat
             /\ indegree'[m] = 0 <=> Left(m)' = {}
  <2>1. Left(m)' = {d \in nodes : <<d, m>> \in edges}
    BY <1>1, <1>2 DEF Left
  <2>2. IsFiniteSet(Left(m)')
    BY <1>3, <2>1, FS_Subset
  <2>3. indegree'[m] = Cardinality(Left(m)')
    BY <1>1, <2>1, SameCardinality DEF D!Indegree
  <2>4. QED
    BY <2>2, <2>3, FS_CardinalityType, FS_EmptySet
<1> DEFINE roots == {n \in nodes : indegree'[n] = 0}
<1>5. IsFiniteSet(roots)
  BY <1>3, FS_Subset
<1>6. queue' \in Seq(roots) /\ Range(queue') = roots /\ IsInjective(queue')
  BY <1>1, <1>5, Listing
<1>7. roots \subseteq nodes'
  BY <1>1
<1>8. indegree' \in [nodes' -> Nat]
  BY <1>1, <1>4
<1>9. \A m \in nodes : m \in roots <=> Left(m)' = {}
  BY <1>4
<1> HIDE DEF roots
<1>10. queue' \in Seq(nodes')
  BY <1>6, <1>7
<1>11. Counts'
  BY <1>1, <1>2, <1>4, <1>6, <1>8, <1>9, <1>10 DEF Counts
<1>12. OrderRespectsEdges'
  BY <1>2 DEF OrderRespectsEdges, D!OrderRespectsEdges
<1>13. VerdictIsRight'
  BY <1>1 DEF VerdictIsRight, D!VerdictIsRight
<1>14. QED
  BY <1>1, <1>2, <1>3, <1>11, <1>12, <1>13 DEF KahnInv

\* Listing the head of the queue: all its dependencies are listed, and exactly the
\* dependents that waited for it alone join the queue.
LEMMA VisitPreserves ==
  ASSUME KahnInv, D!Visit
  PROVE  KahnInv'
<1> DEFINE n  == Head(queue)
           to == {m \in nodes : <<n, m>> \in edges}
<1>1. /\ queue # <<>>
      /\ order' = Append(order, n)
      /\ indegree' = [m \in nodes |->
                        IF m \in to THEN indegree[m] - 1 ELSE indegree[m]]
      /\ \E newly \in D!SetToSeqs({m \in to : indegree'[m] = 0}) :
           queue' = Tail(queue) \o newly
      /\ nodes' = nodes /\ edges' = edges /\ verdict' = verdict
  BY DEF D!Visit
<1>2. PICK newly \in D!SetToSeqs({m \in to : indegree'[m] = 0}) :
        queue' = Tail(queue) \o newly
  BY <1>1
<1>3. \A m : m \in to <=> m \in nodes /\ <<n, m>> \in edges
  OBVIOUS
<1> HIDE DEF to
<1>4. /\ IsFiniteSet(nodes) /\ order \in Seq(nodes) /\ verdict = "running"
      /\ OrderRespectsEdges
  BY <1>1 DEF KahnInv
<1>5. /\ queue \in Seq(nodes) /\ IsInjective(queue)
      /\ indegree \in [nodes -> Nat]
      /\ Range(order) \cap Range(queue) = {}
      /\ \A m \in nodes : indegree[m] = Cardinality(Left(m))
      /\ \A m \in nodes : Left(m) = {} <=> m \in Range(order) \cup Range(queue)
  BY <1>4 DEF KahnInv, Counts
<1>6. /\ n \in nodes /\ n \in Range(queue) /\ n \notin Range(order)
      /\ Tail(queue) \in Seq(nodes) /\ IsInjective(Tail(queue))
      /\ Range(Tail(queue)) = Range(queue) \ {n}
  BY <1>1, <1>5, RangeOfTail
<1> HIDE DEF n
<1>7. /\ order' \in Seq(nodes) /\ Range(order') = Range(order) \cup {n}
      /\ Len(order') = Len(order) + 1 /\ order'[Len(order) + 1] = n
      /\ \A i \in 1..Len(order) : order'[i] = order[i]
  BY <1>1, <1>4, <1>6, RangeOfAppend, AppendProperties
<1>8. Left(n) = {}
  BY <1>5, <1>6
<1>9. ASSUME NEW m \in nodes
      PROVE  /\ Left(m)' = Left(m) \ {n}
             /\ n \in Left(m) <=> m \in to
             /\ indegree'[m] \in Nat
             /\ indegree'[m] = Cardinality(Left(m)')
             /\ indegree'[m] = 0 <=> Left(m)' = {}
  <2>1. Left(m)' = Left(m) \ {n}
    BY <1>1, <1>7 DEF Left
  <2>2. n \in Left(m) <=> m \in to
    BY <1>3, <1>6 DEF Left
  <2>3. IsFiniteSet(Left(m))
    BY <1>4, FS_Subset DEF Left
  <2>4. /\ IsFiniteSet(Left(m) \ {n})
        /\ Cardinality(Left(m) \ {n}) =
             IF n \in Left(m) THEN Cardinality(Left(m)) - 1
                              ELSE Cardinality(Left(m))
    BY <2>3, FS_RemoveElement
  <2>5. indegree'[m] = Cardinality(Left(m)')
    BY <1>1, <1>5, <2>1, <2>2, <2>4
  <2>6. Cardinality(Left(m)') \in Nat /\ (Cardinality(Left(m)') = 0 <=> Left(m)' = {})
    BY <2>1, <2>4, FS_CardinalityType, FS_EmptySet
  <2>7. QED
    BY <2>1, <2>2, <2>5, <2>6
<1> DEFINE fresh == {m \in to : indegree'[m] = 0}
<1>10. \A m : m \in fresh <=> m \in to /\ Left(m)' = {}
  BY <1>3, <1>9
<1>11. fresh \subseteq nodes
  BY <1>3
<1>12. IsFiniteSet(fresh)
  BY <1>4, <1>11, FS_Subset
<1>13. newly \in Seq(fresh) /\ Range(newly) = fresh /\ IsInjective(newly)
  BY <1>2, <1>12, Listing
<1> HIDE DEF fresh
<1>14. newly \in Seq(nodes)
  BY <1>11, <1>13
<1>15. \A m \in fresh : m \notin Range(order) \cup Range(queue)
  BY <1>5, <1>9, <1>10, <1>11
<1>16. /\ queue' \in Seq(nodes) /\ IsInjective(queue')
       /\ Range(queue') = (Range(queue) \ {n}) \cup fresh
  <2> DEFINE rest == Tail(queue)
  <2>1. /\ rest \in Seq(nodes) /\ IsInjective(rest)
        /\ Range(rest) = Range(queue) \ {n} /\ queue' = rest \o newly
    BY <1>2, <1>6
  <2> HIDE DEF rest
  <2>2. Range(rest) \cap Range(newly) = {}
    BY <1>13, <1>15, <2>1
  <2>3. /\ rest \o newly \in Seq(nodes) /\ IsInjective(rest \o newly)
        /\ Range(rest \o newly) = Range(rest) \cup Range(newly)
    BY <1>13, <1>14, <2>1, <2>2, RangeOfConcat
  <2>4. QED
    BY <1>13, <2>1, <2>3
<1>17. Range(order') \cap Range(queue') = {}
  BY <1>5, <1>6, <1>7, <1>15, <1>16
<1>18. ASSUME NEW m \in nodes
       PROVE  Left(m)' = {} <=> m \in Range(order') \cup Range(queue')
  <2>1. m \in Range(order') \cup Range(queue') <=>
          m \in Range(order) \cup Range(queue) \/ m \in fresh
    BY <1>6, <1>7, <1>16
  <2>2. CASE Left(m) = {}
    BY <1>5, <1>9, <2>1, <2>2
  <2>3. CASE Left(m) # {}
    BY <1>5, <1>9, <1>10, <2>1, <2>3
  <2>4. QED
    BY <2>2, <2>3
<1>19. indegree' \in [nodes' -> Nat]
  BY <1>1, <1>9
<1>20. Counts'
  BY <1>1, <1>9, <1>16, <1>17, <1>18, <1>19 DEF Counts
<1>21. OrderRespectsEdges'
  <2>1. /\ DOMAIN order = 1..Len(order) /\ Len(order) \in Nat
        /\ DOMAIN order' = 1..(Len(order) + 1)
    BY <1>4, <1>7
  <2>2. /\ \A i, j \in DOMAIN order : order[i] = order[j] => i = j
        /\ \A j \in DOMAIN order : \A d \in nodes :
             <<d, order[j]>> \in edges => \E i \in 1..(j - 1) : order[i] = d
    BY <1>4 DEF OrderRespectsEdges, D!OrderRespectsEdges
  <2>3. \A i \in 1..Len(order) : order[i] # n
    BY <1>6, <2>1 DEF Range
  <2>4. \A i, j \in DOMAIN order' : order'[i] = order'[j] => i = j
    <3> SUFFICES ASSUME NEW i \in DOMAIN order', NEW j \in DOMAIN order',
                        order'[i] = order'[j]
                 PROVE  i = j
      OBVIOUS
    <3>1. /\ i \in 1..Len(order) \/ i = Len(order) + 1
          /\ j \in 1..Len(order) \/ j = Len(order) + 1
      BY <2>1
    <3>2. QED
      BY <1>7, <2>1, <2>2, <2>3, <3>1
  <2>5. ASSUME NEW j \in DOMAIN order', NEW d \in nodes, <<d, order'[j]>> \in edges
        PROVE  \E i \in 1..(j - 1) : order'[i] = d
    <3>1. CASE j \in 1..Len(order)
      <4>1. PICK i \in 1..(j - 1) : order[i] = d
        BY <1>7, <2>1, <2>2, <2>5, <3>1
      <4>2. i \in 1..Len(order)
        BY <2>1, <3>1
      <4>3. QED
        BY <1>7, <4>1, <4>2
    <3>2. CASE j = Len(order) + 1
      <4>1. d \in Range(order)
        BY <1>7, <1>8, <2>5, <3>2 DEF Left
      <4>2. PICK i \in 1..Len(order) : order[i] = d
        BY <2>1, <4>1 DEF Range
      <4>3. i \in 1..(j - 1)
        BY <2>1, <3>2
      <4>4. QED
        BY <1>7, <4>2, <4>3
    <3>3. QED
      BY <2>1, <3>1, <3>2
  <2>6. QED
    BY <1>1, <2>4, <2>5 DEF OrderRespectsEdges, D!OrderRespectsEdges
<1>22. VerdictIsRight'
  BY <1>1, <1>4 DEF VerdictIsRight, D!VerdictIsRight
<1>23. QED
  BY <1>1, <1>4, <1>7, <1>20, <1>21, <1>22 DEF KahnInv

\* The verdict: a complete order ranks the nodes; otherwise each of the nodes left
\* over waits for another of them.
LEMMA FinishPreserves ==
  ASSUME KahnInv, edges \subseteq nodes \X nodes, D!Finish
  PROVE  KahnInv'
<1>1. /\ queue = <<>> /\ verdict = "running"
      /\ verdict' = IF Len(order) # Cardinality(nodes) THEN "cycle" ELSE "ok"
      /\ UNCHANGED <<nodes, edges, indegree, queue, order>>
  BY SameCardinality DEF D!Finish
<1>2. /\ IsFiniteSet(nodes) /\ order \in Seq(nodes) /\ OrderRespectsEdges
      /\ \A m \in nodes : Left(m) = {} <=> m \in Range(order) \cup Range(queue)
  BY <1>1 DEF KahnInv, Counts
<1>3. IsInjective(order)
  BY <1>2 DEF OrderRespectsEdges, D!OrderRespectsEdges, IsInjective
<1>4. Len(order) = Cardinality(nodes) <=> Range(order) = nodes
  BY <1>2, <1>3, LengthTells
<1>6. Range(order) = nodes <=> D!Acyclic
  <2>1. CASE Range(order) = nodes
    BY <1>2, <2>1, OrderRanks
  <2>2. CASE Range(order) # nodes
    <3> DEFINE W == nodes \ Range(order)
    <3>1. Range(order) \subseteq nodes
      BY <1>2 DEF Range
    <3>2. W \in SUBSET nodes /\ W # {}
      BY <2>2, <3>1
    <3>3. Range(queue) = {}
      BY <1>1 DEF Range
    <3>4. ASSUME NEW m \in W
          PROVE  \E d \in W : <<d, m>> \in edges
      <4>1. Left(m) # {}
        BY <1>2, <3>3
      <4>2. QED
        BY <4>1 DEF Left
    <3> HIDE DEF W
    <3>5. ~ D!Acyclic
      BY <1>2, <3>2, <3>4, WaitingIsCyclic
    <3>6. QED
      BY <2>2, <3>5
  <2>3. QED
    BY <2>1, <2>2
<1>7. D!Acyclic' <=> D!Acyclic
  BY <1>1, Zenon DEF D!Acyclic
<1>8. VerdictIsRight'
  BY <1>1, <1>4, <1>6, <1>7 DEF VerdictIsRight, D!VerdictIsRight
<1>9. OrderRespectsEdges'
  BY <1>1, <1>2 DEF OrderRespectsEdges, D!OrderRespectsEdges
<1>10. Counts' /\ verdict' # "running"
  BY <1>1 DEF Counts
<1>11. QED
  BY <1>1, <1>2, <1>8, <1>9, <1>10 DEF KahnInv

\* The steps that do not touch the graph or the loop.
LEMMA LoopUntouched ==
  ASSUME KahnInv, UNCHANGED <<nodes, edges, indegree, queue, order, verdict>>
  PROVE  KahnInv'
<1>1. D!Acyclic' <=> D!Acyclic
  BY Zenon DEF D!Acyclic
<1>2. VerdictIsRight'
  BY <1>1 DEF KahnInv, VerdictIsRight, D!VerdictIsRight
<1>3. OrderRespectsEdges'
  BY DEF KahnInv, OrderRespectsEdges, D!OrderRespectsEdges
<1>4. \A m : Left(m)' = Left(m)
  BY DEF Left
<1>5. Counts'
  BY <1>4 DEF KahnInv, Counts
<1>6. QED
  BY <1>2, <1>3, <1>5 DEF KahnInv

\* The steps after which no order is kept.
LEMMA LoopForgotten ==
  ASSUME IsFiniteSet(nodes'), D!Forget, verdict' # "running", VerdictIsRight'
  PROVE  KahnInv'
<1>1. order' = <<>> /\ queue' = <<>>
  BY DEF D!Forget
<1>2. order' \in Seq(nodes') /\ DOMAIN order' = {}
  BY <1>1
<1>3. OrderRespectsEdges' /\ Counts'
  BY <1>2 DEF OrderRespectsEdges, D!OrderRespectsEdges, Counts
<1>4. QED
  BY <1>1, <1>2, <1>3 DEF KahnInv

\* Every step of the workflow with its ordering keeps the invariant.
LEMMA KahnStep ==
  ASSUME KahnInv, edges \subseteq nodes \X nodes, [OrderNext]_allVars
  PROVE  KahnInv'
<1>1. CASE UNCHANGED allVars
  BY <1>1, LoopUntouched DEF allVars, vars
<1>2. CASE Build
  <2>1. PICK n \in Node, deps \in SUBSET Node : AddTask(n, deps)
    BY <1>2 DEF Build
  <2>2. IsFiniteSet(nodes) /\ nodes' = nodes \cup {n}
    BY <2>1 DEF AddTask, KahnInv
  <2>3. IsFiniteSet(nodes')
    BY <2>2, FS_AddElement
  <2>4. verdict' = "none" /\ D!Forget
    BY <1>2 DEF Build
  <2>5. QED
    BY <2>3, <2>4, LoopForgotten DEF VerdictIsRight, D!VerdictIsRight
<1>3. CASE Launch
  <2>1. /\ verdict # "running" /\ UNCHANGED <<nodes, edges, verdict>> /\ D!Forget
    BY <1>3 DEF Launch, Start
  <2>2. D!Acyclic' <=> D!Acyclic
    BY <2>1, Zenon DEF D!Acyclic
  <2>3. VerdictIsRight'
    BY <2>1, <2>2 DEF KahnInv, VerdictIsRight, D!VerdictIsRight
  <2>4. IsFiniteSet(nodes')
    BY <2>1 DEF KahnInv
  <2>5. QED
    BY <2>1, <2>3, <2>4, LoopForgotten
<1>4. CASE TopologicalOrder
  BY <1>4, BeginPreserves, VisitPreserves, FinishPreserves
     DEF TopologicalOrder, D!Iterate
<1>5. CASE Mark
  <2>1. UNCHANGED <<nodes, edges, indegree, queue, order, verdict>>
    BY <1>5 DEF Mark, MarkCompleted, MarkFailed
  <2>2. QED
    BY <2>1, LoopUntouched
<1>6. QED
  BY <1>1, <1>2, <1>3, <1>4, <1>5 DEF OrderNext

\* Asking for the order changes nothing the executor sees: the workflow with its
\* ordering is a workflow, fairness of the reports included, and what is proved
\* or checked of the executor holds of both.
THEOREM OrderDrivesWorkflow == OrderSpec => FairSpec
<1>1. OrderInit => Init
  BY DEF OrderInit
<1>2. [OrderNext]_allVars => [Next]_vars
  <2>1. ASSUME TopologicalOrder PROVE UNCHANGED vars
    BY <2>1 DEF TopologicalOrder, D!Begin, D!Iterate, D!Visit, D!Finish, vars
  <2>2. QED
    BY <2>1, Zenon DEF OrderNext, Build, Launch, Mark, Next, allVars
<1>3. QED
  BY <1>1, <1>2, PTL DEF OrderSpec, FairSpec, Spec

\* The invariant holds in every reachable state.
LEMMA KahnInvariant == OrderSpec => []KahnInv
<1>1. OrderInit => KahnInv
  <2> SUFFICES ASSUME OrderInit PROVE KahnInv
    OBVIOUS
  <2>1. /\ nodes = {} /\ order = <<>> /\ queue = <<>> /\ verdict = "none"
    BY DEF OrderInit, Init, D!Idle
  <2>2. IsFiniteSet(nodes)
    BY <2>1, FS_EmptySet
  <2>3. order \in Seq(nodes) /\ DOMAIN order = {}
    BY <2>1
  <2>4. QED
    BY <2>1, <2>2, <2>3
       DEF KahnInv, Counts, OrderRespectsEdges, D!OrderRespectsEdges,
           VerdictIsRight, D!VerdictIsRight
<1>2. WorkflowInv => edges \subseteq nodes \X nodes
  BY DEF WorkflowInv, Building
<1>3. KahnInv /\ WorkflowInv /\ [OrderNext]_allVars => KahnInv'
  BY <1>2, KahnStep
<1>4. OrderSpec => []WorkflowInv
  BY OrderDrivesWorkflow, WorkflowInvariant, PTL DEF FairSpec
<1>5. QED
  BY <1>1, <1>3, <1>4, PTL DEF OrderSpec

\* For every graph and every order of the map iterations: TopologicalOrder lists no
\* node twice and none before one of its dependencies.
THEOREM OrderIsTopological == OrderSpec => []OrderRespectsEdges
<1>1. KahnInv => OrderRespectsEdges
  BY DEF KahnInv
<1>2. QED
  BY KahnInvariant, <1>1, PTL

\* For every graph and every order of the map iterations: TopologicalOrder reports
\* a cycle exactly when the nodes cannot be ranked along the edges.
THEOREM CyclesAreFound == OrderSpec => []VerdictIsRight
<1>1. KahnInv => VerdictIsRight
  BY DEF KahnInv
<1>2. QED
  BY KahnInvariant, <1>1, PTL
=============================================================================
