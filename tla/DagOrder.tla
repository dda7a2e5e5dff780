------------------------------ MODULE DagOrder ------------------------------
(***************************************************************************)
(* DAG.TopologicalOrder (internal/workflow/dag.go): Kahn's algorithm over  *)
(* a graph built by AddNode and AddDependency, self-loops included.  One   *)
(* action is one iteration of the queue loop.  The two map iterations that *)
(* fill the queue visit their keys in any order.                           *)
(***************************************************************************)
EXTENDS Naturals, FiniteSets, SequencesExt

CONSTANT Node

VARIABLES
  nodes, edges,   \* the graph; an edge is <<dependency, dependent>>
  indegree,
  queue,
  order,
  verdict         \* "none" before the call, "running", then "ok" or "cycle"

Indegree(n) == Cardinality({d \in nodes : <<d, n>> \in edges})

\* No call is under way.
Idle == indegree = <<>> /\ queue = <<>> /\ order = <<>>

\* The result of a call goes out of scope.
Forget == indegree' = <<>> /\ queue' = <<>> /\ order' = <<>>

Begin ==
  /\ verdict = "none"
  /\ indegree' = [n \in nodes |-> Indegree(n)]
  /\ queue' \in SetToSeqs({n \in nodes : indegree'[n] = 0})
  /\ order' = <<>>
  /\ verdict' = "running"
  /\ UNCHANGED <<nodes, edges>>

\* Mutant of Visit: dependents are queued before their count reaches zero.
VisitEager ==
  /\ queue # <<>>
  /\ LET n  == Head(queue)
         to == {m \in nodes : <<n, m>> \in edges}
     IN  /\ order' = Append(order, n)
         /\ indegree' = [m \in nodes |->
                           IF m \in to THEN indegree[m] - 1 ELSE indegree[m]]
         /\ \E newly \in SetToSeqs({m \in to : indegree'[m] <= 1}) :
              queue' = Tail(queue) \o newly
  /\ UNCHANGED <<nodes, edges, verdict>>

\* Pop the head, count it out of its dependents, queue those that reach zero.
Visit ==
  /\ queue # <<>>
  /\ LET n  == Head(queue)
         to == {m \in nodes : <<n, m>> \in edges}
     IN  /\ order' = Append(order, n)
         /\ indegree' = [m \in nodes |->
                           IF m \in to THEN indegree[m] - 1 ELSE indegree[m]]
         /\ \E newly \in SetToSeqs({m \in to : indegree'[m] = 0}) :
              queue' = Tail(queue) \o newly
  /\ UNCHANGED <<nodes, edges, verdict>>

\* Mutant of Finish: one missing node goes unnoticed.
FinishOffByOne ==
  /\ queue = <<>>
  /\ verdict = "running"
  /\ verdict' = IF Len(order) + 1 < Cardinality(nodes) THEN "cycle" ELSE "ok"
  /\ UNCHANGED <<nodes, edges, indegree, queue, order>>

Finish ==
  /\ queue = <<>>
  /\ verdict = "running"
  /\ verdict' = IF Len(order) # Cardinality(nodes) THEN "cycle" ELSE "ok"
  /\ UNCHANGED <<nodes, edges, indegree, queue, order>>

Iterate == Visit \/ Finish

-----------------------------------------------------------------------------
\* Reference definition: a graph is acyclic when its nodes can be ranked so
\* that every edge climbs.
Acyclic ==
  \E rank \in [nodes -> 1..Cardinality(nodes)] :
    \A e \in edges : rank[e[1]] < rank[e[2]]

\* No node is listed twice and none before one of its dependencies, at every
\* iteration of the loop and for every queue order (dag.go:81-92).
OrderRespectsEdges ==
  /\ \A i, j \in DOMAIN order : order[i] = order[j] => i = j
  /\ \A j \in DOMAIN order : \A d \in nodes :
       <<d, order[j]>> \in edges => \E i \in 1..(j - 1) : order[i] = d

\* "cycle detected" is returned exactly for the cyclic graphs (dag.go:94-96),
\* whatever order the map iterations took.
VerdictIsRight == verdict \in {"ok", "cycle"} => (verdict = "ok" <=> Acyclic)
=============================================================================
