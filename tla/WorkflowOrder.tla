--------------------------- MODULE WorkflowOrder ---------------------------
(***************************************************************************)
(* A workflow whose graph is also put in order (DAG.TopologicalOrder).  No *)
(* code outside the tests asks for the order; TopologicalOrder only reads  *)
(* the graph, and the model calls it between building and starting, on     *)
(* every graph AddTask builds.                                             *)
(***************************************************************************)
EXTENDS Workflow

VARIABLES indegree, queue, order, verdict   \* of module DagOrder

D == INSTANCE DagOrder

allVars == <<vars, indegree, queue, order, verdict>>

OrderInit == Init /\ D!Idle /\ verdict = "none"

\* The graph grows: what was said of the smaller one no longer counts.
Build ==
  /\ verdict # "running"
  /\ \E n \in Node, deps \in SUBSET Node : AddTask(n, deps)
  /\ verdict' = "none" /\ D!Forget

\* The workflow is started with or without a verdict; the order is not used.
Launch ==
  /\ verdict # "running"
  /\ Start
  /\ D!Forget /\ UNCHANGED verdict

TopologicalOrder ==
  /\ ~built
  /\ D!Begin \/ D!Iterate
  /\ UNCHANGED <<state, built, spawned, aborted>>

Mark ==
  /\ \E n \in Node : MarkCompleted(n) \/ MarkFailed(n)
  /\ UNCHANGED <<indegree, queue, order, verdict>>

OrderNext == Build \/ Launch \/ TopologicalOrder \/ Mark

\* Started agents report.
OrderSpec ==
  /\ OrderInit /\ [][OrderNext]_allVars
  /\ \A n \in Node : WF_vars(Report(n))

-----------------------------------------------------------------------------
\* No node is listed twice and none before one of its dependencies, at every
\* iteration of the loop and for every queue order (dag.go:81-92).
OrderRespectsEdges == D!OrderRespectsEdges

\* "cycle detected" is returned exactly for the cyclic graphs (dag.go:94-96),
\* whatever order the map iterations took.
VerdictIsRight == D!VerdictIsRight
=============================================================================
