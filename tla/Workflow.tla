------------------------------ MODULE Workflow ------------------------------
(***************************************************************************)
(* internal/workflow: a DAG of nodes, a state machine per node and the     *)
(* executor that spawns an agent for a node once its dependencies are      *)
(* completed.  The public operations hold the executor's mutex, so each is *)
(* one action; the Go map iteration order inside Start and                 *)
(* MarkNodeCompleted is a nondeterministic choice.                         *)
(*                                                                         *)
(* AddTask takes no lock; every caller in the repository builds the        *)
(* workflow before starting it, and so does the model (built).             *)
(***************************************************************************)
EXTENDS Naturals, FiniteSets

CONSTANTS
  Node,          \* node identifiers a caller may use
  SpawnMayFail   \* may OnNodeReady (SpawnAgent) return an error?

ASSUME WorkflowAssumption == SpawnMayFail \in BOOLEAN

VARIABLES
  nodes,     \* dag.nodes
  edges,     \* dag.edges as pairs <<dependency, dependent>>
  state,     \* sm.states; "none" for a node that was never initialised
  built,     \* the caller has finished building (history)
  spawned,   \* per node, number of successful OnNodeReady calls (history)
  aborted    \* some Start or MarkCompleted returned an error while
             \* readying nodes (history)

vars == <<nodes, edges, state, built, spawned, aborted>>

NodeStates == {"pending", "running", "completed", "failed"}

\* Type invariant: node states are those of the state machine, and the graph is
\* over the identifiers callers use (dag.go, state_machine.go).
TypeOK ==
  /\ nodes \subseteq Node
  /\ edges \subseteq Node \X Node
  /\ state \in [Node -> NodeStates \cup {"none"}]
  /\ built \in BOOLEAN
  /\ spawned \in [Node -> Nat]
  /\ aborted \in BOOLEAN

-----------------------------------------------------------------------------
(* The graph and the node state machine *)

Dependencies(n) == {d \in Node : <<d, n>> \in edges}

Dependents(n) == {m \in Node : <<n, m>> \in edges}

\* Mutant of AllowedTransition: a failed node may still be completed.
AllowedTransitionAfterFailure(from, to) ==
  \/ from = "pending" /\ to = "running"
  \/ from \in {"running", "failed"} /\ to \in {"completed", "failed"}

\* NodeStateMachine.Transition accepts exactly these steps.
AllowedTransition(from, to) ==
  \/ from = "pending" /\ to = "running"
  \/ from = "running" /\ to \in {"completed", "failed"}

Init ==
  /\ nodes = {}
  /\ edges = {}
  /\ state = [n \in Node |-> "none"]
  /\ built = FALSE
  /\ spawned = [n \in Node |-> 0]
  /\ aborted = FALSE

\* AddTask(id, agentType, deps): AddNode, InitNode, then one AddDependency per
\* entry of deps.  The first unknown dependency returns an error and leaves
\* the edges added before it in place: any subset of the known ones.
AddTask(n, deps) ==
  /\ ~built
  /\ nodes' = nodes \cup {n}
  /\ state' = [state EXCEPT ![n] = "pending"]
  /\ \E added \in SUBSET (deps \cap nodes') :
       /\ deps \subseteq nodes' => added = deps
       /\ edges' = edges \cup {<<d, n>> : d \in added}
  /\ UNCHANGED <<built, spawned, aborted>>

\* Mutant of ReadyAll: a node that is running already is readied again.
ReadyAllAgain(candidates, st) ==
  LET done == {c \in candidates : st[c] \in {"pending", "running"}}
  IN  /\ spawned' = [n \in Node |->
                       IF n \in done THEN spawned[n] + 1 ELSE spawned[n]]
      /\ state' = [n \in Node |-> IF n \in done THEN "running" ELSE st[n]]
      /\ UNCHANGED aborted

\* Mutant of ReadyAll: the nodes are marked running and OnNodeReady is not called.
ReadyAllUncalled(candidates, st) ==
  /\ state' = [n \in Node |->
                 IF n \in candidates /\ st[n] = "pending" THEN "running" ELSE st[n]]
  /\ UNCHANGED <<spawned, aborted>>

\* The loop shared by Start and MarkNodeCompleted: ready the candidates in an
\* arbitrary order, st being the node states before the loop.  readyNode moves
\* a node to running and then calls OnNodeReady; the first error ends the
\* loop.  done is the set readied without error; bad, if any, is the node that
\* failed: on the transition (it was not pending, nothing changes) or on the
\* spawn (it stays running with no process).
ReadyAll(candidates, st) ==
  \E done \in SUBSET {c \in candidates : st[c] = "pending"} :
    /\ spawned' = [n \in Node |->
                     IF n \in done THEN spawned[n] + 1 ELSE spawned[n]]
    /\ \/ /\ done = candidates
          /\ state' = [n \in Node |-> IF n \in done THEN "running" ELSE st[n]]
          /\ UNCHANGED aborted
       \/ \E bad \in candidates \ done :
            /\ aborted' = TRUE
            /\ \/ /\ st[bad] # "pending"
                  /\ state' = [n \in Node |->
                                 IF n \in done THEN "running" ELSE st[n]]
               \/ /\ st[bad] = "pending"
                  /\ SpawnMayFail
                  /\ state' = [n \in Node |->
                                 IF n \in done \cup {bad}
                                   THEN "running" ELSE st[n]]

\* Executor.Start: ready every node without dependencies.  A caller may call
\* it again; the first root that is no longer pending then ends the loop.
Start ==
  /\ built' = TRUE
  /\ ReadyAll({n \in nodes : Dependencies(n) = {}}, state)
  /\ UNCHANGED <<nodes, edges>>

\* Mutant of IsNodeReady: one completed dependency is enough.
IsNodeReadyEarly(n, st) ==
  /\ \E d \in Dependencies(n) : st[d] = "completed"
  /\ st[n] \in {"pending", "running"}

\* Executor.isNodeReady, evaluated in the node states st.
IsNodeReady(n, st) ==
  /\ \A d \in Dependencies(n) : st[d] = "completed"
  /\ st[n] \in {"pending", "running"}

\* Mutant of MarkCompleted: the dependents are forgotten.
MarkCompletedOnly(n) ==
  /\ built
  /\ AllowedTransition(state[n], "completed")
  /\ state' = [state EXCEPT ![n] = "completed"]
  /\ UNCHANGED <<nodes, edges, built, spawned, aborted>>

\* Executor.MarkNodeCompleted: an invalid transition returns an error and
\* changes nothing; otherwise ready the dependents that became ready.
MarkCompleted(n) ==
  /\ built
  /\ AllowedTransition(state[n], "completed")
  /\ LET st == [state EXCEPT ![n] = "completed"]
     IN  ReadyAll({m \in Dependents(n) : IsNodeReady(m, st)}, st)
  /\ UNCHANGED <<nodes, edges, built>>

\* Executor.MarkNodeFailed: the transition only; dependents stay pending.
MarkFailed(n) ==
  /\ built
  /\ AllowedTransition(state[n], "failed")
  /\ state' = [state EXCEPT ![n] = "failed"]
  /\ UNCHANGED <<nodes, edges, built, spawned, aborted>>

Next ==
  \/ \E n \in Node, deps \in SUBSET Node : AddTask(n, deps)
  \/ Start
  \/ \E n \in Node : MarkCompleted(n)
  \/ \E n \in Node : MarkFailed(n)

Spec == Init /\ [][Next]_vars

-----------------------------------------------------------------------------
(* Safety *)

\* No agent runs early: a node that left pending has only completed
\* dependencies, whatever order the executor's map iterations took and
\* whichever spawns failed (executor.go isNodeReady and readyNode).
DepsDone ==
  \A n \in Node : state[n] \notin {"none", "pending"} =>
    \A d \in Dependencies(n) : state[d] = "completed"

\* OnNodeReady starts at most one agent per node, even when Start is called
\* again or several dependencies complete in turn (executor.go readyNode).
SpawnedOnce ==
  \A n \in Node : /\ spawned[n] <= 1
                  /\ spawned[n] = 1 => state[n] \notin {"none", "pending"}

\* The only way a node whose dependencies are all completed can still be
\* pending in a started workflow is that Start or MarkCompleted returned an
\* error and abandoned the rest of its loop (executor.go:46-48 and 65-67).
ReadyNodeRunsUnlessAborted ==
  built /\ ~aborted =>
    \A n \in nodes :
      (\A d \in Dependencies(n) : state[d] = "completed") =>
        state[n] # "pending"

\* A node that completed or failed never changes state again, in particular
\* not through a second Start or a duplicate result (state_machine.go
\* Transition), and its agent is not started again.
SettledStaysSettled ==
  [][\A n \in Node : state[n] \in {"completed", "failed"} =>
        state'[n] = state[n] /\ spawned'[n] = spawned[n]]_vars

-----------------------------------------------------------------------------
(* Liveness *)

\* Every agent that was started reports a result, and the result is applied.
Report(n) == spawned[n] = 1 /\ (MarkCompleted(n) \/ MarkFailed(n))

FairSpec == Spec /\ \A n \in Node : WF_vars(Report(n))

Acyclic ==
  \E rank \in [Node -> 1..Cardinality(Node)] :
    \A e \in edges : rank[e[1]] < rank[e[2]]

\* A started acyclic workflow runs to its end unless an operation returned an
\* error: every node completes, or some node fails and holds back its dependents
\* (executor.go MarkNodeCompleted readies each dependent when its last dependency
\* ends).
AcyclicRunsToTheEnd ==
  (built /\ Acyclic) ~>
     \/ aborted
     \/ \A n \in nodes : state[n] = "completed"
     \/ \E n \in nodes : state[n] = "failed"
=============================================================================
