--------------------------- MODULE MCOrchestrator ---------------------------
(* Environments of module Orchestrator for TLC. *)
EXTENDS Orchestrator

CONSTANTS t1, t2

\* Two tasks and a crash: what one task does to the other, and liveness.
TwoTasks == [tasks |-> {t1, t2}, chats |-> {}, boots |-> 2, faults |-> {"crash"}]

\* One task, two restarts, and everything that can go wrong.
AllFaults == [tasks |-> {t1}, chats |-> {}, boots |-> 3, faults |-> FaultKinds]

\* A chat request that recovery may meet, still open or left by a crash.
OneChat == [tasks |-> {}, chats |-> {t2}, boots |-> 2, faults |-> FaultKinds]
TaskAndChat == [tasks |-> {t1}, chats |-> {t2}, boots |-> 2, faults |-> {"crash"}]

Environments == {TwoTasks, AllFaults, OneChat, TaskAndChat}

\* Nothing goes wrong.
OneTaskNoFaults == {[tasks |-> {t1}, chats |-> {}, boots |-> 1, faults |-> {}]}
TwoTasksNoFaults == {[tasks |-> {t1, t2}, chats |-> {}, boots |-> 1, faults |-> {}]}
=============================================================================
