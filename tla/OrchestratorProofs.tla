------------------------- MODULE OrchestratorProofs -------------------------
(***************************************************************************)
(* Proofs about Orchestrator for every set of tasks, every number of       *)
(* restarts and every combination of faults: type correctness; a success   *)
(* recorded anywhere was earned by a run that ended with success; a task   *)
(* that waits is in one place and nothing of it was started; each life of  *)
(* the orchestrator starts a task at most once; and every message put on   *)
(* "task.<id>" is run once, or on its way, or died with an agent.          *)
(***************************************************************************)
EXTENDS Orchestrator, FiniteSetTheorems, TLAPS

\* Every success on its way to the store was earned.
Earned(q) ==
  \A i \in 1..Len(q) : q[i].status = "success" => q[i].task \in succeeded

-----------------------------------------------------------------------------
(* Lemmas about queues *)

\* What putting an element on a queue does.
LEMMA AppendQueue ==
  ASSUME NEW S, NEW q \in Seq(S), NEW x \in S
  PROVE  /\ Append(q, x) \in Seq(S)
         /\ Len(q) \in Nat
         /\ Len(Append(q, x)) = Len(q) + 1
         /\ \A i \in 1..Len(q) : Append(q, x)[i] = q[i]
         /\ Append(q, x)[Len(q) + 1] = x
  OBVIOUS

\* What taking the head of a queue does.
LEMMA PopQueue ==
  ASSUME NEW S, NEW q \in Seq(S), q # <<>>
  PROVE  /\ Head(q) \in S
         /\ Tail(q) \in Seq(S)
         /\ Head(q) = q[1]
         /\ 1 \in 1..Len(q)
         /\ \A i \in 1..Len(Tail(q)) : i + 1 \in 1..Len(q) /\ Tail(q)[i] = q[i + 1]
  OBVIOUS

-----------------------------------------------------------------------------
(* Types *)

\* The initial state is well typed.
LEMMA TypeInit == Init => TypeOK
<1> SUFFICES ASSUME Init PROVE TypeOK
  OBVIOUS
<1>1. store \in [Task -> TaskStatuses \cup {"none"}] /\ taskQ \in [Task -> Nat]
      /\ wf \in [Task -> {"none", "pending", "running", "completed", "failed"}]
      /\ dispatched \in [Task -> Nat] /\ ran \in [Task -> Nat]
      /\ starts \in [Task -> [Boot -> Nat]]
  BY DEF Init
<1>2. agents \in [Task -> [Boot -> [state : {"none", "idle", "busy", "dead"}, inbox : Nat]]]
  BY DEF Init
<1>3. boots \in 0..MaxBoots /\ pollers \in 0..2 /\ chat \in [Task -> {"none", "open", "ended"}]
  BY OrchestratorAssumption DEF Init
<1>4. pc \in PCs /\ (pc \in Working <=> cur # NoTask) /\ cur \in Task \cup {NoTask}
  BY DEF Init, PCs, Working
<1>5. /\ tasksQ \in Seq(Task) /\ resultsQ \in Seq(Result)
      /\ inbox \in Seq(Task) /\ heard \in Seq(Result)
  BY DEF Init
<1> QED
  BY <1>1, <1>2, <1>3, <1>4, <1>5 DEF Init, TypeOK

\* An orchestrator that is up has been started.
UpIsBooted == pc # "down" => boots \in Boot

\* Exit and Poll keep types, and so does either way of leaving
\* enqueueAndStartTask.
LEMMA ExitType ==
  ASSUME TypeOK, Exit
  PROVE  /\ pc' \in PCs /\ cur' \in Task \cup {NoTask} /\ (pc' \in Working <=> cur' # NoTask)
         /\ rec' \in BOOLEAN /\ recq' \subseteq Task
         /\ wf' \in [Task -> {"none", "pending", "running", "completed", "failed"}]
         /\ pollers' \in 0..2 /\ inbox' \in Seq(Task) /\ stranded' \subseteq Task
         /\ heard' \in Seq(Result) /\ hand' \in Result \cup {NoResult}
         /\ chat' \in [Task -> {"none", "open", "ended"}]
<1>1. wf' \in [Task -> {"none", "pending", "running", "completed", "failed"}]
  BY DEF Exit
<1>2. pc' \in PCs /\ cur' \in Task \cup {NoTask} /\ (pc' \in Working <=> cur' # NoTask)
  BY DEF Exit, PCs, Working
<1>3. heard' \in Seq(Result) /\ inbox' \in Seq(Task) /\ pollers' \in 0..2
  BY DEF Exit
<1>4. chat' \in [Task -> {"none", "open", "ended"}]
  BY DEF Exit, TypeOK
<1> QED
  BY <1>1, <1>2, <1>3, <1>4 DEF Exit

\* Opening another Dequeue("tasks") keeps the types.
LEMMA PollType ==
  ASSUME TypeOK, Poll
  PROVE  pollers' \in 0..2 /\ inbox' \in Seq(Task) /\ stranded' \subseteq Task
<1>1. \A i \in 1..Len(inbox) : inbox[i] \in Task
  BY DEF TypeOK
<1> QED
  BY <1>1 DEF TypeOK, Poll

\* So does returning to recovery or to the loop,
LEMMA ContinueType ==
  ASSUME TypeOK, pc \in Working, Continue
  PROVE  /\ pc' \in PCs /\ cur' \in Task \cup {NoTask} /\ (pc' \in Working <=> cur' # NoTask)
         /\ pc # "down"
         /\ rec' \in BOOLEAN /\ recq' \subseteq Task
         /\ wf' \in [Task -> {"none", "pending", "running", "completed", "failed"}]
         /\ pollers' \in 0..2 /\ inbox' \in Seq(Task) /\ stranded' \subseteq Task
         /\ heard' \in Seq(Result) /\ hand' \in Result \cup {NoResult}
<1>1. pc' \in PCs /\ cur' \in Task \cup {NoTask} /\ (pc' \in Working <=> cur' # NoTask)
      /\ pc # "down"
  BY DEF Continue, PCs, Working
<1>2. pollers' \in 0..2 /\ inbox' \in Seq(Task) /\ stranded' \subseteq Task
  BY PollType DEF Continue, pollVars, TypeOK
<1> QED
  BY <1>1, <1>2 DEF Continue, TypeOK, listenVars

\* and so does leaving enqueueAndStartTask with an error.
LEMMA GiveUpType ==
  ASSUME TypeOK, pc \in Working, GiveUp
  PROVE  /\ pc' \in PCs /\ cur' \in Task \cup {NoTask} /\ (pc' \in Working <=> cur' # NoTask)
         /\ pc # "down"
         /\ rec' \in BOOLEAN /\ recq' \subseteq Task
         /\ wf' \in [Task -> {"none", "pending", "running", "completed", "failed"}]
         /\ pollers' \in 0..2 /\ inbox' \in Seq(Task) /\ stranded' \subseteq Task
         /\ heard' \in Seq(Result) /\ hand' \in Result \cup {NoResult}
         /\ chat' \in [Task -> {"none", "open", "ended"}]
<1>1. CASE rec
  BY <1>1 DEF GiveUp, TypeOK, PCs, Working, pollVars, listenVars
<1>2. CASE ~rec
  BY <1>2, ExitType DEF GiveUp, Working
<1> QED
  BY <1>1, <1>2

AgentRecord == [state : {"none", "idle", "busy", "dead"}, inbox : Nat]

\* Replacing one field of one agent keeps the type of the table.
LEMMA AgentUpdate ==
  ASSUME NEW A \in [Task -> [Boot -> AgentRecord]], NEW t \in Task, NEW b \in Boot,
         NEW st \in {"none", "idle", "busy", "dead"}, NEW n \in Nat
  PROVE  /\ [A EXCEPT ![t][b].state = st] \in [Task -> [Boot -> AgentRecord]]
         /\ [A EXCEPT ![t][b].inbox = n] \in [Task -> [Boot -> AgentRecord]]
         /\ A[t][b].inbox \in Nat
<1>1. A[t] \in [Boot -> AgentRecord] /\ A[t][b] \in AgentRecord
  OBVIOUS
<1>2. /\ [A[t][b] EXCEPT !.state = st] \in AgentRecord
      /\ [A[t][b] EXCEPT !.inbox = n] \in AgentRecord
      /\ A[t][b].inbox \in Nat
  BY <1>1 DEF AgentRecord
<1>3. \A r \in AgentRecord : [A[t] EXCEPT ![b] = r] \in [Boot -> AgentRecord]
  BY <1>1
<1>4. \A f \in [Boot -> AgentRecord] : [A EXCEPT ![t] = f] \in [Task -> [Boot -> AgentRecord]]
  OBVIOUS
<1> QED
  BY <1>2, <1>3, <1>4

\* Every step keeps the types.
LEMMA TypeNext == TypeOK /\ UpIsBooted /\ [Next]_vars => TypeOK' /\ UpIsBooted'
<1> SUFFICES ASSUME TypeOK, UpIsBooted, [Next]_vars PROVE TypeOK' /\ UpIsBooted'
  OBVIOUS
<1> USE DEF UpIsBooted
<1>1. CASE UNCHANGED vars
  BY <1>1 DEF vars, TypeOK, queueVars, mainVars, pollVars, listenVars, historyVars
<1>2. ASSUME NEW t \in Task, Submit(t) PROVE TypeOK' /\ UpIsBooted'
  BY <1>2, AppendQueue DEF Submit, TypeOK, queueVars, mainVars, pollVars, listenVars, historyVars
<1>3. CASE Restart
  <2>1. boots' \in 0..MaxBoots /\ boots' \in Boot
    <3>1. setting.boots \in 1..MaxBoots /\ MaxBoots \in Nat
      BY OrchestratorAssumption DEF TypeOK, Setting
    <3> QED
      BY <1>3, <3>1 DEF Restart, TypeOK, Boot
  <2> QED
    BY <1>3, <2>1
      DEF Restart, TypeOK, PCs, Working, queueVars, mainVars, pollVars, listenVars,
           historyVars
<1>4. CASE ListRecoverable
  BY <1>4
    DEF ListRecoverable, TypeOK, PCs, Working, queueVars, mainVars, pollVars, listenVars,
         historyVars
<1>5. CASE ListRecoverableFails
  BY <1>5, ExitType DEF ListRecoverableFails, TypeOK, Exit, queueVars, historyVars
<1>6. CASE RecoveryDone
  BY <1>6, PollType DEF RecoveryDone, TypeOK, PCs, Working, queueVars, listenVars, historyVars
<1>7. ASSUME NEW t \in Task, RecoverOneTask(t) PROVE TypeOK' /\ UpIsBooted'
  BY <1>7, OrchestratorAssumption
    DEF RecoverOneTask, Register, TypeOK, PCs, Working, queueVars, mainVars, pollVars,
         listenVars, historyVars
<1>8. CASE TakeTask
  <2>1. Head(inbox) \in Task /\ Tail(inbox) \in Seq(Task)
    BY <1>8, PopQueue DEF TakeTask, TypeOK
  <2> QED
    BY <1>8, <2>1, OrchestratorAssumption
      DEF TakeTask, Register, TypeOK, PCs, Working, queueVars, mainVars, pollVars,
           listenVars, historyVars
<1>9. CASE EnqueueTask
  <2>1. cur \in Task /\ boots \in Boot
    BY <1>9 DEF EnqueueTask, TypeOK, Working
  <2>2. starts' \in [Task -> [Boot -> Nat]]
    <3>1. [starts[cur] EXCEPT ![boots] = @ + 1] \in [Boot -> Nat]
      BY <2>1 DEF TypeOK
    <3> QED
      BY <1>9, <2>1, <3>1 DEF EnqueueTask, TypeOK
  <2> QED
    BY <1>9, <2>1, <2>2
      DEF EnqueueTask, TypeOK, PCs, Working, queueVars, mainVars, pollVars, listenVars,
           historyVars
<1>10. CASE EnqueueTaskFails
  BY <1>10, GiveUpType DEF EnqueueTaskFails, TypeOK, Working, queueVars, historyVars
<1>11. CASE StartWorkflow
  <2>1. cur \in Task /\ boots \in Boot
    BY <1>11 DEF StartWorkflow, TypeOK, Working
  <2>2. agents' \in [Task -> [Boot -> [state : {"none", "idle", "busy", "dead"}, inbox : Nat]]]
    BY <1>11, <2>1, AgentUpdate DEF StartWorkflow, TypeOK, AgentRecord
  <2> QED
    BY <1>11, <2>1, <2>2
      DEF StartWorkflow, TypeOK, PCs, Working, queueVars, mainVars, pollVars, listenVars,
           historyVars
<1>12. CASE StartWorkflowFails
  <2>1. cur \in Task
    BY <1>12 DEF StartWorkflowFails, TypeOK, Working
  <2> QED
    BY <1>12, <2>1
      DEF StartWorkflowFails, TypeOK, PCs, Working, queueVars, mainVars, pollVars,
           listenVars, historyVars
<1>13. CASE SaveRunning
  <2>1. cur \in Task /\ pc \in Working /\ "running" \in TaskStatuses
    BY <1>13 DEF SaveRunning, TypeOK, Working, TaskStatuses
  <2>2. store' \in [Task -> TaskStatuses \cup {"none"}]
    BY <1>13, <2>1 DEF SaveRunning, Save, TypeOK
  <2> QED
    BY <1>13, <2>1, <2>2, ContinueType DEF SaveRunning, TypeOK, historyVars
<1>14. CASE SaveRunningFails
  BY <1>14, GiveUpType DEF SaveRunningFails, TypeOK, Working, queueVars, historyVars
<1>15. CASE SaveFailed
  <2>1. cur \in Task /\ pc \in Working /\ "failed" \in TaskStatuses
    BY <1>15 DEF SaveFailed, TypeOK, Working, TaskStatuses
  <2>2. store' \in [Task -> TaskStatuses \cup {"none"}]
    BY <1>15, <2>1 DEF SaveFailed, Save, TypeOK
  <2> QED
    BY <1>15, <2>1, <2>2, GiveUpType DEF SaveFailed, TypeOK, historyVars
<1>16. CASE SavePending
  <2>1. cur \in Task /\ pc \in Working /\ "pending" \in TaskStatuses
    BY <1>16 DEF SavePending, TypeOK, Working, TaskStatuses
  <2>2. store' \in [Task -> TaskStatuses \cup {"none"}]
    BY <1>16, <2>1 DEF SavePending, Save, TypeOK
  <2> QED
    BY <1>16, <2>1, <2>2, ContinueType DEF SavePending, TypeOK, historyVars
<1>17. CASE Crash
  BY <1>17, ExitType DEF Crash, TypeOK, Exit, queueVars, historyVars
<1>18. CASE PollNewest
  <2>1. Head(tasksQ) \in Task /\ Tail(tasksQ) \in Seq(Task)
    BY <1>18, PopQueue DEF PollNewest, TypeOK
  <2> QED
    BY <1>18, <2>1, AppendQueue
      DEF PollNewest, TypeOK, queueVars, mainVars, pollVars, listenVars, historyVars
<1>19. CASE PollOlder
  <2>1. Head(tasksQ) \in Task /\ Tail(tasksQ) \in Seq(Task)
    BY <1>19, PopQueue DEF PollOlder, TypeOK
  <2> QED
    BY <1>19, <2>1, AppendQueue
      DEF PollOlder, TypeOK, queueVars, mainVars, pollVars, listenVars, historyVars
<1>20. CASE ListenPop
  <2>1. Head(resultsQ) \in Result /\ Tail(resultsQ) \in Seq(Result)
    BY <1>20, PopQueue DEF ListenPop, TypeOK
  <2> QED
    BY <1>20, <2>1, AppendQueue
      DEF ListenPop, TypeOK, queueVars, mainVars, pollVars, listenVars, historyVars
<1>21. CASE ListenSave
  <2>1. Head(heard) \in Result /\ Tail(heard) \in Seq(Result)
    BY <1>21, PopQueue DEF ListenSave, TypeOK
  <2>2. NormalizeTaskStatus(hand'.status) \in TaskStatuses
    BY DEF NormalizeTaskStatus, TaskStatuses
  <2>3. store' \in [Task -> TaskStatuses \cup {"none"}]
    BY <1>21, <2>1, <2>2 DEF ListenSave, Save, TypeOK
  <2> QED
    BY <1>21, <2>1, <2>3
      DEF ListenSave, TypeOK, queueVars, mainVars, pollVars, listenVars, historyVars
<1>22. CASE ListenMark
  BY <1>22
    DEF ListenMark, TypeOK, Result, NoResult, queueVars, mainVars, pollVars, listenVars,
         historyVars
<1>23. ASSUME NEW t \in Task, NEW b \in Boot, AgentPop(t, b) PROVE TypeOK' /\ UpIsBooted'
  <2>1. agents' \in [Task -> [Boot -> [state : {"none", "idle", "busy", "dead"}, inbox : Nat]]]
    <3>1. agents \in [Task -> [Boot -> AgentRecord]]
      BY DEF TypeOK, AgentRecord
    <3>2. agents[t][b].inbox + 1 \in Nat
      BY <3>1 DEF AgentRecord
    <3>3. agents' = [agents EXCEPT ![t][b].inbox = agents[t][b].inbox + 1]
      BY <1>23 DEF AgentPop
    <3>4. agents' \in [Task -> [Boot -> AgentRecord]]
      BY <3>1, <3>2, <3>3, AgentUpdate
    <3> QED
      BY <3>4 DEF AgentRecord
  <2> QED
    BY <1>23, <2>1 DEF AgentPop, TypeOK, queueVars, mainVars, pollVars, listenVars, historyVars
<1>24. ASSUME NEW t \in Task, NEW b \in Boot, AgentTake(t, b) PROVE TypeOK' /\ UpIsBooted'
  <2>1. agents' \in [Task -> [Boot -> [state : {"none", "idle", "busy", "dead"}, inbox : Nat]]]
    BY <1>24 DEF AgentTake, Alive, TypeOK
  <2> QED
    BY <1>24, <2>1 DEF AgentTake, TypeOK, queueVars, mainVars, pollVars, listenVars, historyVars
<1>25. ASSUME NEW t \in Task, NEW b \in Boot, AgentDies(t, b) PROVE TypeOK' /\ UpIsBooted'
  <2>1. agents' \in [Task -> [Boot -> [state : {"none", "idle", "busy", "dead"}, inbox : Nat]]]
    BY <1>25 DEF AgentDies, Alive, TypeOK
  <2> QED
    BY <1>25, <2>1 DEF AgentDies, TypeOK, queueVars, mainVars, pollVars, listenVars, historyVars
<1>26. ASSUME NEW t \in Task, NEW b \in Boot, NEW st \in {"success", "timeout"},
             AgentFinish(t, b, st)
      PROVE  TypeOK' /\ UpIsBooted'
  <2>1. agents' \in [Task -> [Boot -> [state : {"none", "idle", "busy", "dead"}, inbox : Nat]]]
    BY <1>26, AgentUpdate DEF AgentFinish, TypeOK, AgentRecord
  <2>2. [task |-> t, status |-> st] \in Result
    BY DEF Result
  <2>3. resultsQ' \in Seq(Result)
    <3>1. resultsQ \in Seq(Result)
      BY DEF TypeOK
    <3>2. resultsQ' = resultsQ \/ resultsQ' = Append(resultsQ, [task |-> t, status |-> st])
      BY <1>26 DEF AgentFinish, SendResult
    <3> QED
      BY <2>2, <3>1, <3>2, AppendQueue
  <2>4. ran' \in [Task -> Nat] /\ succeeded' \subseteq Task
    BY <1>26 DEF AgentFinish, TypeOK
  <2>5. /\ UNCHANGED <<setting, submitted, chat, tasksQ, taskQ, store, boots, wf>>
        /\ UNCHANGED <<mainVars, pollVars, listenVars, dispatched, starts>>
    BY <1>26 DEF AgentFinish
  <2> QED
    BY <2>1, <2>3, <2>4, <2>5
      DEF TypeOK, mainVars, pollVars, listenVars
<1>27. ASSUME NEW t \in Task, ChatBegin(t) PROVE TypeOK' /\ UpIsBooted'
  <2>1. chat' \in [Task -> {"none", "open", "ended"}]
    BY <1>27 DEF ChatBegin, TypeOK
  <2>2. store' \in [Task -> TaskStatuses \cup {"none"}]
    BY <1>27 DEF ChatBegin, Save, TypeOK, TaskStatuses
  <2> QED
    BY <1>27, <2>1, <2>2 DEF ChatBegin, TypeOK, mainVars, pollVars, listenVars, historyVars
<1>28. ASSUME NEW t \in Task, NEW st \in {"success", "timeout"}, ChatEnd(t, st)
      PROVE  TypeOK' /\ UpIsBooted'
  <2>1. chat' \in [Task -> {"none", "open", "ended"}] /\ succeeded' \subseteq Task
    BY <1>28 DEF ChatEnd, TypeOK
  <2>2. store' \in [Task -> TaskStatuses \cup {"none"}]
    BY <1>28 DEF ChatEnd, Save, TypeOK, TaskStatuses
  <2> QED
    BY <1>28, <2>1, <2>2 DEF ChatEnd, TypeOK, mainVars, pollVars, listenVars
<1>29. CASE GatewayPop
  <2>1. Tail(resultsQ) \in Seq(Result)
    BY <1>29, PopQueue DEF GatewayPop, TypeOK
  <2> QED
    BY <1>29, <2>1 DEF GatewayPop, TypeOK, mainVars, pollVars, listenVars, historyVars
<1> QED
  BY <1>1, <1>2, <1>3, <1>4, <1>5, <1>6, <1>7, <1>8, <1>9, <1>10,
     <1>11, <1>12, <1>13, <1>14, <1>15, <1>16, <1>17, <1>18, <1>19, <1>20,
     <1>21, <1>22, <1>23, <1>24, <1>25, <1>26, <1>27, <1>28, <1>29
  DEF Next, Main, Agent

-----------------------------------------------------------------------------
(* Successes are earned *)

EarnedInv ==
  /\ Earned(resultsQ)
  /\ Earned(heard)
  /\ hand.status = "success" => hand.task \in succeeded
  /\ SuccessIsEarned

\* A step that records no new success keeps the invariant, also when it drops
\* what the listener holds.
LEMMA NothingRecorded ==
  ASSUME EarnedInv, resultsQ' = resultsQ, succeeded' = succeeded,
         heard' = heard \/ heard' = <<>>,
         hand' = hand \/ hand' = NoResult,
         \A t \in Task : store'[t] = "success" => store[t] = "success",
         \A t \in Task : wf'[t] = "completed" => wf[t] = "completed"
  PROVE  EarnedInv'
<1>1. Earned(resultsQ)' /\ Earned(heard)'
  BY DEF EarnedInv, Earned
<1>2. hand'.status = "success" => hand'.task \in succeeded'
  BY DEF EarnedInv, NoResult
<1>3. SuccessIsEarned'
  BY DEF EarnedInv, SuccessIsEarned
<1> QED
  BY <1>1, <1>2, <1>3 DEF EarnedInv

\* Both ways of leaving enqueueAndStartTask record nothing.
LEMMA LeavingRecordsNothing ==
  ASSUME TypeOK, Exit \/ Continue \/ GiveUp
  PROVE  /\ heard' = heard \/ heard' = <<>>
         /\ hand' = hand \/ hand' = NoResult
         /\ \A t \in Task : wf'[t] = "completed" => wf[t] = "completed"
<1>1. CASE Exit
  BY <1>1 DEF Exit
<1>2. CASE Continue
  BY <1>2 DEF Continue, listenVars
<1>3. CASE GiveUp /\ rec
  BY <1>3 DEF GiveUp, listenVars
<1>4. CASE GiveUp /\ ~rec
  BY <1>4, <1>1 DEF GiveUp, Exit
<1> QED
  BY <1>1, <1>2, <1>3, <1>4

\* Every step keeps the invariant.
LEMMA EarnedNext == TypeOK /\ EarnedInv /\ [Next]_vars => EarnedInv'
<1> SUFFICES ASSUME TypeOK, EarnedInv, [Next]_vars PROVE EarnedInv'
  OBVIOUS
<1>1. CASE UNCHANGED vars
  BY <1>1, NothingRecorded DEF vars, queueVars, mainVars, pollVars, listenVars, historyVars
<1>2. ASSUME NEW t \in Task, Submit(t) PROVE EarnedInv'
  BY <1>2, NothingRecorded DEF Submit, queueVars, mainVars, pollVars, listenVars, historyVars
<1>3. CASE Restart
  BY <1>3, NothingRecorded DEF Restart, queueVars, mainVars, pollVars, listenVars, historyVars
<1>4. CASE ListRecoverable
  BY <1>4, NothingRecorded
    DEF ListRecoverable, queueVars, mainVars, pollVars, listenVars, historyVars
<1>5. CASE RecoveryDone
  BY <1>5, NothingRecorded DEF RecoveryDone, queueVars, mainVars, pollVars, listenVars, historyVars
<1>6. CASE PollNewest
  BY <1>6, NothingRecorded DEF PollNewest, queueVars, mainVars, pollVars, listenVars, historyVars
<1>7. CASE PollOlder
  BY <1>7, NothingRecorded DEF PollOlder, queueVars, mainVars, pollVars, listenVars, historyVars
<1>8. CASE EnqueueTask
  BY <1>8, NothingRecorded DEF EnqueueTask, queueVars, mainVars, pollVars, listenVars, historyVars
<1>9. ASSUME NEW t \in Task, RecoverOneTask(t) PROVE EarnedInv'
  BY <1>9, NothingRecorded
    DEF RecoverOneTask, Register, TypeOK, queueVars, mainVars, pollVars, listenVars,
         historyVars
<1>10. CASE TakeTask
  BY <1>10, NothingRecorded
    DEF TakeTask, Register, TypeOK, queueVars, mainVars, pollVars, listenVars, historyVars
<1>11. CASE StartWorkflow
  BY <1>11, NothingRecorded
    DEF StartWorkflow, TypeOK, queueVars, mainVars, pollVars, listenVars, historyVars
<1>12. CASE StartWorkflowFails
  BY <1>12, NothingRecorded
    DEF StartWorkflowFails, TypeOK, queueVars, mainVars, pollVars, listenVars, historyVars
<1>13. CASE ListRecoverableFails
  BY <1>13, NothingRecorded, LeavingRecordsNothing DEF ListRecoverableFails, queueVars, historyVars
<1>14. CASE Crash
  BY <1>14, NothingRecorded, LeavingRecordsNothing DEF Crash, queueVars, historyVars
<1>15. CASE EnqueueTaskFails
  BY <1>15, NothingRecorded, LeavingRecordsNothing DEF EnqueueTaskFails, queueVars, historyVars
<1>16. CASE SaveRunningFails
  BY <1>16, NothingRecorded, LeavingRecordsNothing DEF SaveRunningFails, queueVars, historyVars
<1>17. CASE SaveRunning
  <2>1. \A t \in Task : store'[t] = "success" => store[t] = "success"
    BY <1>17 DEF SaveRunning, Save, TypeOK
  <2> QED
    BY <1>17, <2>1, NothingRecorded, LeavingRecordsNothing DEF SaveRunning, historyVars
<1>18. CASE SaveFailed
  <2>1. \A t \in Task : store'[t] = "success" => store[t] = "success"
    BY <1>18 DEF SaveFailed, Save, TypeOK
  <2> QED
    BY <1>18, <2>1, NothingRecorded, LeavingRecordsNothing DEF SaveFailed, historyVars
<1>19. CASE SavePending
  <2>1. \A t \in Task : store'[t] = "success" => store[t] = "success"
    BY <1>19 DEF SavePending, Save, TypeOK
  <2> QED
    BY <1>19, <2>1, NothingRecorded, LeavingRecordsNothing DEF SavePending, historyVars
<1>20. CASE ListenPop
  <2>1. /\ resultsQ # <<>> /\ resultsQ \in Seq(Result) /\ heard \in Seq(Result)
        /\ heard' = Append(heard, Head(resultsQ)) /\ resultsQ' = Tail(resultsQ)
        /\ UNCHANGED <<store, wf, hand, succeeded>>
    BY <1>20 DEF ListenPop, TypeOK, historyVars
  <2>2. Head(resultsQ).status = "success" => Head(resultsQ).task \in succeeded
    BY <2>1, PopQueue DEF EarnedInv, Earned
  <2>3. Earned(resultsQ)'
    BY <2>1, PopQueue DEF EarnedInv, Earned
  <2>4. Head(resultsQ) \in Result
    BY <2>1, PopQueue
  <2>5. Earned(heard)'
    <3>1. /\ Len(heard) \in Nat /\ Len(heard') = Len(heard) + 1
          /\ heard'[Len(heard) + 1] = Head(resultsQ)
          /\ \A i \in 1..Len(heard) : heard'[i] = heard[i]
      BY <2>1, <2>4, AppendQueue
    <3> QED
      BY <2>1, <2>2, <3>1 DEF EarnedInv, Earned
  <2>6. SuccessIsEarned'
    BY <2>1 DEF EarnedInv, SuccessIsEarned
  <2> QED
    BY <2>1, <2>3, <2>5, <2>6 DEF EarnedInv
<1>21. CASE ListenSave
  <2>1. /\ heard # <<>> /\ heard \in Seq(Result)
        /\ hand' = Head(heard) /\ heard' = Tail(heard)
        /\ UNCHANGED <<resultsQ, wf, succeeded>>
        /\ Save(hand'.task, NormalizeTaskStatus(hand'.status))
    BY <1>21 DEF ListenSave, TypeOK, historyVars
  <2>2. hand'.status = "success" => hand'.task \in succeeded'
    BY <2>1, PopQueue DEF EarnedInv, Earned
  <2>3. Earned(heard)'
    BY <2>1, PopQueue DEF EarnedInv, Earned
  <2>4. hand' \in Result
    BY <2>1, PopQueue
  <2>5. NormalizeTaskStatus(hand'.status) = "success" => hand'.status = "success"
    <3>1. hand'.status \in {"success", "timeout"}
      BY <2>4 DEF Result
    <3>2. NormalizeTaskStatus("timeout") # "success"
      BY DEF NormalizeTaskStatus, Fold, TaskStatuses
    <3> QED
      BY <3>1, <3>2
  <2>6. SuccessIsEarned'
    BY <2>1, <2>2, <2>5 DEF EarnedInv, SuccessIsEarned, Save, TypeOK
  <2>7. Earned(resultsQ)'
    BY <2>1 DEF EarnedInv, Earned
  <2> QED
    BY <2>2, <2>3, <2>6, <2>7 DEF EarnedInv
<1>22. CASE ListenMark
  <2>1. hand \in Result /\ hand' = NoResult
        /\ UNCHANGED <<resultsQ, heard, store, succeeded>>
    BY <1>22 DEF ListenMark, TypeOK, queueVars, historyVars
  <2>2. IsSuccessfulTaskStatus(hand.status) => hand.status = "success"
    <3>1. hand.status \in {"success", "timeout"}
      BY <2>1 DEF Result
    <3>2. ~IsSuccessfulTaskStatus("timeout")
      BY DEF IsSuccessfulTaskStatus, NormalizeTaskStatus, Fold, TaskStatuses
    <3> QED
      BY <3>1, <3>2
  <2>3. \A t \in Task : wf'[t] = "completed" => wf[t] = "completed" \/ t \in succeeded
    BY <1>22, <2>1, <2>2 DEF ListenMark, TypeOK, EarnedInv
  <2>4. SuccessIsEarned'
    BY <2>1, <2>3 DEF EarnedInv, SuccessIsEarned
  <2> QED
    BY <2>1, <2>4 DEF EarnedInv, Earned, NoResult
<1>23. ASSUME NEW t \in Task, NEW b \in Boot, AgentPop(t, b) PROVE EarnedInv'
  BY <1>23, NothingRecorded DEF AgentPop, queueVars, mainVars, pollVars, listenVars, historyVars
<1>24. ASSUME NEW t \in Task, NEW b \in Boot, AgentTake(t, b) PROVE EarnedInv'
  BY <1>24, NothingRecorded DEF AgentTake, queueVars, mainVars, pollVars, listenVars, historyVars
<1>25. ASSUME NEW t \in Task, NEW b \in Boot, AgentDies(t, b) PROVE EarnedInv'
  BY <1>25, NothingRecorded DEF AgentDies, queueVars, mainVars, pollVars, listenVars, historyVars
<1>26. ASSUME NEW t \in Task, NEW b \in Boot, NEW st \in {"success", "timeout"},
             AgentFinish(t, b, st)
      PROVE  EarnedInv'
  <2>1. /\ UNCHANGED <<store, wf, heard, hand>>
        /\ succeeded' = IF st = "success" THEN succeeded \cup {t} ELSE succeeded
    BY <1>26 DEF AgentFinish, listenVars
  <2>2. resultsQ' = resultsQ \/ resultsQ' = Append(resultsQ, [task |-> t, status |-> st])
    BY <1>26 DEF AgentFinish, SendResult
  <2>3. succeeded \subseteq succeeded' /\ (st = "success" => t \in succeeded')
    BY <2>1
  <2>4. Earned(resultsQ)'
    <3>1. CASE resultsQ' = resultsQ
      BY <2>3, <3>1 DEF EarnedInv, Earned
    <3>2. CASE resultsQ' = Append(resultsQ, [task |-> t, status |-> st])
      <4>1. [task |-> t, status |-> st] \in Result /\ resultsQ \in Seq(Result)
        BY DEF Result, TypeOK
      <4>2. /\ Len(resultsQ) \in Nat /\ Len(resultsQ') = Len(resultsQ) + 1
            /\ resultsQ'[Len(resultsQ) + 1] = [task |-> t, status |-> st]
            /\ \A i \in 1..Len(resultsQ) : resultsQ'[i] = resultsQ[i]
        BY <3>2, <4>1, AppendQueue
      <4> QED
        BY <2>3, <4>2 DEF EarnedInv, Earned
    <3> QED
      BY <2>2, <3>1, <3>2
  <2>5. Earned(heard)' /\ SuccessIsEarned'
    BY <2>1, <2>3 DEF EarnedInv, Earned, SuccessIsEarned
  <2> QED
    BY <2>1, <2>3, <2>4, <2>5 DEF EarnedInv
<1>27. ASSUME NEW t \in Task, ChatBegin(t) PROVE EarnedInv'
  <2>1. \A u \in Task : store'[u] = "success" => store[u] = "success"
    BY <1>27 DEF ChatBegin, Save, TypeOK
  <2> QED
    BY <1>27, <2>1, NothingRecorded DEF ChatBegin, listenVars, historyVars
<1>28. ASSUME NEW t \in Task, NEW st \in {"success", "timeout"}, ChatEnd(t, st)
      PROVE  EarnedInv'
  <2>1. /\ UNCHANGED <<resultsQ, wf, heard, hand>>
        /\ succeeded' = IF st = "success" THEN succeeded \cup {t} ELSE succeeded
    BY <1>28 DEF ChatEnd, listenVars
  <2>2. succeeded \subseteq succeeded' /\ (st = "success" => t \in succeeded')
    BY <2>1
  <2>3. \A u \in Task : store'[u] = "success" => store[u] = "success" \/ u \in succeeded'
    BY <1>28, <2>2 DEF ChatEnd, Save, TypeOK
  <2>4. Earned(resultsQ)' /\ Earned(heard)' /\ SuccessIsEarned'
    BY <2>1, <2>2, <2>3 DEF EarnedInv, Earned, SuccessIsEarned
  <2> QED
    BY <2>1, <2>2, <2>4 DEF EarnedInv
<1>29. CASE GatewayPop
  <2>1. /\ resultsQ # <<>> /\ resultsQ \in Seq(Result) /\ resultsQ' = Tail(resultsQ)
        /\ UNCHANGED <<store, wf, heard, hand, succeeded>>
    BY <1>29 DEF GatewayPop, TypeOK, listenVars, historyVars
  <2>2. Earned(resultsQ)'
    BY <2>1, PopQueue DEF EarnedInv, Earned
  <2>3. Earned(heard)' /\ SuccessIsEarned'
    BY <2>1 DEF EarnedInv, Earned, SuccessIsEarned
  <2> QED
    BY <2>1, <2>2, <2>3 DEF EarnedInv
<1> QED
  BY <1>1, <1>2, <1>3, <1>4, <1>5, <1>6, <1>7, <1>8, <1>9, <1>10,
     <1>11, <1>12, <1>13, <1>14, <1>15, <1>16, <1>17, <1>18, <1>19, <1>20,
     <1>21, <1>22, <1>23, <1>24, <1>25, <1>26, <1>27, <1>28, <1>29
  DEF Next, Main, Agent

-----------------------------------------------------------------------------
\* The inductive invariant of the two lemmas above.
LEMMA OrchestratorInvariant == Spec => [](TypeOK /\ UpIsBooted /\ EarnedInv)
<1>1. Init => TypeOK /\ UpIsBooted /\ EarnedInv
  <2> SUFFICES ASSUME Init PROVE UpIsBooted /\ EarnedInv
    BY TypeInit
  <2>1. UpIsBooted
    BY DEF Init, UpIsBooted
  <2>2. Earned(resultsQ) /\ Earned(heard)
    BY DEF Init, Earned
  <2>3. SuccessIsEarned /\ hand.status # "success"
    BY DEF Init, SuccessIsEarned, NoResult
  <2> QED
    BY <2>1, <2>2, <2>3 DEF EarnedInv
<1>2. TypeOK /\ UpIsBooted /\ EarnedInv /\ [Next]_vars
        => TypeOK' /\ UpIsBooted' /\ EarnedInv'
  BY TypeNext, EarnedNext
<1> QED
  BY <1>1, <1>2, PTL DEF Spec

\* For every set of tasks, every number of restarts and every combination of
\* faults: a row that says success, or a completed node, was earned by a run
\* of that task that ended with success (main.go ListenResults and Save).
THEOREM SuccessesAreEarned == Spec => [](TypeOK /\ SuccessIsEarned)
<1>1. TypeOK /\ UpIsBooted /\ EarnedInv => TypeOK /\ SuccessIsEarned
  BY DEF EarnedInv
<1> QED
  BY <1>1, OrchestratorInvariant, PTL
-----------------------------------------------------------------------------
(* Where a task waits *)

Distinct(q) == \A i, j \in 1..Len(q) : i # j => q[i] # q[j]

NoAgent == [state |-> "none", inbox |-> 0]

\* A task is in one of three places at most, and only if it was submitted.
Places ==
  /\ Distinct(tasksQ) /\ Distinct(inbox)
  /\ Elements(tasksQ) \cap Elements(inbox) = {}
  /\ stranded \cap (Elements(tasksQ) \cup Elements(inbox)) = {}
  /\ \A t \in Task : Waiting(t) => t \in submitted

Unstarted(t) == Waiting(t) \/ t \in setting.tasks \ submitted

NotIn(q, t) == \A i \in 1..Len(q) : q[i].task # t

\* Nothing in the system speaks of the task.
Untouched(t) ==
  /\ dispatched[t] = 0 /\ store[t] = "none" /\ wf[t] = "none"
  /\ cur # t /\ t \notin recq
  /\ \A b \in Boot : agents[t][b] = NoAgent
  /\ NotIn(resultsQ, t) /\ NotIn(heard, t) /\ hand.task # t

PlaceInv ==
  /\ submitted \subseteq setting.tasks
  /\ \A t \in Task : chat[t] # "none" => t \in setting.chats
  /\ Places
  /\ \A t \in Task : Unstarted(t) => Untouched(t)

\* What a queue without repetitions holds after Append, and after Tail.
LEMMA DistinctAppend ==
  ASSUME NEW S, NEW q \in Seq(S), NEW x \in S
  PROVE  /\ Elements(Append(q, x)) = Elements(q) \cup {x}
         /\ Distinct(q) /\ x \notin Elements(q) => Distinct(Append(q, x))
<1>1. /\ Len(q) \in Nat /\ Len(Append(q, x)) = Len(q) + 1
      /\ \A i \in 1..Len(q) : Append(q, x)[i] = q[i]
      /\ Append(q, x)[Len(q) + 1] = x
  BY AppendQueue
<1>2. Elements(Append(q, x)) = Elements(q) \cup {x}
  BY <1>1 DEF Elements
<1>3. ASSUME Distinct(q), x \notin Elements(q) PROVE Distinct(Append(q, x))
  BY <1>1, <1>3 DEF Elements, Distinct
<1> QED
  BY <1>2, <1>3

LEMMA DistinctTail ==
  ASSUME NEW S, NEW q \in Seq(S), q # <<>>
  PROVE  /\ Head(q) \in Elements(q)
         /\ Elements(q) = Elements(Tail(q)) \cup {Head(q)}
         /\ Distinct(q) => Distinct(Tail(q)) /\ Head(q) \notin Elements(Tail(q))
<1>1. /\ Len(q) \in Nat /\ Len(q) > 0 /\ Len(Tail(q)) = Len(q) - 1 /\ Head(q) = q[1]
      /\ \A i \in 1..Len(Tail(q)) : Tail(q)[i] = q[i + 1]
  OBVIOUS
<1>2. Head(q) \in Elements(q)
  BY <1>1 DEF Elements
<1>3. ASSUME NEW x \in Elements(q) PROVE x \in Elements(Tail(q)) \cup {Head(q)}
  <2>1. PICK i \in 1..Len(q) : x = q[i]
    BY DEF Elements
  <2>2. CASE i = 1
    BY <1>1, <2>1, <2>2
  <2>3. CASE i # 1
    <3>1. i - 1 \in 1..Len(Tail(q)) /\ Tail(q)[i - 1] = q[i]
      BY <1>1, <2>3
    <3> QED
      BY <2>1, <3>1 DEF Elements
  <2> QED
    BY <2>2, <2>3
<1>4. ASSUME NEW x \in Elements(Tail(q)) PROVE x \in Elements(q)
  <2>1. PICK i \in 1..Len(Tail(q)) : x = Tail(q)[i]
    BY DEF Elements
  <2>2. i + 1 \in 1..Len(q) /\ x = q[i + 1]
    BY <1>1, <2>1
  <2> QED
    BY <2>2 DEF Elements
<1>5. ASSUME Distinct(q) PROVE Distinct(Tail(q))
  BY <1>1, <1>5 DEF Distinct
<1>6. ASSUME Distinct(q), Head(q) \in Elements(Tail(q)) PROVE FALSE
  <2>1. PICK i \in 1..Len(Tail(q)) : q[1] = Tail(q)[i]
    BY <1>1, <1>6 DEF Elements
  <2>2. i + 1 \in 1..Len(q) /\ 1 \in 1..Len(q) /\ i + 1 # 1 /\ q[1] = q[i + 1]
    BY <1>1, <2>1
  <2> QED
    BY <1>6, <2>2 DEF Distinct
<1> QED
  BY <1>2, <1>3, <1>4, <1>5, <1>6

LEMMA EmptyQueue == Elements(<<>>) = {} /\ Distinct(<<>>)
  BY DEF Elements, Distinct

\* Nobody starts waiting but by Submit; whatever moves a task keeps it in one
\* place.
NobodyJoins ==
  /\ Places'
  /\ \A t \in Task : Waiting(t)' => Waiting(t)

LEMMA PlacesKept ==
  ASSUME Places, UNCHANGED <<submitted, tasksQ, inbox, stranded>>
  PROVE  NobodyJoins
  BY DEF Places, NobodyJoins, Waiting, Elements, Distinct

LEMMA PlacesEmptied ==
  ASSUME Places, UNCHANGED <<submitted, tasksQ>>, inbox' = <<>>, stranded' = {}
  PROVE  NobodyJoins
<1>1. Elements(inbox') = {} /\ Distinct(inbox')
  BY EmptyQueue
<1>2. Elements(tasksQ') = Elements(tasksQ) /\ (Distinct(tasksQ) => Distinct(tasksQ'))
  BY DEF Elements, Distinct
<1> QED
  BY <1>1, <1>2 DEF Places, NobodyJoins, Waiting

LEMMA PollPlaces ==
  ASSUME TypeOK, Places, UNCHANGED <<submitted, tasksQ>>, Poll
  PROVE  NobodyJoins
<1>1. Elements(inbox') = {} /\ Distinct(inbox')
  BY EmptyQueue DEF Poll
<1>2. Elements(tasksQ') = Elements(tasksQ) /\ (Distinct(tasksQ) => Distinct(tasksQ'))
  BY DEF Elements, Distinct
<1>3. stranded' = stranded \cup Elements(inbox)
  BY DEF Poll, Elements
<1> QED
  BY <1>1, <1>2, <1>3 DEF Places, NobodyJoins, Waiting

LEMMA TakePlaces ==
  ASSUME TypeOK, Places, TakeTask, NEW x \in Task, x = Head(inbox)
  PROVE  NobodyJoins /\ Waiting(x) /\ ~Waiting(x)'
<1>1. /\ inbox \in Seq(Task) /\ inbox # <<>> /\ inbox' = Tail(inbox)
      /\ UNCHANGED <<submitted, tasksQ, stranded>>
  BY DEF TypeOK, TakeTask, queueVars
<1>2. /\ Elements(inbox) = Elements(inbox') \cup {x}
      /\ Distinct(inbox') /\ x \notin Elements(inbox')
      /\ x \in Elements(inbox)
  BY <1>1, DistinctTail DEF Places
<1>3. Elements(tasksQ') = Elements(tasksQ) /\ Distinct(tasksQ')
  BY <1>1 DEF Elements, Distinct, Places
<1> QED
  BY <1>1, <1>2, <1>3 DEF Places, NobodyJoins, Waiting

LEMMA ForwardPlaces ==
  ASSUME TypeOK, Places, PollNewest \/ PollOlder
  PROVE  NobodyJoins
<1>1. /\ tasksQ \in Seq(Task) /\ tasksQ # <<>> /\ tasksQ' = Tail(tasksQ)
      /\ inbox \in Seq(Task) /\ UNCHANGED submitted
  BY DEF TypeOK, PollNewest, PollOlder
<1>2. /\ Elements(tasksQ) = Elements(tasksQ') \cup {Head(tasksQ)}
      /\ Distinct(tasksQ') /\ Head(tasksQ) \notin Elements(tasksQ')
      /\ Head(tasksQ) \in Elements(tasksQ)
  BY <1>1, DistinctTail DEF Places
<1>3. Head(tasksQ) \in Task
  BY <1>1, PopQueue
<1>4. CASE PollNewest
  <2>1. inbox' = Append(inbox, Head(tasksQ)) /\ UNCHANGED stranded
    BY <1>4 DEF PollNewest
  <2>2. Elements(inbox') = Elements(inbox) \cup {Head(tasksQ)} /\ Distinct(inbox')
    BY <1>1, <1>2, <1>3, <2>1, DistinctAppend DEF Places
  <2> QED
    BY <1>1, <1>2, <2>1, <2>2 DEF Places, NobodyJoins, Waiting
<1>5. CASE PollOlder
  <2>1. stranded' = stranded \cup {Head(tasksQ)} /\ UNCHANGED inbox
    BY <1>5 DEF PollOlder
  <2>2. Elements(inbox') = Elements(inbox) /\ Distinct(inbox')
    BY <2>1 DEF Places, Elements, Distinct
  <2> QED
    BY <1>1, <1>2, <2>1, <2>2 DEF Places, NobodyJoins, Waiting
<1> QED
  BY <1>4, <1>5

LEMMA SubmitPlaces ==
  ASSUME TypeOK, Places, NEW t \in Task, Submit(t)
  PROVE  Places' /\ \A u \in Task : Waiting(u)' => Waiting(u) \/ u = t
<1>1. /\ tasksQ \in Seq(Task) /\ tasksQ' = Append(tasksQ, t) /\ t \notin submitted
      /\ submitted' = submitted \cup {t} /\ UNCHANGED <<inbox, stranded>>
  BY DEF TypeOK, Submit, pollVars
<1>2. ~Waiting(t)
  BY <1>1 DEF Places
<1>3. Elements(tasksQ') = Elements(tasksQ) \cup {t} /\ Distinct(tasksQ')
  BY <1>1, <1>2, DistinctAppend DEF Places, Waiting
<1>4. Elements(inbox') = Elements(inbox) /\ Distinct(inbox')
  BY <1>1 DEF Places, Elements, Distinct
<1> QED
  BY <1>1, <1>2, <1>3, <1>4 DEF Places, Waiting

\* The two ways of leaving enqueueAndStartTask.
LEMMA LeavingPlaces ==
  ASSUME TypeOK, Places, UNCHANGED <<submitted, tasksQ>>, Exit \/ Continue \/ GiveUp
  PROVE  NobodyJoins
<1>1. CASE Exit
  BY <1>1, PlacesEmptied DEF Exit
<1>2. CASE Continue
  <2>1. UNCHANGED <<inbox, stranded>> \/ Poll
    BY <1>2 DEF Continue, pollVars
  <2> QED
    BY <2>1, PlacesKept, PollPlaces
<1>3. CASE GiveUp
  BY <1>1, <1>3, PlacesKept DEF GiveUp, pollVars
<1> QED
  BY <1>1, <1>2, <1>3

-----------------------------------------------------------------------------
(* A task that waits is untouched *)

\* A step that touches nothing of the task.
Leaves(t) ==
  /\ dispatched'[t] = dispatched[t] /\ agents'[t] = agents[t]
  /\ store'[t] = store[t]
  /\ wf'[t] = wf[t] \/ wf'[t] = "none"
  /\ cur' = cur \/ cur' # t
  /\ t \notin recq' \/ t \in recq
  /\ NotIn(resultsQ, t) => NotIn(resultsQ', t)
  /\ NotIn(heard, t) /\ NotIn(resultsQ, t) => NotIn(heard', t)
  /\ hand.task # t /\ NotIn(heard, t) => hand'.task # t

LEMMA UntouchedKept ==
  ASSUME NEW t \in Task, Untouched(t), Leaves(t)
  PROVE  Untouched(t)'
  BY DEF Untouched, Leaves, NotIn

\* The same for a step that leaves queues and agents alone.
LEMMA QuietLeaves ==
  ASSUME NEW t \in Task, UNCHANGED <<dispatched, agents, resultsQ>>,
         store'[t] = store[t], wf'[t] = wf[t] \/ wf'[t] = "none",
         cur' = cur \/ cur' # t, t \notin recq' \/ t \in recq,
         heard' = heard \/ heard' = <<>>, hand' = hand \/ hand' = NoResult
  PROVE  Leaves(t)
<1>1. hand.task # t => hand'.task # t
  BY OrchestratorAssumption DEF NoResult
<1> QED
  BY <1>1 DEF Leaves, NotIn

\* The two ways of leaving enqueueAndStartTask.
LEMMA LeavingIsQuiet ==
  ASSUME TypeOK, Exit \/ Continue \/ GiveUp, NEW t \in Task
  PROVE  /\ wf'[t] = wf[t] \/ wf'[t] = "none"
         /\ cur' = cur \/ cur' # t
         /\ t \notin recq' \/ t \in recq
         /\ heard' = heard \/ heard' = <<>>
         /\ hand' = hand \/ hand' = NoResult
<1>1. CASE Exit
  BY <1>1, OrchestratorAssumption DEF Exit, TypeOK
<1>2. CASE Continue
  BY <1>2, OrchestratorAssumption DEF Continue, listenVars
<1>3. CASE GiveUp
  BY <1>1, <1>3 DEF GiveUp, listenVars
<1> QED
  BY <1>1, <1>2, <1>3


ChatsKept == \A t \in Task : chat'[t] # "none" => chat[t] # "none" \/ t \in setting.chats

\* What has to be shown of a step other than Submit.
LEMMA PlaceStep ==
  ASSUME PlaceInv, NobodyJoins, UNCHANGED <<setting, submitted>>, ChatsKept,
         \A t \in Task : Unstarted(t) /\ Untouched(t) /\ Unstarted(t)' => Leaves(t)
  PROVE  PlaceInv'
<1>1. ASSUME NEW t \in Task, Unstarted(t)' PROVE Untouched(t)'
  <2>1. Unstarted(t)
    BY <1>1 DEF NobodyJoins, Unstarted
  <2> QED
    BY <1>1, <2>1, UntouchedKept DEF PlaceInv
<1>2. \A t \in Task : chat'[t] # "none" => t \in setting'.chats
  BY DEF PlaceInv, ChatsKept
<1> QED
  BY <1>1, <1>2 DEF PlaceInv, NobodyJoins

\* Every step keeps the invariant.
LEMMA PlaceNext == TypeOK /\ PlaceInv /\ [Next]_vars => PlaceInv'
<1> SUFFICES ASSUME TypeOK, PlaceInv, [Next]_vars PROVE PlaceInv'
  OBVIOUS
<1> USE DEF ChatsKept, queueVars, mainVars, pollVars, listenVars, historyVars
<1>0. Places /\ \A t \in Task : Unstarted(t) => Untouched(t)
  BY DEF PlaceInv
<1>00. \A t \in Task : Unstarted(t) => t \notin setting.chats
  BY <1>0, OrchestratorAssumption DEF Unstarted, Places, PlaceInv, TypeOK
<1>1. CASE UNCHANGED vars
  <2>1. NobodyJoins
    BY <1>1, <1>0, PlacesKept DEF vars
  <2>2. ASSUME NEW u \in Task, Untouched(u), Unstarted(u) PROVE Leaves(u)
    BY <1>1, <2>2, QuietLeaves DEF vars
  <2> QED
    BY <1>1, <2>1, <2>2, PlaceStep DEF vars
<1>2. CASE Restart
  <2>1. NobodyJoins
    BY <1>2, <1>0, PlacesKept DEF Restart
  <2>2. ASSUME NEW u \in Task, Untouched(u), Unstarted(u) PROVE Leaves(u)
    BY <1>2, <2>2, QuietLeaves DEF Restart
  <2> QED
    BY <1>2, <2>1, <2>2, PlaceStep DEF Restart
<1>3. CASE ListRecoverable
  <2>1. NobodyJoins
    BY <1>3, <1>0, PlacesKept DEF ListRecoverable
  <2>2. ASSUME NEW u \in Task, Untouched(u), Unstarted(u) PROVE Leaves(u)
    BY <1>3, <2>2, QuietLeaves DEF ListRecoverable, Untouched, TypeOK
  <2> QED
    BY <1>3, <2>1, <2>2, PlaceStep DEF ListRecoverable
<1>4. CASE RecoveryDone
  <2>1. NobodyJoins
    BY <1>4, <1>0, PollPlaces DEF RecoveryDone
  <2>2. ASSUME NEW u \in Task, Untouched(u), Unstarted(u) PROVE Leaves(u)
    BY <1>4, <2>2, QuietLeaves DEF RecoveryDone
  <2> QED
    BY <1>4, <2>1, <2>2, PlaceStep DEF RecoveryDone
<1>5. CASE PollNewest
  <2>1. NobodyJoins
    BY <1>5, <1>0, ForwardPlaces DEF PollNewest
  <2>2. ASSUME NEW u \in Task, Untouched(u), Unstarted(u) PROVE Leaves(u)
    BY <1>5, <2>2, QuietLeaves DEF PollNewest
  <2> QED
    BY <1>5, <2>1, <2>2, PlaceStep DEF PollNewest
<1>6. CASE PollOlder
  <2>1. NobodyJoins
    BY <1>6, <1>0, ForwardPlaces DEF PollOlder
  <2>2. ASSUME NEW u \in Task, Untouched(u), Unstarted(u) PROVE Leaves(u)
    BY <1>6, <2>2, QuietLeaves DEF PollOlder
  <2> QED
    BY <1>6, <2>1, <2>2, PlaceStep DEF PollOlder
<1>7. CASE ListRecoverableFails
  <2>1. NobodyJoins
    BY <1>7, <1>0, LeavingPlaces DEF ListRecoverableFails
  <2>2. ASSUME NEW u \in Task, Untouched(u), Unstarted(u) PROVE Leaves(u)
    BY <1>7, <2>2, QuietLeaves, LeavingIsQuiet DEF ListRecoverableFails
  <2> QED
    BY <1>7, <2>1, <2>2, PlaceStep DEF ListRecoverableFails, Exit, GiveUp, Continue
<1>8. CASE Crash
  <2>1. NobodyJoins
    BY <1>8, <1>0, LeavingPlaces DEF Crash
  <2>2. ASSUME NEW u \in Task, Untouched(u), Unstarted(u) PROVE Leaves(u)
    BY <1>8, <2>2, QuietLeaves, LeavingIsQuiet DEF Crash
  <2> QED
    BY <1>8, <2>1, <2>2, PlaceStep DEF Crash, Exit, GiveUp, Continue
<1>9. CASE EnqueueTaskFails
  <2>1. NobodyJoins
    BY <1>9, <1>0, LeavingPlaces DEF EnqueueTaskFails
  <2>2. ASSUME NEW u \in Task, Untouched(u), Unstarted(u) PROVE Leaves(u)
    BY <1>9, <2>2, QuietLeaves, LeavingIsQuiet DEF EnqueueTaskFails
  <2> QED
    BY <1>9, <2>1, <2>2, PlaceStep DEF EnqueueTaskFails, Exit, GiveUp, Continue
<1>10. CASE SaveRunningFails
  <2>1. NobodyJoins
    BY <1>10, <1>0, LeavingPlaces DEF SaveRunningFails
  <2>2. ASSUME NEW u \in Task, Untouched(u), Unstarted(u) PROVE Leaves(u)
    BY <1>10, <2>2, QuietLeaves, LeavingIsQuiet DEF SaveRunningFails
  <2> QED
    BY <1>10, <2>1, <2>2, PlaceStep DEF SaveRunningFails, Exit, GiveUp, Continue
<1>11. CASE SaveRunning
  <2>1. NobodyJoins
    BY <1>11, <1>0, LeavingPlaces DEF SaveRunning
  <2>2. ASSUME NEW u \in Task, Untouched(u), Unstarted(u) PROVE Leaves(u)
    BY <1>11, <2>2, QuietLeaves, LeavingIsQuiet DEF SaveRunning, Save, Untouched, TypeOK
  <2> QED
    BY <1>11, <2>1, <2>2, PlaceStep DEF SaveRunning, Exit, GiveUp, Continue
<1>12. CASE SaveFailed
  <2>1. NobodyJoins
    BY <1>12, <1>0, LeavingPlaces DEF SaveFailed
  <2>2. ASSUME NEW u \in Task, Untouched(u), Unstarted(u) PROVE Leaves(u)
    BY <1>12, <2>2, QuietLeaves, LeavingIsQuiet DEF SaveFailed, Save, Untouched, TypeOK
  <2> QED
    BY <1>12, <2>1, <2>2, PlaceStep DEF SaveFailed, Exit, GiveUp, Continue
<1>13. CASE SavePending
  <2>1. NobodyJoins
    BY <1>13, <1>0, LeavingPlaces DEF SavePending
  <2>2. ASSUME NEW u \in Task, Untouched(u), Unstarted(u) PROVE Leaves(u)
    BY <1>13, <2>2, QuietLeaves, LeavingIsQuiet DEF SavePending, Save, Untouched, TypeOK
  <2> QED
    BY <1>13, <2>1, <2>2, PlaceStep DEF SavePending, Exit, GiveUp, Continue
<1>14. CASE StartWorkflow
  <2>1. NobodyJoins
    BY <1>14, <1>0, PlacesKept DEF StartWorkflow
  <2>2. ASSUME NEW u \in Task, Untouched(u), Unstarted(u) PROVE Leaves(u)
    BY <1>14, <2>2, QuietLeaves DEF StartWorkflow, TypeOK, Untouched, Leaves, NotIn
  <2> QED
    BY <1>14, <2>1, <2>2, PlaceStep DEF StartWorkflow
<1>15. CASE StartWorkflowFails
  <2>1. NobodyJoins
    BY <1>15, <1>0, PlacesKept DEF StartWorkflowFails
  <2>2. ASSUME NEW u \in Task, Untouched(u), Unstarted(u) PROVE Leaves(u)
    BY <1>15, <2>2, QuietLeaves DEF StartWorkflowFails, TypeOK, Untouched
  <2> QED
    BY <1>15, <2>1, <2>2, PlaceStep DEF StartWorkflowFails
<1>16. CASE EnqueueTask
  <2>1. NobodyJoins
    BY <1>16, <1>0, PlacesKept DEF EnqueueTask
  <2>2. ASSUME NEW u \in Task, Untouched(u), Unstarted(u) PROVE Leaves(u)
    BY <1>16, <2>2, QuietLeaves DEF EnqueueTask, TypeOK, Untouched, Leaves, NotIn
  <2> QED
    BY <1>16, <2>1, <2>2, PlaceStep DEF EnqueueTask
<1>17. ASSUME NEW t \in Task, RecoverOneTask(t) PROVE PlaceInv'
  <2>1. NobodyJoins
    BY <1>17, <1>0, PlacesKept DEF RecoverOneTask
  <2>2. ASSUME NEW u \in Task, Untouched(u), Unstarted(u) PROVE Leaves(u)
    BY <1>17, <2>2, QuietLeaves DEF RecoverOneTask, Register, TypeOK, Untouched
  <2> QED
    BY <1>17, <2>1, <2>2, PlaceStep DEF RecoverOneTask
<1>18. CASE GatewayPop
  <2>1. NobodyJoins
    BY <1>18, <1>0, PlacesKept DEF GatewayPop
  <2>2. ASSUME NEW u \in Task, Untouched(u), Unstarted(u) PROVE Leaves(u)
    BY <1>18, <2>2, QuietLeaves DEF GatewayPop, TypeOK, Leaves, NotIn
  <2> QED
    BY <1>18, <2>1, <2>2, PlaceStep DEF GatewayPop
<1>19. CASE ListenPop
  <2>1. NobodyJoins
    BY <1>19, <1>0, PlacesKept DEF ListenPop
  <2>2. ASSUME NEW u \in Task, Untouched(u), Unstarted(u) PROVE Leaves(u)
    BY <1>19, <2>2, QuietLeaves DEF ListenPop, TypeOK, Leaves, NotIn
  <2> QED
    BY <1>19, <2>1, <2>2, PlaceStep DEF ListenPop
<1>20. CASE ListenSave
  <2>1. NobodyJoins
    BY <1>20, <1>0, PlacesKept DEF ListenSave
  <2>2. ASSUME NEW u \in Task, Untouched(u), Unstarted(u) PROVE Leaves(u)
    BY <1>20, <2>2, QuietLeaves DEF ListenSave, TypeOK, Leaves, NotIn, Save, Untouched
  <2> QED
    BY <1>20, <2>1, <2>2, PlaceStep DEF ListenSave
<1>21. CASE ListenMark
  <2>1. NobodyJoins
    BY <1>21, <1>0, PlacesKept DEF ListenMark
  <2>2. ASSUME NEW u \in Task, Untouched(u), Unstarted(u) PROVE Leaves(u)
    BY <1>21, <2>2, QuietLeaves DEF ListenMark, TypeOK, Untouched
  <2> QED
    BY <1>21, <2>1, <2>2, PlaceStep DEF ListenMark
<1>22. ASSUME NEW t \in Task, NEW b \in Boot, AgentPop(t, b) PROVE PlaceInv'
  <2>1. NobodyJoins
    BY <1>22, <1>0, PlacesKept DEF AgentPop
  <2>2. ASSUME NEW u \in Task, Untouched(u), Unstarted(u) PROVE Leaves(u)
    BY <1>22, <2>2, QuietLeaves DEF AgentPop, Alive, TypeOK, Untouched, NoAgent, Leaves, NotIn
  <2> QED
    BY <1>22, <2>1, <2>2, PlaceStep DEF AgentPop
<1>23. ASSUME NEW t \in Task, NEW b \in Boot, AgentTake(t, b) PROVE PlaceInv'
  <2>1. NobodyJoins
    BY <1>23, <1>0, PlacesKept DEF AgentTake
  <2>2. ASSUME NEW u \in Task, Untouched(u), Unstarted(u) PROVE Leaves(u)
    BY <1>23, <2>2, QuietLeaves DEF AgentTake, TypeOK, Untouched, NoAgent, Leaves, NotIn
  <2> QED
    BY <1>23, <2>1, <2>2, PlaceStep DEF AgentTake
<1>24. ASSUME NEW t \in Task, NEW b \in Boot, AgentDies(t, b) PROVE PlaceInv'
  <2>1. NobodyJoins
    BY <1>24, <1>0, PlacesKept DEF AgentDies
  <2>2. ASSUME NEW u \in Task, Untouched(u), Unstarted(u) PROVE Leaves(u)
    BY <1>24, <2>2, QuietLeaves DEF AgentDies, Alive, TypeOK, Untouched, NoAgent, Leaves, NotIn
  <2> QED
    BY <1>24, <2>1, <2>2, PlaceStep DEF AgentDies
<1>25. ASSUME NEW t \in Task, NEW b \in Boot, NEW st \in {"success", "timeout"},
             AgentFinish(t, b, st)
      PROVE  PlaceInv'
  <2>1. NobodyJoins
    BY <1>25, <1>0, PlacesKept DEF AgentFinish
  <2>2. ASSUME NEW u \in Task, Untouched(u) PROVE Leaves(u)
    <3>1. u # t
      BY <1>25, <2>2 DEF AgentFinish, Untouched, NoAgent
    <3>2. NotIn(resultsQ', u)
      <4>1. /\ resultsQ \in Seq(Result) /\ [task |-> t, status |-> st] \in Result
            /\ NotIn(resultsQ, u)
        BY <2>2 DEF TypeOK, Result, Untouched
      <4>2. CASE resultsQ' = resultsQ
        BY <4>1, <4>2 DEF NotIn
      <4>3. CASE resultsQ' = Append(resultsQ, [task |-> t, status |-> st])
        <5>1. /\ Len(resultsQ) \in Nat /\ Len(resultsQ') = Len(resultsQ) + 1
              /\ resultsQ'[Len(resultsQ) + 1] = [task |-> t, status |-> st]
              /\ \A i \in 1..Len(resultsQ) : resultsQ'[i] = resultsQ[i]
          BY <4>1, <4>3, AppendQueue
        <5> QED
          BY <3>1, <4>1, <5>1 DEF NotIn
      <4> QED
        BY <1>25, <4>2, <4>3 DEF AgentFinish, SendResult
    <3>3. /\ UNCHANGED <<dispatched, store, wf, cur, recq, heard, hand>>
          /\ agents'[u] = agents[u]
      BY <1>25, <3>1 DEF AgentFinish, TypeOK
    <3> QED
      BY <3>2, <3>3 DEF Leaves
  <2> QED
    BY <1>25, <2>1, <2>2, PlaceStep DEF AgentFinish
<1>26. ASSUME NEW t \in Task, ChatBegin(t) PROVE PlaceInv'
  <2>1. NobodyJoins
    BY <1>26, <1>0, PlacesKept DEF ChatBegin
  <2>2. ASSUME NEW u \in Task, Unstarted(u) PROVE Leaves(u)
    <3>1. u # t
      BY <1>00, <1>26, <2>2 DEF ChatBegin
    <3> QED
      BY <1>26, <3>1, QuietLeaves DEF ChatBegin, Save, TypeOK
  <2>3. ChatsKept
    BY <1>26 DEF ChatBegin, TypeOK
  <2> QED
    BY <1>26, <2>1, <2>2, <2>3, PlaceStep DEF ChatBegin
<1>27. ASSUME NEW t \in Task, NEW st \in {"success", "timeout"}, ChatEnd(t, st) PROVE PlaceInv'
  <2>1. NobodyJoins
    BY <1>27, <1>0, PlacesKept DEF ChatEnd
  <2>2. t \in setting.chats
    BY <1>27 DEF ChatEnd, PlaceInv
  <2>3. ASSUME NEW u \in Task, Unstarted(u) PROVE Leaves(u)
    <3>1. u # t
      BY <1>00, <2>2, <2>3
    <3> QED
      BY <1>27, <3>1, QuietLeaves DEF ChatEnd, Save, TypeOK
  <2>4. ChatsKept
    BY <1>27, <2>2 DEF ChatEnd, TypeOK
  <2> QED
    BY <1>27, <2>1, <2>3, <2>4, PlaceStep DEF ChatEnd
<1>28. CASE TakeTask
  <2> DEFINE x == Head(inbox)
  <2>1. x \in Task
    BY <1>28, PopQueue DEF TakeTask, TypeOK
  <2>2. NobodyJoins /\ Waiting(x) /\ ~(\E y \in Task : y = x /\ Waiting(y)')
    BY <1>0, <1>28, <2>1, TakePlaces
  <2>3. x \in submitted
    BY <1>0, <2>1, <2>2 DEF Places
  <2>4. ASSUME NEW u \in Task, Untouched(u), Unstarted(u)' PROVE Leaves(u)
    <3>1. u # x
      BY <1>28, <2>2, <2>3, <2>4 DEF Unstarted, TakeTask
    <3>2. /\ UNCHANGED <<dispatched, agents, resultsQ, store, recq, heard, hand>>
          /\ wf' = [wf EXCEPT ![x] = "pending"] /\ cur' = x
      BY <1>28 DEF TakeTask, Register, queueVars, listenVars, historyVars
    <3> QED
      BY <3>1, <3>2, QuietLeaves DEF TypeOK
  <2> QED
    BY <1>28, <2>2, <2>4, PlaceStep DEF TakeTask
<1>29. ASSUME NEW t \in Task, Submit(t) PROVE PlaceInv'
  <2>1. Places' /\ \A u \in Task : Waiting(u)' => Waiting(u) \/ u = t
    BY <1>0, <1>29, SubmitPlaces
  <2>2. /\ setting' = setting /\ submitted' = submitted \cup {t} /\ chat' = chat
        /\ t \in setting.tasks \ submitted
        /\ UNCHANGED <<dispatched, agents, resultsQ, store, wf, cur, recq, heard, hand>>
    BY <1>29 DEF Submit, mainVars, listenVars, historyVars
  <2>3. ASSUME NEW u \in Task, Unstarted(u)' PROVE Untouched(u)'
    <3>1. Unstarted(u)
      BY <2>1, <2>2, <2>3 DEF Unstarted
    <3>2. Leaves(u)
      BY <2>2, QuietLeaves
    <3> QED
      BY <1>0, <3>1, <3>2, UntouchedKept
  <2>4. submitted' \subseteq setting'.tasks
        /\ \A u \in Task : chat'[u] # "none" => u \in setting'.chats
    BY <2>2 DEF PlaceInv
  <2> QED
    BY <2>1, <2>3, <2>4 DEF PlaceInv
<1> QED
  BY <1>1, <1>2, <1>3, <1>4, <1>5, <1>6, <1>7, <1>8, <1>9, <1>10, <1>11, <1>12, <1>13,
     <1>14, <1>15, <1>16, <1>17, <1>18, <1>19, <1>20, <1>21, <1>22, <1>23, <1>24, <1>25,
     <1>26, <1>27, <1>28, <1>29
  DEF Next, Main, Agent

-----------------------------------------------------------------------------
(* One start per boot *)

\* This boot has not dispatched the task yet ...
Undispatched(t) == pc = "boot" \/ t \in recq \/ (cur = t /\ pc = "enqueue")

\* ... or not spawned an agent for it.
Unspawned(t) == Undispatched(t) \/ (cur = t /\ pc = "start")

StartInv ==
  /\ \A t \in Task, b \in Boot : starts[t][b] <= 1
  /\ \A t \in Task : Undispatched(t) => boots \in Boot /\ starts[t][boots] = 0
  /\ \A t \in Task, b \in Boot : b > boots \/ dispatched[t] = 0 => starts[t][b] = 0
  /\ cur \notin recq
  /\ \A t \in Task : Unspawned(t) => agents[t][boots] = NoAgent
  /\ \A t \in Task, b \in Boot : b > boots => agents[t][b] = NoAgent

\* A step that dispatches and spawns nothing keeps the invariant.
LEMMA StartKept ==
  ASSUME StartInv, boots' = boots, dispatched' = dispatched, starts' = starts,
         \A t \in Task, b \in Boot : agents[t][b] = NoAgent => agents'[t][b] = NoAgent,
         TypeOK, UpIsBooted,
         recq' \subseteq recq, cur' = cur \/ cur' = NoTask,
         (pc' = pc /\ cur' = cur) \/ pc' \notin {"boot", "enqueue", "start"},
         NoTask \notin recq
  PROVE  StartInv'
<1>1. \A t \in Task : Undispatched(t)' => Undispatched(t)
  BY DEF Undispatched
<1>2. \A t \in Task : Unspawned(t)' => Unspawned(t)
  BY <1>1 DEF Unspawned
<1>3. /\ \A t \in Task : Undispatched(t)' => boots' \in Boot /\ starts'[t][boots'] = 0
      /\ \A t \in Task, b \in Boot : starts'[t][b] <= 1
      /\ \A t \in Task, b \in Boot : b > boots' \/ dispatched'[t] = 0 => starts'[t][b] = 0
  BY <1>1 DEF StartInv
<1>4. cur' \notin recq'
  BY DEF StartInv
<1>5. ASSUME NEW t \in Task, Unspawned(t)' PROVE agents'[t][boots'] = NoAgent
  <2>1. agents[t][boots] = NoAgent
    BY <1>2, <1>5 DEF StartInv
  <2>2. CASE t \in recq
    <3>1. boots \in Boot
      BY <2>2 DEF StartInv, Undispatched
    <3> QED
      BY <2>1, <3>1
  <2>3. CASE t \notin recq
    <3>1. boots \in Boot
      BY <1>2, <1>5, <2>3 DEF Unspawned, Undispatched, UpIsBooted
    <3> QED
      BY <2>1, <3>1
  <2> QED
    BY <2>2, <2>3
<1>6. \A t \in Task, b \in Boot : b > boots' => agents'[t][b] = NoAgent
  BY DEF StartInv
<1> QED
  BY <1>3, <1>4, <1>5, <1>6 DEF StartInv

\* The two ways of leaving enqueueAndStartTask, and Exit.
LEMMA LeavingStarts ==
  ASSUME TypeOK, Exit \/ Continue \/ GiveUp
  PROVE  /\ recq' \subseteq recq /\ (cur' = cur \/ cur' = NoTask)
         /\ pc' \notin {"boot", "enqueue", "start"}
<1>1. CASE Exit
  BY <1>1 DEF Exit
<1>2. CASE Continue
  BY <1>2 DEF Continue
<1>3. CASE GiveUp
  BY <1>1, <1>3 DEF GiveUp
<1> QED
  BY <1>1, <1>2, <1>3

\* Every step keeps the invariant.
LEMMA StartNext ==
  TypeOK /\ UpIsBooted /\ PlaceInv /\ StartInv /\ [Next]_vars => StartInv'
<1> SUFFICES ASSUME TypeOK, UpIsBooted, PlaceInv, StartInv, [Next]_vars PROVE StartInv'
  OBVIOUS
<1> USE DEF queueVars, mainVars, pollVars, listenVars, historyVars
<1>0. NoTask \notin recq
  BY OrchestratorAssumption DEF TypeOK
<1>1. CASE UNCHANGED vars
  BY <1>1, <1>0, StartKept DEF vars
<1>2. CASE RecoveryDone
  BY <1>2, <1>0, StartKept DEF RecoveryDone
<1>3. CASE PollNewest
  BY <1>3, <1>0, StartKept DEF PollNewest
<1>4. CASE PollOlder
  BY <1>4, <1>0, StartKept DEF PollOlder
<1>5. CASE ListenPop
  BY <1>5, <1>0, StartKept DEF ListenPop
<1>6. CASE GatewayPop
  BY <1>6, <1>0, StartKept DEF GatewayPop
<1>7. CASE ListenSave
  BY <1>7, <1>0, StartKept DEF ListenSave
<1>8. CASE ListenMark
  BY <1>8, <1>0, StartKept DEF ListenMark
<1>9. CASE StartWorkflowFails
  BY <1>9, <1>0, StartKept DEF StartWorkflowFails
<1>10. CASE ListRecoverableFails
  BY <1>10, <1>0, StartKept, LeavingStarts DEF ListRecoverableFails
<1>11. CASE Crash
  BY <1>11, <1>0, StartKept, LeavingStarts DEF Crash
<1>12. CASE EnqueueTaskFails
  BY <1>12, <1>0, StartKept, LeavingStarts DEF EnqueueTaskFails
<1>13. CASE SaveRunningFails
  BY <1>13, <1>0, StartKept, LeavingStarts DEF SaveRunningFails
<1>14. CASE SaveRunning
  BY <1>14, <1>0, StartKept, LeavingStarts DEF SaveRunning
<1>15. CASE SaveFailed
  BY <1>15, <1>0, StartKept, LeavingStarts DEF SaveFailed
<1>16. CASE SavePending
  BY <1>16, <1>0, StartKept, LeavingStarts DEF SavePending
<1>17. ASSUME NEW t \in Task,
             Submit(t)
      PROVE  StartInv'
  BY <1>17, <1>0, StartKept DEF Submit
<1>18. ASSUME NEW t \in Task,
             ChatBegin(t)
      PROVE  StartInv'
  BY <1>18, <1>0, StartKept DEF ChatBegin
<1>19. ASSUME NEW t \in Task, NEW st \in {"success", "timeout"},
             ChatEnd(t, st)
      PROVE  StartInv'
  BY <1>19, <1>0, StartKept DEF ChatEnd
<1>20. ASSUME NEW t \in Task, NEW b \in Boot,
             AgentPop(t, b)
      PROVE  StartInv'
  <2>1. \A u \in Task, c \in Boot : agents[u][c] = NoAgent => agents'[u][c] = NoAgent
    BY <1>20 DEF AgentPop, Alive, NoAgent, TypeOK
  <2>2. UNCHANGED <<boots, pc, cur, recq, dispatched, starts>>
    BY <1>20 DEF AgentPop
  <2> QED
    BY <1>0, <2>1, <2>2, StartKept
<1>21. ASSUME NEW t \in Task, NEW b \in Boot,
             AgentTake(t, b)
      PROVE  StartInv'
  <2>1. \A u \in Task, c \in Boot : agents[u][c] = NoAgent => agents'[u][c] = NoAgent
    BY <1>21 DEF AgentTake, Alive, NoAgent, TypeOK
  <2>2. UNCHANGED <<boots, pc, cur, recq, dispatched, starts>>
    BY <1>21 DEF AgentTake
  <2> QED
    BY <1>0, <2>1, <2>2, StartKept
<1>22. ASSUME NEW t \in Task, NEW b \in Boot,
             AgentDies(t, b)
      PROVE  StartInv'
  <2>1. \A u \in Task, c \in Boot : agents[u][c] = NoAgent => agents'[u][c] = NoAgent
    BY <1>22 DEF AgentDies, Alive, NoAgent, TypeOK
  <2>2. UNCHANGED <<boots, pc, cur, recq, dispatched, starts>>
    BY <1>22 DEF AgentDies
  <2> QED
    BY <1>0, <2>1, <2>2, StartKept
<1>23. ASSUME NEW t \in Task, NEW b \in Boot, NEW st \in {"success", "timeout"},
             AgentFinish(t, b, st)
      PROVE  StartInv'
  <2>1. \A u \in Task, c \in Boot : agents[u][c] = NoAgent => agents'[u][c] = NoAgent
    BY <1>23 DEF AgentFinish, Alive, NoAgent, TypeOK
  <2>2. UNCHANGED <<boots, pc, cur, recq, dispatched, starts>>
    BY <1>23 DEF AgentFinish
  <2> QED
    BY <1>0, <2>1, <2>2, StartKept
<1>24. CASE Restart
  <2>1. /\ boots \in Nat /\ boots' = boots + 1 /\ boots' \in Boot /\ cur' = cur
        /\ UNCHANGED <<recq, dispatched, starts, agents>>
    BY <1>24, OrchestratorAssumption DEF Restart, TypeOK, Boot, Setting
  <2>2. /\ \A t \in Task : boots' \in Boot /\ starts'[t][boots'] = 0
        /\ \A t \in Task, b \in Boot : starts'[t][b] <= 1
        /\ \A t \in Task, b \in Boot : b > boots' \/ dispatched'[t] = 0 => starts'[t][b] = 0
    BY <2>1 DEF StartInv, Boot
  <2>3. \A t \in Task : agents'[t][boots'] = NoAgent
    BY <2>1 DEF StartInv
  <2>4. \A t \in Task, b \in Boot : b > boots' => agents'[t][b] = NoAgent
    BY <2>1 DEF StartInv, Boot
  <2> QED
    BY <2>1, <2>2, <2>3, <2>4 DEF StartInv
<1>25. CASE ListRecoverable
  <2>1. pc = "boot" /\ pc' = "recover" /\ UNCHANGED <<boots, cur, dispatched, starts, agents>>
    BY <1>25 DEF ListRecoverable
  <2>2. cur' \notin recq'
    BY <1>25, <2>1, OrchestratorAssumption DEF ListRecoverable, TypeOK, Working
  <2>3. \A t \in Task : Undispatched(t) /\ Unspawned(t)
    BY <2>1 DEF Undispatched, Unspawned
  <2> QED
    BY <2>1, <2>2, <2>3 DEF StartInv
<1>26. ASSUME NEW t \in Task, RecoverOneTask(t) PROVE StartInv'
  <2>1. /\ pc' = "enqueue" /\ cur' = t /\ t \in recq /\ recq' = recq \ {t}
        /\ UNCHANGED <<boots, dispatched, starts, agents>>
    BY <1>26 DEF RecoverOneTask, Register
  <2>2. \A u \in Task : (Undispatched(u)' => Undispatched(u)) /\ (Unspawned(u)' => Unspawned(u))
    BY <2>1 DEF Undispatched, Unspawned
  <2> QED
    BY <2>1, <2>2 DEF StartInv
<1>27. CASE TakeTask
  <2> DEFINE x == Head(inbox)
  <2>1. /\ pc = "idle" /\ pc' = "enqueue" /\ cur' = x
        /\ UNCHANGED <<boots, dispatched, starts, agents, recq>>
    BY <1>27 DEF TakeTask, Register
  <2>2. x \in Task /\ x \in Elements(inbox)
    BY <1>27, PopQueue DEF TakeTask, TypeOK, Elements
  <2>3. Untouched(x)
    BY <2>2 DEF PlaceInv, Unstarted, Waiting
  <2>4. boots \in Boot /\ boots > 0
    BY <2>1 DEF UpIsBooted, Boot
  <2>5. \A u \in Task : (Undispatched(u)' => Undispatched(u) \/ u = x)
                        /\ (Unspawned(u)' => Unspawned(u) \/ u = x)
    BY <2>1 DEF Undispatched, Unspawned
  <2>6. starts[x][boots] = 0 /\ agents[x][boots] = NoAgent /\ x \notin recq
    BY <2>2, <2>3, <2>4 DEF Untouched, StartInv
  <2> HIDE DEF x
  <2> QED
    BY <2>1, <2>2, <2>4, <2>5, <2>6 DEF StartInv
<1>28. CASE EnqueueTask
  <2>1. /\ pc = "enqueue" /\ pc' = "start" /\ cur \in Task
        /\ dispatched' = [dispatched EXCEPT ![cur] = @ + 1]
        /\ starts' = [starts EXCEPT ![cur][boots] = @ + 1]
        /\ UNCHANGED <<boots, cur, recq, agents>>
    BY <1>28 DEF EnqueueTask, TypeOK, Working
  <2>2. boots \in Boot /\ boots \in Nat /\ starts[cur][boots] = 0
    BY <2>1, OrchestratorAssumption DEF StartInv, Undispatched, TypeOK
  <2>3. \A u \in Task : /\ Undispatched(u)' => Undispatched(u) /\ u # cur
                        /\ Unspawned(u)' => Unspawned(u)
    BY <2>1 DEF Undispatched, Unspawned, StartInv
  <2>4. /\ \A u \in Task, b \in Boot : u # cur \/ b # boots => starts'[u][b] = starts[u][b]
        /\ starts'[cur][boots] = 1
    BY <2>1, <2>2 DEF TypeOK
  <2>5. /\ \A u \in Task : u # cur => dispatched'[u] = dispatched[u]
        /\ dispatched'[cur] # 0
    BY <2>1 DEF TypeOK
  <2>6. /\ \A u \in Task, b \in Boot : starts'[u][b] <= 1
        /\ \A u \in Task : Undispatched(u)' => boots' \in Boot /\ starts'[u][boots'] = 0
    BY <2>1, <2>2, <2>3, <2>4 DEF StartInv
  <2>7. ASSUME NEW u \in Task, NEW b \in Boot, b > boots' \/ dispatched'[u] = 0
        PROVE  starts'[u][b] = 0
    <3>1. b # boots \/ u # cur
      BY <2>1, <2>2, <2>5, <2>7
    <3>2. b > boots \/ dispatched[u] = 0
      BY <2>1, <2>5, <2>7
    <3> QED
      BY <2>4, <3>1, <3>2 DEF StartInv
  <2> QED
    BY <2>1, <2>3, <2>6, <2>7 DEF StartInv
<1>29. CASE StartWorkflow
  <2>1. /\ pc = "start" /\ pc' = "save" /\ cur \in Task
        /\ agents' = [agents EXCEPT ![cur][boots].state = "idle"]
        /\ UNCHANGED <<boots, cur, recq, dispatched, starts>>
    BY <1>29 DEF StartWorkflow, TypeOK, Working
  <2>2. boots \in Boot /\ boots \in Nat
    BY <2>1 DEF UpIsBooted, Boot
  <2>3. \A u \in Task : /\ Undispatched(u)' => Undispatched(u)
                        /\ Unspawned(u)' => Unspawned(u) /\ u # cur
    BY <2>1 DEF Undispatched, Unspawned, StartInv
  <2>4. \A u \in Task, b \in Boot : u # cur \/ b # boots => agents'[u][b] = agents[u][b]
    BY <2>1, <2>2 DEF TypeOK
  <2>5. \A u \in Task : Unspawned(u)' => agents'[u][boots'] = NoAgent
    BY <2>1, <2>2, <2>3, <2>4 DEF StartInv
  <2>6. \A u \in Task, b \in Boot : b > boots' => agents'[u][b] = NoAgent
    BY <2>1, <2>2, <2>4 DEF StartInv, Boot
  <2> QED
    BY <2>1, <2>3, <2>5, <2>6 DEF StartInv
<1> QED
  BY <1>1, <1>2, <1>3, <1>4, <1>5, <1>6, <1>7, <1>8, <1>9, <1>10, <1>11, <1>12, <1>13,
     <1>14, <1>15, <1>16, <1>17, <1>18, <1>19, <1>20, <1>21, <1>22, <1>23,
     <1>24, <1>25, <1>26, <1>27, <1>28, <1>29
  DEF Next, Main, Agent

-----------------------------------------------------------------------------
(* Every message is run once *)

\* What agents with loads f hold.
Tokens(f) == UNION {{b} \X (1..f[b]) : b \in Boot}

Loads(t) == [b \in Boot |-> Load(t, b)]

LEMMA TokensMean ==
  ASSUME NEW f \in [Boot -> Nat], NEW p
  PROVE  p \in Tokens(f) <=> \E b \in Boot, i \in Nat : i \in 1..f[b] /\ p = <<b, i>>
  BY DEF Tokens

\* One message more at agent b, and one less.
LEMMA OneMore ==
  ASSUME NEW f \in [Boot -> Nat], NEW b \in Boot, IsFiniteSet(Tokens(f))
  PROVE  LET g == [f EXCEPT ![b] = @ + 1]
         IN  /\ IsFiniteSet(Tokens(g))
             /\ Cardinality(Tokens(g)) = Cardinality(Tokens(f)) + 1
<1> DEFINE g == [f EXCEPT ![b] = @ + 1]
           x == <<b, f[b] + 1>>
<1>1. /\ g \in [Boot -> Nat] /\ f[b] \in Nat /\ g[b] = f[b] + 1
      /\ \A c \in Boot : c # b => g[c] = f[c]
  OBVIOUS
<1>2. x \notin Tokens(f)
  BY <1>1, TokensMean
<1>3. ASSUME NEW p \in Tokens(g) PROVE p \in Tokens(f) \cup {x}
  <2> HIDE DEF g
  <2>1. PICK c \in Boot, i \in Nat : i \in 1..g[c] /\ p = <<c, i>>
    BY <1>1, TokensMean
  <2>2. CASE c = b /\ i = f[b] + 1
    BY <2>1, <2>2
  <2>3. CASE ~(c = b /\ i = f[b] + 1)
    <3>1. i \in 1..f[c]
      BY <1>1, <2>1, <2>3
    <3> QED
      BY <2>1, <3>1, TokensMean
  <2> QED
    BY <2>2, <2>3
<1>4. ASSUME NEW p \in Tokens(f) \cup {x} PROVE p \in Tokens(g)
  <2>1. CASE p = x
    <3>1. f[b] + 1 \in 1..g[b]
      BY <1>1
    <3> QED
      BY <1>1, <2>1, <3>1, TokensMean
  <2>2. CASE p \in Tokens(f)
    <3>1. PICK c \in Boot, i \in Nat : i \in 1..f[c] /\ p = <<c, i>>
      BY <2>2, TokensMean
    <3>2. i \in 1..g[c]
      BY <1>1, <3>1
    <3> QED
      BY <1>1, <3>1, <3>2, TokensMean
  <2> QED
    BY <2>1, <2>2
<1>5. Tokens(g) = Tokens(f) \cup {x}
  BY <1>3, <1>4
<1> HIDE DEF g, x
<1>6. /\ IsFiniteSet(Tokens(g))
      /\ Cardinality(Tokens(g)) = Cardinality(Tokens(f)) + 1
  BY <1>2, <1>5, FS_AddElement
<1> QED
  BY <1>6 DEF g

LEMMA FewerTokens ==
  ASSUME NEW f \in [Boot -> Nat], NEW g \in [Boot -> Nat], IsFiniteSet(Tokens(f)),
         \A c \in Boot : g[c] <= f[c]
  PROVE  IsFiniteSet(Tokens(g)) /\ Cardinality(Tokens(g)) <= Cardinality(Tokens(f))
<1>1. ASSUME NEW p \in Tokens(g) PROVE p \in Tokens(f)
  <2>1. PICK c \in Boot, i \in Nat : i \in 1..g[c] /\ p = <<c, i>>
    BY TokensMean
  <2>2. f[c] \in Nat /\ g[c] \in Nat /\ g[c] <= f[c]
    OBVIOUS
  <2>3. i \in 1..f[c]
    BY <2>1, <2>2
  <2> QED
    BY <2>1, <2>3, TokensMean
<1> QED
  BY <1>1, FS_Subset

LEMMA OneLess ==
  ASSUME NEW f \in [Boot -> Nat], NEW b \in Boot, IsFiniteSet(Tokens(f)), f[b] > 0
  PROVE  LET g == [f EXCEPT ![b] = @ - 1]
         IN  /\ IsFiniteSet(Tokens(g))
             /\ Cardinality(Tokens(f)) = Cardinality(Tokens(g)) + 1
<1> DEFINE g == [f EXCEPT ![b] = @ - 1]
<1>1. g \in [Boot -> Nat] /\ \A c \in Boot : g[c] <= f[c]
  OBVIOUS
<1>2. f = [g EXCEPT ![b] = @ + 1]
  <2> DEFINE h == [g EXCEPT ![b] = @ + 1]
  <2>1. h \in [Boot -> Nat] /\ f[b] \in Nat /\ h[b] = f[b]
    OBVIOUS
  <2>2. \A c \in Boot : c # b => h[c] = f[c]
    OBVIOUS
  <2>3. \A c \in Boot : h[c] = f[c]
    BY <2>1, <2>2
  <2> HIDE DEF h
  <2>4. f = h
    BY <2>1, <2>3
  <2> QED
    BY <2>4 DEF h
<1> HIDE DEF g
<1>3. IsFiniteSet(Tokens(g))
  BY <1>1, FewerTokens
<1>4. Cardinality(Tokens(f)) = Cardinality(Tokens(g)) + 1
  BY <1>1, <1>2, <1>3, OneMore
<1> QED
  BY <1>3, <1>4 DEF g

LEMMA LoadsType ==
  ASSUME TypeOK, NEW t \in Task
  PROVE  Loads(t) \in [Boot -> Nat] /\ Carried(t) = Tokens(Loads(t))
<1>1. \A b \in Boot : agents[t][b].inbox \in Nat
  BY DEF TypeOK
<1>2. \A b \in Boot : Load(t, b) \in Nat
  BY <1>1 DEF Load
<1>3. \A b \in Boot : Loads(t)[b] = Load(t, b)
  BY DEF Loads
<1>4. {{b} \X (1..Load(t, b)) : b \in Boot} = {{b} \X (1..Loads(t)[b]) : b \in Boot}
  BY <1>3
<1> QED
  BY <1>2, <1>4 DEF Loads, Carried, Tokens

MessageInv == EveryMessageRunsOnce /\ \A t \in Task : IsFiniteSet(Carried(t))

\* The account of one task after a step, by what it does to the numbers.
LEMMA AccountKept ==
  ASSUME TypeOK, TypeOK', MessageInv, setting' = setting, NEW t \in Task,
         IsFiniteSet(Carried(t)'),
         ran'[t] + (taskQ'[t] + Cardinality(Carried(t)')) - dispatched'[t]
           = ran[t] + (taskQ[t] + Cardinality(Carried(t))) - dispatched[t]
  PROVE  /\ ran'[t] + InFlight(t)' <= dispatched'[t]
         /\ "agent" \notin setting'.faults => ran'[t] + InFlight(t)' = dispatched'[t]
<1>1. /\ ran[t] \in Nat /\ taskQ[t] \in Nat /\ dispatched[t] \in Nat
      /\ ran'[t] \in Nat /\ taskQ'[t] \in Nat /\ dispatched'[t] \in Nat
  BY DEF TypeOK
<1>2. Cardinality(Carried(t)) \in Nat /\ Cardinality(Carried(t)') \in Nat
  BY FS_CardinalityType DEF MessageInv
<1>3. /\ ran[t] + InFlight(t) <= dispatched[t]
      /\ "agent" \notin setting.faults => ran[t] + InFlight(t) = dispatched[t]
  BY DEF MessageInv, EveryMessageRunsOnce
<1>4. ran[t] + InFlight(t) = ran[t] + (taskQ[t] + Cardinality(Carried(t)))
  BY DEF InFlight
<1>5. ran'[t] + InFlight(t)' = ran'[t] + (taskQ'[t] + Cardinality(Carried(t)'))
  BY DEF InFlight
<1> QED
  BY <1>1, <1>2, <1>3, <1>4, <1>5

\* A task no agent and no counter of which changed.
LEMMA AccountUntouched ==
  ASSUME TypeOK, TypeOK', MessageInv, setting' = setting, NEW t \in Task,
         \A b \in Boot : Load(t, b)' = Load(t, b),
         taskQ'[t] = taskQ[t], ran'[t] = ran[t], dispatched'[t] = dispatched[t]
  PROVE  /\ IsFiniteSet(Carried(t)')
         /\ ran'[t] + InFlight(t)' <= dispatched'[t]
         /\ "agent" \notin setting'.faults => ran'[t] + InFlight(t)' = dispatched'[t]
<1>1. Carried(t)' = Carried(t)
  BY DEF Carried
<1>2. IsFiniteSet(Carried(t)')
  BY <1>1 DEF MessageInv
<1>3. ran'[t] + (taskQ'[t] + Cardinality(Carried(t)')) - dispatched'[t]
        = ran[t] + (taskQ[t] + Cardinality(Carried(t))) - dispatched[t]
  BY <1>1
<1> QED
  BY <1>2, <1>3, AccountKept

\* The account of task t holds after the step.
Accounted(t) ==
  /\ IsFiniteSet(Carried(t)')
  /\ ran'[t] + InFlight(t)' <= dispatched'[t]
  /\ "agent" \notin setting'.faults => ran'[t] + InFlight(t)' = dispatched'[t]

LEMMA AllAccounted ==
  ASSUME \A t \in Task : Accounted(t) PROVE MessageInv'
  BY DEF Accounted, MessageInv, EveryMessageRunsOnce

\* What a change of the load of one agent does to the messages carried.
LEMMA LoadChanges ==
  ASSUME TypeOK, TypeOK', MessageInv, NEW t \in Task, NEW b \in Boot,
         \A u \in Task, c \in Boot : u # t \/ c # b => agents'[u][c] = agents[u][c]
  PROVE  /\ Load(t, b)' = Load(t, b) + 1 =>
              /\ IsFiniteSet(Carried(t)')
              /\ Cardinality(Carried(t)') = Cardinality(Carried(t)) + 1
         /\ Load(t, b) = Load(t, b)' + 1 =>
              /\ IsFiniteSet(Carried(t)') /\ Cardinality(Carried(t)') \in Nat
              /\ Cardinality(Carried(t)) = Cardinality(Carried(t)') + 1
         /\ Load(t, b)' <= Load(t, b) =>
              /\ IsFiniteSet(Carried(t)') /\ Cardinality(Carried(t)') \in Nat
              /\ Cardinality(Carried(t)') <= Cardinality(Carried(t))
         /\ Cardinality(Carried(t)) \in Nat
<1> DEFINE f == Loads(t)
           g == Loads(t)'
<1>1. f \in [Boot -> Nat] /\ Carried(t) = Tokens(f)
  BY LoadsType
<1>2. g \in [Boot -> Nat] /\ Carried(t)' = Tokens(g)
  <2>1. \A c \in Boot : agents'[t][c].inbox \in Nat
    BY DEF TypeOK
  <2>2. \A c \in Boot : Load(t, c)' \in Nat
    BY <2>1 DEF Load
  <2>3. \A c \in Boot : g[c] = Load(t, c)'
    BY DEF Loads
  <2>4. {{c} \X (1..Load(t, c)') : c \in Boot} = {{c} \X (1..g[c]) : c \in Boot}
    BY <2>3
  <2> QED
    BY <2>2, <2>4 DEF Loads, Carried, Tokens
<1>3. f[b] = Load(t, b) /\ g[b] = Load(t, b)' /\ \A c \in Boot : c # b => g[c] = f[c]
  BY DEF Loads, Load
<1>4. IsFiniteSet(Tokens(f)) /\ Cardinality(Tokens(f)) \in Nat
  BY <1>1, FS_CardinalityType DEF MessageInv
<1> HIDE DEF f, g
<1>5. CASE Load(t, b)' = Load(t, b) + 1
  <2>1. g = [f EXCEPT ![b] = @ + 1]
    BY <1>1, <1>2, <1>3, <1>5
  <2>2. IsFiniteSet(Tokens(g)) /\ Cardinality(Tokens(g)) = Cardinality(Tokens(f)) + 1
    BY <1>1, <1>4, <2>1, OneMore
  <2>3. Load(t, b) # Load(t, b)' + 1 /\ ~(Load(t, b)' <= Load(t, b))
    BY <1>1, <1>2, <1>3, <1>5
  <2> QED
    BY <1>1, <1>2, <1>4, <2>2, <2>3
<1>6. CASE Load(t, b)' <= Load(t, b)
  <2>1. \A c \in Boot : g[c] <= f[c]
    BY <1>1, <1>2, <1>3, <1>6
  <2>2. IsFiniteSet(Tokens(g)) /\ Cardinality(Tokens(g)) <= Cardinality(Tokens(f))
    BY <1>1, <1>2, <1>4, <2>1, FewerTokens
  <2>3. Cardinality(Tokens(g)) \in Nat
    BY <2>2, FS_CardinalityType
  <2>4. ASSUME Load(t, b) = Load(t, b)' + 1
        PROVE  Cardinality(Tokens(f)) = Cardinality(Tokens(g)) + 1
    <3>1. f = [g EXCEPT ![b] = @ + 1]
      BY <1>1, <1>2, <1>3, <2>4
    <3> QED
      BY <1>2, <2>2, <3>1, OneMore
  <2> QED
    BY <1>1, <1>2, <1>3, <1>4, <1>6, <2>2, <2>3, <2>4
<1> QED
  BY <1>1, <1>2, <1>3, <1>4, <1>5, <1>6

\* Every step keeps the invariant.
LEMMA MessageNext ==
  TypeOK /\ TypeOK' /\ UpIsBooted /\ StartInv /\ MessageInv /\ [Next]_vars => MessageInv'
<1> SUFFICES ASSUME TypeOK, TypeOK', UpIsBooted, StartInv, MessageInv, [Next]_vars
             PROVE  MessageInv'
  OBVIOUS
<1> USE DEF queueVars, mainVars, pollVars, listenVars, historyVars
<1>0. ASSUME UNCHANGED <<setting, taskQ, agents, dispatched, ran>> PROVE MessageInv'
  BY <1>0 DEF MessageInv, EveryMessageRunsOnce, InFlight, Carried, Load
<1>1. ASSUME NEW t \in Task, NEW b \in Boot, setting' = setting,
             \A u \in Task, c \in Boot : u # t \/ c # b => agents'[u][c] = agents[u][c],
             \A u \in Task : u # t => /\ taskQ'[u] = taskQ[u] /\ ran'[u] = ran[u]
                                      /\ dispatched'[u] = dispatched[u],
             Accounted(t)
      PROVE  MessageInv'
  <2>1. ASSUME NEW u \in Task, u # t PROVE Accounted(u)
    <3>1. \A c \in Boot : Load(u, c)' = Load(u, c)
      BY <1>1, <2>1 DEF Load
    <3> QED
      BY <1>1, <2>1, <3>1, AccountUntouched DEF Accounted
  <2> QED
    BY <1>1, <2>1, AllAccounted
<1>2. CASE EnqueueTask
  <2>1. /\ setting' = setting /\ cur \in Task /\ UNCHANGED <<agents, ran>>
        /\ taskQ' = [taskQ EXCEPT ![cur] = @ + 1]
        /\ dispatched' = [dispatched EXCEPT ![cur] = @ + 1]
    BY <1>2 DEF EnqueueTask, TypeOK, Working
  <2>2. ASSUME NEW u \in Task PROVE Accounted(u)
    <3>1. Carried(u)' = Carried(u) /\ IsFiniteSet(Carried(u)) /\ Cardinality(Carried(u)) \in Nat
      BY <2>1, FS_CardinalityType DEF Carried, Load, MessageInv
    <3>2. /\ ran[u] \in Nat /\ ran'[u] = ran[u] /\ taskQ[u] \in Nat /\ dispatched[u] \in Nat
          /\ \/ taskQ'[u] = taskQ[u] /\ dispatched'[u] = dispatched[u]
             \/ taskQ'[u] = taskQ[u] + 1 /\ dispatched'[u] = dispatched[u] + 1
      BY <2>1 DEF TypeOK
    <3>3. ran'[u] + (taskQ'[u] + Cardinality(Carried(u)')) - dispatched'[u]
            = ran[u] + (taskQ[u] + Cardinality(Carried(u))) - dispatched[u]
      BY <3>1, <3>2
    <3> QED
      BY <2>1, <3>1, <3>3, AccountKept DEF Accounted
  <2> QED
    BY <2>2, AllAccounted
<1>3. CASE StartWorkflow
  <2>1. /\ setting' = setting /\ cur \in Task /\ UNCHANGED <<taskQ, ran, dispatched>>
        /\ agents' = [agents EXCEPT ![cur][boots].state = "idle"] /\ pc = "start"
    BY <1>3 DEF StartWorkflow, TypeOK, Working
  <2>2. boots \in Boot /\ agents[cur][boots] = NoAgent
    BY <2>1 DEF UpIsBooted, StartInv, Unspawned
  <2>3. ASSUME NEW u \in Task, NEW c \in Boot PROVE Load(u, c)' = Load(u, c)
    <3>1. CASE u = cur /\ c = boots
      <4>1. agents'[u][c].state = "idle" /\ agents'[u][c].inbox = 0
        BY <2>1, <2>2, <3>1 DEF TypeOK, NoAgent
      <4>2. agents[u][c].state = "none" /\ agents[u][c].inbox = 0
        BY <2>2, <3>1 DEF NoAgent
      <4> QED
        BY <4>1, <4>2 DEF Load
    <3>2. CASE ~(u = cur /\ c = boots)
      <4>1. agents'[u][c] = agents[u][c]
        BY <2>1, <2>2, <3>2 DEF TypeOK
      <4> QED
        BY <4>1 DEF Load
    <3> QED
      BY <3>1, <3>2
  <2> QED
    BY <2>1, <2>3, AccountUntouched, AllAccounted DEF Accounted
<1>4. ASSUME NEW t \in Task, NEW b \in Boot, AgentPop(t, b) PROVE MessageInv'
  <2>1. /\ setting' = setting /\ UNCHANGED <<ran, dispatched>> /\ taskQ[t] > 0
        /\ taskQ' = [taskQ EXCEPT ![t] = @ - 1]
        /\ agents' = [agents EXCEPT ![t][b].inbox = @ + 1]
    BY <1>4 DEF AgentPop
  <2>2. \A u \in Task, c \in Boot : u # t \/ c # b => agents'[u][c] = agents[u][c]
    BY <2>1 DEF TypeOK
  <2>3. Load(t, b)' = Load(t, b) + 1
    <3>1. /\ agents'[t][b].state = agents[t][b].state
          /\ agents'[t][b].inbox = agents[t][b].inbox + 1 /\ agents[t][b].inbox \in Nat
      BY <2>1 DEF TypeOK
    <3> QED
      BY <3>1 DEF Load
  <2>4. /\ IsFiniteSet(Carried(t)') /\ Cardinality(Carried(t)) \in Nat
        /\ Cardinality(Carried(t)') = Cardinality(Carried(t)) + 1
    BY <2>2, <2>3, LoadChanges
  <2>5. ran[t] \in Nat /\ taskQ[t] \in Nat /\ dispatched[t] \in Nat /\ taskQ'[t] = taskQ[t] - 1
    BY <2>1 DEF TypeOK
  <2>6. ran'[t] + (taskQ'[t] + Cardinality(Carried(t)')) - dispatched'[t]
          = ran[t] + (taskQ[t] + Cardinality(Carried(t))) - dispatched[t]
    BY <2>1, <2>4, <2>5
  <2>7. Accounted(t)
    BY <2>1, <2>4, <2>6, AccountKept DEF Accounted
  <2>8. \A u \in Task : u # t => /\ taskQ'[u] = taskQ[u] /\ ran'[u] = ran[u]
                                 /\ dispatched'[u] = dispatched[u]
    BY <2>1 DEF TypeOK
  <2> QED
    BY <1>1, <2>1, <2>2, <2>7, <2>8
<1>5. ASSUME NEW t \in Task, NEW b \in Boot, AgentTake(t, b) PROVE MessageInv'
  <2>1. /\ setting' = setting /\ UNCHANGED <<taskQ, ran, dispatched>>
        /\ agents[t][b].state = "idle" /\ agents[t][b].inbox > 0
        /\ agents' = [agents EXCEPT ![t][b] = [state |-> "busy", inbox |-> @.inbox - 1]]
    BY <1>5 DEF AgentTake
  <2>2. \A u \in Task, c \in Boot : u # t \/ c # b => agents'[u][c] = agents[u][c]
    BY <2>1 DEF TypeOK
  <2>3. Load(t, b)' = Load(t, b)
    <3>1. /\ agents'[t][b].state = "busy"
          /\ agents'[t][b].inbox = agents[t][b].inbox - 1 /\ agents[t][b].inbox \in Nat
      BY <2>1 DEF TypeOK
    <3> QED
      BY <2>1, <3>1 DEF Load
  <2>4. \A u \in Task, c \in Boot : Load(u, c)' = Load(u, c)
    BY <2>2, <2>3 DEF Load
  <2> QED
    BY <2>1, <2>4, AccountUntouched, AllAccounted DEF Accounted
<1>6. ASSUME NEW t \in Task, NEW b \in Boot, NEW st \in {"success", "timeout"},
             AgentFinish(t, b, st)
      PROVE  MessageInv'
  <2>1. /\ setting' = setting /\ UNCHANGED <<taskQ, dispatched>>
        /\ agents[t][b].state = "busy" /\ ran' = [ran EXCEPT ![t] = @ + 1]
        /\ agents' = [agents EXCEPT ![t][b].state = "idle"]
    BY <1>6 DEF AgentFinish
  <2>2. \A u \in Task, c \in Boot : u # t \/ c # b => agents'[u][c] = agents[u][c]
    BY <2>1 DEF TypeOK
  <2>3. Load(t, b) = Load(t, b)' + 1
    <3>1. /\ agents'[t][b].state = "idle"
          /\ agents'[t][b].inbox = agents[t][b].inbox /\ agents[t][b].inbox \in Nat
      BY <2>1 DEF TypeOK
    <3> QED
      BY <2>1, <3>1 DEF Load
  <2>4. /\ IsFiniteSet(Carried(t)') /\ Cardinality(Carried(t)') \in Nat
        /\ Cardinality(Carried(t)) = Cardinality(Carried(t)') + 1
    BY <2>2, <2>3, LoadChanges
  <2>5. ran[t] \in Nat /\ taskQ[t] \in Nat /\ dispatched[t] \in Nat /\ ran'[t] = ran[t] + 1
    BY <2>1 DEF TypeOK
  <2>6. ran'[t] + (taskQ'[t] + Cardinality(Carried(t)')) - dispatched'[t]
          = ran[t] + (taskQ[t] + Cardinality(Carried(t))) - dispatched[t]
    BY <2>1, <2>4, <2>5
  <2>7. Accounted(t)
    BY <2>1, <2>4, <2>6, AccountKept DEF Accounted
  <2>8. \A u \in Task : u # t => /\ taskQ'[u] = taskQ[u] /\ ran'[u] = ran[u]
                                 /\ dispatched'[u] = dispatched[u]
    BY <2>1 DEF TypeOK
  <2> QED
    BY <1>1, <2>1, <2>2, <2>7, <2>8
<1>7. ASSUME NEW t \in Task, NEW b \in Boot, AgentDies(t, b) PROVE MessageInv'
  <2>1. /\ setting' = setting /\ UNCHANGED <<taskQ, ran, dispatched>>
        /\ "agent" \in setting.faults
        /\ agents' = [agents EXCEPT ![t][b] = [state |-> "dead", inbox |-> 0]]
    BY <1>7 DEF AgentDies
  <2>2. \A u \in Task, c \in Boot : u # t \/ c # b => agents'[u][c] = agents[u][c]
    BY <2>1 DEF TypeOK
  <2>3. Load(t, b)' <= Load(t, b)
    <3>1. agents'[t][b].state = "dead" /\ agents'[t][b].inbox = 0 /\ agents[t][b].inbox \in Nat
      BY <2>1 DEF TypeOK
    <3> QED
      BY <3>1 DEF Load
  <2>4. /\ IsFiniteSet(Carried(t)') /\ Cardinality(Carried(t)') \in Nat
        /\ Cardinality(Carried(t)) \in Nat
        /\ Cardinality(Carried(t)') <= Cardinality(Carried(t))
    BY <2>2, <2>3, LoadChanges
  <2>5. ran[t] \in Nat /\ taskQ[t] \in Nat /\ dispatched[t] \in Nat
    BY DEF TypeOK
  <2>6. ran[t] + (taskQ[t] + Cardinality(Carried(t))) <= dispatched[t]
    BY DEF MessageInv, EveryMessageRunsOnce, InFlight
  <2>7. ran'[t] + (taskQ'[t] + Cardinality(Carried(t)')) <= dispatched'[t]
    BY <2>1, <2>4, <2>5, <2>6
  <2>8. Accounted(t)
    BY <2>1, <2>4, <2>7 DEF Accounted, InFlight
  <2> QED
    BY <1>1, <2>1, <2>2, <2>8
<1>8. CASE UNCHANGED vars
  BY <1>0, <1>8 DEF vars
<1>9. CASE Restart
  BY <1>0, <1>9 DEF Restart
<1>10. CASE ListRecoverable
  BY <1>0, <1>10 DEF ListRecoverable
<1>11. CASE ListRecoverableFails
  BY <1>0, <1>11 DEF ListRecoverableFails
<1>12. CASE RecoveryDone
  BY <1>0, <1>12 DEF RecoveryDone
<1>13. CASE TakeTask
  BY <1>0, <1>13 DEF TakeTask
<1>14. CASE EnqueueTaskFails
  BY <1>0, <1>14 DEF EnqueueTaskFails
<1>15. CASE StartWorkflowFails
  BY <1>0, <1>15 DEF StartWorkflowFails
<1>16. CASE SaveRunning
  BY <1>0, <1>16 DEF SaveRunning
<1>17. CASE SaveRunningFails
  BY <1>0, <1>17 DEF SaveRunningFails
<1>18. CASE SaveFailed
  BY <1>0, <1>18 DEF SaveFailed
<1>19. CASE SavePending
  BY <1>0, <1>19 DEF SavePending
<1>20. CASE Crash
  BY <1>0, <1>20 DEF Crash
<1>21. CASE PollNewest
  BY <1>0, <1>21 DEF PollNewest
<1>22. CASE PollOlder
  BY <1>0, <1>22 DEF PollOlder
<1>23. CASE ListenPop
  BY <1>0, <1>23 DEF ListenPop
<1>24. CASE GatewayPop
  BY <1>0, <1>24 DEF GatewayPop
<1>25. CASE ListenSave
  BY <1>0, <1>25 DEF ListenSave
<1>26. CASE ListenMark
  BY <1>0, <1>26 DEF ListenMark
<1>27. ASSUME NEW t \in Task, Submit(t) PROVE MessageInv'
  BY <1>0, <1>27 DEF Submit
<1>28. ASSUME NEW t \in Task, ChatBegin(t) PROVE MessageInv'
  BY <1>0, <1>28 DEF ChatBegin
<1>29. ASSUME NEW t \in Task, RecoverOneTask(t) PROVE MessageInv'
  BY <1>0, <1>29 DEF RecoverOneTask
<1>30. ASSUME NEW t \in Task, NEW st \in {"success", "timeout"}, ChatEnd(t, st) PROVE MessageInv'
  BY <1>0, <1>30 DEF ChatEnd
<1> QED
  BY <1>2, <1>3, <1>4, <1>5, <1>6, <1>7, <1>8, <1>9, <1>10, <1>11, <1>12, <1>13, <1>14,
     <1>15, <1>16, <1>17, <1>18, <1>19, <1>20, <1>21, <1>22, <1>23, <1>24, <1>25, <1>26,
     <1>27, <1>28, <1>29, <1>30
  DEF Next, Main, Agent

-----------------------------------------------------------------------------
(* The theorems *)

\* All parts hold in the initial state.
LEMMA StartedInit == Init => PlaceInv /\ StartInv /\ MessageInv
<1> SUFFICES ASSUME Init PROVE PlaceInv /\ StartInv /\ MessageInv
  OBVIOUS
<1>1. TypeOK
  BY TypeInit
<1>2. /\ Elements(tasksQ) = {} /\ Elements(inbox) = {} /\ stranded = {}
      /\ Distinct(tasksQ) /\ Distinct(inbox)
  BY EmptyQueue DEF Init
<1>3. ASSUME NEW t \in Task PROVE Untouched(t)
  <2>1. hand.task # t /\ cur # t /\ NotIn(resultsQ, t) /\ NotIn(heard, t)
    BY OrchestratorAssumption DEF Init, NoResult, NotIn
  <2> QED
    BY <2>1 DEF Init, Untouched, NoAgent
<1>4. submitted \subseteq setting.tasks /\ \A t \in Task : chat[t] = "none"
  BY DEF Init
<1>5. PlaceInv
  BY <1>2, <1>3, <1>4 DEF PlaceInv, Places, Waiting
<1>6. /\ boots = 0 /\ pc = "down" /\ cur = NoTask /\ recq = {}
      /\ \A t \in Task : dispatched[t] = 0 /\ ran[t] = 0 /\ taskQ[t] = 0
                         /\ \A b \in Boot : agents[t][b] = NoAgent /\ starts[t][b] = 0
  BY DEF Init, NoAgent
<1>7. StartInv
  BY <1>6 DEF StartInv, Undispatched, Unspawned
<1>8. ASSUME NEW t \in Task PROVE Carried(t) = {}
  <2>1. \A b \in Boot : Load(t, b) = 0
    BY <1>6 DEF Load, NoAgent
  <2>2. \A b \in Boot : {b} \X (1..Load(t, b)) = {}
    BY <2>1
  <2> QED
    BY <2>2 DEF Carried
<1>9. MessageInv
  BY <1>6, <1>8, FS_EmptySet DEF MessageInv, EveryMessageRunsOnce, InFlight
<1> QED
  BY <1>5, <1>7, <1>9

LEMMA StartedInvariant ==
  Spec => [](TypeOK /\ UpIsBooted /\ PlaceInv /\ StartInv /\ MessageInv)
<1>1. TypeOK /\ UpIsBooted /\ PlaceInv /\ StartInv /\ MessageInv /\ [Next]_vars
        => (TypeOK /\ UpIsBooted /\ PlaceInv /\ StartInv /\ MessageInv)'
  BY TypeNext, PlaceNext, StartNext, MessageNext
<1>2. Init => UpIsBooted
  BY DEF Init, UpIsBooted
<1> QED
  BY <1>1, <1>2, TypeInit, StartedInit, PTL DEF Spec

\* For every set of tasks, number of restarts and combination of faults: a task
\* waits in at most one of the queue "tasks", the channel the loop reads and the
\* channels nobody reads, and while it waits nothing of it was started
\* (bus Dequeue, main.go enqueueAndStartTask).
THEOREM WaitingTasksAreUntouched == Spec => []WaitingIsUntouched
<1>1. TypeOK /\ PlaceInv => WaitingIsUntouched
  <2> SUFFICES ASSUME TypeOK, PlaceInv PROVE WaitingIsUntouched
    OBVIOUS
  <2>1. /\ tasksQ \in Seq(Task) /\ inbox \in Seq(Task) /\ Places
    BY DEF TypeOK, PlaceInv
  <2>2. /\ Len(tasksQ \o inbox) = Len(tasksQ) + Len(inbox)
        /\ Len(tasksQ) \in Nat /\ Len(inbox) \in Nat
        /\ \A i \in 1..Len(tasksQ \o inbox) :
             (tasksQ \o inbox)[i] = IF i <= Len(tasksQ) THEN tasksQ[i] ELSE inbox[i - Len(tasksQ)]
    BY <2>1
  <2>3. ASSUME NEW i \in 1..Len(tasksQ), NEW j \in 1..Len(inbox) PROVE tasksQ[i] # inbox[j]
    BY <2>1 DEF Places, Elements
  <2>4. ASSUME NEW i \in 1..Len(tasksQ \o inbox), NEW j \in 1..Len(tasksQ \o inbox), i # j
        PROVE  (tasksQ \o inbox)[i] # (tasksQ \o inbox)[j]
    <3>1. CASE i <= Len(tasksQ) /\ j <= Len(tasksQ)
      BY <2>1, <2>2, <2>4, <3>1 DEF Places, Distinct
    <3>2. CASE i > Len(tasksQ) /\ j > Len(tasksQ)
      <4>1. i - Len(tasksQ) \in 1..Len(inbox) /\ j - Len(tasksQ) \in 1..Len(inbox)
            /\ i - Len(tasksQ) # j - Len(tasksQ)
        BY <2>2, <2>4, <3>2
      <4>2. /\ (tasksQ \o inbox)[i] = inbox[i - Len(tasksQ)]
            /\ (tasksQ \o inbox)[j] = inbox[j - Len(tasksQ)]
        BY <2>2, <3>2
      <4>3. inbox[i - Len(tasksQ)] # inbox[j - Len(tasksQ)]
        BY <2>1, <4>1 DEF Places, Distinct
      <4> QED
        BY <4>2, <4>3
    <3>3. CASE i <= Len(tasksQ) /\ j > Len(tasksQ)
      BY <2>2, <2>3, <3>3
    <3>4. CASE i > Len(tasksQ) /\ j <= Len(tasksQ)
      BY <2>2, <2>3, <3>4
    <3> QED
      BY <2>2, <3>1, <3>2, <3>3, <3>4
  <2> QED
    BY <2>1, <2>4 DEF WaitingIsUntouched, Places, PlaceInv, Unstarted, Untouched
<1> QED
  BY <1>1, StartedInvariant, PTL

\* For every number of tasks, restarts and agents: each life of the orchestrator
\* dispatches a task at most once, its loop and its recovery together
\* (main.go RecoverTasksOnStartup, ProcessOneTask).
THEOREM StartsOncePerBoot == Spec => []OneStartPerBoot
<1>1. StartInv => OneStartPerBoot
  BY DEF StartInv, OneStartPerBoot
<1> QED
  BY <1>1, StartedInvariant, PTL

\* For every number of agents that compete for "task.<id>": the runs that ended
\* and the messages still on their way add up to what was dispatched, unless an
\* agent died with some (bus Dequeue, subagent Run).
THEOREM MessagesRunOnce == Spec => []EveryMessageRunsOnce
<1>1. MessageInv => EveryMessageRunsOnce
  BY DEF MessageInv
<1> QED
  BY <1>1, StartedInvariant, PTL
=============================================================================
