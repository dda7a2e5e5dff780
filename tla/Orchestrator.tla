---------------------------- MODULE Orchestrator ----------------------------
(***************************************************************************)
(* The task path of cmd/orchestrator and cmd/subagent: a client puts tasks *)
(* on the queue "tasks"; the orchestrator's loop turns each into a one     *)
(* node workflow, puts it on "task.<id>", spawns an agent and records it;  *)
(* the agent runs it and puts a result on "task_results", which a second   *)
(* goroutine saves and applies to the workflow.  After a restart the tasks *)
(* whose row says pending or running are started again.                    *)
(*                                                                         *)
(* Queues and the task store are external and survive a crash; workflows   *)
(* and what the forwarding goroutines of Dequeue hold do not.  Agents are  *)
(* processes of their own and survive the orchestrator.  The workflow of a *)
(* task is the one node case of module Workflow.                           *)
(***************************************************************************)
EXTENDS TaskStatus, Naturals, Sequences, FiniteSets

CONSTANTS
  Task,       \* task ids, each used once: for a queued task or a chat request
  MaxBoots,   \* bound: how often the orchestrator process is started
  Settings,   \* the environments to consider: the ids of queued tasks and of
              \* chat requests, how often the orchestrator is started, and
              \* what may go wrong
  NoTask      \* "no task in hand"

\* "gateway": a gateway runs beside the orchestrator and takes results as well.
FaultKinds == {"enqueue", "spawn", "store", "encode", "agent", "crash", "gateway"}

Setting ==
  [tasks : SUBSET Task, chats : SUBSET Task, boots : 1..MaxBoots, faults : SUBSET FaultKinds]

ASSUME OrchestratorAssumption ==
  /\ MaxBoots \in Nat \ {0}
  /\ Settings \subseteq Setting
  /\ \A s \in Settings : s.tasks \cap s.chats = {}
  /\ NoTask \notin Task

\* Results an agent reports: success stands for itself, timeout for the
\* statuses that are not success.
Result == [task : Task, status : {"success", "timeout"}]

NoResult == [task |-> NoTask, status |-> "none"]

Boot == 1..MaxBoots

VARIABLES
  setting,    \* the environment of this behaviour
  submitted,  \* tasks a client has enqueued (history)
  chat,       \* chat requests: "none", "open" or "ended"
  tasksQ,     \* queue "tasks"
  taskQ,      \* per task, number of messages on queue "task.<id>"
  resultsQ,   \* queue "task_results"
  store,      \* TaskStateStore: status per task, "none" without a row
  agents,     \* per task and boot, the agent process spawned then
  (* the orchestrator process *)
  boots,      \* how often it was started
  pc,         \* main goroutine
  cur,        \* the task enqueueAndStartTask is working on
  rec,        \* was it called by recoverOneTask?
  recq,       \* snapshot of ListRecoverable still to be worked off
  wf,         \* App.workflows: node state per task, "none" if absent
  pollers,    \* Dequeue("tasks") goroutines: 0, 1 or 2 (two or more)
  inbox,      \* what the newest of them forwarded; ProcessOneTask reads this
  stranded,   \* tasks held by the older ones; nothing reads their channels
  heard,      \* what the Dequeue("task_results") goroutine forwarded
  hand,       \* result ListenResults has saved and not yet applied
  (* history *)
  dispatched, \* per task, messages put on "task.<id>"
  starts,     \* per task and boot, how many of them that boot put there
  ran,        \* per task, runs that ended
  succeeded   \* tasks of which a run ended with success

queueVars == <<tasksQ, taskQ, resultsQ, store>>
mainVars == <<pc, cur, rec, recq>>
pollVars == <<pollers, inbox, stranded>>
listenVars == <<heard, hand>>
historyVars == <<dispatched, starts, ran, succeeded>>
vars == <<setting, submitted, chat, queueVars, agents, boots, mainVars, wf, pollVars, listenVars,
          historyVars>>

PCs == {"down", "boot", "recover", "idle", "enqueue", "start", "save",
        "savefailed", "repend"}

Working == {"enqueue", "start", "save", "savefailed", "repend"}

\* Type invariant: queues, rows, workflows and processes; a task is in hand exactly while
\* enqueueAndStartTask works on one (main.go App).
TypeOK ==
  /\ setting \in Settings
  /\ submitted \subseteq Task
  /\ chat \in [Task -> {"none", "open", "ended"}]
  /\ tasksQ \in Seq(Task)
  /\ taskQ \in [Task -> Nat]
  /\ resultsQ \in Seq(Result)
  /\ store \in [Task -> TaskStatuses \cup {"none"}]
  /\ agents \in [Task -> [Boot -> [state : {"none", "idle", "busy", "dead"}, inbox : Nat]]]
  /\ boots \in 0..MaxBoots
  /\ pc \in PCs
  /\ cur \in Task \cup {NoTask} /\ (pc \in Working <=> cur # NoTask)
  /\ rec \in BOOLEAN
  /\ recq \subseteq Task
  /\ wf \in [Task -> {"none", "pending", "running", "completed", "failed"}]
  /\ pollers \in 0..2
  /\ inbox \in Seq(Task)
  /\ stranded \subseteq Task
  /\ heard \in Seq(Result)
  /\ hand \in Result \cup {NoResult}
  /\ dispatched \in [Task -> Nat]
  /\ starts \in [Task -> [Boot -> Nat]]
  /\ ran \in [Task -> Nat]
  /\ succeeded \subseteq Task

Init ==
  /\ setting \in Settings
  /\ submitted = {}
  /\ chat = [t \in Task |-> "none"]
  /\ tasksQ = <<>>
  /\ taskQ = [t \in Task |-> 0]
  /\ resultsQ = <<>>
  /\ store = [t \in Task |-> "none"]
  /\ agents = [t \in Task |-> [b \in Boot |-> [state |-> "none", inbox |-> 0]]]
  /\ boots = 0
  /\ pc = "down" /\ cur = NoTask /\ rec = FALSE /\ recq = {}
  /\ wf = [t \in Task |-> "none"]
  /\ pollers = 0 /\ inbox = <<>> /\ stranded = {}
  /\ heard = <<>> /\ hand = NoResult
  /\ dispatched = [t \in Task |-> 0]
  /\ starts = [t \in Task |-> [b \in Boot |-> 0]]
  /\ ran = [t \in Task |-> 0]
  /\ succeeded = {}

-----------------------------------------------------------------------------
(* Clients *)

\* SessionRouter.DispatchIncoming puts a task on "tasks".
Submit(t) ==
  /\ t \in setting.tasks \ submitted
  /\ submitted' = submitted \cup {t}
  /\ tasksQ' = Append(tasksQ, t)
  /\ UNCHANGED <<setting, chat, taskQ, resultsQ, store, agents, boots, mainVars, wf, pollVars,
                 listenVars, historyVars>>

\* TaskStateStore.Save: an upsert by task id that looks at nothing; the error
\* of a failed one reaches the caller.
Save(t, status) ==
  \/ store' = [store EXCEPT ![t] = status]
  \/ "store" \in setting.faults /\ UNCHANGED store

\* ServeHTTP of the chat completions handler, served from before recovery on:
\* a row like that of a running task, unless the client is gone already.
ChatBegin(t) ==
  /\ pc # "down"
  /\ t \in setting.chats /\ chat[t] = "none"
  /\ chat' = [chat EXCEPT ![t] = "open"]
  /\ Save(t, "running") \/ UNCHANGED store
  /\ UNCHANGED <<setting, submitted, tasksQ, taskQ, resultsQ, agents, boots, mainVars, wf,
                 pollVars, listenVars, historyVars>>

\* The request ends (module ChatStream) and its outcome is saved, unless the
\* client is gone: then the row stays as it is.
ChatEnd(t, status) ==
  /\ chat[t] = "open"
  /\ chat' = [chat EXCEPT ![t] = "ended"]
  /\ Save(t, status) \/ UNCHANGED store
  /\ succeeded' = IF status = "success" THEN succeeded \cup {t} ELSE succeeded
  /\ UNCHANGED <<setting, submitted, tasksQ, taskQ, resultsQ, agents, boots, mainVars, wf,
                 pollVars, listenVars, dispatched, starts, ran>>

-----------------------------------------------------------------------------
(* Start, recovery, failure and crash of the orchestrator *)

\* runMain: a fresh App; ListenResults is started before recovery.
Restart ==
  /\ pc = "down"
  /\ boots < setting.boots
  /\ boots' = boots + 1
  /\ pc' = "boot"
  /\ UNCHANGED <<setting, submitted, chat, queueVars, agents, cur, rec, recq, wf, pollVars,
                 listenVars, historyVars>>

\* RecoverTasksOnStartup: the rows to recover are read once.
ListRecoverable ==
  /\ pc = "boot"
  /\ recq' = {t \in Task : store[t] \in {"pending", "running"}}
  /\ pc' = "recover"
  /\ UNCHANGED <<setting, submitted, chat, queueVars, agents, boots, cur, rec, wf, pollVars,
                 listenVars, historyVars>>

\* The process ends: goroutines and maps are gone.
Exit ==
  /\ pc' = "down"
  /\ cur' = NoTask /\ rec' = FALSE /\ recq' = {}
  /\ wf' = [t \in Task |-> "none"]
  /\ pollers' = 0 /\ inbox' = <<>> /\ stranded' = {}
  /\ heard' = <<>> /\ hand' = NoResult
  /\ chat' = [t \in Task |-> IF chat[t] = "open" THEN "ended" ELSE chat[t]]

ListRecoverableFails ==
  /\ pc = "boot"
  /\ "store" \in setting.faults
  /\ Exit
  /\ UNCHANGED <<setting, submitted, queueVars, agents, boots, historyVars>>

\* ProcessOneTask opens a new Dequeue("tasks"); what an earlier one had
\* forwarded, or forwards from now on, is read by nobody.
Poll ==
  /\ pollers' = IF pollers < 2 THEN pollers + 1 ELSE 2
  /\ stranded' = stranded \cup {inbox[i] : i \in 1..Len(inbox)}
  /\ inbox' = <<>>

RecoveryDone ==
  /\ pc = "recover"
  /\ recq = {}
  /\ pc' = "idle"
  /\ Poll
  /\ UNCHANGED <<setting, submitted, chat, queueVars, agents, boots, cur, rec, recq, wf,
                 listenVars, historyVars>>

Crash ==
  /\ "crash" \in setting.faults
  /\ pc # "down"
  /\ Exit
  /\ UNCHANGED <<setting, submitted, queueVars, agents, boots, historyVars>>

-----------------------------------------------------------------------------
(* enqueueAndStartTask, in the order of its effects *)

\* A new workflow replaces whatever App.workflows held for the task.
Register(t) ==
  /\ wf' = [wf EXCEPT ![t] = "pending"]
  /\ cur' = t
  /\ pc' = "enqueue"

\* Mutant of RecoverOneTask: the row stays on the list.
RecoverAgain(t) ==
  /\ pc = "recover"
  /\ t \in recq
  /\ Register(t)
  /\ rec' = TRUE
  /\ UNCHANGED <<setting, submitted, chat, queueVars, agents, boots, recq, pollVars, listenVars,
                 historyVars>>

RecoverOneTask(t) ==
  /\ pc = "recover"
  /\ t \in recq
  /\ Register(t)
  /\ rec' = TRUE
  /\ recq' = recq \ {t}
  /\ UNCHANGED <<setting, submitted, chat, queueVars, agents, boots, pollVars, listenVars, historyVars>>

TakeTask ==
  /\ pc = "idle"
  /\ inbox # <<>>
  /\ Register(Head(inbox))
  /\ rec' = FALSE
  /\ inbox' = Tail(inbox)
  /\ UNCHANGED <<setting, submitted, chat, queueVars, agents, boots, recq, pollers, stranded,
                 listenVars, historyVars>>

\* The call returned nil: the next row, or the next ProcessOneTask.
Continue ==
  /\ cur' = NoTask
  /\ IF rec THEN pc' = "recover" /\ UNCHANGED pollVars
            ELSE pc' = "idle" /\ Poll
  /\ UNCHANGED <<rec, recq, wf, listenVars>>

\* It returned an error: recovery writes the row back to pending, the loop
\* ends and main with it.
GiveUp ==
  IF rec THEN pc' = "repend" /\ UNCHANGED <<chat, cur, rec, recq, wf, pollVars, listenVars>>
         ELSE Exit

EnqueueTask ==
  /\ pc = "enqueue"
  /\ taskQ' = [taskQ EXCEPT ![cur] = @ + 1]
  /\ dispatched' = [dispatched EXCEPT ![cur] = @ + 1]
  /\ starts' = [starts EXCEPT ![cur][boots] = @ + 1]
  /\ pc' = "start"
  /\ UNCHANGED <<setting, submitted, chat, tasksQ, resultsQ, store, agents, boots, cur, rec, recq,
                 wf, pollVars, listenVars, ran, succeeded>>

EnqueueTaskFails ==
  /\ pc = "enqueue"
  /\ "enqueue" \in setting.faults
  /\ GiveUp
  /\ UNCHANGED <<setting, submitted, queueVars, agents, boots, historyVars>>

\* Mutant of StartWorkflow: the agent is spawned and the node not moved.
StartUnmarked ==
  /\ pc = "start"
  /\ agents' = [agents EXCEPT ![cur][boots].state = "idle"]
  /\ pc' = "save"
  /\ UNCHANGED <<setting, submitted, chat, queueVars, boots, cur, rec, recq, wf, pollVars, listenVars,
                 historyVars>>

\* Workflow.Start: the node runs, then OnNodeReady spawns the agent.
StartWorkflow ==
  /\ pc = "start"
  /\ wf' = [wf EXCEPT ![cur] = "running"]
  /\ agents' = [agents EXCEPT ![cur][boots].state = "idle"]
  /\ pc' = "save"
  /\ UNCHANGED <<setting, submitted, chat, queueVars, boots, cur, rec, recq, pollVars, listenVars,
                 historyVars>>

StartWorkflowFails ==
  /\ pc = "start"
  /\ "spawn" \in setting.faults
  /\ wf' = [wf EXCEPT ![cur] = "running"]
  /\ pc' = "savefailed"
  /\ UNCHANGED <<setting, submitted, chat, queueVars, agents, boots, cur, rec, recq, pollVars,
                 listenVars, historyVars>>

SaveRunning ==
  /\ pc = "save"
  /\ store' = [store EXCEPT ![cur] = "running"]
  /\ Continue
  /\ UNCHANGED <<setting, submitted, chat, tasksQ, taskQ, resultsQ, agents, boots, historyVars>>

SaveRunningFails ==
  /\ pc = "save"
  /\ "store" \in setting.faults
  /\ GiveUp
  /\ UNCHANGED <<setting, submitted, queueVars, agents, boots, historyVars>>

\* The spawn failed; the error of this Save is ignored.
SaveFailed ==
  /\ pc = "savefailed"
  /\ Save(cur, "failed")
  /\ GiveUp
  /\ UNCHANGED <<setting, submitted, tasksQ, taskQ, resultsQ, agents, boots, historyVars>>

\* recoverOneTask after an error; this error too is ignored.
SavePending ==
  /\ pc = "repend"
  /\ Save(cur, "pending")
  /\ Continue
  /\ UNCHANGED <<setting, submitted, chat, tasksQ, taskQ, resultsQ, agents, boots, historyVars>>

-----------------------------------------------------------------------------
(* Goroutines of the orchestrator *)

\* Mutant of PollNewest: the task is read and not removed.
PollPeek ==
  /\ pollers > 0
  /\ tasksQ # <<>>
  /\ inbox' = Append(inbox, Head(tasksQ))
  /\ UNCHANGED <<setting, submitted, chat, queueVars, agents, boots, mainVars, wf, pollers, stranded,
                 listenVars, historyVars>>

\* The newest Dequeue("tasks") goroutine forwards a task.
PollNewest ==
  /\ pollers > 0
  /\ tasksQ # <<>>
  /\ inbox' = Append(inbox, Head(tasksQ))
  /\ tasksQ' = Tail(tasksQ)
  /\ UNCHANGED <<setting, submitted, chat, taskQ, resultsQ, store, agents, boots, mainVars, wf,
                 pollers, stranded, listenVars, historyVars>>

\* An older one does.
PollOlder ==
  /\ pollers > 1
  /\ tasksQ # <<>>
  /\ stranded' = stranded \cup {Head(tasksQ)}
  /\ tasksQ' = Tail(tasksQ)
  /\ UNCHANGED <<setting, submitted, chat, taskQ, resultsQ, store, agents, boots, mainVars, wf,
                 pollers, inbox, listenVars, historyVars>>

ListenPop ==
  /\ pc # "down"
  /\ resultsQ # <<>>
  /\ heard' = Append(heard, Head(resultsQ))
  /\ resultsQ' = Tail(resultsQ)
  /\ UNCHANGED <<setting, submitted, chat, tasksQ, taskQ, store, agents, boots, mainVars, wf,
                 pollVars, hand, historyVars>>

\* The session router of a gateway takes the result instead (module
\* ChannelRouter, RouterPop): the orchestrator never hears of it.
GatewayPop ==
  /\ "gateway" \in setting.faults
  /\ resultsQ # <<>>
  /\ resultsQ' = Tail(resultsQ)
  /\ UNCHANGED <<setting, submitted, chat, tasksQ, taskQ, store, agents, boots, mainVars, wf,
                 pollVars, listenVars, historyVars>>

\* ListenResults saves the result, ignoring an error of the store ...
ListenSave ==
  /\ pc # "down"
  /\ hand = NoResult
  /\ heard # <<>>
  /\ hand' = Head(heard)
  /\ heard' = Tail(heard)
  /\ Save(hand'.task, NormalizeTaskStatus(hand'.status))
  /\ UNCHANGED <<setting, submitted, chat, tasksQ, taskQ, resultsQ, agents, boots, mainVars, wf,
                 pollVars, historyVars>>

\* Mutant of ListenMark: any result completes the node.
ListenMarkCompleted ==
  /\ hand # NoResult
  /\ wf' = IF wf[hand.task] = "running"
             THEN [wf EXCEPT ![hand.task] = "completed"] ELSE wf
  /\ hand' = NoResult
  /\ UNCHANGED <<setting, submitted, chat, queueVars, agents, boots, mainVars, pollVars, heard,
                 historyVars>>

\* ... and then looks up the workflow.  A node that is not running refuses
\* the transition, and that error is ignored too.
ListenMark ==
  /\ hand # NoResult
  /\ wf' = IF wf[hand.task] = "running"
             THEN [wf EXCEPT ![hand.task] =
                     IF IsSuccessfulTaskStatus(hand.status) THEN "completed" ELSE "failed"]
             ELSE wf
  /\ hand' = NoResult
  /\ UNCHANGED <<setting, submitted, chat, queueVars, agents, boots, mainVars, pollVars, heard,
                 historyVars>>

-----------------------------------------------------------------------------
(* Agents (cmd/subagent) *)

Alive(t, b) == agents[t][b].state \in {"idle", "busy"}

\* Mutant of AgentPop: the message is read and not removed.
AgentPeek(t, b) ==
  /\ Alive(t, b)
  /\ taskQ[t] > 0
  /\ agents' = [agents EXCEPT ![t][b].inbox = @ + 1]
  /\ UNCHANGED <<setting, submitted, chat, queueVars, boots, mainVars, wf, pollVars, listenVars,
                 historyVars>>

\* The Dequeue goroutine of an agent runs ahead of it.
AgentPop(t, b) ==
  /\ Alive(t, b)
  /\ taskQ[t] > 0
  /\ taskQ' = [taskQ EXCEPT ![t] = @ - 1]
  /\ agents' = [agents EXCEPT ![t][b].inbox = @ + 1]
  /\ UNCHANGED <<setting, submitted, chat, tasksQ, resultsQ, store, boots, mainVars, wf, pollVars,
                 listenVars, historyVars>>

AgentTake(t, b) ==
  /\ agents[t][b].state = "idle"
  /\ agents[t][b].inbox > 0
  /\ agents' = [agents EXCEPT ![t][b] = [state |-> "busy", inbox |-> @.inbox - 1]]
  /\ UNCHANGED <<setting, submitted, chat, queueVars, boots, mainVars, wf, pollVars, listenVars,
                 historyVars>>

\* sendResult.  The output is pasted between quotes without escaping, so an
\* output that holds a quote makes the result unencodable: the empty payload
\* is refused by Enqueue and the refusal ignored.
SendResult(t, status) ==
  \/ resultsQ' = Append(resultsQ, [task |-> t, status |-> status])
  \/ "encode" \in setting.faults /\ status = "success" /\ UNCHANGED resultsQ
  \/ "enqueue" \in setting.faults /\ UNCHANGED resultsQ

AgentFinish(t, b, status) ==
  /\ agents[t][b].state = "busy"
  /\ agents' = [agents EXCEPT ![t][b].state = "idle"]
  /\ ran' = [ran EXCEPT ![t] = @ + 1]
  /\ succeeded' = IF status = "success" THEN succeeded \cup {t} ELSE succeeded
  /\ SendResult(t, status)
  /\ UNCHANGED <<setting, submitted, chat, tasksQ, taskQ, store, boots, mainVars, wf, pollVars,
                 listenVars, dispatched, starts>>

\* An agent process dies, with what it had taken from its queue.
AgentDies(t, b) ==
  /\ "agent" \in setting.faults
  /\ Alive(t, b)
  /\ agents' = [agents EXCEPT ![t][b] = [state |-> "dead", inbox |-> 0]]
  /\ UNCHANGED <<setting, submitted, chat, queueVars, boots, mainVars, wf, pollVars, listenVars,
                 historyVars>>

-----------------------------------------------------------------------------
Main ==
  \/ Restart \/ ListRecoverable \/ ListRecoverableFails \/ RecoveryDone
  \/ \E t \in Task : RecoverOneTask(t)
  \/ TakeTask
  \/ EnqueueTask \/ EnqueueTaskFails
  \/ StartWorkflow \/ StartWorkflowFails
  \/ SaveRunning \/ SaveRunningFails \/ SaveFailed \/ SavePending

Agent(t, b) ==
  AgentPop(t, b) \/ AgentTake(t, b)
  \/ \E status \in {"success", "timeout"} : AgentFinish(t, b, status)

Next ==
  \/ \E t \in Task : Submit(t) \/ ChatBegin(t)
  \/ \E t \in Task, status \in {"success", "timeout"} : ChatEnd(t, status)
  \/ Main \/ Crash
  \/ PollNewest \/ PollOlder
  \/ ListenPop \/ GatewayPop \/ ListenSave \/ ListenMark
  \/ \E t \in Task, b \in Boot : Agent(t, b) \/ AgentDies(t, b)

Spec == Init /\ [][Next]_vars

\* Goroutines and processes that can act do.  Three things are assumed that the code
\* does not see to: a run of the runtime ends (a prediction may hang, module Runtime,
\* OnlyPredictHangs), stores and queues answer, and the orchestrator is started, again
\* as long as the setting has starts left.  Nothing says which Dequeue goroutine gets
\* a task.
FairSpec ==
  /\ Spec
  /\ WF_vars(Main)
  /\ WF_vars(PollNewest \/ PollOlder)
  /\ WF_vars(ListenPop) /\ WF_vars(ListenSave) /\ WF_vars(ListenMark)
  /\ \A t \in Task, b \in Boot : WF_vars(Agent(t, b))

-----------------------------------------------------------------------------
(* Safety *)

\* A success is earned: the row says success, or the workflow node completed,
\* only after some run of that task ended with success, whatever crashed, was
\* lost or was repeated in between (main.go ListenResults).
SuccessIsEarned ==
  \A t \in Task : store[t] = "success" \/ wf[t] = "completed" => t \in succeeded

\* How many messages of task t the agent spawned at boot b holds.
Load(t, b) == agents[t][b].inbox + (IF agents[t][b].state = "busy" THEN 1 ELSE 0)

\* The messages of task t its agents hold, each named by its agent and a number.
Carried(t) == UNION {{b} \X (1..Load(t, b)) : b \in Boot}

\* Messages of task t between "task.<id>" and the end of their run.
InFlight(t) == taskQ[t] + Cardinality(Carried(t))

\* Every message put on "task.<id>" is run exactly once, by one of the agents
\* that compete for it: none is run twice, and none disappears unless an agent
\* dies with it (bus Dequeue, subagent Run).
EveryMessageRunsOnce ==
  \A t \in Task : /\ ran[t] + InFlight(t) <= dispatched[t]
                  /\ "agent" \notin setting.faults => ran[t] + InFlight(t) = dispatched[t]

\* Each life of the orchestrator starts a task at most once, its own loop and its
\* recovery together: recovery never picks up a task that still waits on "tasks", the
\* loop gets none that recovery has started, and no row is recovered twice (main.go
\* RecoverTasksOnStartup, ProcessOneTask).
OneStartPerBoot == \A t \in Task, b \in Boot : starts[t][b] <= 1

Elements(q) == {q[i] : i \in 1..Len(q)}

Waiting(t) == t \in Elements(tasksQ) \cup Elements(inbox) \cup stranded

\* A task waits in at most one place, and while it waits no trace of a start
\* exists: no message, no row, no workflow (bus Dequeue, enqueueAndStartTask).
WaitingIsUntouched ==
  /\ \A i, j \in 1..Len(tasksQ \o inbox) : i # j => (tasksQ \o inbox)[i] # (tasksQ \o inbox)[j]
  /\ stranded \cap (Elements(tasksQ) \cup Elements(inbox)) = {}
  /\ \A t \in Task : Waiting(t) =>
       dispatched[t] = 0 /\ store[t] = "none" /\ wf[t] = "none" /\ t \in submitted

-----------------------------------------------------------------------------
(* Liveness *)

\* A task the orchestrator has registered settles while this life of it lasts,
\* if no agent of an earlier life is there: its node completes or fails, because
\* no agent can take its message, and so no result arrive, before the node is
\* running (main.go enqueueAndStartTask, ListenResults).  An agent of an earlier
\* life may be that fast, and a gateway may take the result.
StartedTaskSettles ==
  \A t \in Task :
    /\ wf[t] # "none"
    /\ setting.faults \subseteq {"crash"}
    /\ \A b \in 1..(boots - 1) : agents[t][b].state = "none"
    ~> wf[t] \in {"completed", "failed"} \/ pc = "down"

-----------------------------------------------------------------------------
(* What the documentation says and the code does not do *)

\* The orchestrator stores success, failed, rejected, timeout and cancelled as
\* they are (task-terminal-state-alignment-design.md:118): the row of a settled
\* task says so.  SaveRunning may come after ListenSave and overwrite it.
SettledRowIsTerminal ==
  \A t \in Task : wf[t] \in {"completed", "failed"} ~>
                    store[t] # "none" /\ IsTerminalTaskStatus(store[t])

\* Channel messages are enqueued on "tasks" so the orchestrator can continue
\* with workflow scheduling (internal_bus.md:9).
SubmittedTaskIsScheduled ==
  \A t \in Task : t \in submitted ~> dispatched[t] > 0
=============================================================================
