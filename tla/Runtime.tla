------------------------------ MODULE Runtime ------------------------------
(***************************************************************************)
(* internal/llm Runtime.Run: the ReAct loop of one task, with the Fanout   *)
(* that numbers and publishes its stream chunks.  The loop is sequential;  *)
(* what it interleaves with is the cancellation of its context, which can  *)
(* happen between any two calls and makes every later publish fail.        *)
(*                                                                         *)
(* The provider and the tools answer in every way their interfaces allow.  *)
(* A publish error is ignored by the loop, so a live publish may also be   *)
(* lost.  The approval gate is that of module ApprovalGate as one task     *)
(* sees it: decisions are kept by tool call id alone, whatever the turn,   *)
(* and may arrive before their call, behind it or more than once.  The two *)
(* looks at the buffer and the registration between them are one step here.*)
(***************************************************************************)
EXTENDS TaskStatus, Naturals, Sequences

CONSTANTS
  MaxTurns,   \* bound standing for the 10 turns of NewRuntime
  CallID,     \* tool call ids a model may use ("" is added: the id is optional)
  MaxPosts    \* bound on the decisions posted for the task

ASSUME RuntimeAssumption == MaxTurns \in Nat \ {0} /\ MaxPosts \in Nat /\ "" \notin CallID

(* The ways Run is wired: the subagent, the gateway's chat handler with     *)
(* tools (with and without a sender) and without tools.  A broken gate is   *)
(* one that could not subscribe.  wrapFinal: the provider wraps every       *)
(* completion as a final answer.                                            *)
Wirings ==
  {[gate |-> g, onReject |-> "continue", fanout |-> TRUE,
    wrapFinal |-> FALSE, maxTurns |-> MaxTurns] : g \in {"open", "broken"}} \cup
  {[gate |-> g, onReject |-> "fail", fanout |-> g # "none",
    wrapFinal |-> FALSE, maxTurns |-> MaxTurns] : g \in {"none", "open", "broken"}} \cup
  {[gate |-> "none", onReject |-> "continue", fanout |-> TRUE,
    wrapFinal |-> TRUE, maxTurns |-> 1]}

Terminal == {"final", "error", "timeout", "cancelled"}

Events == {"tool_call", "waiting_approval", "tool_result"} \cup Terminal

Call == [id : CallID \cup {""}, write : BOOLEAN]

NoCall == [id |-> "none", write |-> FALSE]

VARIABLES
  wiring,    \* how this run was built
  ctx,       \* "live" or "canceled"
  pc,        \* "predict", "dispatch", "waiting", "blocked", "decided",
             \* "execute" or "done"
  turn,      \* turns begun and finished
  call,      \* the tool call of this turn
  messages,  \* what this run appended to req.Messages
  seq,       \* Fanout.sequence
  sent,      \* Fanout.terminalSent
  chunks,    \* chunks that reached the bus, in order
  status,    \* FinalResult.Status once done
  err,       \* the error returned once done
  cause,     \* why the run ended (history)
  posted,    \* the decisions the gate has received, in order (history)
  buffer,    \* g.pending: decisions nobody waited for, per call id, by number
  slot,      \* number of the decision the waiting call was given, 0 for none
  executed   \* turns and calls whose tool ran, with the decision (history)

fanoutVars == <<seq, sent, chunks>>
gateVars == <<posted, buffer, slot, executed>>
vars == <<wiring, ctx, pc, turn, call, messages, fanoutVars, status, err,
          cause, gateVars>>

Causes == {"none", "final", "provider", "parse", "nogate", "wait",
           "approval timeout", "rejected", "turns"}

Decision == [id : CallID, approve : BOOLEAN]

Message == [role : {"assistant", "tool"}, turn : Nat, id : CallID \cup {""}]

LoopTypeOK ==
  /\ wiring \in Wirings
  /\ ctx \in {"live", "canceled"}
  /\ pc \in {"predict", "dispatch", "waiting", "blocked", "decided", "execute", "done"}
  /\ turn \in 0..wiring.maxTurns
  /\ call \in Call \cup {NoCall}
  /\ messages \in Seq(Message)
  /\ seq \in Nat
  /\ sent \in BOOLEAN
  /\ chunks \in Seq([seq : Nat, event : Events])
  /\ status \in TaskStatuses \cup {"error", ""}
  /\ err \in Error \cup {Nil}
  /\ cause \in Causes

GateTypeOK ==
  /\ posted \in Seq(Decision)
  /\ buffer \in [CallID -> Seq(Nat)]
  /\ slot \in Nat
  /\ executed \subseteq [turn : Nat, call : Call, by : Nat]

\* Type invariant: the turn never passes the limit of the wiring, and a run ends with one
\* of the statuses and errors its callers classify (runtime_loop.go Run).
TypeOK == LoopTypeOK /\ GateTypeOK

Init ==
  /\ wiring \in Wirings
  /\ ctx = "live"
  /\ pc = "predict"
  /\ turn = 0
  /\ call = NoCall
  /\ messages = <<>>
  /\ seq = 0
  /\ sent = FALSE
  /\ chunks = <<>>
  /\ status = ""
  /\ err = Nil
  /\ cause = "none"
  /\ posted = <<>>
  /\ buffer = [id \in CallID |-> <<>>]
  /\ slot = 0
  /\ executed = {}

-----------------------------------------------------------------------------
(* Fanout *)

\* May a publish made now succeed?  Publish returns ctx.Err() first.
Published == IF ctx = "live" THEN BOOLEAN ELSE {FALSE}

\* The chunks after publishing one with number n.
Publish(chs, n, event) ==
  {IF ok THEN Append(chs, [seq |-> n, event |-> event]) ELSE chs : ok \in Published}

\* Mutant of Emit: the number of a chunk is not used up.
EmitSameNumber(event) ==
  IF wiring.fanout
    THEN chunks' \in Publish(chunks, seq + 1, event) /\ UNCHANGED <<seq, sent>>
    ELSE UNCHANGED fanoutVars

\* EmitToolCall, EmitWaitingApproval, EmitToolResult: NewChunk takes a number
\* whether or not the publish succeeds.
Emit(event) ==
  IF wiring.fanout
    THEN /\ seq' = seq + 1
         /\ chunks' \in Publish(chunks, seq + 1, event)
         /\ UNCHANGED sent
    ELSE UNCHANGED fanoutVars

\* EmitFinal, EmitError, EmitTimeout, EmitCancelled: the number is taken
\* before the compare-and-swap that lets one terminal chunk through.  chs and n
\* are the chunks and the number after what the same step emitted before.
EmitTerminal(event, chs, n) ==
  IF wiring.fanout
    THEN /\ seq' = n + 1
         /\ sent' = TRUE
         /\ chunks' \in IF sent THEN {chs} ELSE Publish(chs, n + 1, event)
    ELSE UNCHANGED fanoutVars

-----------------------------------------------------------------------------
(* Leaving the loop *)

\* Run returns: nothing of the loop changes afterwards.
Return(st, e, why) ==
  /\ pc' = "done"
  /\ status' = st
  /\ err' = e
  /\ cause' = why
  /\ UNCHANGED <<wiring, ctx, turn, call, messages, gateVars>>

FailWithTerminalEvent(e, why) ==
  /\ Return(ClassifyTerminalError(e)[1], e, why)
  /\ EmitTerminal(ClassifyTerminalError(e)[2], chunks, seq)

\* The assistant message and the tool's answer close the turn.
Observe ==
  /\ messages' = messages \o <<[role |-> "assistant", turn |-> turn, id |-> call.id],
                               [role |-> "tool", turn |-> turn, id |-> call.id]>>
  /\ turn' = turn + 1
  /\ pc' = "predict"
  /\ call' = NoCall
  /\ slot' = 0

-----------------------------------------------------------------------------
(* One action per step of the loop *)

Predicting == pc = "predict" /\ turn < wiring.maxTurns

\* Predict returns an error: the context's own once it is cancelled, anything
\* the upstream says before that.
PredictFails ==
  /\ Predicting
  /\ \E e \in Error :
       /\ (e.wraps = "canceled") <=> (ctx = "canceled")
       /\ FailWithTerminalEvent(e, "provider")

\* ParseModelOutput refuses the output: not JSON (the error text quotes the
\* raw output, so it can contain any phrase), or none of think, final and
\* call_skill.  A wrapped completion is refused only when it is empty.
ParseFails ==
  /\ Predicting
  /\ ctx = "live"
  /\ \E phrases \in SUBSET Phrases :
       /\ wiring.wrapFinal => phrases = {}
       /\ FailWithTerminalEvent(TextError(phrases), "parse")

FinalAnswer ==
  /\ Predicting
  /\ ctx = "live"
  /\ EmitTerminal("final", chunks, seq)
  /\ Return("success", Nil, "final")

\* Only a thought: the turn is spent and nothing is appended.
ThinkOnly ==
  /\ Predicting
  /\ ctx = "live"
  /\ ~wiring.wrapFinal
  /\ turn' = turn + 1
  /\ UNCHANGED <<wiring, ctx, pc, call, messages, fanoutVars, status, err,
                 cause, gateVars>>

CallSkill(c) ==
  /\ Predicting
  /\ ctx = "live"
  /\ ~wiring.wrapFinal
  /\ call' = c
  /\ pc' = "dispatch"
  /\ Emit("tool_call")
  /\ UNCHANGED <<wiring, ctx, turn, messages, status, err, cause, gateVars>>

GateMissing ==
  /\ pc = "dispatch"
  /\ call.write /\ wiring.gate = "none"
  /\ FailWithTerminalEvent(TextError({"approval gate required"}), "nogate")

AskApproval ==
  /\ pc = "dispatch"
  /\ call.write /\ wiring.gate # "none"
  /\ Emit("waiting_approval")
  /\ pc' = "waiting"
  /\ UNCHANGED <<wiring, ctx, turn, call, messages, status, err, cause, gateVars>>

SkipApproval ==
  /\ pc = "dispatch"
  /\ ~call.write
  /\ pc' = "execute"
  /\ UNCHANGED <<wiring, ctx, turn, call, messages, fanoutVars, status, err,
                 cause, gateVars>>

(* WaitDecision *)

\* Mutant of TakeDecision: the decision stays in the buffer.
PeekDecision(id) ==
  /\ slot' = Head(buffer[id])
  /\ UNCHANGED buffer

\* takePendingDecision: the first one is taken, those behind it are dropped.
TakeDecision(id) ==
  /\ slot' = Head(buffer[id])
  /\ buffer' = [buffer EXCEPT ![id] = <<>>]

\* A decision in the buffer is returned at once; else the call waits for one.
LookForDecision ==
  /\ pc = "waiting"
  /\ wiring.gate = "open" /\ call.id # ""
  /\ IF buffer[call.id] # <<>>
       THEN TakeDecision(call.id) /\ pc' = "decided"
       ELSE pc' = "blocked" /\ UNCHANGED <<buffer, slot>>
  /\ UNCHANGED <<wiring, ctx, turn, call, messages, fanoutVars, status, err,
                 cause, posted, executed>>

\* routeDecision: a call that waits for the id gets the decision, unless it was
\* given one already; any other decision is buffered.
Post(d) ==
  /\ wiring.gate = "open" /\ pc # "done"
  /\ Len(posted) < MaxPosts
  /\ posted' = Append(posted, d)
  /\ IF pc = "blocked" /\ slot = 0 /\ call.id = d.id
       THEN slot' = Len(posted) + 1 /\ UNCHANGED buffer
       ELSE buffer' = [buffer EXCEPT ![d.id] = Append(@, Len(posted) + 1)] /\ UNCHANGED slot
  /\ UNCHANGED <<wiring, ctx, pc, turn, call, messages, fanoutVars, status, err,
                 cause, executed>>

\* WaitDecision returns a decision: from the buffer, or from the channel.
Decided == pc = "decided" \/ (pc = "blocked" /\ slot # 0)

Approved ==
  /\ Decided /\ posted[slot].approve
  /\ pc' = "execute"
  /\ UNCHANGED <<wiring, ctx, turn, call, messages, fanoutVars, status, err,
                 cause, gateVars>>

\* WaitDecision refuses an invalid request (no call id, or no tool name), or
\* returns the error of a subscription that may have timed out.
WaitRefused ==
  /\ pc = "waiting"
  /\ \/ FailWithTerminalEvent(TextError({}), "wait")
     \/ wiring.gate = "broken" /\ FailWithTerminalEvent(TextError({"timeout"}), "wait")

\* Mutant of ApprovalFails: the timer is missing.
ApprovalFailsUntimed ==
  /\ pc = "blocked"
  /\ ctx = "canceled"
  /\ FailWithTerminalEvent(Canceled, "wait")

\* The context or the timer ends the wait.
ApprovalFails ==
  /\ pc = "blocked"
  /\ \/ ctx = "canceled" /\ FailWithTerminalEvent(Canceled, "wait")
     \/ FailWithTerminalEvent(TextError({"timeout"}), "approval timeout")

\* Mutant of RejectedContinue: the rejection is not answered to the model.
RejectedUnanswered ==
  /\ Decided /\ ~posted[slot].approve
  /\ wiring.onReject # "fail"
  /\ Emit("tool_result")
  /\ messages' = Append(messages, [role |-> "assistant", turn |-> turn, id |-> call.id])
  /\ turn' = turn + 1
  /\ pc' = "predict"
  /\ call' = NoCall
  /\ slot' = 0
  /\ UNCHANGED <<wiring, ctx, status, err, cause, posted, buffer, executed>>

RejectedContinue ==
  /\ Decided /\ ~posted[slot].approve
  /\ wiring.onReject # "fail"
  /\ Emit("tool_result")
  /\ Observe
  /\ UNCHANGED <<wiring, ctx, status, err, cause, posted, buffer, executed>>

\* Mutant of RejectedFail: the rejection takes the path of any other error.
RejectedAsError ==
  /\ Decided /\ ~posted[slot].approve
  /\ wiring.onReject = "fail"
  /\ FailWithTerminalEvent(TextError({"approval rejected"}), "rejected")

\* The tool_result chunk and the terminal chunk are emitted in one step.
RejectedFail ==
  /\ Decided /\ ~posted[slot].approve
  /\ wiring.onReject = "fail"
  /\ \E chs \in IF wiring.fanout THEN Publish(chunks, seq + 1, "tool_result") ELSE {chunks} :
       EmitTerminal("error", chs, seq + 1)
  /\ Return("rejected", TextError({"approval rejected"}), "rejected")

\* Executor.Execute: an unknown tool or a failing one only changes the text of
\* the observation.
Execute ==
  /\ pc = "execute"
  /\ executed' = executed \cup {[turn |-> turn, call |-> call, by |-> slot]}
  /\ Emit("tool_result")
  /\ Observe
  /\ UNCHANGED <<wiring, ctx, status, err, cause, posted, buffer>>

OutOfTurns ==
  /\ pc = "predict"
  /\ turn = wiring.maxTurns
  /\ FailWithTerminalEvent(TextError({"exceeded max turns"}), "turns")

CancelContext ==
  /\ ctx = "live"
  /\ pc # "done"
  /\ ctx' = "canceled"
  /\ UNCHANGED <<wiring, pc, turn, call, messages, fanoutVars, status, err,
                 cause, gateVars>>

\* The steps of the loop itself, from a model's answer to the next prediction.
LoopStep ==
  \/ GateMissing \/ AskApproval \/ SkipApproval
  \/ LookForDecision \/ WaitRefused \/ Approved \/ ApprovalFails
  \/ RejectedContinue \/ RejectedFail \/ Execute \/ OutOfTurns

Predict ==
  \/ PredictFails \/ ParseFails \/ FinalAnswer \/ ThinkOnly
  \/ \E c \in Call : CallSkill(c)

Next == LoopStep \/ Predict \/ CancelContext \/ \E d \in Decision : Post(d)

Spec == Init /\ [][Next]_vars

\* WaitDecision has its timer and tools are taken to return, so the loop takes its
\* steps.  A prediction need not return: the provider's HTTP client has no timeout
\* (openai_provider.go:23), so only the cancelled context ends it for sure.  Nobody
\* owes the gate a decision.
FairSpec ==
  /\ Spec
  /\ WF_vars(LoopStep)
  /\ WF_vars(ctx = "canceled" /\ PredictFails)

-----------------------------------------------------------------------------
(* Safety *)

\* One business terminal per stream, and nothing after it: a terminal chunk is
\* the last one on the bus, and numbers grow along the stream whichever
\* publishes were lost (stream_fanout.go emitTerminal and NewChunk).
TerminalIsLast ==
  \A i, j \in 1..Len(chunks) : i < j =>
    /\ chunks[i].seq < chunks[j].seq
    /\ chunks[i].event \notin Terminal

\* No write tool runs unless a decision for its tool call id approved it, and no
\* decision lets two of them run: an approval is used up by the call that took it,
\* also when a later turn uses the id again and however many decisions are posted
\* early, late or twice (runtime_loop.go:82-124, approval_gate.go takePendingDecision).
WritesAreApproved ==
  \A x \in executed : x.call.write =>
    /\ x.by \in 1..Len(posted)
    /\ posted[x.by] = [id |-> x.call.id, approve |-> TRUE]
    /\ \A y \in executed : y.by = x.by => y = x

\* What the subagent and the gateway report for this run.
SubagentReport ==
  IF err = Nil THEN "success" ELSE RuntimeTaskResultStatus(status, err)

GatewayReport ==
  IF err = Nil THEN "success" ELSE TaskStatusForResult(status, err)

EventOf(report) ==
  IF report = "success" THEN "final"
  ELSE IF report \in {"timeout", "cancelled"} THEN report
  ELSE "error"

\* The two paths agree on the status of every run, it is terminal, and it
\* tells the same story as the terminal chunk that was published: final for
\* success, timeout and cancelled for themselves, error for the rest
\* (task_status.go, runtime_loop.go failWithTerminalEvent).
ReportsAgree ==
  pc = "done" =>
    /\ SubagentReport = GatewayReport
    /\ IsTerminalTaskStatus(SubagentReport)
    /\ \A i \in 1..Len(chunks) : chunks[i].event \in Terminal =>
         chunks[i].event = EventOf(SubagentReport)

\* The transcript the next prediction sees pairs every assistant message with
\* the answer to the call it made, one pair per turn, in turn order; so no
\* call is left unanswered and none is answered twice, also when approvals are
\* rejected or the model only thinks (runtime_loop.go:119-144).
TranscriptPaired ==
  \A i \in 1..Len(messages) :
    /\ messages[i].role = IF i % 2 = 1 THEN "assistant" ELSE "tool"
    /\ i % 2 = 0 => /\ messages[i].turn = messages[i - 1].turn
                    /\ messages[i].id = messages[i - 1].id
    /\ i % 2 = 1 /\ i > 1 => messages[i - 1].turn < messages[i].turn
    /\ messages[i].turn < turn

\* How a run ended shows in its status although statuses are read from error
\* texts an upstream may have written: out of turns and a missing gate are
\* failures, an approval that timed out is a timeout, a rejection that ends the
\* run is a rejection and nothing else is, and only a final answer is a success
\* (runtime_loop.go classifyTerminalError).
CauseDecidesStatus ==
  /\ cause \in {"turns", "nogate"} => SubagentReport = "failed"
  /\ cause = "approval timeout" => SubagentReport = "timeout"
  /\ cause = "rejected" <=> SubagentReport = "rejected"
  /\ cause = "final" <=> (pc = "done" /\ SubagentReport = "success")

-----------------------------------------------------------------------------
(* Liveness *)

\* A run ends, or one prediction on a live context hangs: it passes through the
\* loop finitely often, each pass spends a turn, and nothing else in it can block
\* for ever, an approval nobody decides included (runtime_loop.go:42).
OnlyPredictHangs == <>[](pc = "done" \/ (Predicting /\ ctx = "live"))
=============================================================================
