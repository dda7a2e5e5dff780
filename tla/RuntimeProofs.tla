--------------------------- MODULE RuntimeProofs ---------------------------
(***************************************************************************)
(* Proofs about Runtime for every bound on the turns and every set of call *)
(* ids: type correctness, the terminal chunk is unique and last, no write  *)
(* without its approval, the statuses both callers report agree with the   *)
(* terminal chunk and follow from how the run ended, and the transcript    *)
(* pairs every call with its answer.                                       *)
(***************************************************************************)
EXTENDS Runtime, TLAPS

Chunk == [seq : Nat, event : Events]

\* Numbers grow and only the last chunk may be terminal.
Ordered(chs) ==
  \A i, j \in 1..Len(chs) : i < j =>
    /\ chs[i].seq < chs[j].seq
    /\ chs[i].event \notin Terminal

Bounded(chs, n) == \A i \in 1..Len(chs) : chs[i].seq <= n

NoTerminal(chs) == \A i \in 1..Len(chs) : chs[i].event \notin Terminal

\* A stream that is still open.
Open(chs, n) == chs \in Seq(Chunk) /\ Ordered(chs) /\ Bounded(chs, n) /\ NoTerminal(chs)

\* A stream that may have been closed by a terminal chunk of this event.
Closed(chs, n, event) ==
  /\ chs \in Seq(Chunk) /\ Ordered(chs) /\ Bounded(chs, n)
  /\ \A i \in 1..Len(chs) : chs[i].event \in Terminal => chs[i].event = event

InCall == {"dispatch", "waiting", "blocked", "decided", "execute"}

\* The inductive invariant.
RuntimeInv ==
  /\ LoopTypeOK
  /\ Ordered(chunks)
  /\ Bounded(chunks, seq)
  /\ pc # "done" => ~sent /\ NoTerminal(chunks)
  /\ pc \in InCall => call \in Call /\ turn < wiring.maxTurns
  /\ ReportsAgree

-----------------------------------------------------------------------------
(* Lemmas about the stream *)

\* What a publish does to an open stream, whether or not it is delivered
\* (stream_fanout.go NewChunk and Emit).
LEMMA PublishStream ==
  ASSUME NEW chs, NEW n \in Nat, NEW event \in Events, Open(chs, n),
         NEW new,
         new = chs \/ new = Append(chs, [seq |-> n + 1, event |-> event])
  PROVE  /\ Closed(new, n + 1, event)
         /\ event \notin Terminal => Open(new, n + 1)
<1> DEFINE c == [seq |-> n + 1, event |-> event]
<1>1. c \in Chunk /\ c.seq = n + 1 /\ c.event = event
  BY DEF Chunk
<1>2. new = chs \/ new = Append(chs, c)
  OBVIOUS
<1> HIDE DEF c
<1>3. chs \in Seq(Chunk) /\ Len(chs) \in Nat
  BY DEF Open
<1>4. \A i \in 1..Len(chs) : chs[i] \in Chunk
  BY <1>3
<1>5. \A i \in 1..Len(chs) : chs[i].seq <= n /\ chs[i].event \notin Terminal
                             /\ chs[i].seq \in Nat
  BY <1>4 DEF Open, Bounded, NoTerminal, Chunk
<1>6. CASE new = chs
  <2>1. Bounded(new, n + 1)
    BY <1>5, <1>6 DEF Bounded
  <2> QED
    BY <1>5, <1>6, <2>1 DEF Open, Closed
<1>7. CASE new = Append(chs, c)
  <2>2. /\ new \in Seq(Chunk)
        /\ Len(new) = Len(chs) + 1
        /\ new[Len(chs) + 1] = c
        /\ \A i \in 1..Len(chs) : new[i] = chs[i]
    BY <1>1, <1>3, <1>7
  <2>5. Ordered(new)
    BY <1>1, <1>3, <1>5, <2>2 DEF Open, Ordered
  <2>6. Bounded(new, n + 1)
    BY <1>1, <1>3, <1>5, <2>2 DEF Bounded
  <2>7. \A i \in 1..Len(new) : new[i].event \in Terminal => new[i].event = event
    BY <1>1, <1>3, <1>5, <2>2
  <2>8. event \notin Terminal => NoTerminal(new)
    BY <2>7 DEF NoTerminal
  <2> QED
    BY <2>2, <2>5, <2>6, <2>7, <2>8 DEF Open, Closed
<1> QED
  BY <1>2, <1>6, <1>7

\* An open stream is also a closed one, for any event and any later number.
LEMMA OpenIsClosed ==
  ASSUME NEW chs, NEW n \in Nat, NEW event, Open(chs, n)
  PROVE  Closed(chs, n, event) /\ Open(chs, n + 1) /\ Closed(chs, n + 1, event)
<1>1. \A i \in 1..Len(chs) : chs[i] \in Chunk
  BY DEF Open
<1>2. \A i \in 1..Len(chs) : chs[i].seq \in Nat /\ chs[i].seq <= n
  BY <1>1 DEF Open, Bounded, Chunk
<1>3. Bounded(chs, n + 1)
  BY <1>2 DEF Bounded
<1> QED
  BY <1>3 DEF Open, Closed, NoTerminal

\* A non-terminal emit keeps the stream open.
LEMMA EmitKeepsOpen ==
  ASSUME NEW event \in Events \ Terminal, seq \in Nat, sent \in BOOLEAN,
         Open(chunks, seq), Emit(event)
  PROVE  /\ seq' \in Nat
         /\ sent' = sent
         /\ Open(chunks', seq')
<1>1. CASE wiring.fanout
  <2>1. /\ seq' = seq + 1
        /\ sent' = sent
        /\ chunks' \in Publish(chunks, seq + 1, event)
    BY <1>1 DEF Emit
  <2>2. \/ chunks' = chunks
        \/ chunks' = Append(chunks, [seq |-> seq + 1, event |-> event])
    BY <2>1, Zenon DEF Publish
  <2> QED
    BY <2>1, <2>2, PublishStream
<1>2. CASE ~wiring.fanout
  BY <1>2 DEF Emit, fanoutVars
<1> QED
  BY <1>1, <1>2

\* A terminal emit closes the stream with its own event.
LEMMA TerminalCloses ==
  ASSUME NEW event \in Terminal, NEW chs, NEW n \in Nat, Open(chs, n),
         seq \in Nat, sent \in BOOLEAN, Open(chunks, seq), sent = FALSE,
         EmitTerminal(event, chs, n)
  PROVE  /\ seq' \in Nat
         /\ sent' \in BOOLEAN
         /\ Closed(chunks', seq', event)
<1>1. CASE wiring.fanout
  <2>1. /\ seq' = n + 1
        /\ sent' = TRUE
        /\ chunks' \in Publish(chs, n + 1, event)
    BY <1>1 DEF EmitTerminal
  <2>3. chunks' = chs \/ chunks' = Append(chs, [seq |-> n + 1, event |-> event])
    BY <2>1, Zenon DEF Publish
  <2>2. event \in Events
    BY DEF Events
  <2> QED
    BY <2>1, <2>2, <2>3, PublishStream
<1>2. CASE ~wiring.fanout
  <2>1. UNCHANGED <<seq, sent, chunks>>
    BY <1>2 DEF EmitTerminal, fanoutVars
  <2> QED
    BY <2>1, OpenIsClosed
<1> QED
  BY <1>1, <1>2

-----------------------------------------------------------------------------
(* Lemmas about statuses *)

\* The outcomes of classifyTerminalError.
LEMMA ClassifyOutcomes ==
  ASSUME NEW e \in Error
  PROVE  \/ ClassifyTerminalError(e) = <<"cancelled", "cancelled">>
         \/ ClassifyTerminalError(e) = <<"timeout", "timeout">>
         \/ ClassifyTerminalError(e) = <<"failed", "error">>
         \/ ClassifyTerminalError(e) = <<"error", "error">>
  BY DEF ClassifyTerminalError, Error

\* What both callers make of a status the runtime returned with an error: the
\* same terminal status, whose event is the one the runtime emitted.
LEMMA ReportOfStatus ==
  ASSUME NEW st, NEW event, NEW e, e # Nil,
         <<st, event>> \in {<<"cancelled", "cancelled">>, <<"timeout", "timeout">>,
                            <<"failed", "error">>, <<"error", "error">>,
                            <<"rejected", "error">>}
  PROVE  /\ RuntimeTaskResultStatus(st, e) = TaskStatusForResult(st, e)
         /\ IsTerminalTaskStatus(RuntimeTaskResultStatus(st, e))
         /\ EventOf(RuntimeTaskResultStatus(st, e)) = event
<1>1. /\ st \in {"cancelled", "timeout", "failed", "error", "rejected"}
      /\ event = IF st \in {"cancelled", "timeout"} THEN st ELSE "error"
  OBVIOUS
<1>2. Fold(st) = st
  BY <1>1 DEF Fold
<1>3. NormalizeTaskStatus(st) = IF st = "error" THEN "failed" ELSE st
  BY <1>1, <1>2 DEF NormalizeTaskStatus, TaskStatuses
<1>4. RuntimeTaskResultStatus(st, e) = NormalizeTaskStatus(st)
  BY <1>1 DEF RuntimeTaskResultStatus
<1>5. TaskStatusForResult(st, e) = NormalizeTaskStatus(st)
  BY <1>1 DEF TaskStatusForResult
<1>6. NormalizeTaskStatus(NormalizeTaskStatus(st)) = NormalizeTaskStatus(st)
  <2>1. Fold("failed") = "failed"
    BY DEF Fold
  <2> QED
    BY <1>1, <1>2, <1>3, <2>1 DEF NormalizeTaskStatus, TaskStatuses
<1>7. NormalizeTaskStatus(st) \notin {"pending", "running", "success"}
  BY <1>1, <1>3
<1>8. EventOf(NormalizeTaskStatus(st)) = event
  BY <1>1, <1>3 DEF EventOf
<1> QED
  BY <1>4, <1>5, <1>6, <1>7, <1>8 DEF IsTerminalTaskStatus

-----------------------------------------------------------------------------
(* The inductive invariant *)

\* Every wiring allows at least one turn.
LEMMA WiringTurns ==
  ASSUME NEW w \in Wirings
  PROVE  w.maxTurns \in Nat \ {0}
<1>1. CASE w \in {[gate |-> g, onReject |-> "continue", fanout |-> TRUE,
                   wrapFinal |-> FALSE, maxTurns |-> MaxTurns] : g \in {"open", "broken"}}
  <2>1. w.maxTurns = MaxTurns
    BY <1>1
  <2> QED
    BY <2>1, RuntimeAssumption
<1>2. CASE w \in {[gate |-> g, onReject |-> "fail", fanout |-> g # "none", wrapFinal |-> FALSE,
                   maxTurns |-> MaxTurns] : g \in {"none", "open", "broken"}}
  <2>1. w.maxTurns = MaxTurns
    BY <1>2
  <2> QED
    BY <2>1, RuntimeAssumption
<1>3. CASE w \in {[gate |-> "none", onReject |-> "continue", fanout |-> TRUE,
                   wrapFinal |-> TRUE, maxTurns |-> 1]}
  <2>1. w.maxTurns = 1
    BY <1>3
  <2> QED
    BY <2>1
<1> QED
  BY <1>1, <1>2, <1>3, Zenon DEF Wirings

\* In a run that has not returned, the stream is open.
LEMMA RunningIsOpen ==
  ASSUME RuntimeInv, pc # "done"
  PROVE  /\ Open(chunks, seq) /\ seq \in Nat /\ sent = FALSE /\ turn \in Nat
         /\ wiring.maxTurns \in Nat
<1>1. chunks \in Seq(Chunk)
  BY DEF RuntimeInv, LoopTypeOK, Chunk
<1>2. wiring.maxTurns \in Nat
  BY WiringTurns DEF RuntimeInv, LoopTypeOK
<1>3. turn \in Nat /\ seq \in Nat
  <2>1. turn \in 0..wiring.maxTurns /\ seq \in Nat
    BY Zenon DEF RuntimeInv, LoopTypeOK
  <2> QED
    BY <1>2, <2>1
<1>4. sent = FALSE /\ NoTerminal(chunks) /\ Ordered(chunks) /\ Bounded(chunks, seq)
  BY Zenon DEF RuntimeInv, LoopTypeOK
<1> QED
  BY <1>1, <1>2, <1>3, <1>4 DEF Open

\* The initial states satisfy the invariant.
LEMMA RuntimeInit == Init => RuntimeInv
<1> SUFFICES ASSUME Init PROVE RuntimeInv
  OBVIOUS
<1>0. turn = 0 /\ seq = 0 /\ chunks = <<>> /\ messages = <<>>
  BY Zenon DEF Init
<1>1. LoopTypeOK
  <2>1. wiring.maxTurns \in Nat \ {0}
    BY WiringTurns DEF Init
  <2>2. turn \in 0..wiring.maxTurns /\ seq \in Nat
    BY <1>0, <2>1
  <2>3. chunks \in Seq([seq : Nat, event : Events]) /\ messages \in Seq(Message)
    BY <1>0
  <2>4. "none" \in Causes /\ Nil \in Error \cup {Nil}
    BY DEF Causes
  <2> QED
    BY <2>2, <2>3, <2>4, Zenon DEF Init, LoopTypeOK
<1>2. Ordered(chunks) /\ Bounded(chunks, seq) /\ NoTerminal(chunks)
  BY <1>0 DEF Ordered, Bounded, NoTerminal
<1> QED
  BY <1>1, <1>2 DEF Init, RuntimeInv, InCall, ReportsAgree

\* A step that returns, closing the stream with the event of its status.
LEMMA ReturnStep ==
  ASSUME RuntimeInv, pc # "done", NEW st, NEW e \in Error, NEW why \in Causes,
         NEW event \in Terminal,
         Return(st, e, why), Closed(chunks', seq', event),
         seq' \in Nat, sent' \in BOOLEAN,
         <<st, event>> \in {<<"cancelled", "cancelled">>, <<"timeout", "timeout">>,
                            <<"failed", "error">>, <<"error", "error">>,
                            <<"rejected", "error">>}
  PROVE  RuntimeInv'
<1>1. st \in TaskStatuses \cup {"error", ""}
  BY DEF TaskStatuses
<1>2. chunks' \in Seq([seq : Nat, event : Events])
  BY DEF Closed, Chunk
<1>3. LoopTypeOK'
  BY <1>1, <1>2 DEF RuntimeInv, LoopTypeOK, Return
<1>4. Ordered(chunks') /\ Bounded(chunks', seq')
  BY DEF Closed
<1>6. e # Nil
  BY DEF Error, Nil
<1>7. ReportsAgree'
  <2>1. status' = st /\ err' = e
    BY DEF Return
  <2>2. /\ SubagentReport' = RuntimeTaskResultStatus(st, e)
        /\ GatewayReport' = TaskStatusForResult(st, e)
    BY <1>6, <2>1 DEF SubagentReport, GatewayReport, RuntimeTaskResultStatus,
                      TaskStatusForResult
  <2>3. /\ RuntimeTaskResultStatus(st, e) = TaskStatusForResult(st, e)
        /\ IsTerminalTaskStatus(RuntimeTaskResultStatus(st, e))
        /\ EventOf(RuntimeTaskResultStatus(st, e)) = event
    BY <1>6, ReportOfStatus
  <2>4. \A i \in 1..Len(chunks') : chunks'[i].event \in Terminal =>
                                     chunks'[i].event = event
    BY DEF Closed
  <2>5. IsTerminalTaskStatus(SubagentReport')
    BY <2>2, <2>3
  <2>6. EventOf(SubagentReport') = event
    BY <2>2, <2>3
  <2> QED
    BY <2>2, <2>3, <2>4, <2>5, <2>6, Zenon
       DEF ReportsAgree, IsTerminalTaskStatus, EventOf
<1>8. pc' = "done"
  BY DEF Return
<1> QED
  BY <1>3, <1>4, <1>7, <1>8 DEF RuntimeInv, InCall

\* failWithTerminalEvent is such a step.
LEMMA FailStep ==
  ASSUME RuntimeInv, pc # "done", NEW e \in Error, NEW why \in Causes,
         FailWithTerminalEvent(e, why)
  PROVE  RuntimeInv'
<1> DEFINE cls == ClassifyTerminalError(e)
<1>1. /\ Open(chunks, seq) /\ seq \in Nat /\ sent = FALSE
  BY RunningIsOpen
<1>2. /\ cls[2] \in Terminal
      /\ <<cls[1], cls[2]>> \in {<<"cancelled", "cancelled">>, <<"timeout", "timeout">>,
                            <<"failed", "error">>, <<"error", "error">>,
                            <<"rejected", "error">>}
  BY ClassifyOutcomes DEF Terminal
<1>3. Return(cls[1], e, why) /\ EmitTerminal(cls[2], chunks, seq)
  BY DEF FailWithTerminalEvent
<1> HIDE DEF cls
<1>4. seq' \in Nat /\ sent' \in BOOLEAN /\ Closed(chunks', seq', cls[2])
  BY <1>1, <1>2, <1>3, TerminalCloses
<1> QED
  BY <1>2, <1>3, <1>4, ReturnStep

\* The messages a turn appends keep their type.
LEMMA ObserveType ==
  ASSUME RuntimeInv, pc \in InCall, Observe
  PROVE  /\ messages' \in Seq(Message)
         /\ turn' \in 0..wiring.maxTurns /\ turn' = turn + 1
         /\ pc' = "predict" /\ call' = NoCall
<1>1. call \in Call /\ turn < wiring.maxTurns /\ pc # "done"
  BY DEF RuntimeInv, InCall
<1>2. turn \in Nat /\ wiring.maxTurns \in Nat
  BY <1>1, RunningIsOpen
<1>3. call.id \in CallID \cup {""}
  BY <1>1 DEF Call
<1> DEFINE a == [role |-> "assistant", turn |-> turn, id |-> call.id]
           b == [role |-> "tool", turn |-> turn, id |-> call.id]
<1>4. a \in Message /\ b \in Message
  BY <1>2, <1>3 DEF Message
<1>5. messages' = messages \o <<a, b>>
  BY DEF Observe
<1>6. messages \in Seq(Message)
  BY DEF RuntimeInv, LoopTypeOK
<1> HIDE DEF a, b
<1>7. messages' \in Seq(Message)
  BY <1>4, <1>5, <1>6
<1> QED
  BY <1>1, <1>2, <1>7 DEF Observe

\* A step that stays in the loop: the stream stays open and nothing is
\* returned.  What is left to show is the type of what the step changes and the
\* call it holds.
LEMMA StaysInLoop ==
  ASSUME RuntimeInv, pc # "done", pc' # "done", LoopTypeOK',
         sent' = FALSE, Open(chunks', seq'),
         pc' \in InCall => call' \in Call /\ turn' < wiring'.maxTurns
  PROVE  RuntimeInv'
<1>1. ReportsAgree'
  BY DEF ReportsAgree
<1> QED
  BY <1>1 DEF RuntimeInv, Open

\* Every step of the loop and a cancellation preserve the invariant.
LEMMA RuntimeNext == RuntimeInv /\ [Next]_vars => RuntimeInv'
<1> SUFFICES ASSUME RuntimeInv, [Next]_vars PROVE RuntimeInv'
  OBVIOUS
<1>0. CASE UNCHANGED vars
  BY <1>0 DEF vars, fanoutVars, RuntimeInv, LoopTypeOK, Ordered, Bounded,
              NoTerminal, ReportsAgree, SubagentReport, GatewayReport
<1>t. ASSUME pc # "done"
      PROVE  /\ Open(chunks, seq) /\ seq \in Nat /\ sent = FALSE /\ sent \in BOOLEAN
             /\ turn \in Nat /\ wiring.maxTurns \in Nat
  BY <1>t, RunningIsOpen
<1>c. {"provider", "parse", "nogate", "wait", "approval timeout", "rejected",
       "turns", "final"} \subseteq Causes
  BY DEF Causes
<1>1. CASE PredictFails
  <2>1. PICK e \in Error : FailWithTerminalEvent(e, "provider")
    BY <1>1 DEF PredictFails
  <2>2. pc # "done"
    BY <1>1 DEF PredictFails, Predicting
  <2> QED
    BY <1>c, <2>1, <2>2, FailStep
<1>2. CASE ParseFails
  <2>1. PICK phrases \in SUBSET Phrases : FailWithTerminalEvent(TextError(phrases), "parse")
    BY <1>2 DEF ParseFails
  <2>2. TextError(phrases) \in Error
    BY DEF TextError, Error
  <2>3. pc # "done"
    BY <1>2 DEF ParseFails, Predicting
  <2> QED
    BY <1>c, <2>1, <2>2, <2>3, FailStep
<1>3. CASE FinalAnswer
  <2>1. pc # "done" /\ "final" \in Terminal
    BY <1>3 DEF FinalAnswer, Predicting, Terminal
  <2>2. EmitTerminal("final", chunks, seq) /\ Return("success", Nil, "final")
    BY <1>3 DEF FinalAnswer
  <2>3. seq' \in Nat /\ sent' \in BOOLEAN /\ Closed(chunks', seq', "final")
    BY <1>t, <2>1, <2>2, TerminalCloses
  <2>4. chunks' \in Seq([seq : Nat, event : Events])
    BY <2>3 DEF Closed, Chunk
  <2>5. "success" \in TaskStatuses /\ "final" \in Causes
    BY DEF TaskStatuses, Causes
  <2>6. LoopTypeOK'
    BY <2>2, <2>3, <2>4, <2>5 DEF RuntimeInv, LoopTypeOK, Return
  <2>7. err' = Nil /\ pc' = "done"
    BY <2>2 DEF Return
  <2>8. SubagentReport' = "success" /\ GatewayReport' = "success"
    BY <2>7 DEF SubagentReport, GatewayReport
  <2>9. EventOf("success") = "final" /\ IsTerminalTaskStatus("success")
    BY DEF EventOf, IsTerminalTaskStatus, NormalizeTaskStatus, Fold, TaskStatuses
  <2>10. \A i \in 1..Len(chunks') : chunks'[i].event \in Terminal =>
                                      chunks'[i].event = "final"
    BY <2>3 DEF Closed
  <2>11. ReportsAgree'
    <3>1. IsTerminalTaskStatus(SubagentReport') /\ EventOf(SubagentReport') = "final"
      BY <2>8, <2>9
    <3> QED
      BY <2>8, <2>10, <3>1, Zenon DEF ReportsAgree, IsTerminalTaskStatus, EventOf
  <2> QED
    BY <2>3, <2>6, <2>7, <2>11 DEF RuntimeInv, InCall, Closed
<1>4. CASE ThinkOnly
  <2>1. /\ pc = "predict" /\ pc' = "predict" /\ turn < wiring.maxTurns
        /\ turn' = turn + 1 /\ wiring' = wiring
        /\ UNCHANGED <<ctx, call, messages, seq, sent, chunks, status, err, cause>>
    BY <1>4 DEF ThinkOnly, Predicting, fanoutVars
  <2>2. turn' \in 0..wiring'.maxTurns
    BY <1>t, <2>1
  <2>3. LoopTypeOK'
    BY <2>1, <2>2 DEF RuntimeInv, LoopTypeOK
  <2>5. Open(chunks', seq') /\ sent' = FALSE
    BY <1>t, <2>1
  <2> QED
    BY <2>1, <2>3, <2>5, StaysInLoop DEF InCall
<1>5. ASSUME NEW c \in Call, CallSkill(c) PROVE RuntimeInv'
  <2>1. /\ pc = "predict" /\ pc' = "dispatch" /\ turn < wiring.maxTurns /\ call' = c
        /\ UNCHANGED <<wiring, ctx, turn, messages, status, err, cause>>
        /\ Emit("tool_call")
    BY <1>5 DEF CallSkill, Predicting
  <2>2. "tool_call" \in Events \ Terminal
    BY DEF Events, Terminal
  <2>3. seq' \in Nat /\ sent' = FALSE /\ Open(chunks', seq')
    BY <1>t, <2>1, <2>2, EmitKeepsOpen
  <2>4. LoopTypeOK'
    BY <2>1, <2>3 DEF RuntimeInv, LoopTypeOK, Open, Chunk
  <2> QED
    BY <2>1, <2>3, <2>4, StaysInLoop
<1>6. CASE GateMissing
  <2>1. TextError({"approval gate required"}) \in Error
    BY DEF TextError, Error, Phrases
  <2> QED
    BY <1>6, <1>c, <2>1, FailStep DEF GateMissing
<1>7. CASE AskApproval
  <2>1. /\ pc = "dispatch" /\ pc' = "waiting"
        /\ UNCHANGED <<wiring, ctx, turn, call, messages, status, err, cause>>
        /\ Emit("waiting_approval")
    BY <1>7 DEF AskApproval
  <2>2. "waiting_approval" \in Events \ Terminal
    BY DEF Events, Terminal
  <2>3. seq' \in Nat /\ sent' = FALSE /\ Open(chunks', seq')
    BY <1>t, <2>1, <2>2, EmitKeepsOpen
  <2>4. LoopTypeOK'
    BY <2>1, <2>3 DEF RuntimeInv, LoopTypeOK, Open, Chunk
  <2>6. call' \in Call /\ turn' < wiring'.maxTurns
    BY <2>1 DEF RuntimeInv, InCall
  <2> QED
    BY <2>1, <2>3, <2>4, <2>6, StaysInLoop
<1>8. CASE SkipApproval
  <2>1. /\ pc = "dispatch" /\ pc' = "execute" /\ ~call.write
        /\ UNCHANGED <<wiring, ctx, turn, call, messages, seq, sent, chunks, status,
                       err, cause>>
    BY <1>8 DEF SkipApproval, fanoutVars
  <2>3. sent' = FALSE /\ Open(chunks', seq')
    BY <1>t, <2>1
  <2>4. LoopTypeOK'
    BY <2>1 DEF RuntimeInv, LoopTypeOK
  <2>6. call' \in Call /\ turn' < wiring'.maxTurns
    BY <2>1 DEF RuntimeInv, InCall
  <2> QED
    BY <2>1, <2>3, <2>4, <2>6, StaysInLoop
<1>9. CASE Approved \/ LookForDecision \/ \E d \in Decision : Post(d)
  <2>1. /\ pc # "done"
        /\ pc' = pc \/ (pc \in InCall /\ pc' \in {"blocked", "decided", "execute"})
        /\ UNCHANGED <<wiring, ctx, turn, call, messages, seq, sent, chunks, status,
                       err, cause>>
    <3>1. CASE Approved
      BY <3>1 DEF Approved, Decided, fanoutVars, InCall
    <3>2. CASE LookForDecision
      BY <3>2 DEF LookForDecision, fanoutVars, InCall
    <3>3. CASE \E d \in Decision : Post(d)
      BY <3>3 DEF Post, fanoutVars
    <3> QED
      BY <1>9, <3>1, <3>2, <3>3
  <2>2. sent' = FALSE /\ Open(chunks', seq')
    BY <1>t, <2>1
  <2>3. LoopTypeOK'
    <3>1. pc' \in {"predict", "dispatch", "waiting", "blocked", "decided", "execute", "done"}
      BY <2>1 DEF RuntimeInv, LoopTypeOK
    <3> QED
      BY <2>1, <3>1, Zenon DEF RuntimeInv, LoopTypeOK
  <2>4. pc' \in InCall => call' \in Call /\ turn' < wiring'.maxTurns
    BY <2>1 DEF RuntimeInv
  <2>5. pc' # "done"
    BY <2>1
  <2> QED
    BY <2>1, <2>2, <2>3, <2>4, <2>5, StaysInLoop
<1>10. CASE ApprovalFails \/ WaitRefused
  <2>1. PICK e \in {TextError({}), TextError({"timeout"}), Canceled},
             why \in {"wait", "approval timeout"} : FailWithTerminalEvent(e, why)
    BY <1>10 DEF ApprovalFails, WaitRefused
  <2>2. e \in Error
    <3>1. TextError({}) \in Error /\ TextError({"timeout"}) \in Error /\ Canceled \in Error
      BY DEF TextError, Canceled, Error, Phrases
    <3> QED
      BY <3>1
  <2>3. pc # "done"
    BY <1>10 DEF ApprovalFails, WaitRefused
  <2> QED
    BY <1>c, <2>1, <2>2, <2>3, FailStep
<1>11. CASE RejectedContinue
  <2>1. /\ pc \in {"blocked", "decided"} /\ Observe /\ Emit("tool_result")
        /\ UNCHANGED <<wiring, ctx, status, err, cause>>
    BY <1>11 DEF RejectedContinue, Decided
  <2>2. "tool_result" \in Events \ Terminal
    BY DEF Events, Terminal
  <2>3. seq' \in Nat /\ sent' = FALSE /\ Open(chunks', seq')
    BY <1>t, <2>1, <2>2, EmitKeepsOpen
  <2>4. /\ messages' \in Seq(Message)
        /\ turn' \in 0..wiring.maxTurns
        /\ pc' = "predict" /\ call' = NoCall
    BY <2>1, ObserveType DEF InCall
  <2>5. LoopTypeOK'
    BY <2>1, <2>3, <2>4 DEF RuntimeInv, LoopTypeOK, Open, Chunk
  <2> QED
    BY <2>1, <2>3, <2>4, <2>5, StaysInLoop DEF InCall
<1>12. CASE RejectedFail
  <2>1. /\ pc \in {"blocked", "decided"}
        /\ Return("rejected", TextError({"approval rejected"}), "rejected")
    BY <1>12 DEF RejectedFail, Decided
  <2>2. PICK chs \in IF wiring.fanout THEN Publish(chunks, seq + 1, "tool_result")
                                      ELSE {chunks} :
          EmitTerminal("error", chs, seq + 1)
    BY <1>12 DEF RejectedFail
  <2>3. \/ chs = chunks
        \/ chs = Append(chunks, [seq |-> seq + 1, event |-> "tool_result"])
    BY Zenon DEF Publish
  <2>4. "tool_result" \in Events \ Terminal /\ "error" \in Terminal
    BY DEF Events, Terminal
  <2>5. Open(chs, seq + 1) /\ seq + 1 \in Nat
    <3>1. Open(chunks, seq) /\ seq \in Nat
      BY <1>t, <2>1
    <3>2. Open(chs, seq + 1)
      BY <2>3, <2>4, <3>1, PublishStream
    <3> QED
      BY <3>1, <3>2
  <2>6. seq' \in Nat /\ sent' \in BOOLEAN /\ Closed(chunks', seq', "error")
    BY <1>t, <2>1, <2>2, <2>4, <2>5, TerminalCloses
  <2>7. TextError({"approval rejected"}) \in Error
    BY DEF TextError, Error, Phrases
  <2> QED
    BY <1>c, <2>1, <2>4, <2>6, <2>7, ReturnStep
<1>13. CASE Execute
  <2>1. /\ pc = "execute" /\ Observe /\ Emit("tool_result")
        /\ UNCHANGED <<wiring, ctx, status, err, cause>>
    BY <1>13 DEF Execute
  <2>2. "tool_result" \in Events \ Terminal
    BY DEF Events, Terminal
  <2>3. seq' \in Nat /\ sent' = FALSE /\ Open(chunks', seq') /\ turn \in Nat
    BY <1>t, <2>1, <2>2, EmitKeepsOpen
  <2>4. /\ messages' \in Seq(Message)
        /\ turn' \in 0..wiring.maxTurns
        /\ pc' = "predict" /\ call' = NoCall
    BY <2>1, ObserveType DEF InCall
  <2>5. LoopTypeOK'
    BY <2>1, <2>3, <2>4 DEF RuntimeInv, LoopTypeOK, Open, Chunk
  <2> QED
    BY <2>1, <2>3, <2>4, <2>5, StaysInLoop DEF InCall
<1>14. CASE OutOfTurns
  <2>1. TextError({"exceeded max turns"}) \in Error
    BY DEF TextError, Error, Phrases
  <2> QED
    BY <1>14, <1>c, <2>1, FailStep DEF OutOfTurns
<1>15. CASE CancelContext
  <2>1. /\ pc # "done" /\ ctx' = "canceled"
        /\ UNCHANGED <<wiring, pc, turn, call, messages, seq, sent, chunks, status,
                       err, cause>>
    BY <1>15 DEF CancelContext, fanoutVars
  <2>2. LoopTypeOK'
    BY <2>1 DEF RuntimeInv, LoopTypeOK
  <2>4. sent' = FALSE /\ Open(chunks', seq')
    BY <1>t, <2>1
  <2>5. pc' \in InCall => call' \in Call /\ turn' < wiring'.maxTurns
    BY <2>1 DEF RuntimeInv
  <2> QED
    BY <2>1, <2>2, <2>4, <2>5, StaysInLoop
<1> QED
  BY <1>0, <1>1, <1>2, <1>3, <1>4, <1>5, <1>6, <1>7, <1>8, <1>9, <1>10, <1>11,
     <1>12, <1>13, <1>14, <1>15 DEF Next, LoopStep, Predict

\* The inductive invariant holds in every reachable state.
LEMMA RuntimeInvariant == Spec => []RuntimeInv
  BY RuntimeInit, RuntimeNext, PTL DEF Spec

-----------------------------------------------------------------------------
(* Approvals *)

\* The decision let a write tool run.
Used(n) == \E x \in executed : x.call.write /\ x.by = n

\* Decisions in the buffer are filed under their id, and a decision is in one
\* place: in the buffer, with the waiting call, or used up.
BufferInv ==
  \A id \in CallID : \A i \in DOMAIN buffer[id] :
    /\ buffer[id][i] \in 1..Len(posted) /\ posted[buffer[id][i]].id = id
    /\ buffer[id][i] # slot /\ ~Used(buffer[id][i])

\* What the call was given is a decision for it.
SlotInv ==
  /\ slot # 0 =>
       /\ slot \in 1..Len(posted) /\ ~Used(slot)
       /\ pc \in {"blocked", "decided", "execute"} =>
            call.write /\ posted[slot].id = call.id
  /\ pc \in {"predict", "dispatch", "waiting"} => slot = 0
  /\ pc = "decided" => slot # 0
  /\ pc \in {"waiting", "blocked", "decided"} => call.write
  /\ pc \in {"blocked", "decided"} => call.id \in CallID

\* A tool that writes is run with the decision in hand.
ExecuteInv ==
  pc = "execute" =>
    /\ ~call.write => slot = 0
    /\ call.write => slot # 0 /\ posted[slot].approve = TRUE

\* Runs without a decision are of tools that only read.
ReadInv == \A x \in executed : ~x.call.write => x.by = 0

ApprovalInv ==
  /\ GateTypeOK /\ BufferInv /\ SlotInv /\ ExecuteInv /\ ReadInv /\ WritesAreApproved

\* Steps that leave the gate alone and do not reach into a wait.
LEMMA ApprovalFrame ==
  ASSUME ApprovalInv, UNCHANGED gateVars,
         \/ pc' = "done"
         \/ pc' = pc /\ call' = call
         \/ slot = 0 /\ pc' \in {"predict", "dispatch"}
         \/ slot = 0 /\ pc' = "waiting" /\ call'.write
         \/ slot = 0 /\ pc' = "execute" /\ ~call'.write
  PROVE  ApprovalInv'
<1>1. UNCHANGED <<posted, buffer, slot, executed>>
  BY DEF gateVars
<1>2. GateTypeOK' /\ BufferInv' /\ ReadInv' /\ WritesAreApproved'
  BY <1>1 DEF ApprovalInv, GateTypeOK, BufferInv, Used, ReadInv, WritesAreApproved
<1>3. slot # 0 => slot \in 1..Len(posted) /\ ~Used(slot)
  BY DEF ApprovalInv, SlotInv
<1>4. SlotInv' /\ ExecuteInv'
  BY <1>1, <1>3 DEF ApprovalInv, SlotInv, ExecuteInv, Used
<1> QED
  BY <1>2, <1>4 DEF ApprovalInv

\* takePendingDecision hands out a decision nobody else has.
LEMMA LookKeepsApprovals ==
  ASSUME RuntimeInv, ApprovalInv, LookForDecision
  PROVE  ApprovalInv'
<1>0. /\ posted \in Seq(Decision) /\ buffer \in [CallID -> Seq(Nat)] /\ slot \in Nat
      /\ slot = 0 /\ pc = "waiting" /\ call.write
  BY DEF ApprovalInv, GateTypeOK, SlotInv, LookForDecision
<1>1. UNCHANGED <<posted, executed, call>>
  BY DEF LookForDecision
<1>2. call.id \in CallID
  BY <1>0 DEF LookForDecision, RuntimeInv, InCall, Call
<1>3. ReadInv' /\ WritesAreApproved' /\ \A n : Used(n)' <=> Used(n)
  BY <1>1 DEF ApprovalInv, ReadInv, WritesAreApproved, Used
<1>4. CASE buffer[call.id] # <<>>
  <2>1. /\ pc' = "decided" /\ slot' = Head(buffer[call.id])
        /\ buffer' = [buffer EXCEPT ![call.id] = <<>>]
    BY <1>4 DEF LookForDecision, TakeDecision
  <2>2. buffer[call.id] \in Seq(Nat) /\ Head(buffer[call.id]) = buffer[call.id][1]
        /\ 1 \in DOMAIN buffer[call.id]
    BY <1>0, <1>2, <1>4
  <2>3. /\ slot' \in 1..Len(posted) /\ posted[slot'].id = call.id /\ ~Used(slot')
    BY <1>2, <2>1, <2>2 DEF ApprovalInv, BufferInv
  <2>4. Len(posted) \in Nat
    BY <1>0
  <2>5. slot' \in Nat /\ slot' # 0
    BY <2>3, <2>4
  <2>6. /\ buffer'[call.id] = <<>>
        /\ \A id \in CallID : id # call.id => buffer'[id] = buffer[id]
    BY <1>0, <1>2, <2>1
  <2>7. BufferInv'
    <3>1. SUFFICES ASSUME NEW id \in CallID, NEW i \in DOMAIN buffer'[id]
                   PROVE  /\ buffer'[id][i] \in 1..Len(posted) /\ posted[buffer'[id][i]].id = id
                          /\ buffer'[id][i] # slot' /\ ~Used(buffer'[id][i])
      BY <1>1, <1>3 DEF BufferInv, Used
    <3>2. id # call.id
      BY <2>6, <3>1
    <3>3. buffer'[id] = buffer[id]
      BY <2>6, <3>2
    <3>4. /\ buffer[id][i] \in 1..Len(posted) /\ posted[buffer[id][i]].id = id
          /\ ~Used(buffer[id][i])
      BY <3>1, <3>3 DEF ApprovalInv, BufferInv
    <3>5. buffer[id][i] # slot'
      BY <2>3, <3>2, <3>4
    <3> QED
      BY <3>3, <3>4, <3>5
  <2>8. GateTypeOK'
    <3>1. <<>> \in Seq(Nat)
      OBVIOUS
    <3>2. buffer' \in [CallID -> Seq(Nat)]
      BY <1>0, <2>1, <3>1
    <3> QED
      BY <1>1, <2>5, <3>2 DEF ApprovalInv, GateTypeOK
  <2>9. SlotInv' /\ ExecuteInv'
    BY <1>0, <1>1, <1>2, <1>3, <2>1, <2>3, <2>5 DEF SlotInv, ExecuteInv, Used
  <2> QED
    BY <1>3, <2>7, <2>8, <2>9 DEF ApprovalInv
<1>5. CASE ~(buffer[call.id] # <<>>)
  <2>1. pc' = "blocked" /\ buffer' = buffer /\ slot' = slot
    BY <1>5 DEF LookForDecision
  <2>2. GateTypeOK' /\ BufferInv'
    BY <1>1, <2>1 DEF ApprovalInv, GateTypeOK, BufferInv, Used
  <2>3. SlotInv' /\ ExecuteInv'
    BY <1>0, <1>1, <1>2, <2>1 DEF SlotInv, ExecuteInv
  <2> QED
    BY <1>3, <2>2, <2>3 DEF ApprovalInv
<1> QED
  BY <1>4, <1>5

\* routeDecision numbers a new decision and puts it in one place.
LEMMA PostKeepsApprovals ==
  ASSUME ApprovalInv, NEW d \in Decision, Post(d)
  PROVE  ApprovalInv'
<1> DEFINE n == Len(posted) + 1
<1>0. /\ posted \in Seq(Decision) /\ buffer \in [CallID -> Seq(Nat)] /\ slot \in Nat
      /\ Len(posted) \in Nat
  BY DEF ApprovalInv, GateTypeOK
<1>1. posted' = Append(posted, d) /\ UNCHANGED <<executed, call, pc>>
  BY DEF Post
<1>2. /\ posted' \in Seq(Decision) /\ Len(posted') = n /\ posted'[n] = d
      /\ \A i \in 1..Len(posted) : posted'[i] = posted[i] /\ i \in 1..Len(posted') /\ i # n
      /\ n \in 1..Len(posted') /\ n \in Nat /\ n # 0
  BY <1>0, <1>1
<1>3. d.id \in CallID
  BY DEF Decision
<1> HIDE DEF n
<1>4. WritesAreApproved' /\ ReadInv' /\ \A m : Used(m)' <=> Used(m)
  BY <1>1, <1>2 DEF ApprovalInv, WritesAreApproved, ReadInv, Used
<1>5. ~Used(n)
  <2>1. \A x \in executed : x.call.write => x.by \in 1..Len(posted)
    BY DEF ApprovalInv, WritesAreApproved
  <2> QED
    BY <1>2, <2>1 DEF Used
<1>6. slot # 0 => slot \in 1..Len(posted') /\ posted'[slot] = posted[slot] /\ slot # n
  BY <1>2 DEF ApprovalInv, SlotInv
<1>7. ASSUME NEW id \in CallID, NEW i \in DOMAIN buffer[id]
      PROVE  /\ buffer[id][i] \in 1..Len(posted') /\ posted'[buffer[id][i]].id = id
             /\ buffer[id][i] # slot /\ ~Used(buffer[id][i]) /\ buffer[id][i] # n
  BY <1>2 DEF ApprovalInv, BufferInv
<1>8. CASE pc = "blocked" /\ slot = 0 /\ call.id = d.id
  <2>1. slot' = n /\ buffer' = buffer
    BY <1>8 DEF Post, n
  <2>2. GateTypeOK'
    BY <1>1, <1>2, <2>1 DEF ApprovalInv, GateTypeOK
  <2>3. BufferInv'
    BY <1>4, <1>7, <2>1 DEF BufferInv
  <2>4. SlotInv' /\ ExecuteInv'
    BY <1>1, <1>2, <1>4, <1>5, <1>8, <2>1 DEF ApprovalInv, SlotInv, ExecuteInv
  <2> QED
    BY <1>4, <2>2, <2>3, <2>4 DEF ApprovalInv
<1>9. CASE ~(pc = "blocked" /\ slot = 0 /\ call.id = d.id)
  <2>1. slot' = slot /\ buffer' = [buffer EXCEPT ![d.id] = Append(buffer[d.id], n)]
    BY <1>9 DEF Post, n
  <2>2. buffer[d.id] \in Seq(Nat)
    BY <1>0, <1>3
  <2>3. /\ buffer'[d.id] = Append(buffer[d.id], n)
        /\ \A id \in CallID : id # d.id => buffer'[id] = buffer[id]
    BY <1>0, <1>3, <2>1
  <2>4. \A i \in DOMAIN Append(buffer[d.id], n) :
          \/ i \in DOMAIN buffer[d.id] /\ Append(buffer[d.id], n)[i] = buffer[d.id][i]
          \/ Append(buffer[d.id], n)[i] = n
    BY <1>2, <2>2
  <2>5. BufferInv'
    <3>1. SUFFICES ASSUME NEW id \in CallID, NEW i \in DOMAIN buffer'[id]
                   PROVE  /\ buffer'[id][i] \in 1..Len(posted') /\ posted'[buffer'[id][i]].id = id
                          /\ buffer'[id][i] # slot' /\ ~Used(buffer'[id][i])
      BY <1>4 DEF BufferInv
    <3>2. CASE i \in DOMAIN buffer[id] /\ buffer'[id][i] = buffer[id][i]
      BY <1>7, <2>1, <3>2
    <3>3. CASE id = d.id /\ buffer'[id][i] = n
      BY <1>2, <1>5, <1>6, <2>1, <3>3
    <3> QED
      BY <2>3, <2>4, <3>1, <3>2, <3>3
  <2>6. GateTypeOK'
    <3>1. Append(buffer[d.id], n) \in Seq(Nat)
      BY <1>2, <2>2
    <3>2. buffer' \in [CallID -> Seq(Nat)]
      BY <1>0, <1>3, <2>1, <3>1
    <3> QED
      BY <1>1, <1>2, <2>1, <3>2 DEF ApprovalInv, GateTypeOK
  <2>7. SlotInv' /\ ExecuteInv'
    BY <1>1, <1>4, <1>6, <2>1 DEF ApprovalInv, SlotInv, ExecuteInv
  <2> QED
    BY <1>4, <2>5, <2>6, <2>7 DEF ApprovalInv
<1> QED
  BY <1>8, <1>9

\* Execute uses the decision up.
LEMMA ExecuteKeepsApprovals ==
  ASSUME RuntimeInv, ApprovalInv, Execute
  PROVE  ApprovalInv'
<1> DEFINE r == [turn |-> turn, call |-> call, by |-> slot]
<1>0. /\ pc = "execute" /\ call \in Call /\ turn \in Nat /\ slot \in Nat
      /\ call.write \in BOOLEAN /\ Len(posted) \in Nat
  <2>1. pc = "execute"
    BY DEF Execute
  <2>2. turn \in Nat
    BY <2>1, RunningIsOpen
  <2>3. call \in Call
    BY <2>1 DEF RuntimeInv, InCall
  <2>4. call.write \in BOOLEAN
    BY <2>3 DEF Call
  <2> QED
    BY <2>1, <2>2, <2>3, <2>4 DEF ApprovalInv, GateTypeOK
<1>1. /\ executed' = executed \cup {r} /\ slot' = 0 /\ pc' = "predict"
      /\ UNCHANGED <<posted, buffer>>
  BY DEF Execute, Observe
<1>2. r.turn = turn /\ r.call = call /\ r.by = slot
      /\ r \in [turn : Nat, call : Call, by : Nat]
  BY <1>0
<1> HIDE DEF r
<1>3. GateTypeOK'
  BY <1>1, <1>2 DEF ApprovalInv, GateTypeOK
<1>4. call.write =>
        /\ slot # 0 /\ slot \in 1..Len(posted) /\ ~Used(slot)
        /\ posted[slot].id = call.id /\ posted[slot].approve = TRUE
  BY <1>0 DEF ApprovalInv, SlotInv, ExecuteInv
<1>5. ~call.write => slot = 0
  BY <1>0 DEF ApprovalInv, ExecuteInv
<1>6. ReadInv'
  BY <1>1, <1>2, <1>5 DEF ApprovalInv, ReadInv
<1>7. call.write => posted[slot] = [id |-> call.id, approve |-> TRUE]
  <2>1. posted \in Seq(Decision)
    BY DEF ApprovalInv, GateTypeOK
  <2>2. call.write => posted[slot] \in Decision
    BY <1>4, <2>1
  <2> QED
    BY <1>4, <2>2 DEF Decision
<1>8. \A x \in executed : x.call.write => x.by \in 1..Len(posted) /\ x.by # 0
  <2>1. \A x \in executed : x.call.write => x.by \in 1..Len(posted)
    BY DEF ApprovalInv, WritesAreApproved
  <2> QED
    BY <1>0, <2>1
<1>9. WritesAreApproved'
  <2>1. SUFFICES ASSUME NEW x \in executed', x.call.write
                 PROVE  /\ x.by \in 1..Len(posted)
                        /\ posted[x.by] = [id |-> x.call.id, approve |-> TRUE]
                        /\ \A y \in executed' : y.by = x.by => y = x
    BY <1>1 DEF WritesAreApproved
  <2>2. CASE x = r
    <3>1. \A y \in executed : y.by # slot
      <4>1. SUFFICES ASSUME NEW y \in executed, y.by = slot PROVE FALSE
        OBVIOUS
      <4>2. CASE y.call.write
        BY <1>2, <1>4, <2>1, <2>2, <4>1, <4>2 DEF Used
      <4>3. CASE ~y.call.write
        BY <1>2, <1>4, <2>1, <2>2, <4>1, <4>3 DEF ApprovalInv, ReadInv
      <4> QED
        BY <4>2, <4>3
    <3> QED
      BY <1>1, <1>2, <1>4, <1>7, <2>1, <2>2, <3>1
  <2>3. CASE x \in executed
    <3>1. /\ x.by \in 1..Len(posted)
          /\ posted[x.by] = [id |-> x.call.id, approve |-> TRUE]
          /\ \A y \in executed : y.by = x.by => y = x
      BY <2>1, <2>3 DEF ApprovalInv, WritesAreApproved
    <3>2. slot # x.by
      <4>1. CASE call.write
        BY <1>4, <2>1, <2>3, <4>1 DEF Used
      <4>2. CASE ~call.write
        BY <1>5, <1>8, <2>1, <2>3, <4>2
      <4> QED
        BY <4>1, <4>2
    <3> QED
      BY <1>1, <1>2, <3>1, <3>2
  <2> QED
    BY <1>1, <2>1, <2>2, <2>3
<1>10. BufferInv'
  <2>1. SUFFICES ASSUME NEW id \in CallID, NEW i \in DOMAIN buffer[id]
                 PROVE  buffer[id][i] # 0 /\ ~Used(buffer[id][i])'
    BY <1>1 DEF ApprovalInv, BufferInv
  <2>2. buffer[id][i] \in 1..Len(posted) /\ buffer[id][i] # slot /\ ~Used(buffer[id][i])
    BY <2>1 DEF ApprovalInv, BufferInv
  <2>3. buffer[id][i] # 0
    BY <1>0, <2>2
  <2>4. \A x \in executed' : ~(x.call.write /\ x.by = buffer[id][i])
    BY <1>1, <1>2, <2>2 DEF Used
  <2> QED
    BY <1>1, <2>3, <2>4 DEF Used
<1>11. SlotInv' /\ ExecuteInv'
  BY <1>1 DEF SlotInv, ExecuteInv
<1> QED
  BY <1>3, <1>6, <1>9, <1>10, <1>11 DEF ApprovalInv

\* A rejected call gives its decision back to nobody.
LEMMA RejectKeepsApprovals ==
  ASSUME ApprovalInv, RejectedContinue
  PROVE  ApprovalInv'
<1>1. /\ slot' = 0 /\ pc' = "predict" /\ UNCHANGED <<posted, buffer, executed>>
  BY DEF RejectedContinue, Observe
<1>2. Len(posted) \in Nat
  BY DEF ApprovalInv, GateTypeOK
<1>3. \A id \in CallID : \A i \in DOMAIN buffer[id] : buffer[id][i] # 0
  BY <1>2 DEF ApprovalInv, BufferInv
<1>4. GateTypeOK' /\ BufferInv' /\ ReadInv' /\ WritesAreApproved'
  BY <1>1, <1>3 DEF ApprovalInv, GateTypeOK, BufferInv, Used, ReadInv, WritesAreApproved
<1>5. SlotInv' /\ ExecuteInv'
  BY <1>1 DEF SlotInv, ExecuteInv
<1> QED
  BY <1>4, <1>5 DEF ApprovalInv

LEMMA ApprovalNext == RuntimeInv /\ ApprovalInv /\ [Next]_vars => ApprovalInv'
<1> SUFFICES ASSUME RuntimeInv, ApprovalInv, [Next]_vars PROVE ApprovalInv'
  OBVIOUS
<1>1. CASE UNCHANGED vars
  BY <1>1, ApprovalFrame DEF vars
<1>2. ASSUME NEW e, NEW why, FailWithTerminalEvent(e, why) PROVE ApprovalInv'
  BY <1>2, ApprovalFrame DEF FailWithTerminalEvent, Return
<1>3. CASE PredictFails \/ ParseFails \/ GateMissing \/ WaitRefused \/ ApprovalFails
           \/ OutOfTurns
  BY <1>2, <1>3 DEF PredictFails, ParseFails, GateMissing, WaitRefused, ApprovalFails,
                    OutOfTurns
<1>4. CASE FinalAnswer \/ RejectedFail
  BY <1>4, ApprovalFrame DEF FinalAnswer, RejectedFail, Return
<1>5. pc \in {"predict", "dispatch", "waiting"} => slot = 0
  BY DEF ApprovalInv, SlotInv
<1>6. CASE ThinkOnly \/ CancelContext
  BY <1>6, ApprovalFrame DEF ThinkOnly, CancelContext
<1>7. ASSUME NEW c \in Call, CallSkill(c) PROVE ApprovalInv'
  BY <1>5, <1>7, ApprovalFrame DEF CallSkill, Predicting
<1>8. CASE AskApproval \/ SkipApproval
  BY <1>5, <1>8, ApprovalFrame DEF AskApproval, SkipApproval
<1>9. CASE Approved
  <2>1. /\ pc \in {"blocked", "decided"} /\ pc' = "execute" /\ call' = call
        /\ slot # 0 /\ posted[slot].approve
        /\ UNCHANGED <<posted, buffer, slot, executed>>
    BY <1>9 DEF Approved, Decided, gateVars, ApprovalInv, SlotInv
  <2>2. slot \in 1..Len(posted) /\ ~Used(slot) /\ call.write /\ posted[slot].id = call.id
    BY <2>1 DEF ApprovalInv, SlotInv
  <2>3. posted[slot].approve = TRUE
    <3>1. posted \in Seq(Decision)
      BY DEF ApprovalInv, GateTypeOK
    <3>2. posted[slot] \in Decision
      BY <2>2, <3>1
    <3> QED
      BY <2>1, <3>2 DEF Decision
  <2>4. GateTypeOK' /\ BufferInv' /\ ReadInv' /\ WritesAreApproved'
    BY <2>1 DEF ApprovalInv, GateTypeOK, BufferInv, Used, ReadInv, WritesAreApproved
  <2>5. SlotInv' /\ ExecuteInv'
    BY <2>1, <2>2, <2>3 DEF SlotInv, ExecuteInv, Used
  <2> QED
    BY <2>4, <2>5 DEF ApprovalInv
<1>10. CASE LookForDecision
  BY <1>10, LookKeepsApprovals
<1>11. ASSUME NEW d \in Decision, Post(d) PROVE ApprovalInv'
  BY <1>11, PostKeepsApprovals
<1>12. CASE RejectedContinue
  BY <1>12, RejectKeepsApprovals
<1>13. CASE Execute
  BY <1>13, ExecuteKeepsApprovals
<1> QED
  BY <1>1, <1>3, <1>4, <1>6, <1>7, <1>8, <1>9, <1>10, <1>11, <1>12, <1>13
     DEF Next, LoopStep, Predict

LEMMA ApprovalInvariant == Spec => []ApprovalInv
<1>1. Init => ApprovalInv
  <2> SUFFICES ASSUME Init PROVE ApprovalInv
    OBVIOUS
  <2>1. /\ posted = <<>> /\ buffer = [id \in CallID |-> <<>>] /\ slot = 0
        /\ executed = {} /\ pc = "predict"
    BY DEF Init
  <2>2. <<>> \in Seq(Decision) /\ <<>> \in Seq(Nat)
    OBVIOUS
  <2>3. GateTypeOK
    BY <2>1, <2>2 DEF GateTypeOK
  <2>4. \A id \in CallID : DOMAIN buffer[id] = {}
    BY <2>1
  <2> QED
    BY <2>1, <2>3, <2>4 DEF ApprovalInv, BufferInv, SlotInv, ExecuteInv, ReadInv,
                            WritesAreApproved
<1> QED
  BY <1>1, RuntimeInvariant, ApprovalNext, PTL DEF Spec

\* For every bound on the turns and on the decisions, and every set of call ids: a
\* write tool runs only with a decision that approves its tool call id, and no
\* decision lets two of them run (runtime_loop.go Run, takePendingDecision).
THEOREM WritesNeedApproval == Spec => []WritesAreApproved
<1>1. ApprovalInv => WritesAreApproved
  BY DEF ApprovalInv
<1> QED
  BY <1>1, ApprovalInvariant, PTL

-----------------------------------------------------------------------------
(* The stream and the statuses *)

\* For every bound on the turns and every set of call ids: at most one
\* terminal chunk is published and it is the last one, whatever publishes were
\* lost and whenever the context was cancelled (stream_fanout.go emitTerminal).
THEOREM OneTerminalChunk == Spec => [](TypeOK /\ TerminalIsLast)
<1>1. RuntimeInv => LoopTypeOK /\ TerminalIsLast
  BY DEF RuntimeInv, TerminalIsLast, Ordered
<1>2. ApprovalInv => GateTypeOK
  BY DEF ApprovalInv
<1>3. LoopTypeOK /\ GateTypeOK => TypeOK
  BY DEF TypeOK
<1> QED
  BY <1>1, <1>2, <1>3, RuntimeInvariant, ApprovalInvariant, PTL

\* The subagent and the gateway report the same terminal status for every run,
\* and it agrees with the published terminal chunk (runtimeTaskResultStatus,
\* taskStatusForResult, failWithTerminalEvent).
THEOREM CallersReportAlike == Spec => []ReportsAgree
<1>1. RuntimeInv => ReportsAgree
  BY DEF RuntimeInv
<1> QED
  BY <1>1, RuntimeInvariant, PTL
-----------------------------------------------------------------------------
(* How a run ended decides its status *)

CauseInv ==
  /\ pc # "done" => cause = "none" /\ err = Nil
  /\ CauseDecidesStatus

\* What the callers report after failWithTerminalEvent.
LEMMA FailReport ==
  ASSUME NEW e \in Error, NEW why, FailWithTerminalEvent(e, why)
  PROVE  /\ pc' = "done" /\ cause' = why
         /\ ClassifyTerminalError(e)[1] \in {"cancelled", "timeout", "failed", "error"}
         /\ SubagentReport' = IF ClassifyTerminalError(e)[1] = "error" THEN "failed"
                              ELSE ClassifyTerminalError(e)[1]
<1> DEFINE st == ClassifyTerminalError(e)[1]
<1>1. pc' = "done" /\ cause' = why /\ status' = st /\ err' = e
  BY DEF FailWithTerminalEvent, Return
<1>2. st \in {"cancelled", "timeout", "failed", "error"}
  BY ClassifyOutcomes
<1>3. e # Nil
  BY DEF Error, Nil
<1> HIDE DEF st
<1>4. SubagentReport' = NormalizeTaskStatus(st)
  BY <1>1, <1>2, <1>3 DEF SubagentReport, RuntimeTaskResultStatus
<1>5. NormalizeTaskStatus(st) = IF st = "error" THEN "failed" ELSE st
  BY <1>2 DEF NormalizeTaskStatus, Fold, TaskStatuses
<1> QED
  BY <1>1, <1>2, <1>4, <1>5 DEF st

\* Errors the loop makes itself, and what becomes of them.
LEMMA ClassifyText ==
  ASSUME NEW phrases \in SUBSET Phrases
  PROVE  /\ TextError(phrases) \in Error
         /\ phrases \in {{"exceeded max turns"}, {"approval gate required"}} =>
              ClassifyTerminalError(TextError(phrases))[1] = "failed"
         /\ phrases = {"timeout"} => ClassifyTerminalError(TextError(phrases))[1] = "timeout"
         /\ ClassifyTerminalError(TextError(phrases))[1] \in {"failed", "timeout", "error"}
  BY DEF TextError, Error, ClassifyTerminalError

\* Every step keeps the invariant: the callers' report is computed from the
\* status the step returns.
LEMMA CauseNext == CauseInv /\ [Next]_vars => CauseInv'
<1> SUFFICES ASSUME CauseInv, [Next]_vars PROVE CauseInv'
  OBVIOUS
<1>1. ASSUME UNCHANGED <<status, err, cause>>, (pc # "done" /\ pc' # "done") \/ pc' = pc
      PROVE  CauseInv'
  <2>1. SubagentReport' = SubagentReport
    BY <1>1 DEF SubagentReport
  <2>2. pc' = "done" <=> pc = "done"
    BY <1>1
  <2> QED
    BY <1>1, <2>1, <2>2 DEF CauseInv, CauseDecidesStatus
<1>2. CASE UNCHANGED vars
  BY <1>1, <1>2 DEF vars
<1>3. CASE PredictFails
  <2>1. PICK e \in Error : FailWithTerminalEvent(e, "provider")
    BY <1>3 DEF PredictFails
  <2>2. /\ pc' = "done" /\ cause' = "provider"
        /\ SubagentReport' \in {"cancelled", "timeout", "failed"}
    BY <2>1, FailReport
  <2> QED
    BY <2>2 DEF CauseInv, CauseDecidesStatus
<1>4. CASE ParseFails
  <2>1. PICK phrases \in SUBSET Phrases : FailWithTerminalEvent(TextError(phrases), "parse")
    BY <1>4 DEF ParseFails
  <2>2. /\ pc' = "done" /\ cause' = "parse"
        /\ SubagentReport' \in {"cancelled", "timeout", "failed"}
    BY <2>1, ClassifyText, FailReport
  <2> QED
    BY <2>2 DEF CauseInv, CauseDecidesStatus
<1>5. CASE FinalAnswer
  <2>1. pc' = "done" /\ err' = Nil /\ cause' = "final"
    BY <1>5 DEF FinalAnswer, Return
  <2>2. SubagentReport' = "success"
    BY <2>1 DEF SubagentReport
  <2> QED
    BY <2>1, <2>2 DEF CauseInv, CauseDecidesStatus
<1>6. CASE ThinkOnly
  BY <1>1, <1>6 DEF ThinkOnly
<1>7. ASSUME NEW c \in Call, CallSkill(c) PROVE CauseInv'
  BY <1>1, <1>7 DEF CallSkill, Predicting
<1>8. CASE GateMissing
  <2>1. {"approval gate required"} \in SUBSET Phrases
    BY DEF Phrases
  <2>2. /\ TextError({"approval gate required"}) \in Error
        /\ ClassifyTerminalError(TextError({"approval gate required"}))[1] = "failed"
    BY <2>1, ClassifyText
  <2>3. pc' = "done" /\ cause' = "nogate" /\ SubagentReport' = "failed"
    BY <1>8, <2>2, FailReport DEF GateMissing
  <2> QED
    BY <2>3 DEF CauseInv, CauseDecidesStatus
<1>9. CASE AskApproval
  BY <1>1, <1>9 DEF AskApproval
<1>10. CASE SkipApproval
  BY <1>1, <1>10 DEF SkipApproval
<1>11. CASE Approved \/ LookForDecision \/ \E d \in Decision : Post(d)
  <2>1. pc' = pc \/ (pc # "done" /\ pc' # "done")
    BY <1>11 DEF Approved, Decided, LookForDecision, Post
  <2>2. UNCHANGED <<status, err, cause>>
    BY <1>11 DEF Approved, LookForDecision, Post
  <2> QED
    BY <1>1, <2>1, <2>2
<1>12. CASE ApprovalFails \/ WaitRefused
  <2>1. {} \in SUBSET Phrases /\ {"timeout"} \in SUBSET Phrases
    BY DEF Phrases
  <2>2. Canceled \in Error /\ TextError({}) \in Error /\ TextError({"timeout"}) \in Error
    BY <2>1, ClassifyText DEF Canceled, Error
  <2>3. CASE FailWithTerminalEvent(TextError({"timeout"}), "approval timeout")
    <3>1. ClassifyTerminalError(TextError({"timeout"}))[1] = "timeout"
      BY <2>1, ClassifyText
    <3>2. pc' = "done" /\ cause' = "approval timeout" /\ SubagentReport' = "timeout"
      BY <2>2, <2>3, <3>1, FailReport
    <3> QED
      BY <3>2 DEF CauseInv, CauseDecidesStatus
  <2>4. ASSUME NEW e \in Error, FailWithTerminalEvent(e, "wait") PROVE CauseInv'
    <3>1. /\ pc' = "done" /\ cause' = "wait"
          /\ SubagentReport' \in {"cancelled", "timeout", "failed"}
      BY <2>4, FailReport
    <3> QED
      BY <3>1 DEF CauseInv, CauseDecidesStatus
  <2> QED
    BY <1>12, <2>2, <2>3, <2>4 DEF ApprovalFails, WaitRefused
<1>13. CASE RejectedContinue
  BY <1>1, <1>13 DEF RejectedContinue, Decided, Observe
<1>14. CASE RejectedFail
  <2>1. /\ pc' = "done" /\ cause' = "rejected" /\ status' = "rejected"
        /\ err' = TextError({"approval rejected"})
    BY <1>14 DEF RejectedFail, Return
  <2>2. TextError({"approval rejected"}) # Nil
    BY DEF TextError, Nil
  <2>3. SubagentReport' = NormalizeTaskStatus("rejected")
    BY <2>1, <2>2 DEF SubagentReport, RuntimeTaskResultStatus
  <2>4. NormalizeTaskStatus("rejected") = "rejected"
    BY DEF NormalizeTaskStatus, Fold, TaskStatuses
  <2> QED
    BY <2>1, <2>3, <2>4 DEF CauseInv, CauseDecidesStatus
<1>15. CASE Execute
  BY <1>1, <1>15 DEF Execute, Observe
<1>16. CASE OutOfTurns
  <2>1. {"exceeded max turns"} \in SUBSET Phrases
    BY DEF Phrases
  <2>2. /\ TextError({"exceeded max turns"}) \in Error
        /\ ClassifyTerminalError(TextError({"exceeded max turns"}))[1] = "failed"
    BY <2>1, ClassifyText
  <2>3. pc' = "done" /\ cause' = "turns" /\ SubagentReport' = "failed"
    BY <1>16, <2>2, FailReport DEF OutOfTurns
  <2> QED
    BY <2>3 DEF CauseInv, CauseDecidesStatus
<1>17. CASE CancelContext
  BY <1>1, <1>17 DEF CancelContext
<1> QED
  BY <1>2, <1>3, <1>4, <1>5, <1>6, <1>7, <1>8, <1>9, <1>10, <1>11, <1>12, <1>13,
     <1>14, <1>15, <1>16, <1>17 DEF Next, LoopStep, Predict

\* For every bound on the turns and every error an upstream may return: running
\* out of turns and a missing gate report failed, an approval that timed out
\* timeout, only a rejection reports rejected, and only a final answer success
\* (runtime_loop.go classifyTerminalError).
THEOREM StatusFollowsCause == Spec => []CauseDecidesStatus
<1>1. Init => CauseInv
  BY DEF Init, CauseInv, CauseDecidesStatus, SubagentReport
<1>2. CauseInv => CauseDecidesStatus
  BY DEF CauseInv
<1> QED
  BY <1>1, <1>2, CauseNext, PTL DEF Spec

-----------------------------------------------------------------------------
(* The transcript *)

TranscriptInv == Len(messages) % 2 = 0 /\ TranscriptPaired

\* A closed turn adds a pair that belongs to this turn.
LEMMA ObservePairs ==
  ASSUME RuntimeInv, TranscriptInv, pc \in InCall, Observe
  PROVE  TranscriptInv'
<1> DEFINE a == [role |-> "assistant", turn |-> turn, id |-> call.id]
           b == [role |-> "tool", turn |-> turn, id |-> call.id]
           n == Len(messages)
<1>1. messages \in Seq(Message) /\ pc # "done"
  BY DEF RuntimeInv, LoopTypeOK, InCall
<1>2. turn \in Nat /\ turn' = turn + 1
  BY <1>1, RunningIsOpen DEF Observe
<1>3. messages' = messages \o <<a, b>>
  BY DEF Observe
<1>4. /\ a.role = "assistant" /\ b.role = "tool" /\ a.turn = turn /\ b.turn = turn
      /\ a.id = b.id
  OBVIOUS
<1> HIDE DEF a, b
<1>5. /\ n \in Nat /\ Len(messages') = n + 2
      /\ messages'[n + 1] = a /\ messages'[n + 2] = b
      /\ \A i \in 1..n : messages'[i] = messages[i]
  BY <1>1, <1>3
<1>6. \A i \in 1..n : messages[i].turn \in Nat
  <2>1. \A i \in 1..n : messages[i] \in Message
    BY <1>1
  <2> QED
    BY <2>1 DEF Message
<1>7. n % 2 = 0 /\ (n + 1) % 2 = 1 /\ (n + 2) % 2 = 0
  BY <1>5 DEF TranscriptInv
<1>8. n > 0 => messages[n].turn < turn
  BY <1>5 DEF TranscriptInv, TranscriptPaired
<1> HIDE DEF n
<1>9. ASSUME NEW i \in 1..Len(messages')
      PROVE  /\ messages'[i].role = IF i % 2 = 1 THEN "assistant" ELSE "tool"
             /\ i % 2 = 0 => /\ messages'[i].turn = messages'[i - 1].turn
                             /\ messages'[i].id = messages'[i - 1].id
             /\ i % 2 = 1 /\ i > 1 => messages'[i - 1].turn < messages'[i].turn
             /\ messages'[i].turn < turn'
  <2>1. CASE i \in 1..n
    <3>1. /\ messages[i].role = IF i % 2 = 1 THEN "assistant" ELSE "tool"
          /\ i % 2 = 0 => /\ messages[i].turn = messages[i - 1].turn
                          /\ messages[i].id = messages[i - 1].id
          /\ i % 2 = 1 /\ i > 1 => messages[i - 1].turn < messages[i].turn
          /\ messages[i].turn < turn
      BY <2>1 DEF TranscriptInv, TranscriptPaired, n
    <3>2. messages'[i] = messages[i] /\ messages[i].turn \in Nat
      BY <1>5, <1>6, <2>1
    <3>3. i % 2 = 0 => i # 1
      BY <2>1
    <3>4. i > 1 => i - 1 \in 1..n
      BY <1>5, <2>1
    <3>5. i > 1 => messages'[i - 1] = messages[i - 1]
      BY <1>5, <3>4
    <3>6. messages'[i].turn < turn'
      BY <1>2, <3>1, <3>2
    <3>7. i % 2 = 0 => i > 1
      BY <2>1, <3>3
    <3> QED
      BY <3>1, <3>2, <3>5, <3>6, <3>7
  <2>2. CASE i = n + 1
    <3>1. n > 0 => n \in 1..n /\ messages'[n] = messages[n]
      BY <1>5
    <3>2. i % 2 = 1 /\ messages'[i] = a /\ i - 1 = n /\ (i > 1 => n > 0)
      BY <1>5, <1>7, <2>2
    <3> QED
      BY <1>2, <1>4, <1>8, <3>1, <3>2
  <2>3. CASE i = n + 2
    <3>1. i % 2 = 0 /\ messages'[i] = b /\ i - 1 = n + 1 /\ messages'[i - 1] = a
      BY <1>5, <1>7, <2>3
    <3> QED
      BY <1>2, <1>4, <3>1
  <2> QED
    BY <1>5, <2>1, <2>2, <2>3
<1>10. Len(messages') % 2 = 0
  BY <1>5, <1>7
<1> QED
  BY <1>9, <1>10 DEF TranscriptInv, TranscriptPaired

\* Every other step leaves the transcript alone.
LEMMA TranscriptNext == RuntimeInv /\ TranscriptInv /\ [Next]_vars => TranscriptInv'
<1> SUFFICES ASSUME RuntimeInv, TranscriptInv, [Next]_vars PROVE TranscriptInv'
  OBVIOUS
<1>1. ASSUME UNCHANGED <<messages, turn>> PROVE TranscriptInv'
  BY <1>1 DEF TranscriptInv, TranscriptPaired
<1>2. ASSUME NEW e, NEW why, FailWithTerminalEvent(e, why) PROVE TranscriptInv'
  BY <1>1, <1>2 DEF FailWithTerminalEvent, Return
<1>3. CASE UNCHANGED vars
  BY <1>1, <1>3 DEF vars
<1>4. CASE PredictFails \/ ParseFails \/ GateMissing \/ WaitRefused \/ ApprovalFails
           \/ OutOfTurns
  BY <1>2, <1>4 DEF PredictFails, ParseFails, GateMissing, WaitRefused, ApprovalFails,
                    OutOfTurns
<1>5. CASE FinalAnswer \/ RejectedFail
  BY <1>1, <1>5 DEF FinalAnswer, RejectedFail, Return
<1>6. CASE ThinkOnly
  <2>1. messages' = messages /\ turn' = turn + 1 /\ turn \in Nat /\ messages \in Seq(Message)
    BY <1>6, RunningIsOpen DEF ThinkOnly, Predicting, RuntimeInv, LoopTypeOK
  <2>2. \A i \in 1..Len(messages) : messages[i].turn \in Nat
    <3>1. \A i \in 1..Len(messages) : messages[i] \in Message
      BY <2>1
    <3> QED
      BY <3>1 DEF Message
  <2>3. \A i \in 1..Len(messages) : messages[i].turn < turn => messages[i].turn < turn + 1
    BY <2>1, <2>2
  <2> QED
    BY <2>1, <2>3 DEF TranscriptInv, TranscriptPaired
<1>7. ASSUME NEW c \in Call, CallSkill(c) PROVE TranscriptInv'
  BY <1>1, <1>7 DEF CallSkill
<1>8. CASE AskApproval \/ SkipApproval \/ LookForDecision \/ Approved \/ CancelContext
           \/ \E d \in Decision : Post(d)
  BY <1>1, <1>8 DEF AskApproval, SkipApproval, LookForDecision, Approved, CancelContext, Post
<1>9. CASE RejectedContinue
  BY <1>9, ObservePairs DEF RejectedContinue, Decided, InCall
<1>10. CASE Execute
  BY <1>10, ObservePairs DEF Execute, InCall
<1> QED
  BY <1>3, <1>4, <1>5, <1>6, <1>7, <1>8, <1>9, <1>10 DEF Next, LoopStep, Predict

\* For every number of turns and every mix of thoughts, calls and rejections:
\* the transcript pairs each assistant message with the answer to its call, in
\* turn order (runtime_loop.go Run).
THEOREM TranscriptIsPaired == Spec => []TranscriptPaired
<1>1. Init => TranscriptInv
  <2> SUFFICES ASSUME Init PROVE TranscriptInv
    OBVIOUS
  <2>1. messages = <<>>
    BY DEF Init
  <2> QED
    BY <2>1 DEF TranscriptInv, TranscriptPaired
<1>2. TranscriptInv => TranscriptPaired
  BY DEF TranscriptInv
<1> QED
  BY <1>1, <1>2, RuntimeInvariant, TranscriptNext, PTL DEF Spec
=============================================================================
