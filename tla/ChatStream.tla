----------------------------- MODULE ChatStream -----------------------------
(***************************************************************************)
(* A chat completion at the gateway.  Streaming (handleStream): the        *)
(* handler produces chunks, from the upstream's event stream               *)
(* (publishProviderStream) or from the runtime when tools were requested;  *)
(* a Fanout numbers them; the event bus carries them to the Sender         *)
(* goroutine, which writes them to the response of the registered sink and *)
(* closes it after the terminal chunk.  The handler waits until the sink   *)
(* is gone and returns.  Otherwise (handleNonStream) the runtime runs and  *)
(* emits in the same way, no sink is registered, and the handler writes    *)
(* the result itself.  The program always gives the handler a Sender, and  *)
(* ServeHTTP has looked up the requested tools in the registry the later   *)
(* look-ups use, so those find them.                                       *)
(*                                                                         *)
(* One request is modelled: sinks are looked up by task id and requests    *)
(* meet nowhere else.  The response belongs to the handler: a write after  *)
(* it returned reaches nobody, with or without an error.                   *)
(***************************************************************************)
EXTENDS TaskStatus, Naturals, Sequences

CONSTANTS
  MaxChunks,   \* bound on the chunks a producer emits before its terminal one
  Faults       \* subset of {"publish", "disconnect", "store"}

ASSUME ChatStreamAssumption ==
  MaxChunks \in Nat /\ Faults \subseteq {"publish", "disconnect", "store"}

Terminal == {"final", "error", "timeout", "cancelled"}

Chunk == [seq : Nat, event : {"delta", "tool"} \cup Terminal]

NoChunk == [seq |-> 0, event |-> "none"]

Done == [seq |-> 0, event |-> "[DONE]"]

VARIABLES
  streaming, \* was a stream requested?
  tools,     \* were tools requested?
  lossy,     \* may a publish fail in this behaviour?
  ctx,       \* the request's context: "live" or "canceled"
  hpc,       \* handler: "begin", "produce", "persist", "respond", and its ends
             \* "returned" and "rejected"
  err,       \* what the producer returned
  status,    \* FinalResult.Status when the runtime produced the stream
  row,       \* the request's row in the task store
  saved,     \* what the last Save of it returned: "none", "ok" or "failed" (history)
  seq,       \* Fanout.sequence
  term,      \* first terminal event past the compare-and-swap, or "none"
  busQ,      \* the Sender's subscription to "chunks.*"
  sink,      \* is the sink registered?
  spc,       \* Sender goroutine: "ready", "write", "unregister", "close"
  chunk,     \* the chunk it holds
  wire,      \* frames the client received
  reply      \* the answer it received otherwise: "none", "completion", "error"

fanoutVars == <<seq, term, busQ>>
senderVars == <<sink, spc, chunk, wire>>
request == <<streaming, tools, lossy>>
vars == <<request, ctx, hpc, err, status, row, saved, fanoutVars, senderVars, reply>>

\* Type invariant: the handler, the fanout and the Sender, and only statuses of the
\* contract in the row (chat_completions_handler.go, sender.go).
TypeOK ==
  /\ streaming \in BOOLEAN /\ tools \in BOOLEAN /\ lossy \in BOOLEAN
  /\ ctx \in {"live", "canceled"}
  /\ hpc \in {"begin", "produce", "persist", "respond", "returned", "rejected"}
  /\ err \in Error \cup {Nil}
  /\ status \in TaskStatuses \cup {"", "error"}
  /\ row \in TaskStatuses \cup {"none"}
  /\ saved \in {"none", "ok", "failed"}
  /\ seq \in Nat
  /\ term \in Terminal \cup {"none"}
  /\ busQ \in Seq(Chunk)
  /\ sink \in BOOLEAN
  /\ spc \in {"ready", "write", "unregister", "close"}
  /\ chunk \in Chunk \cup {NoChunk}
  /\ wire \in Seq(Chunk \cup {Done})
  /\ reply \in {"none", "completion", "error"}

Init ==
  /\ streaming \in BOOLEAN /\ tools \in BOOLEAN
  /\ lossy \in {f \in BOOLEAN : f => "publish" \in Faults}
  /\ ctx = "live"
  /\ hpc = "begin"
  /\ err = Nil
  /\ status = ""
  /\ row = "none" /\ saved = "none"
  /\ seq = 0 /\ term = "none" /\ busQ = <<>>
  /\ sink = FALSE /\ spc = "ready" /\ chunk = NoChunk /\ wire = <<>>
  /\ reply = "none"

-----------------------------------------------------------------------------
(* Fanout and Sender.PublishChunk *)

\* Sender.PublishChunk: the publish and then its audit record; ok tells whether
\* both succeeded.  On a cancelled context nothing is published.
PublishChunk(event, ok) ==
  LET published == busQ' = Append(busQ, [seq |-> seq + 1, event |-> event])
  IN  \/ ok /\ ctx = "live" /\ published
      \/ ~ok /\ ctx = "live" /\ lossy /\ (published \/ UNCHANGED busQ)
      \/ ~ok /\ ctx = "canceled" /\ UNCHANGED busQ

\* Emit one chunk that is not terminal.
Emit(event, ok) ==
  /\ seq' = seq + 1
  /\ PublishChunk(event, ok)
  /\ UNCHANGED term

\* emitTerminal: later terminal chunks take a number and go nowhere.
EmitTerminal(event, ok) ==
  /\ seq' = seq + 1
  /\ IF term # "none"
       THEN ok /\ UNCHANGED <<term, busQ>>
       ELSE term' = event /\ PublishChunk(event, ok)

-----------------------------------------------------------------------------
(* The handler *)

\* TaskStateStore.Save through the request's context: it fails once that is
\* cancelled, and when the store does; the handler ignores the error either way.
Persist(st) ==
  \/ ctx = "live" /\ row' = st /\ saved' = "ok"
  \/ (ctx = "canceled" \/ "store" \in Faults) /\ row' = row /\ saved' = "failed"

\* What the handler writes when it does not stream.
Respond(answer) == reply' = IF ctx = "live" THEN answer ELSE reply

\* ServeHTTP refuses the request: it is malformed, asks for a tool the registry
\* does not have, or for a model without a route.  Nothing is persisted.
Reject ==
  /\ hpc = "begin"
  /\ Respond("error")
  /\ hpc' = "rejected"
  /\ UNCHANGED <<request, ctx, err, status, row, saved, fanoutVars, senderVars>>

\* ServeHTTP persists "running"; handleStream registers the sink.
Begin ==
  /\ hpc = "begin"
  /\ Persist("running")
  /\ sink' = streaming
  /\ hpc' = "produce"
  /\ UNCHANGED <<request, reply, ctx, err, status, fanoutVars, spc, chunk, wire>>

\* The producer returns to handleStream.
Produced(e, st) ==
  /\ hpc' = "persist"
  /\ err' = e
  /\ status' = st
  /\ UNCHANGED <<request, reply, ctx, row, saved, senderVars>>

Bridging == hpc = "produce" /\ streaming /\ ~tools

Running == hpc = "produce" /\ (tools \/ ~streaming)

\* What a failed publish returns.
PublishError == IF ctx = "canceled" THEN Canceled ELSE TextError({})

\* A data frame of the upstream.  A publish error ends the stream, and no
\* terminal chunk is emitted for it; the context may have been cancelled since
\* the loop looked at it.
ProviderDelta ==
  /\ Bridging
  /\ seq < MaxChunks
  /\ \/ /\ Emit("delta", TRUE)
        /\ UNCHANGED <<request, reply, ctx, hpc, err, status, row, saved, senderVars>>
     \/ /\ Emit("delta", FALSE)
        /\ Produced(PublishError, "")

\* The upstream's [DONE]: a final chunk, and the reading goes on.
ProviderDone ==
  /\ Bridging
  /\ seq < MaxChunks
  /\ \/ /\ EmitTerminal("final", TRUE)
        /\ UNCHANGED <<request, reply, ctx, hpc, err, status, row, saved, senderVars>>
     \/ /\ EmitTerminal("final", FALSE)
        /\ Produced(PublishError, "")

\* What an upstream may answer: an error with any text, among them the phrases the
\* gateway reads statuses from.
UpstreamErrors ==
  {TextError({}), TextError({"timeout"}), TextError({"approval rejected"}), Canceled}

\* Mutant of ProviderError: the error is announced and not returned.
ProviderErrorSwallowed ==
  /\ Bridging
  /\ \E ok \in BOOLEAN : EmitTerminal("error", ok)
  /\ Produced(Nil, "")

\* PredictStream fails, a frame is invalid or reports an error, or reading
\* breaks off: an error chunk, whose own error is ignored.
ProviderError ==
  /\ Bridging
  /\ \E ok \in BOOLEAN : EmitTerminal("error", ok)
  /\ \E e \in UpstreamErrors :
       /\ e = Canceled => ctx = "canceled"
       /\ Produced(e, "")

\* The loop notices the cancelled context before a line.
ProviderCancelled ==
  /\ Bridging /\ ctx = "canceled"
  /\ \E ok \in BOOLEAN : EmitTerminal("cancelled", ok)
  /\ Produced(Canceled, "")

\* End of the upstream's stream: a final chunk unless there was one.
ProviderEOF ==
  /\ Bridging
  /\ \/ EmitTerminal("final", TRUE) /\ Produced(Nil, "")
     \/ EmitTerminal("final", FALSE) /\ Produced(PublishError, "")

\* What a write to the response puts on the wire.
Write(frames) == wire' = IF hpc = "returned" \/ ctx = "canceled" THEN wire ELSE wire \o frames

\* The runtime emits chunks and ignores publish errors ...
RuntimeEmits ==
  /\ Running /\ tools
  /\ seq < MaxChunks
  /\ \E ok \in BOOLEAN : Emit("tool", ok)
  /\ UNCHANGED <<request, reply, ctx, hpc, err, status, row, saved, senderVars>>

\* ... and returns a status with the terminal event that goes with it (module
\* Runtime, ReportsAgree).
RuntimeReturns ==
  /\ Running
  /\ \/ \E ok \in BOOLEAN : EmitTerminal("final", ok) /\ Produced(Nil, "success")
     \/ \E ok \in BOOLEAN : /\ EmitTerminal("error", ok)
                            /\ Produced(TextError({"approval rejected"}), "rejected")
     \/ \E ok \in BOOLEAN, e \in UpstreamErrors :
          /\ e = Canceled => ctx = "canceled"
          /\ EmitTerminal(ClassifyTerminalError(e)[2], ok)
          /\ Produced(e, ClassifyTerminalError(e)[1])

\* Mutant of PersistOutcome: the runtime's status is stored as it is.
PersistRawStatus ==
  /\ hpc = "persist"
  /\ Persist(IF tools \/ ~streaming THEN status ELSE TaskStatusForError(err))
  /\ hpc' = "respond"
  /\ UNCHANGED <<request, reply, ctx, err, status, fanoutVars, senderVars>>

\* The outcome is persisted, by the runtime's status or the error alone.
PersistOutcome ==
  /\ hpc = "persist"
  /\ Persist(IF err = Nil THEN "success"
             ELSE IF tools \/ ~streaming THEN TaskStatusForResult(status, err)
             ELSE TaskStatusForError(err))
  /\ hpc' = "respond"
  /\ UNCHANGED <<request, reply, ctx, err, status, fanoutVars, senderVars>>

\* Mutant of Return: the handler does not wait for the Sender.
ReturnAtOnce ==
  /\ hpc = "respond" /\ streaming
  /\ sink' = FALSE
  /\ hpc' = "returned"
  /\ UNCHANGED <<request, reply, ctx, err, status, row, saved, fanoutVars, spc, chunk, wire>>

\* Mutant of Return: the wait does not look at the request's context.
ReturnWhenDrained ==
  /\ hpc = "respond" /\ streaming
  /\ ~sink
  /\ hpc' = "returned"
  /\ UNCHANGED <<request, reply, ctx, err, status, row, saved, fanoutVars, senderVars>>

\* waitForSinkDrain ends when the sink is gone or the client is; the deferred
\* UnregisterSink follows and the handler returns.
Return ==
  /\ hpc = "respond" /\ streaming
  /\ ~sink \/ ctx = "canceled"
  /\ sink' = FALSE
  /\ hpc' = "returned"
  /\ UNCHANGED <<request, reply, ctx, err, status, row, saved, fanoutVars, spc, chunk, wire>>

\* handleNonStream writes the completion or the error and returns.
WriteResponse ==
  /\ hpc = "respond" /\ ~streaming
  /\ Respond(IF err = Nil THEN "completion" ELSE "error")
  /\ hpc' = "returned"
  /\ UNCHANGED <<request, ctx, err, status, row, saved, fanoutVars, senderVars>>

Disconnect ==
  /\ "disconnect" \in Faults
  /\ ctx = "live" /\ hpc \notin {"returned", "rejected"}
  /\ ctx' = "canceled"
  /\ UNCHANGED <<request, reply, hpc, err, status, row, saved, fanoutVars, senderVars>>

-----------------------------------------------------------------------------
(* The Sender goroutine *)

\* The sink is looked up under the lock and used outside it.
SenderTake ==
  /\ spc = "ready"
  /\ busQ # <<>>
  /\ busQ' = Tail(busQ)
  /\ IF sink THEN spc' = "write" /\ chunk' = Head(busQ)
             ELSE UNCHANGED <<spc, chunk>>
  /\ UNCHANGED <<request, reply, ctx, hpc, err, status, row, saved, seq, term, sink, wire>>

\* ChatCompletionStreamSink.WriteChunk: a final chunk writes no frame.
SenderWrite ==
  /\ spc = "write"
  /\ Write(IF chunk.event = "final" THEN <<>> ELSE <<chunk>>)
  /\ IF chunk.event \in Terminal
       THEN spc' = "unregister" /\ UNCHANGED chunk
       ELSE spc' = "ready" /\ chunk' = NoChunk
  /\ UNCHANGED <<request, reply, ctx, hpc, err, status, row, saved, fanoutVars, sink>>

\* The write fails, on a connection or a response that is gone: the sink is
\* unregistered and not closed.
SenderWriteFails ==
  /\ spc = "write"
  /\ hpc = "returned" \/ ctx = "canceled"
  /\ chunk.event # "final"
  /\ spc' = "ready" /\ chunk' = NoChunk
  /\ sink' = FALSE
  /\ UNCHANGED <<request, reply, ctx, hpc, err, status, row, saved, fanoutVars, wire>>

\* Mutant of SenderUnregister: the sink stays registered.
SenderKeepsSink ==
  /\ spc = "unregister"
  /\ spc' = "close"
  /\ UNCHANGED <<request, reply, ctx, hpc, err, status, row, saved, fanoutVars, sink, chunk, wire>>

\* UnregisterSink first, Close (the [DONE] frame) after it.
SenderUnregister ==
  /\ spc = "unregister"
  /\ sink' = FALSE
  /\ spc' = "close"
  /\ UNCHANGED <<request, reply, ctx, hpc, err, status, row, saved, fanoutVars, chunk, wire>>

SenderClose ==
  /\ spc = "close"
  /\ Write(<<Done>>)
  /\ spc' = "ready" /\ chunk' = NoChunk
  /\ UNCHANGED <<request, reply, ctx, hpc, err, status, row, saved, fanoutVars, sink>>

-----------------------------------------------------------------------------
Handler ==
  \/ Reject \/ Begin
  \/ ProviderDelta \/ ProviderDone \/ ProviderError \/ ProviderCancelled \/ ProviderEOF
  \/ RuntimeEmits \/ RuntimeReturns
  \/ PersistOutcome \/ Return \/ WriteResponse

Sender ==
  SenderTake \/ SenderWrite \/ SenderWriteFails \/ SenderUnregister \/ SenderClose

Next == Handler \/ Disconnect \/ Sender

Spec == Init /\ [][Next]_vars

\* The handler's goroutine and the Sender's run.  That the upstream and the runtime go
\* on is an assumption: the provider's HTTP client has no timeout, so a call that hangs
\* ends only with the client's connection (openai_provider.go:23).
FairSpec == Spec /\ WF_vars(Handler) /\ WF_vars(Sender)

-----------------------------------------------------------------------------
(* Safety *)

\* The row claims success only if the stream's terminal event was a final one:
\* an error chunk never goes with a success (handleStream, emitTerminal).
SuccessMeansFinal == row = "success" => term = "final"

\* A connected client is not cut off: while it is connected, the handler
\* returns only after the Sender has unregistered the sink for a terminal
\* chunk, so every chunk before that one has been written
\* (waitForSinkDrain, sender.go Start).
DrainedBeforeReturn ==
  streaming /\ hpc = "returned" /\ ctx = "live" =>
    /\ term # "none"
    /\ \A i \in 1..Len(busQ) : busQ[i].event \notin Terminal

\* Answer and row agree: when a connected client has its answer and the store took
\* the outcome, the row is terminal, and the client was told of success exactly if the
\* row says so; when the store refused it, which nobody is told, the row claims no
\* outcome.  A stream may end well and its row not say success, when the upstream
\* breaks off after its own [DONE]; but no error frame goes with a success
\* (handleNonStream, handleStream, taskStatusForResult, persistTaskState).
AnswerAgreesWithRow ==
  hpc = "returned" /\ ctx = "live" =>
    /\ row \in IF saved = "ok" THEN TaskStatuses \ {"pending", "running"} ELSE {"none", "running"}
    /\ streaming /\ row = "success" => \A i \in 1..Len(wire) : wire[i].event \notin Terminal
    /\ ~streaming => (row = "success" <=> reply = "completion" /\ saved = "ok")

-----------------------------------------------------------------------------
(* Refinement *)

\* Nothing the Sender writes reaches the client any more.
Gone == ctx = "canceled" \/ hpc \in {"returned", "rejected"}

Phase ==
  IF Gone THEN "closed"
  ELSE IF spc \in {"unregister", "close"} THEN "ending"
  ELSE IF sink \/ spc = "write" \/ hpc = "begin" THEN "open"
  ELSE "closed"

Undelivered ==
  IF Phase = "closed" THEN <<>> ELSE (IF spc = "write" THEN <<chunk>> ELSE <<>>) \o busQ

Promise ==
  INSTANCE StreamDelivery WITH last <- seq, queue <- Undelivered, phase <- Phase

\* The handler, the fanout, the bus and the Sender together keep the promise of
\* module StreamDelivery: frames in order, none twice, and at most one terminator, at
\* the end.  Not exactly one: the sink is unregistered before [DONE] is written, so the
\* handler may return first and a connected client miss it (sender.go Start, fanout.go
\* emitTerminal, waitForSinkDrain).
DeliversInOrder == Promise!Spec

-----------------------------------------------------------------------------
(* Liveness *)

\* With a bus that delivers, the handler returns: the terminal chunk comes back
\* through the Sender and ends its wait (waitForSinkDrain, sender.go Start).
HandlerReturns == ~lossy => <>(hpc \in {"returned", "rejected"})
=============================================================================
