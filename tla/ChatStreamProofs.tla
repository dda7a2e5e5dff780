-------------------------- MODULE ChatStreamProofs --------------------------
(***************************************************************************)
(* Proofs about a chat completion: the handler's row and answer agree with *)
(* what was streamed, the client is not cut off, and handler, fanout, bus  *)
(* and Sender together implement StreamDelivery.                           *)
(***************************************************************************)
EXTENDS ChatStream, TLAPS

-----------------------------------------------------------------------------
(* The inductive invariant *)

\* Nothing has happened before the handler begins, and nothing does when it rejects.
Untouched ==
  hpc \in {"begin", "rejected"} =>
    /\ seq = 0 /\ busQ = <<>> /\ term = "none" /\ wire = <<>>
    /\ ~sink /\ spc = "ready" /\ row = "none"

\* What the Sender holds: a chunk from its look-up to its close; and while the
\* response is there, the sink is registered until it unregisters it.
SenderHolds ==
  /\ spc = "ready" => chunk = NoChunk
  /\ spc # "ready" => chunk \in Chunk
  /\ spc \in {"unregister", "close"} => chunk.event \in Terminal
  /\ spc \in {"write", "unregister"} /\ ~Gone => sink
  /\ spc = "close" => ~sink
  /\ hpc = "returned" \/ ~streaming => ~sink

\* The one terminal chunk, wherever it is: all that carry a terminal event carry
\* the first one, no two are under way, and the client has none that is final.
OneTerminal ==
  /\ \A i \in 1..Len(busQ) : busQ[i].event \in Terminal => busQ[i].event = term
  /\ \A i, j \in 1..Len(busQ) :
       i # j => ~(busQ[i].event \in Terminal /\ busQ[j].event \in Terminal)
  /\ chunk.event \in Terminal =>
       chunk.event = term /\ \A i \in 1..Len(busQ) : busQ[i].event \notin Terminal
  /\ \A i \in 1..Len(wire) :
       wire[i].event \in Terminal => wire[i].event = term /\ term # "final"

\* A stream whose client is connected loses its sink only behind the terminal chunk.
SinkUntilTerminal ==
  streaming /\ ctx = "live" /\ hpc \notin {"begin", "rejected"} /\ ~sink =>
    term # "none" /\ \A i \in 1..Len(busQ) : busQ[i].event \notin Terminal

\* What the producer has announced and returned so far.
Production ==
  /\ hpc = "produce" => term \in {"none", "final"}
  /\ Running => term = "none"
  /\ hpc \in {"persist", "respond", "returned"} =>
       /\ err = Nil => term = "final"
       /\ err # Nil => status \in {"", "rejected", "failed", "timeout", "error", "cancelled"}

\* What the handler has stored and answered so far.
Stored ==
  /\ hpc \notin {"respond", "returned"} => row \in {"none", "running"}
  /\ row = "success" => err = Nil
  /\ hpc \in {"respond", "returned"} /\ ctx = "live" =>
       IF saved = "ok"
         THEN row \in TaskStatuses \ {"pending", "running"} /\ (err = Nil => row = "success")
         ELSE row \in {"none", "running"}
  /\ hpc = "returned" /\ ~streaming /\ ctx = "live" =>
       reply = IF err = Nil THEN "completion" ELSE "error"

ChatInv ==
  /\ TypeOK /\ Untouched /\ SenderHolds /\ OneTerminal /\ SinkUntilTerminal
  /\ Production /\ Stored

-----------------------------------------------------------------------------
(* The producers, upstream bridge and runtime, as one kind of step *)

Events == {"delta", "tool"} \cup Terminal

Failures == {"", "rejected", "failed", "timeout", "error", "cancelled"}

\* A chunk took a number and was published or not; of terminal ones, the first
\* is remembered and the others go nowhere.
Announced(event) ==
  /\ seq' = seq + 1
  /\ busQ' = busQ \/ busQ' = Append(busQ, [seq |-> seq + 1, event |-> event])
  /\ \/ event \notin Terminal /\ term' = term
     \/ event \in Terminal /\ term = "none" /\ term' = event
     \/ event \in Terminal /\ term # "none" /\ term' = term /\ busQ' = busQ

ProducerStep ==
  /\ hpc = "produce"
  /\ UNCHANGED <<request, ctx, row, saved, senderVars, reply>>
  /\ \E event \in Events : Announced(event)
  /\ \/ /\ UNCHANGED <<hpc, err, status>>
        /\ term' \in {"none", "final"} /\ (Running => term' = "none")
     \/ /\ hpc' = "persist"
        /\ err' \in Error \cup {Nil} /\ status' \in TaskStatuses \cup {"", "error"}
        /\ err' = Nil => term' = "final"
        /\ err' # Nil => status' \in Failures

\* Emit announces a chunk that is not terminal.
LEMMA EmitAnnounces ==
  ASSUME NEW event \in Events \ Terminal, NEW ok \in BOOLEAN, Emit(event, ok)
  PROVE  Announced(event) /\ term' = term
BY DEF Emit, PublishChunk, Announced

\* emitTerminal announces one that is, and remembers the first.
LEMMA TerminalAnnounces ==
  ASSUME NEW event \in Terminal, NEW ok \in BOOLEAN, EmitTerminal(event, ok)
  PROVE  Announced(event) /\ term' = IF term = "none" THEN event ELSE term
BY DEF EmitTerminal, PublishChunk, Announced

\* The errors the producers return.
LEMMA ErrorFacts ==
  /\ \A p \in {{}, {"timeout"}, {"approval rejected"}} :
       TextError(p) \in Error /\ TextError(p) # Nil
  /\ Canceled \in Error /\ Canceled # Nil
  /\ Nil \notin Error
  /\ PublishError \in Error /\ PublishError # Nil
<1>1. "nothing" # "nil" /\ "canceled" # "nil"
    OBVIOUS
<1>2. \A p \in SUBSET Phrases : TextError(p) \in Error /\ TextError(p).wraps = "nothing"
    BY DEF TextError, Error
<1>3. {} \in SUBSET Phrases /\ {"timeout"} \in SUBSET Phrases
      /\ {"approval rejected"} \in SUBSET Phrases
    BY DEF Phrases
<1>4. Canceled \in Error /\ Canceled.wraps = "canceled" /\ Nil.wraps = "nil"
    BY DEF Canceled, Error, Nil
<1>5. \A e \in Error : e.wraps # "nil"
    BY DEF Error
<1> QED
    BY <1>2, <1>3, <1>4, <1>5 DEF PublishError

\* The runtime's status and event for the errors it returns.
LEMMA ClassifyFacts ==
  ASSUME NEW e \in UpstreamErrors
  PROVE  /\ ClassifyTerminalError(e)[1] \in Failures
         /\ ClassifyTerminalError(e)[1] \in TaskStatuses \cup {"", "error"}
         /\ ClassifyTerminalError(e)[2] \in Terminal \ {"final"}
BY DEF UpstreamErrors, ClassifyTerminalError, TextError, Canceled, Failures, TaskStatuses, Terminal

\* Every step of a producer is a ProducerStep.
LEMMA ProducerSteps ==
  ASSUME ChatInv,
         \/ ProviderDelta \/ ProviderDone \/ ProviderError \/ ProviderCancelled \/ ProviderEOF
         \/ RuntimeEmits \/ RuntimeReturns
  PROVE  ProducerStep
<1> USE DEF request, senderVars
<1>a. /\ hpc = "produce" => term \in {"none", "final"}
      /\ Running => term = "none"
      /\ Bridging => ~Running
    BY DEF ChatInv, Production, Bridging, Running
<1>b. {"delta", "tool"} \subseteq Events \ Terminal /\ Terminal \subseteq Events
      /\ {"final", "error", "cancelled"} \subseteq Terminal
      /\ TRUE \in BOOLEAN /\ FALSE \in BOOLEAN
    BY DEF Events, Terminal
<1>c. "" \in Failures /\ "rejected" \in Failures
      /\ {"", "rejected", "success"} \subseteq TaskStatuses \cup {"", "error"}
    BY DEF Failures, TaskStatuses
<1>1. CASE ProviderDelta
  <2>1. CASE Emit("delta", TRUE)
             /\ UNCHANGED <<request, reply, ctx, hpc, err, status, row, saved, senderVars>>
      BY <1>1, <2>1, <1>a, <1>b, EmitAnnounces DEF ProviderDelta, ProducerStep, Bridging
  <2>2. CASE Emit("delta", FALSE) /\ Produced(PublishError, "")
      BY <1>1, <2>2, <1>a, <1>b, <1>c, EmitAnnounces, ErrorFacts
         DEF ProviderDelta, ProducerStep, Bridging, Produced
  <2> QED
      BY <1>1, <2>1, <2>2 DEF ProviderDelta
<1>2. CASE ProviderDone
  <2>1. CASE EmitTerminal("final", TRUE)
             /\ UNCHANGED <<request, reply, ctx, hpc, err, status, row, saved, senderVars>>
      BY <1>2, <2>1, <1>a, <1>b, TerminalAnnounces DEF ProviderDone, ProducerStep, Bridging
  <2>2. CASE EmitTerminal("final", FALSE) /\ Produced(PublishError, "")
      BY <1>2, <2>2, <1>a, <1>b, <1>c, TerminalAnnounces, ErrorFacts
         DEF ProviderDone, ProducerStep, Bridging, Produced
  <2> QED
      BY <1>2, <2>1, <2>2 DEF ProviderDone
<1>3. CASE ProviderError
  <2>1. PICK ok \in BOOLEAN : EmitTerminal("error", ok)
      BY <1>3 DEF ProviderError
  <2>2. PICK e \in UpstreamErrors : Produced(e, "")
      BY <1>3 DEF ProviderError
  <2> QED
      BY <1>3, <2>1, <2>2, <1>b, <1>c, TerminalAnnounces, ErrorFacts
         DEF UpstreamErrors, ProviderError, ProducerStep, Bridging, Produced
<1>4. CASE ProviderCancelled
  <2>1. PICK ok \in BOOLEAN : EmitTerminal("cancelled", ok)
      BY <1>4 DEF ProviderCancelled
  <2> QED
      BY <1>4, <2>1, <1>b, <1>c, TerminalAnnounces, ErrorFacts
         DEF ProviderCancelled, ProducerStep, Bridging, Produced
<1>5. CASE ProviderEOF
  <2>1. CASE EmitTerminal("final", TRUE) /\ Produced(Nil, "")
    <3>1. term' = "final" /\ Announced("final")
        BY <1>5, <2>1, <1>a, <1>b, TerminalAnnounces DEF ProviderEOF, Bridging
    <3> QED
        BY <1>5, <2>1, <3>1, <1>b, <1>c DEF ProviderEOF, ProducerStep, Bridging, Produced
  <2>2. CASE EmitTerminal("final", FALSE) /\ Produced(PublishError, "")
      BY <1>5, <2>2, <1>b, <1>c, TerminalAnnounces, ErrorFacts
         DEF ProviderEOF, ProducerStep, Bridging, Produced
  <2> QED
      BY <1>5, <2>1, <2>2 DEF ProviderEOF
<1>6. CASE RuntimeEmits
  <2>1. PICK ok \in BOOLEAN : Emit("tool", ok)
      BY <1>6 DEF RuntimeEmits
  <2> QED
      BY <1>6, <2>1, <1>a, <1>b, EmitAnnounces DEF RuntimeEmits, ProducerStep, Running
<1>7. CASE RuntimeReturns
  <2>1. CASE \E ok \in BOOLEAN : EmitTerminal("final", ok) /\ Produced(Nil, "success")
    <3>1. PICK ok \in BOOLEAN : EmitTerminal("final", ok) /\ Produced(Nil, "success")
        BY <2>1
    <3>2. term' = "final" /\ Announced("final")
        BY <1>7, <3>1, <1>a, <1>b, TerminalAnnounces DEF RuntimeReturns
    <3> QED
        BY <1>7, <3>1, <3>2, <1>b, <1>c DEF RuntimeReturns, ProducerStep, Running, Produced
  <2>2. CASE \E ok \in BOOLEAN : /\ EmitTerminal("error", ok)
                                 /\ Produced(TextError({"approval rejected"}), "rejected")
    <3>1. PICK ok \in BOOLEAN : /\ EmitTerminal("error", ok)
                                /\ Produced(TextError({"approval rejected"}), "rejected")
        BY <2>2
    <3> QED
        BY <1>7, <3>1, <1>b, <1>c, TerminalAnnounces, ErrorFacts
           DEF RuntimeReturns, ProducerStep, Running, Produced
  <2>3. CASE \E ok \in BOOLEAN, e \in UpstreamErrors :
               /\ e = Canceled => ctx = "canceled"
               /\ EmitTerminal(ClassifyTerminalError(e)[2], ok)
               /\ Produced(e, ClassifyTerminalError(e)[1])
    <3>1. PICK ok \in BOOLEAN, e \in UpstreamErrors :
               /\ EmitTerminal(ClassifyTerminalError(e)[2], ok)
               /\ Produced(e, ClassifyTerminalError(e)[1])
        BY <2>3
    <3> DEFINE event == ClassifyTerminalError(e)[2]
    <3> DEFINE st == ClassifyTerminalError(e)[1]
    <3>2. event \in Terminal /\ st \in Failures /\ st \in TaskStatuses \cup {"", "error"}
        BY ClassifyFacts
    <3>3. e \in Error /\ e # Nil
        BY ErrorFacts DEF UpstreamErrors
    <3> HIDE DEF event, st
    <3>4. EmitTerminal(event, ok) /\ Produced(e, st)
        BY <3>1 DEF event, st
    <3>5. event \in Events /\ Announced(event)
        BY <3>2, <3>4, <1>b, TerminalAnnounces
    <3> QED
        BY <1>7, <3>2, <3>3, <3>4, <3>5 DEF RuntimeReturns, ProducerStep, Running, Produced
  <2> QED
      BY <1>7, <2>1, <2>2, <2>3 DEF RuntimeReturns
<1> QED
    BY <1>1, <1>2, <1>3, <1>4, <1>5, <1>6, <1>7

-----------------------------------------------------------------------------
(* The invariant is inductive *)

\* TypeOK, the flags apart from the rest.
Flags == streaming \in BOOLEAN /\ tools \in BOOLEAN /\ lossy \in BOOLEAN /\ sink \in BOOLEAN

Data ==
  /\ ctx \in {"live", "canceled"}
  /\ hpc \in {"begin", "produce", "persist", "respond", "returned", "rejected"}
  /\ err \in Error \cup {Nil}
  /\ status \in TaskStatuses \cup {"", "error"}
  /\ row \in TaskStatuses \cup {"none"}
  /\ saved \in {"none", "ok", "failed"}
  /\ seq \in Nat
  /\ term \in Terminal \cup {"none"}
  /\ busQ \in Seq(Chunk)
  /\ spc \in {"ready", "write", "unregister", "close"}
  /\ chunk \in Chunk \cup {NoChunk}
  /\ wire \in Seq(Chunk \cup {Done})
  /\ reply \in {"none", "completion", "error"}

LEMMA Parts == TypeOK <=> Flags /\ Data
BY Zenon DEF TypeOK, Flags, Data

LEMMA PartsPrime == TypeOK' <=> Flags' /\ Data'
BY Zenon DEF TypeOK, Flags, Data

\* A step that changes nothing but flags and the context keeps the data's types.
LEMMA DataKept ==
  ASSUME Data, ctx' \in {"live", "canceled"},
         UNCHANGED <<hpc, err, status, row, saved, reply, seq, term, busQ, spc, chunk, wire>>
  PROVE  Data'
<1>1. /\ hpc' \in {"begin", "produce", "persist", "respond", "returned", "rejected"}
      /\ err' \in Error \cup {Nil}
      /\ status' \in TaskStatuses \cup {"", "error"}
      /\ row' \in TaskStatuses \cup {"none"}
      /\ saved' \in {"none", "ok", "failed"}
      /\ reply' \in {"none", "completion", "error"}
    BY DEF Data
<1>2. /\ seq' \in Nat /\ term' \in Terminal \cup {"none"} /\ busQ' \in Seq(Chunk)
      /\ spc' \in {"ready", "write", "unregister", "close"}
      /\ chunk' \in Chunk \cup {NoChunk} /\ wire' \in Seq(Chunk \cup {Done})
    BY DEF Data
<1> QED
    BY <1>1, <1>2 DEF Data

\* The invariant holds in the initial states.
LEMMA InitInv == Init => ChatInv
<1> SUFFICES ASSUME Init PROVE ChatInv
    OBVIOUS
<1>0. /\ ctx = "live" /\ hpc = "begin" /\ err = Nil /\ status = "" /\ row = "none"
      /\ saved = "none"
      /\ seq = 0 /\ term = "none" /\ busQ = <<>> /\ wire = <<>> /\ reply = "none"
      /\ ~sink /\ spc = "ready" /\ chunk = NoChunk
    BY Zenon DEF Init
<1>1. TypeOK
  <2>1. Flags
      BY Zenon DEF Init, Flags
  <2>2. Data
    <3>1. <<>> \in Seq(Chunk) /\ <<>> \in Seq(Chunk \cup {Done})
        OBVIOUS
    <3> QED
        BY <1>0, <3>1 DEF Data
  <2> QED
      BY <2>1, <2>2, Parts
<1>2. Len(busQ) = 0 /\ Len(wire) = 0 /\ chunk.event = "none"
    BY <1>0 DEF NoChunk
<1>3. OneTerminal
    BY <1>2 DEF OneTerminal, Terminal
<1>4. Untouched
    BY <1>0, Zenon DEF Untouched
<1>5. SenderHolds /\ SinkUntilTerminal
    BY <1>0 DEF SenderHolds, SinkUntilTerminal
<1>6. Production /\ Stored
    BY <1>0 DEF Production, Stored, Running
<1> QED
    BY <1>1, <1>3, <1>4, <1>5, <1>6 DEF ChatInv

\* A producer publishes a chunk with a new number, a terminal one at most once.
LEMMA ProducerInv == ASSUME ChatInv, ProducerStep PROVE ChatInv'
<1> USE DEF request, senderVars
<1>1. PICK event \in Events : Announced(event)
    BY DEF ProducerStep
<1> DEFINE c == [seq |-> seq + 1, event |-> event]
<1>0. Flags /\ Data
    BY Parts DEF ChatInv
<1>2. c \in Chunk /\ c.event = event /\ seq \in Nat /\ busQ \in Seq(Chunk)
  <2>1. seq \in Nat /\ busQ \in Seq(Chunk)
      BY <1>0 DEF Data
  <2> QED
      BY <2>1 DEF Chunk, Events
<1>3. TypeOK'
  <2>1. busQ' \in Seq(Chunk)
      BY <1>1, <1>2 DEF Announced
  <2>2. seq' \in Nat /\ term' \in Terminal \cup {"none"}
    <3>1. term \in Terminal \cup {"none"}
        BY <1>0 DEF Data
    <3>2. seq' = seq + 1 /\ (term' = term \/ term' \in Terminal)
        BY <1>1 DEF Announced
    <3> QED
        BY <1>2, <3>1, <3>2
  <2>3. Flags'
      BY <1>0, Zenon DEF ProducerStep, Flags
  <2>4. Data'
      BY <1>0, <2>1, <2>2 DEF ProducerStep, Data
  <2> QED
      BY <2>3, <2>4, PartsPrime
<1>4. Untouched' /\ SenderHolds'
    BY DEF ProducerStep, ChatInv, Untouched, SenderHolds, Gone
<1>5. Production' /\ Stored'
    BY DEF ProducerStep, ChatInv, Production, Stored, Running, Failures
<1>6. OneTerminal' /\ SinkUntilTerminal'
  <2>1. CASE busQ' = busQ
    <3>1. term' = term \/ term = "none"
        BY <1>1 DEF Announced
    <3>2. term = "none" =>
            /\ \A i \in 1..Len(busQ) : busQ[i].event \notin Terminal
            /\ \A i \in 1..Len(wire) : wire[i].event \notin Terminal
            /\ chunk.event \notin Terminal
        BY DEF ChatInv, OneTerminal, Terminal
    <3> QED
        BY <2>1, <3>1, <3>2 DEF ProducerStep, ChatInv, OneTerminal, SinkUntilTerminal
  <2>2. CASE busQ' # busQ
    <3>1. /\ busQ' = Append(busQ, c)
          /\ event \in Terminal => term = "none" /\ term' = event
          /\ event \notin Terminal => term' = term
        BY <1>1, <2>2 DEF Announced
    <3>2. /\ Len(busQ') = Len(busQ) + 1 /\ Len(busQ) \in Nat
          /\ \A i \in 1..Len(busQ') : busQ'[i] = IF i <= Len(busQ) THEN busQ[i] ELSE c
        BY <1>2, <3>1
    <3>3. term = "none" =>
            /\ \A i \in 1..Len(busQ) : busQ[i].event \notin Terminal
            /\ \A i \in 1..Len(wire) : wire[i].event \notin Terminal
            /\ chunk.event \notin Terminal
        BY DEF ChatInv, OneTerminal, Terminal
    <3>4. /\ UNCHANGED <<wire, chunk, sink, ctx, streaming>>
          /\ hpc = "produce" /\ hpc' \in {"produce", "persist"}
        BY DEF ProducerStep
    <3>5. CASE event \in Terminal
      <4>1. \A i \in 1..Len(busQ') : busQ'[i].event \in Terminal => i = Len(busQ) + 1
          BY <1>2, <3>1, <3>2, <3>3, <3>5
      <4>2. OneTerminal'
          BY <1>2, <3>1, <3>2, <3>3, <3>4, <3>5, <4>1 DEF ChatInv, OneTerminal
      <4>3. SinkUntilTerminal'
          BY <3>1, <3>4, <3>5 DEF ChatInv, SinkUntilTerminal
      <4> QED
          BY <4>2, <4>3
    <3>6. CASE event \notin Terminal
      <4>1. \A i \in 1..Len(busQ') : busQ'[i].event \in Terminal =>
              i \in 1..Len(busQ) /\ busQ'[i] = busQ[i]
          BY <1>2, <3>1, <3>2, <3>6
      <4> QED
          BY <1>2, <3>1, <3>2, <3>4, <3>6, <4>1 DEF ChatInv, OneTerminal, SinkUntilTerminal
    <3> QED
        BY <3>5, <3>6
  <2> QED
      BY <2>1, <2>2
<1> QED
    BY <1>3, <1>4, <1>5, <1>6 DEF ChatInv

\* What PersistOutcome stores: a terminal status, success if there was no error.
LEMMA OutcomeFacts ==
  ASSUME ChatInv, hpc = "persist"
  PROVE  LET st == IF err = Nil THEN "success"
                   ELSE IF tools \/ ~streaming THEN TaskStatusForResult(status, err)
                   ELSE TaskStatusForError(err)
         IN  st \in TaskStatuses \ {"pending", "running"} /\ (st = "success" <=> err = Nil)
<1>1. CASE err = Nil
    BY <1>1 DEF TaskStatuses
<1>2. CASE err # Nil
  <2>1. err \in Error /\ status \in Failures
      BY <1>2 DEF ChatInv, TypeOK, Production, Failures
  <2>2. err.wraps \in {"nothing", "canceled", "deadline"}
      BY <2>1 DEF Error
  <2>3. TaskStatusForError(err) \in TaskStatuses \ {"pending", "running", "success"}
      BY <1>2, <2>2 DEF TaskStatusForError, TaskStatuses
  <2>4. status # "" =>
          NormalizeTaskStatus(status) \in TaskStatuses \ {"pending", "running", "success"}
      BY <2>1 DEF Failures, NormalizeTaskStatus, Fold, TaskStatuses
  <2> QED
      BY <1>2, <2>3, <2>4 DEF TaskStatusForResult
<1> QED
    BY <1>1, <1>2

\* The other steps of the handler, and the client's.
LEMMA HandlerInv ==
  ASSUME ChatInv,
         Reject \/ Begin \/ PersistOutcome \/ Return \/ WriteResponse \/ Disconnect
  PROVE  ChatInv'
<1> USE DEF request, fanoutVars, senderVars
<1>0. Flags /\ Data
    BY Parts DEF ChatInv
<1>1. CASE Reject
  <2>a. TypeOK'
    <3>1. Flags'
        BY <1>0, <1>1, Zenon DEF Reject, Flags
    <3>2. Data'
        BY <1>0, <1>1 DEF Reject, Respond, Data
    <3> QED
        BY <3>1, <3>2, PartsPrime
  <2>b. Untouched' /\ SenderHolds'
      BY <1>1 DEF Reject, ChatInv, Untouched, SenderHolds, Gone
  <2>c. OneTerminal' /\ SinkUntilTerminal'
      BY <1>1 DEF Reject, ChatInv, Untouched, SenderHolds, OneTerminal, SinkUntilTerminal
  <2>d. Production' /\ Stored'
      BY <1>1 DEF Reject, Respond, ChatInv, Untouched, Production, Stored, Running
  <2> QED
      BY <2>a, <2>b, <2>c, <2>d DEF ChatInv
<1>2. CASE Begin
  <2>a. TypeOK'
    <3>1. Flags'
        BY <1>0, <1>2, Zenon DEF Begin, Flags
    <3>2. Data'
        BY <1>0, <1>2 DEF Begin, Persist, TaskStatuses, Data
    <3> QED
        BY <3>1, <3>2, PartsPrime
  <2>b. Untouched' /\ SenderHolds'
      BY <1>2 DEF Begin, ChatInv, Untouched, SenderHolds, Gone
  <2>c. OneTerminal' /\ SinkUntilTerminal'
      BY <1>2 DEF Begin, ChatInv, Untouched, SenderHolds, OneTerminal, SinkUntilTerminal
  <2>d. Production' /\ Stored'
      BY <1>2 DEF Begin, Persist, TaskStatuses, ChatInv, Untouched, Production, Stored, Running
  <2> QED
      BY <2>a, <2>b, <2>c, <2>d DEF ChatInv
<1>3. CASE PersistOutcome
  <2> DEFINE st == IF err = Nil THEN "success"
                   ELSE IF tools \/ ~streaming THEN TaskStatusForResult(status, err)
                   ELSE TaskStatusForError(err)
  <2>1. st \in TaskStatuses \ {"pending", "running"} /\ (st = "success" <=> err = Nil)
      BY <1>3, OutcomeFacts DEF PersistOutcome
  <2>2. \/ row' = st /\ saved' = "ok" /\ ctx = "live"
        \/ row' = row /\ saved' = "failed"
      BY <1>3 DEF PersistOutcome, Persist
  <2> HIDE DEF st
  <2>a. TypeOK'
    <3>1. Flags'
        BY <1>0, <1>3, Zenon DEF PersistOutcome, Flags
    <3>2. Data'
        BY <1>0, <1>3, <2>1, <2>2 DEF PersistOutcome, Data
    <3> QED
        BY <3>1, <3>2, PartsPrime
  <2>b. Untouched' /\ SenderHolds'
      BY <1>3 DEF PersistOutcome, ChatInv, Untouched, SenderHolds, Gone
  <2>c. OneTerminal' /\ SinkUntilTerminal'
      BY <1>3
         DEF PersistOutcome, ChatInv, Untouched, SenderHolds, OneTerminal, SinkUntilTerminal
  <2>d. Production' /\ Stored'
      BY <1>3, <2>1, <2>2 DEF PersistOutcome, ChatInv, Untouched, Production, Stored, Running
  <2> QED
      BY <2>a, <2>b, <2>c, <2>d DEF ChatInv
<1>4. CASE Return
  <2>a. TypeOK'
    <3>1. Flags'
        BY <1>0, <1>4, Zenon DEF Return, Flags
    <3>2. Data'
        BY <1>0, <1>4 DEF Return, Data
    <3> QED
        BY <3>1, <3>2, PartsPrime
  <2>b. Untouched' /\ SenderHolds'
      BY <1>4 DEF Return, ChatInv, Untouched, SenderHolds, Gone
  <2>c. OneTerminal' /\ SinkUntilTerminal'
      BY <1>4 DEF Return, ChatInv, Untouched, SenderHolds, OneTerminal, SinkUntilTerminal
  <2>d. Production' /\ Stored'
      BY <1>4 DEF Return, ChatInv, Untouched, Production, Stored, Running
  <2> QED
      BY <2>a, <2>b, <2>c, <2>d DEF ChatInv
<1>5. CASE WriteResponse
  <2>a. TypeOK'
    <3>1. Flags'
        BY <1>0, <1>5, Zenon DEF WriteResponse, Flags
    <3>2. Data'
        BY <1>0, <1>5 DEF WriteResponse, Respond, Data
    <3> QED
        BY <3>1, <3>2, PartsPrime
  <2>b. Untouched' /\ SenderHolds'
      BY <1>5 DEF WriteResponse, ChatInv, Untouched, SenderHolds, Gone
  <2>c. OneTerminal' /\ SinkUntilTerminal'
      BY <1>5
         DEF WriteResponse, ChatInv, Untouched, SenderHolds, OneTerminal, SinkUntilTerminal
  <2>d. Production' /\ Stored'
      BY <1>5 DEF WriteResponse, Respond, ChatInv, Untouched, Production, Stored, Running
  <2> QED
      BY <2>a, <2>b, <2>c, <2>d DEF ChatInv
<1>6. CASE Disconnect
  <2>a. TypeOK'
    <3>1. Flags'
        BY <1>0, <1>6, Zenon DEF Disconnect, Flags
    <3>2. Data'
      <4>1. /\ ctx' = "canceled" /\ UNCHANGED <<hpc, err, status, row, saved, reply>>
            /\ UNCHANGED <<seq, term, busQ, spc, chunk, wire>>
          BY <1>6, Zenon DEF Disconnect
      <4> QED
          BY <1>0, <4>1, DataKept
    <3> QED
        BY <3>1, <3>2, PartsPrime
  <2>b. Untouched' /\ SenderHolds'
      BY <1>6 DEF Disconnect, ChatInv, Untouched, SenderHolds, Gone
  <2>c. OneTerminal' /\ SinkUntilTerminal'
      BY <1>6 DEF Disconnect, ChatInv, Untouched, SenderHolds, OneTerminal, SinkUntilTerminal
  <2>d. Production' /\ Stored'
      BY <1>6 DEF Disconnect, ChatInv, Untouched, Production, Stored, Running
  <2> QED
      BY <2>a, <2>b, <2>c, <2>d DEF ChatInv
<1> QED
    BY <1>1, <1>2, <1>3, <1>4, <1>5, <1>6

\* The head of the bus is a chunk, and the others move up.
LEMMA TakeFacts ==
  ASSUME NEW S, NEW q \in Seq(S), q # <<>>
  PROVE  /\ Head(q) \in S /\ Head(q) = q[1] /\ Tail(q) \in Seq(S)
         /\ Len(q) \in Nat \ {0} /\ Len(Tail(q)) = Len(q) - 1
         /\ \A i \in 1..Len(Tail(q)) : Tail(q)[i] = q[i + 1] /\ i + 1 \in 1..Len(q)
OBVIOUS

\* The Sender takes a chunk off the bus: what was true of the bus is true of it.
LEMMA TakeInv == ASSUME ChatInv, SenderTake PROVE ChatInv'
<1> USE DEF request
<1>0. Flags /\ Data
    BY Parts DEF ChatInv
<1>1. /\ spc = "ready" /\ busQ # <<>> /\ busQ' = Tail(busQ) /\ term' = term /\ wire' = wire
      /\ IF sink THEN spc' = "write" /\ chunk' = Head(busQ) ELSE spc' = spc /\ chunk' = chunk
      /\ UNCHANGED <<streaming, ctx, hpc, row, saved, sink>>
    BY DEF SenderTake
<1>2. /\ Head(busQ) \in Chunk /\ Head(busQ) = busQ[1] /\ busQ' \in Seq(Chunk)
      /\ Len(busQ) \in Nat \ {0} /\ Len(busQ') = Len(busQ) - 1
      /\ \A i \in 1..Len(busQ') : busQ'[i] = busQ[i + 1] /\ i + 1 \in 1..Len(busQ)
    BY <1>0, <1>1, TakeFacts DEF Data
<1>3. TypeOK'
  <2>1. Flags'
      BY <1>0, Zenon DEF SenderTake, Flags
  <2>2. Data'
      BY <1>0, <1>2 DEF SenderTake, Data
  <2> QED
      BY <2>1, <2>2, PartsPrime
<1>4. hpc \notin {"begin", "rejected"}
    BY <1>1 DEF ChatInv, Untouched
<1>5. Untouched'
    BY <1>1, <1>4 DEF Untouched
<1>6. SenderHolds'
    BY <1>1, <1>2 DEF ChatInv, SenderHolds, Gone
<1>7. OneTerminal'
  <2>1. \A i \in 1..Len(busQ') : busQ'[i].event \in Terminal => busQ'[i].event = term
      BY <1>2 DEF ChatInv, OneTerminal
  <2>2. \A i, j \in 1..Len(busQ') :
          i # j => ~(busQ'[i].event \in Terminal /\ busQ'[j].event \in Terminal)
    <3> SUFFICES ASSUME NEW i \in 1..Len(busQ'), NEW j \in 1..Len(busQ'), i # j
                 PROVE  ~(busQ'[i].event \in Terminal /\ busQ'[j].event \in Terminal)
        OBVIOUS
    <3>1. i + 1 # j + 1
        OBVIOUS
    <3> QED
        BY <1>2, <3>1 DEF ChatInv, OneTerminal
  <2>3. chunk'.event \in Terminal =>
          chunk'.event = term /\ \A i \in 1..Len(busQ') : busQ'[i].event \notin Terminal
    <3>1. CASE sink
      <4>1. chunk' = busQ[1] /\ 1 \in 1..Len(busQ)
          BY <1>1, <1>2, <3>1
      <4>2. \A i \in 1..Len(busQ') : i + 1 # 1
          BY <1>2
      <4> QED
          BY <1>2, <4>1, <4>2 DEF ChatInv, OneTerminal
    <3>2. CASE ~sink
        BY <1>1, <1>2, <3>2 DEF ChatInv, OneTerminal
    <3> QED
        BY <3>1, <3>2
  <2> QED
      BY <1>1, <2>1, <2>2, <2>3 DEF ChatInv, OneTerminal
<1>8. SinkUntilTerminal'
    BY <1>1, <1>2 DEF ChatInv, SinkUntilTerminal
<1>9. Production' /\ Stored'
    BY DEF SenderTake, ChatInv, Production, Stored, Running
<1> QED
    BY <1>3, <1>5, <1>6, <1>7, <1>8, <1>9 DEF ChatInv

\* The Sender writes a chunk, as a frame unless it is final, or fails to.
LEMMA WriteInv == ASSUME ChatInv, SenderWrite \/ SenderWriteFails PROVE ChatInv'
<1> USE DEF request, fanoutVars
<1>0. Flags /\ Data
    BY Parts DEF ChatInv
<1>1. /\ spc = "write" /\ chunk \in Chunk /\ busQ' = busQ /\ term' = term
      /\ UNCHANGED <<streaming, tools, lossy, ctx, hpc, err, status, row, saved, seq, reply>>
      /\ chunk' = chunk \/ chunk' = NoChunk
      /\ wire' = wire \/ (chunk.event # "final" /\ wire' = wire \o <<chunk>>)
  <2>1. wire \in Seq(Chunk \cup {Done})
      BY <1>0 DEF Data
  <2>2. wire \o <<>> = wire
      BY <2>1
  <2> QED
      BY <2>2 DEF SenderWrite, SenderWriteFails, Write, ChatInv, SenderHolds
<1>2. wire' # wire => /\ wire' \in Seq(Chunk \cup {Done}) /\ Len(wire') = Len(wire) + 1
                      /\ Len(wire) \in Nat
                      /\ \A i \in 1..Len(wire') :
                           wire'[i] = IF i <= Len(wire) THEN wire[i] ELSE chunk
  <2>1. wire \in Seq(Chunk \cup {Done}) /\ chunk \in Chunk \cup {Done}
      BY <1>0, <1>1 DEF Data
  <2> QED
      BY <1>1, <2>1
<1>3. hpc \notin {"begin", "rejected"}
    BY <1>1 DEF ChatInv, Untouched
<1>4. TypeOK'
  <2>1. Flags'
      BY <1>0, Zenon DEF SenderWrite, SenderWriteFails, Flags
  <2>2. spc' \in {"ready", "write", "unregister", "close"} /\ chunk' \in Chunk \cup {NoChunk}
      BY <1>1 DEF SenderWrite, SenderWriteFails
  <2>3. wire' \in Seq(Chunk \cup {Done})
      BY <1>0, <1>2 DEF Data
  <2>4. Data'
      BY <1>0, <1>1, <2>2, <2>3 DEF Data
  <2> QED
      BY <2>1, <2>4, PartsPrime
<1>5. Untouched' /\ SenderHolds'
  <2>1. Untouched'
      BY <1>1, <1>3 DEF Untouched
  <2>2. CASE SenderWrite /\ chunk.event \in Terminal
      BY <1>1, <2>1, <2>2 DEF SenderWrite, ChatInv, SenderHolds, Gone
  <2>3. CASE SenderWrite /\ chunk.event \notin Terminal
      BY <1>1, <2>1, <2>3 DEF SenderWrite, ChatInv, SenderHolds, Gone
  <2>4. CASE SenderWriteFails
      BY <1>1, <2>1, <2>4 DEF SenderWriteFails, ChatInv, SenderHolds, Gone
  <2> QED
      BY <2>2, <2>3, <2>4
<1>6. OneTerminal'
  <2>1. chunk'.event \in Terminal => chunk'.event = chunk.event
      BY <1>1 DEF NoChunk, Terminal
  <2>2. \A i \in 1..Len(wire') :
          wire'[i].event \in Terminal => wire'[i].event = term /\ term # "final"
      BY <1>1, <1>2 DEF ChatInv, OneTerminal
  <2> QED
      BY <1>1, <2>1, <2>2 DEF ChatInv, OneTerminal
<1>7. SinkUntilTerminal'
  <2>1. CASE SenderWrite
      BY <2>1 DEF SenderWrite, ChatInv, SinkUntilTerminal
  <2>2. CASE SenderWriteFails
      BY <1>1, <1>3, <2>2 DEF SenderWriteFails, ChatInv, SenderHolds, SinkUntilTerminal
  <2> QED
      BY <2>1, <2>2
<1>8. Production' /\ Stored'
    BY <1>1 DEF ChatInv, Production, Stored, Running
<1> QED
    BY <1>4, <1>5, <1>6, <1>7, <1>8 DEF ChatInv

\* It unregisters the sink behind the terminal chunk, and then closes it.
LEMMA CloseInv == ASSUME ChatInv, SenderUnregister \/ SenderClose PROVE ChatInv'
<1> USE DEF request, fanoutVars
<1>0. Flags /\ Data
    BY Parts DEF ChatInv
<1>1. /\ spc \in {"unregister", "close"} /\ chunk.event \in Terminal
      /\ busQ' = busQ /\ term' = term
      /\ UNCHANGED <<streaming, tools, lossy, ctx, hpc, err, status, row, saved, seq, reply>>
      /\ chunk' = chunk \/ chunk' = NoChunk
      /\ wire' = wire \/ wire' = wire \o <<Done>>
    BY DEF SenderUnregister, SenderClose, Write, ChatInv, SenderHolds
<1>2. wire' # wire => /\ wire' \in Seq(Chunk \cup {Done}) /\ Len(wire') = Len(wire) + 1
                      /\ Len(wire) \in Nat
                      /\ \A i \in 1..Len(wire') :
                           wire'[i] = IF i <= Len(wire) THEN wire[i] ELSE Done
  <2>1. wire \in Seq(Chunk \cup {Done}) /\ Done \in Chunk \cup {Done}
      BY <1>0 DEF Data
  <2> QED
      BY <1>1, <2>1
<1>3. hpc \notin {"begin", "rejected"}
    BY <1>1 DEF ChatInv, Untouched
<1>4. term # "none" /\ \A i \in 1..Len(busQ) : busQ[i].event \notin Terminal
    BY <1>1 DEF ChatInv, OneTerminal, Terminal
<1>5. TypeOK'
  <2>1. Flags'
      BY <1>0, Zenon DEF SenderUnregister, SenderClose, Flags
  <2>2. spc' \in {"ready", "write", "unregister", "close"} /\ chunk' \in Chunk \cup {NoChunk}
      BY <1>0, <1>1 DEF SenderUnregister, SenderClose, Data
  <2>3. wire' \in Seq(Chunk \cup {Done})
      BY <1>0, <1>2 DEF Data
  <2>4. Data'
      BY <1>0, <1>1, <2>2, <2>3 DEF Data
  <2> QED
      BY <2>1, <2>4, PartsPrime
<1>6. Untouched' /\ SenderHolds'
    BY <1>1, <1>3 DEF SenderUnregister, SenderClose, ChatInv, Untouched, SenderHolds, Gone
<1>7. OneTerminal'
  <2>1. chunk'.event \in Terminal => chunk'.event = chunk.event
      BY <1>1 DEF NoChunk, Terminal
  <2>2. \A i \in 1..Len(wire') :
          wire'[i].event \in Terminal => wire'[i].event = term /\ term # "final"
    <3>1. Done.event \notin Terminal
        BY DEF Done, Terminal
    <3> QED
        BY <1>1, <1>2, <3>1 DEF ChatInv, OneTerminal
  <2> QED
      BY <1>1, <2>1, <2>2 DEF ChatInv, OneTerminal
<1>8. SinkUntilTerminal'
    BY <1>1, <1>4 DEF SinkUntilTerminal
<1>9. Production' /\ Stored'
    BY <1>1 DEF ChatInv, Production, Stored, Running
<1> QED
    BY <1>5, <1>6, <1>7, <1>8, <1>9 DEF ChatInv

\* The invariant of the proofs holds in every state.
LEMMA Invariance == Spec => []ChatInv
<1>1. ChatInv /\ [Next]_vars => ChatInv'
  <2> SUFFICES ASSUME ChatInv, [Next]_vars PROVE ChatInv'
      OBVIOUS
  <2>1. CASE UNCHANGED vars
    <3>1. /\ UNCHANGED <<streaming, tools, lossy, ctx, hpc, err, status, row, saved>>
          /\ UNCHANGED <<seq, term, busQ, sink, spc, chunk, wire, reply>>
        BY <2>1 DEF vars, request, fanoutVars, senderVars
    <3>2. Flags' /\ Data'
      <4>1. Flags'
          BY <3>1, Parts, Zenon DEF ChatInv, Flags
      <4>2. Data
          BY Parts DEF ChatInv
      <4>3. Data'
          BY <3>1, <4>2, DataKept DEF Data
      <4> QED
          BY <4>1, <4>3
    <3>3. Untouched' /\ SenderHolds'
        BY <3>1 DEF ChatInv, Untouched, SenderHolds, Gone
    <3>4. OneTerminal' /\ SinkUntilTerminal' /\ Production' /\ Stored'
        BY <3>1 DEF ChatInv, OneTerminal, SinkUntilTerminal, Production, Stored, Running
    <3> QED
        BY <3>2, <3>3, <3>4, PartsPrime DEF ChatInv
  <2> QED
      BY <2>1, ProducerSteps, ProducerInv, HandlerInv, TakeInv, WriteInv, CloseInv
         DEF Next, Handler, Sender
<1> QED
    BY InitInv, <1>1, PTL DEF Spec

-----------------------------------------------------------------------------
(* Safety *)

\* The gateway records a chat request as successful only if the terminal event
\* of its stream was a final one (handleStream, handleNonStream, emitTerminal).
THEOREM SuccessIsFinal == Spec => []SuccessMeansFinal
<1>1. ChatInv => SuccessMeansFinal
    BY DEF ChatInv, Stored, Production, SuccessMeansFinal, TypeOK
<1> QED
    BY Invariance, <1>1, PTL

\* While the client is connected, the handler returns only behind the terminal
\* chunk, whatever was published, lost or still on the bus (waitForSinkDrain).
THEOREM NoEarlyReturn == Spec => []DrainedBeforeReturn
<1>1. ChatInv => DrainedBeforeReturn
    BY DEF ChatInv, SenderHolds, SinkUntilTerminal, DrainedBeforeReturn
<1> QED
    BY Invariance, <1>1, PTL

\* What a connected client was told agrees with the stored row if the store took it,
\* and if it did not, the row claims no outcome (handleNonStream, handleStream,
\* taskStatusForResult, persistTaskState).
THEOREM AnswersAgree == Spec => []AnswerAgreesWithRow
<1>1. ChatInv => AnswerAgreesWithRow
  <2> SUFFICES ASSUME ChatInv, hpc = "returned", ctx = "live"
               PROVE  /\ row \in IF saved = "ok" THEN TaskStatuses \ {"pending", "running"}
                                ELSE {"none", "running"}
                      /\ streaming /\ row = "success" =>
                           \A i \in 1..Len(wire) : wire[i].event \notin Terminal
                      /\ ~streaming => (row = "success" <=> reply = "completion" /\ saved = "ok")
      BY DEF AnswerAgreesWithRow
  <2>1. /\ row \in IF saved = "ok" THEN TaskStatuses \ {"pending", "running"}
                 ELSE {"none", "running"}
        /\ row = "success" <=> err = Nil /\ saved = "ok"
      BY DEF ChatInv, Stored
  <2>2. row = "success" => \A i \in 1..Len(wire) : wire[i].event \notin Terminal
      BY <2>1 DEF ChatInv, Production, OneTerminal
  <2>3. ~streaming => (row = "success" <=> reply = "completion" /\ saved = "ok")
      BY <2>1 DEF ChatInv, Stored
  <2> QED
      BY <2>1, <2>2, <2>3
<1> QED
    BY Invariance, <1>1, PTL

-----------------------------------------------------------------------------
(* ChatStream implements StreamDelivery *)

\* What is undelivered, by phase and by what the Sender does.
LEMMA UndeliveredFacts ==
  TypeOK =>
    /\ Phase = "closed" => Undelivered = <<>>
    /\ Phase # "closed" /\ spc = "write" => Undelivered = <<chunk>> \o busQ
    /\ Phase # "closed" /\ spc # "write" => Undelivered = busQ
<1> SUFFICES ASSUME TypeOK
             PROVE  /\ Phase = "closed" => Undelivered = <<>>
                    /\ Phase # "closed" /\ spc = "write" => Undelivered = <<chunk>> \o busQ
                    /\ Phase # "closed" /\ spc # "write" => Undelivered = busQ
    OBVIOUS
<1>1. busQ \in Seq(Chunk)
    BY DEF TypeOK
<1>2. <<>> \o busQ = busQ
    BY <1>1
<1> QED
    BY <1>2 DEF Undelivered

\* The same of the next state.
LEMMA UndeliveredFactsNext ==
  TypeOK' =>
    /\ Phase' = "closed" => Undelivered' = <<>>
    /\ Phase' # "closed" /\ spc' = "write" => Undelivered' = <<chunk'>> \o busQ'
    /\ Phase' # "closed" /\ spc' # "write" => Undelivered' = busQ'
<1> SUFFICES ASSUME TypeOK'
             PROVE  /\ Phase' = "closed" => Undelivered' = <<>>
                    /\ Phase' # "closed" /\ spc' = "write" => Undelivered' = <<chunk'>> \o busQ'
                    /\ Phase' # "closed" /\ spc' # "write" => Undelivered' = busQ'
    OBVIOUS
<1>1. busQ' \in Seq(Chunk)
    BY DEF TypeOK
<1>2. <<>> \o busQ' = busQ'
    BY <1>1
<1> QED
    BY <1>2 DEF Undelivered

\* A step after which nothing reaches the client closes the stream, or leaves it closed.
LEMMA ClosingStep ==
  ASSUME ChatInv, ChatInv', Phase' = "closed", seq' = seq, wire' = wire
  PROVE  [Promise!Next]_(Promise!vars)
<1>1. Undelivered' = <<>>
    BY UndeliveredFactsNext DEF ChatInv
<1>2. CASE Phase = "closed"
  <2>1. Undelivered = <<>>
      BY <1>2, UndeliveredFacts DEF ChatInv
  <2> QED
      BY <1>1, <1>2, <2>1 DEF Promise!vars
<1>3. CASE Phase # "closed"
    BY <1>1, <1>3 DEF Promise!Close, Promise!Next
<1> QED
    BY <1>2, <1>3

\* A step that changes neither what is undelivered nor the phase is none to the client.
LEMMA StutteringStep ==
  ASSUME ChatInv, ChatInv', Phase' = Phase, seq' = seq, wire' = wire,
         Phase # "closed" => Undelivered' = Undelivered
  PROVE  [Promise!Next]_(Promise!vars)
<1>1. Undelivered' = Undelivered
    BY UndeliveredFacts, UndeliveredFactsNext DEF ChatInv
<1> QED
    BY <1>1 DEF Promise!vars

\* A producer's step produces a chunk, or one that is discarded.
LEMMA ProducerRefines ==
  ASSUME ChatInv, ChatInv', ProducerStep PROVE [Promise!Next]_(Promise!vars)
<1> USE DEF request, senderVars
<1>1. PICK event \in Events : Announced(event)
    BY DEF ProducerStep
<1>2. /\ seq' = seq + 1 /\ wire' = wire /\ spc' = spc /\ chunk' = chunk /\ Phase' = Phase
      /\ busQ' = busQ \/ busQ' = Append(busQ, [seq |-> seq + 1, event |-> event])
    BY <1>1 DEF ProducerStep, Announced, Phase, Gone
<1>3. CASE Phase = "closed"
  <2>1. Undelivered' = Undelivered
      BY <1>2, <1>3, UndeliveredFacts, UndeliveredFactsNext DEF ChatInv
  <2> QED
      BY <1>2, <1>3, <2>1 DEF Promise!Discard, Promise!Next
<1>4. CASE Phase # "closed"
  <2> DEFINE c == [seq |-> seq + 1, event |-> event]
  <2>1. busQ \in Seq(Chunk) /\ c \in Chunk /\ (spc = "write" => chunk \in Chunk)
    <3>1. busQ \in Seq(Chunk) /\ seq \in Nat /\ (spc = "write" => chunk \in Chunk)
        BY DEF ChatInv, TypeOK, SenderHolds
    <3> QED
        BY <3>1 DEF Chunk, Events
  <2>2. Undelivered' = Undelivered \/ Undelivered' = Append(Undelivered, c)
    <3>1. CASE spc = "write"
      <4>1. <<chunk>> \o Append(busQ, c) = Append(<<chunk>> \o busQ, c)
          BY <2>1, <3>1
      <4> QED
          BY <1>2, <1>4, <3>1, <4>1, UndeliveredFacts, UndeliveredFactsNext DEF ChatInv
    <3>2. CASE spc # "write"
        BY <1>2, <1>4, <3>2, UndeliveredFacts, UndeliveredFactsNext DEF ChatInv
    <3> QED
        BY <3>1, <3>2
  <2>3. event \in {"delta", "tool"} \cup Promise!Terminal
      BY DEF Events, Terminal, Promise!Terminal
  <2> QED
      BY <1>2, <1>4, <2>2, <2>3 DEF Promise!Produce, Promise!Next
<1> QED
    BY <1>3, <1>4

\* The Sender takes a chunk off the bus: it is still undelivered.
LEMMA TakeRefines ==
  ASSUME ChatInv, ChatInv', SenderTake PROVE [Promise!Next]_(Promise!vars)
<1> USE DEF request
<1>1. /\ spc = "ready" /\ busQ # <<>> /\ busQ' = Tail(busQ) /\ seq' = seq /\ wire' = wire
      /\ IF sink THEN spc' = "write" /\ chunk' = Head(busQ) ELSE spc' = spc /\ chunk' = chunk
      /\ hpc' = hpc /\ ctx' = ctx /\ sink' = sink
    BY DEF SenderTake
<1>2. hpc # "begin"
    BY <1>1 DEF ChatInv, Untouched
<1>3. Phase' = Phase
    BY <1>1, <1>2 DEF Phase, Gone
<1>4. Phase # "closed" => Undelivered' = Undelivered
  <2> SUFFICES ASSUME Phase # "closed" PROVE Undelivered' = Undelivered
      OBVIOUS
  <2>1. sink
      BY <1>1, <1>2 DEF Phase
  <2>2. busQ \in Seq(Chunk)
      BY DEF ChatInv, TypeOK
  <2>3. <<Head(busQ)>> \o Tail(busQ) = busQ
      BY <1>1, <2>2
  <2> QED
      BY <1>1, <1>3, <2>1, <2>3, UndeliveredFacts, UndeliveredFactsNext DEF ChatInv
<1> QED
    BY <1>1, <1>3, <1>4, StutteringStep

\* The Sender writes a chunk: the oldest one is delivered, unless the client is gone.
LEMMA WriteRefines ==
  ASSUME ChatInv, ChatInv', SenderWrite PROVE [Promise!Next]_(Promise!vars)
<1> USE DEF request, fanoutVars
<1>1. /\ spc = "write" /\ UNCHANGED <<busQ, seq, hpc, ctx, sink>>
      /\ spc' = IF chunk.event \in Terminal THEN "unregister" ELSE "ready"
    BY DEF SenderWrite
<1>2. hpc \notin {"begin", "rejected"}
    BY <1>1 DEF ChatInv, Untouched
<1>3. CASE Gone
  <2>1. wire' = wire
      BY <1>2, <1>3 DEF SenderWrite, Write, Gone
  <2>2. Phase' = "closed"
      BY <1>1, <1>3 DEF Phase, Gone
  <2> QED
      BY <1>1, <2>1, <2>2, ClosingStep
<1>4. CASE ~Gone
  <2>1. /\ wire' = wire \o Promise!Frame(chunk) /\ Phase = "open"
        /\ Phase' = IF chunk.event \in Terminal THEN "ending" ELSE "open"
    <3>1. sink
        BY <1>1, <1>4 DEF ChatInv, SenderHolds
    <3> QED
        BY <1>1, <1>4, <3>1 DEF SenderWrite, Write, Promise!Frame, Phase, Gone
  <2>2. busQ \in Seq(Chunk) /\ chunk \in Chunk
      BY <1>1 DEF ChatInv, TypeOK, SenderHolds
  <2>3. /\ <<chunk>> \o busQ # <<>> /\ Head(<<chunk>> \o busQ) = chunk
        /\ Tail(<<chunk>> \o busQ) = busQ
      BY <2>2
  <2>4. Undelivered = <<chunk>> \o busQ /\ Undelivered' = busQ
      BY <1>1, <2>1, UndeliveredFacts, UndeliveredFactsNext DEF ChatInv
  <2> QED
      BY <1>1, <2>1, <2>3, <2>4 DEF Promise!Deliver, Promise!Next, Promise!Terminal, Terminal
<1> QED
    BY <1>3, <1>4

\* The Sender closes the sink: the terminator ends the stream.
LEMMA CloseRefines ==
  ASSUME ChatInv, ChatInv', SenderClose PROVE [Promise!Next]_(Promise!vars)
<1> USE DEF request, fanoutVars
<1>1. /\ spc = "close" /\ UNCHANGED <<busQ, seq, hpc, ctx, sink>>
      /\ spc' = "ready" /\ ~sink
    BY DEF SenderClose, ChatInv, SenderHolds
<1>2. hpc \notin {"begin", "rejected"}
    BY <1>1 DEF ChatInv, Untouched
<1>3. Phase' = "closed"
    BY <1>1, <1>2 DEF Phase, Gone
<1>4. CASE Gone
  <2>1. wire' = wire
      BY <1>2, <1>4 DEF SenderClose, Write, Gone
  <2> QED
      BY <1>1, <1>3, <2>1, ClosingStep
<1>5. CASE ~Gone
  <2>1. wire' = wire \o <<Done>> /\ Phase = "ending"
      BY <1>1, <1>5 DEF SenderClose, Write, Phase, Gone
  <2>2. wire \in Seq(Chunk \cup {Done}) /\ Done \in Chunk \cup {Done}
      BY DEF ChatInv, TypeOK
  <2>3. wire' = Append(wire, Promise!Done)
      BY <2>1, <2>2 DEF Done, Promise!Done
  <2>4. Undelivered' = <<>>
      BY <1>3, UndeliveredFactsNext DEF ChatInv
  <2> QED
      BY <1>1, <1>3, <2>1, <2>3, <2>4 DEF Promise!Seal, Promise!Next
<1> QED
    BY <1>4, <1>5

\* The streaming chat completion keeps the promise of module StreamDelivery: its
\* initial states map to initial ones, and every step of the handler, the
\* producers, the client or the Sender to a step or a stutter (sender.go Start,
\* fanout.go emitTerminal, waitForSinkDrain).
THEOREM StreamKeepsPromise == Spec => DeliversInOrder
<1>1. Init => Promise!Init
  <2> SUFFICES ASSUME Init PROVE Promise!Init
      OBVIOUS
  <2>1. /\ seq = 0 /\ wire = <<>> /\ busQ = <<>>
        /\ ctx = "live" /\ hpc = "begin" /\ spc = "ready"
      BY Zenon DEF Init
  <2>2. Phase = "open"
      BY <2>1 DEF Phase, Gone
  <2>3. Undelivered = <<>>
      BY <2>1, <2>2, UndeliveredFacts, InitInv DEF ChatInv
  <2> QED
      BY <2>1, <2>2, <2>3 DEF Promise!Init
<1>2. ChatInv /\ ChatInv' /\ [Next]_vars => [Promise!Next]_(Promise!vars)
  <2> SUFFICES ASSUME ChatInv, ChatInv', [Next]_vars PROVE [Promise!Next]_(Promise!vars)
      OBVIOUS
  <2> USE DEF request, fanoutVars, senderVars
  <2>1. CASE Reject
    <3>1. Phase' = "closed" /\ seq' = seq /\ wire' = wire
        BY <2>1 DEF Reject, Phase, Gone
    <3> QED
        BY <3>1, ClosingStep
  <2>2. CASE Begin
    <3>1. /\ hpc = "begin" /\ spc = "ready" /\ spc' = "ready" /\ seq' = seq /\ wire' = wire
          /\ busQ' = busQ /\ ctx' = ctx /\ hpc' = "produce"
        BY <2>2 DEF Begin, ChatInv, Untouched
    <3>2. CASE Phase' = "closed"
        BY <3>1, <3>2, ClosingStep
    <3>3. CASE Phase' # "closed"
      <4>1. Phase' = Phase
          BY <3>1, <3>3 DEF Phase, Gone
      <4>2. Undelivered' = Undelivered
          BY <3>1, <3>3, <4>1, UndeliveredFacts, UndeliveredFactsNext DEF ChatInv
      <4> QED
          BY <3>1, <4>1, <4>2, StutteringStep
    <3> QED
        BY <3>2, <3>3
  <2>3. CASE PersistOutcome
    <3>1. Phase' = Phase /\ seq' = seq /\ wire' = wire /\ Undelivered' = Undelivered
        BY <2>3 DEF PersistOutcome, Phase, Gone, Undelivered
    <3> QED
        BY <3>1, StutteringStep
  <2>4. CASE Return
    <3>1. Phase' = "closed" /\ seq' = seq /\ wire' = wire
        BY <2>4 DEF Return, Phase, Gone
    <3> QED
        BY <3>1, ClosingStep
  <2>5. CASE WriteResponse
    <3>1. Phase' = "closed" /\ seq' = seq /\ wire' = wire
        BY <2>5 DEF WriteResponse, Phase, Gone
    <3> QED
        BY <3>1, ClosingStep
  <2>6. CASE Disconnect
    <3>1. Phase' = "closed" /\ seq' = seq /\ wire' = wire
        BY <2>6 DEF Disconnect, Phase, Gone
    <3> QED
        BY <3>1, ClosingStep
  <2>7. CASE SenderWriteFails
    <3>1. Phase' = "closed" /\ seq' = seq /\ wire' = wire
        BY <2>7 DEF SenderWriteFails, Phase, Gone
    <3> QED
        BY <3>1, ClosingStep
  <2>8. CASE SenderUnregister
    <3>1. Phase' = Phase /\ seq' = seq /\ wire' = wire /\ busQ' = busQ
          /\ spc = "unregister" /\ spc' = "close"
        BY <2>8 DEF SenderUnregister, Phase, Gone
    <3>2. Phase # "closed" => Undelivered' = Undelivered
        BY <3>1, UndeliveredFacts, UndeliveredFactsNext DEF ChatInv
    <3> QED
        BY <3>1, <3>2, StutteringStep
  <2>9. CASE UNCHANGED vars
    <3>1. Phase' = Phase /\ seq' = seq /\ wire' = wire /\ Undelivered' = Undelivered
        BY <2>9 DEF vars, Phase, Gone, Undelivered
    <3> QED
        BY <3>1, StutteringStep
  <2> QED
      BY <2>1, <2>2, <2>3, <2>4, <2>5, <2>6, <2>7, <2>8, <2>9, ProducerSteps, ProducerRefines,
         TakeRefines, WriteRefines, CloseRefines
         DEF Next, Handler, Sender
<1> QED
    BY Invariance, <1>1, <1>2, PTL DEF Spec, DeliversInOrder, Promise!Spec

-----------------------------------------------------------------------------
(* What the promise means *)

StreamType ==
  /\ seq \in Nat
  /\ Undelivered \in Seq(Promise!Chunk)
  /\ wire \in Seq(Promise!Chunk \cup {Promise!Done})
  /\ Phase \in {"open", "ending", "closed"}

\* Numbers in use are below the next, and what waits is numbered upwards.
Numbered ==
  /\ \A i \in 1..Len(Undelivered) : Undelivered[i].seq <= seq
  /\ \A i \in 1..Len(wire) : wire[i].seq <= seq
  /\ \A i, j \in 1..Len(Undelivered) : i < j => Undelivered[i].seq < Undelivered[j].seq

\* What was received is older than all that waits.
WireBeforeQueue ==
  \A i \in 1..Len(wire), j \in 1..Len(Undelivered) : wire[i].seq < Undelivered[j].seq

\* Before the stream is closed there is no terminator, and before it ends no
\* terminal chunk.
PhaseOfWire ==
  \A i \in 1..Len(wire) :
    /\ Phase # "closed" => wire[i] # Promise!Done
    /\ Phase = "open" => wire[i].event \notin Promise!Terminal

StreamInv ==
  /\ StreamType /\ Numbered /\ WireBeforeQueue /\ PhaseOfWire
  /\ Promise!DoneIsLast /\ Promise!FramesInOrder

\* A chunk has a number and is no terminator.
LEMMA StreamChunks ==
  ASSUME NEW c \in Promise!Chunk PROVE c # Promise!Done /\ c.seq \in Nat \ {0}
BY DEF Promise!Chunk, Promise!Done

\* Elements of the queue are chunks, frames are chunks or the terminator.
LEMMA StreamElements ==
  ASSUME StreamType
  PROVE  /\ \A i \in 1..Len(Undelivered) :
              Undelivered[i] \in Promise!Chunk /\ Undelivered[i].seq \in Nat
         /\ \A i \in 1..Len(wire) : wire[i].seq \in Nat
<1>1. \A i \in 1..Len(Undelivered) : Undelivered[i] \in Promise!Chunk
    BY DEF StreamType
<1>2. \A i \in 1..Len(wire) : wire[i] \in Promise!Chunk \cup {Promise!Done}
    BY DEF StreamType
<1>3. Promise!Done.seq \in Nat
    BY DEF Promise!Done
<1> QED
    BY <1>1, <1>2, <1>3, StreamChunks

\* The invariant holds in the initial state.
LEMMA StreamInit == Promise!Init => StreamInv
<1> SUFFICES ASSUME Promise!Init PROVE StreamInv
    OBVIOUS
<1>1. StreamType
    BY DEF Promise!Init, StreamType
<1>2. Len(Undelivered) = 0 /\ Len(wire) = 0
    BY DEF Promise!Init
<1> QED
    BY <1>1, <1>2 DEF StreamInv, Numbered, WireBeforeQueue, PhaseOfWire, Promise!DoneIsLast,
                      Promise!FramesInOrder

\* A produced chunk, published or lost, has the highest number of all.
LEMMA ProduceKeeps == StreamInv /\ (Promise!Produce \/ Promise!Discard) => StreamInv'
<1> SUFFICES ASSUME StreamInv, Promise!Produce \/ Promise!Discard PROVE StreamInv'
    OBVIOUS
<1>1. seq' = seq + 1 /\ wire' = wire /\ Phase' = Phase /\ seq \in Nat
    BY DEF Promise!Produce, Promise!Discard, StreamInv, StreamType
<1>2. /\ \A i \in 1..Len(Undelivered) : Undelivered[i].seq \in Nat
      /\ \A i \in 1..Len(wire) : wire[i].seq \in Nat
    BY StreamElements DEF StreamInv
<1>3. CASE Undelivered' = Undelivered
  <2>1. StreamType'
      BY <1>1, <1>3 DEF StreamInv, StreamType
  <2>2. Numbered'
      BY <1>1, <1>2, <1>3 DEF StreamInv, Numbered
  <2> QED
      BY <1>1, <1>3, <2>1, <2>2
         DEF StreamInv, WireBeforeQueue, PhaseOfWire, Promise!DoneIsLast, Promise!FramesInOrder
<1>4. CASE Undelivered' # Undelivered
  <2>1. PICK c \in Promise!Chunk : Undelivered' = Append(Undelivered, c) /\ c.seq = seq + 1
    <3>1. PICK e \in {"delta", "tool"} \cup Promise!Terminal :
            Undelivered' = Append(Undelivered, [seq |-> seq + 1, event |-> e])
        BY <1>4 DEF Promise!Produce, Promise!Discard
    <3>2. [seq |-> seq + 1, event |-> e] \in Promise!Chunk
        BY <1>1 DEF Promise!Chunk
    <3> QED
        BY <3>1, <3>2
  <2>2. /\ Undelivered' \in Seq(Promise!Chunk)
        /\ Len(Undelivered') = Len(Undelivered) + 1 /\ Len(Undelivered) \in Nat
        /\ \A i \in 1..Len(Undelivered) : Undelivered'[i] = Undelivered[i]
        /\ Undelivered'[Len(Undelivered) + 1] = c
      BY <2>1 DEF StreamInv, StreamType
  <2>3. StreamType'
      BY <1>1, <2>2 DEF StreamInv, StreamType
  <2>4. \A i \in 1..Len(Undelivered') :
          Undelivered'[i] = IF i <= Len(Undelivered) THEN Undelivered[i] ELSE c
      BY <2>2
  <2>5. Numbered'
      BY <1>1, <1>2, <2>1, <2>2, <2>4 DEF StreamInv, Numbered
  <2>6. WireBeforeQueue'
      BY <1>1, <1>2, <2>1, <2>2, <2>4 DEF StreamInv, Numbered, WireBeforeQueue
  <2> QED
      BY <1>1, <2>3, <2>5, <2>6
         DEF StreamInv, PhaseOfWire, Promise!DoneIsLast, Promise!FramesInOrder
<1> QED
    BY <1>3, <1>4

\* The oldest chunk that waits follows all that was received, and nothing
\* terminal was received before it.
LEMMA DeliverKeeps == StreamInv /\ Promise!Deliver => StreamInv'
<1> SUFFICES ASSUME StreamInv, Promise!Deliver PROVE StreamInv'
    OBVIOUS
<1> DEFINE c == Head(Undelivered)
<1>1. /\ Phase = "open" /\ Undelivered # <<>> /\ seq' = seq
      /\ wire' = wire \o Promise!Frame(c) /\ Undelivered' = Tail(Undelivered)
      /\ Phase' = IF c.event \in Promise!Terminal THEN "ending" ELSE "open"
    BY DEF Promise!Deliver
<1>2. /\ c \in Promise!Chunk /\ c = Undelivered[1] /\ Undelivered' \in Seq(Promise!Chunk)
      /\ Len(Undelivered') = Len(Undelivered) - 1 /\ Len(Undelivered) \in Nat \ {0}
      /\ \A j \in 1..Len(Undelivered') : Undelivered'[j] = Undelivered[j + 1]
    BY <1>1 DEF StreamInv, StreamType
<1>3. c # Promise!Done /\ c.seq \in Nat
    BY <1>2, StreamChunks
<1>4. /\ \A j \in 1..Len(Undelivered) : Undelivered[j].seq \in Nat
      /\ \A i \in 1..Len(wire) : wire[i].seq \in Nat /\ wire[i].seq < c.seq
    BY <1>2, StreamElements DEF StreamInv, WireBeforeQueue
<1>5. /\ \A j \in 1..Len(Undelivered') :
           Undelivered'[j].seq \in Nat /\ c.seq < Undelivered'[j].seq
      /\ \A i, j \in 1..Len(Undelivered') : i < j => Undelivered'[i].seq < Undelivered'[j].seq
      /\ \A j \in 1..Len(Undelivered') : Undelivered'[j].seq <= seq
  <2> SUFFICES ASSUME NEW j \in 1..Len(Undelivered')
               PROVE  /\ Undelivered'[j].seq \in Nat /\ c.seq < Undelivered'[j].seq
                      /\ \A i \in 1..Len(Undelivered') :
                           i < j => Undelivered'[i].seq < Undelivered'[j].seq
                      /\ Undelivered'[j].seq <= seq
      OBVIOUS
  <2>1. /\ j + 1 \in 1..Len(Undelivered) /\ 1 \in 1..Len(Undelivered) /\ 1 < j + 1
        /\ Undelivered'[j] = Undelivered[j + 1]
      BY <1>2
  <2>2. /\ Undelivered'[j].seq \in Nat
        /\ c.seq < Undelivered'[j].seq /\ Undelivered'[j].seq <= seq
      BY <1>2, <1>4, <2>1 DEF StreamInv, Numbered
  <2>3. ASSUME NEW i \in 1..Len(Undelivered'), i < j
        PROVE  Undelivered'[i].seq < Undelivered'[j].seq
    <3>1. i + 1 \in 1..Len(Undelivered) /\ i + 1 < j + 1 /\ Undelivered'[i] = Undelivered[i + 1]
        BY <1>2, <2>3
    <3> QED
        BY <2>1, <3>1 DEF StreamInv, Numbered
  <2> QED
      BY <2>2, <2>3
<1>6. c.seq <= seq
    BY <1>2 DEF StreamInv, Numbered
<1>7. Phase' \in {"open", "ending"}
    BY <1>1
<1>8. CASE c.event = "final"
  <2>1. wire' = wire
      BY <1>1, <1>8 DEF Promise!Frame, StreamInv, StreamType
  <2>2. StreamType'
      BY <1>1, <1>2, <1>7, <2>1 DEF StreamInv, StreamType
  <2>3. Numbered'
      BY <1>1, <1>5, <2>1 DEF StreamInv, Numbered
  <2>4. WireBeforeQueue'
    <3>1. ASSUME NEW i \in 1..Len(wire), NEW j \in 1..Len(Undelivered')
          PROVE  wire[i].seq < Undelivered'[j].seq
        BY <1>3, <1>4, <1>5
    <3> QED
        BY <2>1, <3>1 DEF WireBeforeQueue
  <2>5. PhaseOfWire'
      BY <1>1, <1>7, <2>1 DEF StreamInv, PhaseOfWire
  <2> QED
      BY <2>1, <2>2, <2>3, <2>4, <2>5 DEF StreamInv, Promise!DoneIsLast, Promise!FramesInOrder
<1>9. CASE c.event # "final"
  <2>1. wire' = wire \o <<c>>
      BY <1>1, <1>9 DEF Promise!Frame
  <2>2. /\ wire' \in Seq(Promise!Chunk \cup {Promise!Done})
        /\ Len(wire') = Len(wire) + 1 /\ Len(wire) \in Nat
        /\ \A i \in 1..Len(wire') : wire'[i] = IF i <= Len(wire) THEN wire[i] ELSE c
      BY <1>2, <2>1 DEF StreamInv, StreamType
  <2>3. StreamType'
      BY <1>1, <1>2, <1>7, <2>2 DEF StreamInv, StreamType
  <2>4. Numbered'
    <3>1. \A i \in 1..Len(wire') : wire'[i].seq <= seq
        BY <1>6, <2>2 DEF StreamInv, Numbered
    <3> QED
        BY <1>1, <1>5, <3>1 DEF Numbered
  <2>5. WireBeforeQueue'
      BY <1>3, <1>4, <1>5, <2>2 DEF WireBeforeQueue
  <2>6. PhaseOfWire'
      BY <1>1, <1>3, <1>7, <2>2 DEF StreamInv, PhaseOfWire
  <2>7. \A i \in 1..Len(wire') : wire'[i] # Promise!Done
      BY <1>1, <1>3, <2>2 DEF StreamInv, PhaseOfWire
  <2>8. Promise!FramesInOrder'
      BY <1>1, <1>3, <1>4, <2>2 DEF StreamInv, PhaseOfWire, Promise!FramesInOrder
  <2> QED
      BY <2>3, <2>4, <2>5, <2>6, <2>7, <2>8 DEF StreamInv, Promise!DoneIsLast
<1> QED
    BY <1>8, <1>9

\* Closing adds the terminator, once, or nothing.
LEMMA SealKeeps == StreamInv /\ (Promise!Seal \/ Promise!Close) => StreamInv'
<1> SUFFICES ASSUME StreamInv, Promise!Seal \/ Promise!Close PROVE StreamInv'
    OBVIOUS
<1>1. Phase # "closed" /\ Phase' = "closed" /\ Undelivered' = <<>> /\ seq' = seq
    BY DEF Promise!Seal, Promise!Close
<1>2. Len(Undelivered') = 0 /\ Undelivered' \in Seq(Promise!Chunk)
    BY <1>1
<1>3. CASE wire' = wire
    BY <1>1, <1>2, <1>3
       DEF StreamInv, StreamType, Numbered, WireBeforeQueue, PhaseOfWire, Promise!DoneIsLast,
           Promise!FramesInOrder
<1>4. CASE wire' # wire
  <2>1. wire' = Append(wire, Promise!Done)
      BY <1>4 DEF Promise!Seal, Promise!Close
  <2>2. /\ wire' \in Seq(Promise!Chunk \cup {Promise!Done})
        /\ Len(wire') = Len(wire) + 1 /\ Len(wire) \in Nat
        /\ \A i \in 1..Len(wire') : wire'[i] = IF i <= Len(wire) THEN wire[i] ELSE Promise!Done
      BY <2>1 DEF StreamInv, StreamType
  <2>3. \A i \in 1..Len(wire) : wire[i] # Promise!Done
      BY <1>1 DEF StreamInv, PhaseOfWire
  <2>4. StreamType'
      BY <1>1, <1>2, <2>2 DEF StreamInv, StreamType
  <2>5. Numbered'
    <3>1. Promise!Done.seq = 0 /\ seq \in Nat
        BY DEF Promise!Done, StreamInv, StreamType
    <3> QED
        BY <1>1, <1>2, <2>2, <3>1 DEF StreamInv, Numbered
  <2>6. WireBeforeQueue' /\ PhaseOfWire'
      BY <1>1, <1>2 DEF WireBeforeQueue, PhaseOfWire
  <2>7. Promise!DoneIsLast' /\ Promise!FramesInOrder'
      BY <2>2, <2>3 DEF StreamInv, Promise!DoneIsLast, Promise!FramesInOrder
  <2> QED
      BY <2>4, <2>5, <2>6, <2>7 DEF StreamInv
<1> QED
    BY <1>3, <1>4

\* A stream that keeps the promise is one: its client receives chunks in the
\* order they were numbered, none twice, one terminator at most, and nothing
\* after a terminal chunk but that.
LEMMA PromiseMeans == Promise!Spec => [](Promise!DoneIsLast /\ Promise!FramesInOrder)
<1>1. StreamInv /\ [Promise!Next]_(Promise!vars) => StreamInv'
  <2> SUFFICES ASSUME StreamInv, [Promise!Next]_(Promise!vars) PROVE StreamInv'
      OBVIOUS
  <2>1. CASE UNCHANGED Promise!vars
      BY <2>1 DEF Promise!vars, StreamInv, StreamType, Numbered, WireBeforeQueue, PhaseOfWire,
                  Promise!DoneIsLast, Promise!FramesInOrder
  <2> QED
      BY <2>1, ProduceKeeps, DeliverKeeps, SealKeeps DEF Promise!Next
<1>2. StreamInv => Promise!DoneIsLast /\ Promise!FramesInOrder
    BY DEF StreamInv
<1> QED
    BY StreamInit, <1>1, <1>2, PTL DEF Promise!Spec

\* A client of the gateway sees one stream: what WriteChunk and Close put on the
\* response, for any number of chunks, publish errors and disconnects.
THEOREM ClientSeesOneStream == Spec => [](Promise!DoneIsLast /\ Promise!FramesInOrder)
BY StreamKeepsPromise, PromiseMeans, PTL DEF DeliversInOrder
=============================================================================
