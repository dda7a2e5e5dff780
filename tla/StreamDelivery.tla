--------------------------- MODULE StreamDelivery ---------------------------
(***************************************************************************)
(* What a streaming response promises its client: chunks are numbered in   *)
(* the order they are produced and arrive in that order, without gaps      *)
(* other than chunks that were never published; the first terminal chunk   *)
(* ends the stream, [DONE] may follow it, and nothing follows that.        *)
(* Module ChatStream implements this.                                      *)
(***************************************************************************)
EXTENDS Naturals, Sequences

VARIABLES
  last,    \* the number of the last chunk produced
  queue,   \* chunks published and not yet delivered
  wire,    \* frames the client received
  phase    \* "open", "ending" after the terminal chunk, or "closed"

vars == <<last, queue, wire, phase>>

Terminal == {"final", "error", "timeout", "cancelled"}

Chunk == [seq : Nat \ {0}, event : {"delta", "tool"} \cup Terminal]

Done == [seq |-> 0, event |-> "[DONE]"]

\* The frame of a chunk: a final one has none.
Frame(c) == IF c.event = "final" THEN <<>> ELSE <<c>>

Init == last = 0 /\ queue = <<>> /\ wire = <<>> /\ phase = "open"

\* A chunk takes the next number; it is published, or lost.
Produce ==
  /\ phase # "closed"
  /\ last' = last + 1
  /\ \/ \E e \in {"delta", "tool"} \cup Terminal :
          queue' = Append(queue, [seq |-> last + 1, event |-> e])
     \/ UNCHANGED queue
  /\ UNCHANGED <<wire, phase>>

Deliver ==
  /\ phase = "open" /\ queue # <<>>
  /\ wire' = wire \o Frame(Head(queue))
  /\ queue' = Tail(queue)
  /\ phase' = IF Head(queue).event \in Terminal THEN "ending" ELSE "open"
  /\ UNCHANGED last

Seal ==
  /\ phase = "ending"
  /\ wire' = Append(wire, Done)
  /\ phase' = "closed" /\ queue' = <<>>
  /\ UNCHANGED last

\* The client is gone, or the handler has returned: what was not delivered is
\* discarded, and so is what is produced from now on.
Close ==
  /\ phase # "closed"
  /\ phase' = "closed" /\ queue' = <<>>
  /\ UNCHANGED <<last, wire>>

Discard ==
  /\ phase = "closed"
  /\ last' = last + 1
  /\ UNCHANGED <<queue, wire, phase>>

Next == Produce \/ Deliver \/ Seal \/ Close \/ Discard

Spec == Init /\ [][Next]_vars

-----------------------------------------------------------------------------
\* At most one transport terminator, and nothing after it.
DoneIsLast == \A i \in 1..Len(wire) : wire[i] = Done => i = Len(wire)

\* The client sees chunks in the order they were numbered, none twice, and
\* nothing but the terminator after a terminal one.
FramesInOrder ==
  \A i, j \in 1..Len(wire) : i < j /\ wire[j] # Done =>
    wire[i].seq < wire[j].seq /\ wire[i].event \notin Terminal
=============================================================================
