---------------------------- MODULE ApprovalGate ----------------------------
(***************************************************************************)
(* internal/skill/approval_gate.go: the rendezvous between WaitDecision    *)
(* callers (one per tool call that writes) and the goroutine that consumes *)
(* the "approvals" topic.  Each critical section of the gate's mutex is    *)
(* one action, so callers and the consumer interleave between them.        *)
(*                                                                         *)
(* A call is one invocation of WaitDecision, a decision one message of the *)
(* topic; a webhook posted twice is two decisions with equal contents.     *)
(* Decisions that fail to parse or Validate are skipped by consume and are *)
(* not in Decisions.  The order of the waiters of a key is not observable, *)
(* so they form a set.                                                     *)
(***************************************************************************)
EXTENDS Naturals, Sequences

CONSTANTS
  Calls, Decisions,
  Keys,        \* approvalKey: TaskID + ":" + ToolCallID
  Traces,      \* trace ids
  NoTrace,     \* the empty trace id
  CallKey, CallTrace, DecisionKey, DecisionTrace,
  Refused,     \* calls whose request fails Validate, or a gate with startErr
  None

ASSUME GateAssumption ==
  /\ CallKey \in [Calls -> Keys]
  /\ CallTrace \in [Calls -> Traces \cup {NoTrace}]
  /\ DecisionKey \in [Decisions -> Keys]
  /\ DecisionTrace \in [Decisions -> Traces \cup {NoTrace}]
  /\ Refused \subseteq Calls
  /\ None \notin Decisions
  /\ {"timeout", "cancelled", "error"} \cap (Decisions \cup {None}) = {}

VARIABLES
  pc,        \* where each call is in WaitDecision
  pending,   \* g.pending: decisions nobody was waiting for, per key
  waiters,   \* g.waiters: the registered calls
  ch,        \* the one-slot channel of each call
  result,    \* what each call returned
  routed,    \* decisions the consumer has taken from the topic (history)
  before     \* <<e, d>>: e was taken from the topic before d (history)

vars == <<pc, pending, waiters, ch, result, routed, before>>
history == <<routed, before>>

Outcomes == Decisions \cup {None, "timeout", "cancelled", "error"}

\* Type invariant: the gate's maps and channels, and the outcomes WaitDecision can
\* return (approval_gate.go).
TypeOK ==
  /\ pc \in [Calls -> {"idle", "first", "added", "select", "leaving", "done"}]
  /\ pending \in [Keys -> Seq(Decisions)]
  /\ waiters \subseteq Calls
  /\ ch \in [Calls -> Decisions \cup {None}]
  /\ result \in [Calls -> Outcomes]
  /\ routed \subseteq Decisions
  /\ before \subseteq Decisions \X Decisions

\* approvalTraceMatches: an empty trace id on either side matches any.
TraceMatches(expected, actual) ==
  expected = NoTrace \/ actual = NoTrace \/ expected = actual

Matches(c, d) ==
  /\ CallKey[c] = DecisionKey[d]
  /\ TraceMatches(CallTrace[c], DecisionTrace[d])

PendingOf(c) == pending[CallKey[c]]

Init ==
  /\ pc = [c \in Calls |-> "idle"]
  /\ pending = [k \in Keys |-> <<>>]
  /\ waiters = {}
  /\ ch = [c \in Calls |-> None]
  /\ result = [c \in Calls |-> None]
  /\ routed = {}
  /\ before = {}

-----------------------------------------------------------------------------
(* WaitDecision *)

Goto(c, l) == pc' = [pc EXCEPT ![c] = l]

Return(c, r) == result' = [result EXCEPT ![c] = r]

\* Mutant of Hit: the first decision of the key is taken, whatever its trace.
HitAnyTrace(c, i) == i = 1 /\ i \in DOMAIN PendingOf(c)

\* Mutant of Hit: the latest matching decision is taken.
HitLatest(c, i) ==
  /\ i \in DOMAIN PendingOf(c)
  /\ Matches(c, PendingOf(c)[i])
  /\ \A j \in (i + 1)..Len(PendingOf(c)) : ~Matches(c, PendingOf(c)[j])

\* takePendingDecision finds the first matching decision, at index i: it is
\* removed, and only the non-matching decisions before it are kept.
Hit(c, i) ==
  /\ i \in DOMAIN PendingOf(c)
  /\ Matches(c, PendingOf(c)[i])
  /\ \A j \in 1..(i - 1) : ~Matches(c, PendingOf(c)[j])

TakePending(c, i) ==
  /\ Hit(c, i)
  /\ pending' = [pending EXCEPT ![CallKey[c]] = SubSeq(@, 1, i - 1)]
  /\ Return(c, PendingOf(c)[i])

Miss(c) == \A i \in DOMAIN PendingOf(c) : ~Matches(c, PendingOf(c)[i])

\* The request fails Validate or the gate has a startErr.
Refuse(c) ==
  /\ pc[c] = "idle" /\ c \in Refused
  /\ Goto(c, "done") /\ Return(c, "error")
  /\ UNCHANGED <<pending, waiters, ch, history>>

\* First look at the buffer; nothing is registered yet, so a hit just returns.
TakeFirst(c) ==
  /\ pc[c] = "idle" /\ c \notin Refused
  /\ \/ /\ \E i \in DOMAIN PendingOf(c) : TakePending(c, i)
        /\ Goto(c, "done")
     \/ /\ Miss(c)
        /\ Goto(c, "first")
        /\ UNCHANGED <<pending, result>>
  /\ UNCHANGED <<waiters, ch, history>>

\* Mutant of AddWaiter: the buffer is not looked at again.
AddWaiterAndBlock(c) ==
  /\ pc[c] = "first"
  /\ waiters' = waiters \cup {c}
  /\ Goto(c, "select")
  /\ UNCHANGED <<pending, ch, result, history>>

AddWaiter(c) ==
  /\ pc[c] = "first"
  /\ waiters' = waiters \cup {c}
  /\ Goto(c, "added")
  /\ UNCHANGED <<pending, ch, result, history>>

\* Second look, now that the consumer can see the waiter.
TakeSecond(c) ==
  /\ pc[c] = "added"
  /\ \/ /\ \E i \in DOMAIN PendingOf(c) : TakePending(c, i)
        /\ Goto(c, "leaving")
     \/ /\ Miss(c)
        /\ Goto(c, "select")
        /\ UNCHANGED <<pending, result>>
  /\ UNCHANGED <<waiters, ch, history>>

\* The three branches of the select; when several are ready Go picks any.
Receive(c) ==
  /\ pc[c] = "select" /\ ch[c] # None
  /\ Goto(c, "leaving") /\ Return(c, ch[c])
  /\ UNCHANGED <<pending, waiters, ch, history>>

\* Mutant of Timeout: the deadline is only noticed when a decision arrives.
TimeoutOnArrival(c) ==
  /\ pc[c] = "select" /\ ch[c] # None
  /\ Goto(c, "leaving") /\ Return(c, "timeout")
  /\ UNCHANGED <<pending, waiters, ch, history>>

Timeout(c) ==
  /\ pc[c] = "select"
  /\ Goto(c, "leaving") /\ Return(c, "timeout")
  /\ UNCHANGED <<pending, waiters, ch, history>>

Cancel(c) ==
  /\ pc[c] = "select"
  /\ Goto(c, "leaving") /\ Return(c, "cancelled")
  /\ UNCHANGED <<pending, waiters, ch, history>>

\* Mutant of RemoveWaiter: the deferred call is missing.
KeepWaiter(c) ==
  /\ pc[c] = "leaving"
  /\ Goto(c, "done")
  /\ UNCHANGED <<pending, waiters, ch, result, history>>

\* The deferred removeWaiter.
RemoveWaiter(c) ==
  /\ pc[c] = "leaving"
  /\ waiters' = waiters \ {c}
  /\ Goto(c, "done")
  /\ UNCHANGED <<pending, ch, result, history>>

-----------------------------------------------------------------------------
(* The consumer *)

Record(d) == routed' = routed \cup {d} /\ before' = before \cup (routed \X {d})

\* Mutant of RouteDecision: a decision nobody waits for is dropped.
RouteDecisionUnbuffered(d) ==
  LET matching == {c \in waiters : Matches(c, d)}
      getting  == {c \in matching : ch[c] = None}
  IN  /\ d \notin routed
      /\ Record(d)
      /\ waiters' = waiters \ matching
      /\ ch' = [c \in Calls |-> IF c \in getting THEN d ELSE ch[c]]
      /\ UNCHANGED <<pc, result, pending>>

\* routeDecision: every matching waiter is unregistered and gets the decision
\* if its channel is free; when nobody got it, it is buffered.
RouteDecision(d) ==
  LET matching == {c \in waiters : Matches(c, d)}
      getting  == {c \in matching : ch[c] = None}
  IN  /\ d \notin routed
      /\ Record(d)
      /\ waiters' = waiters \ matching
      /\ ch' = [c \in Calls |-> IF c \in getting THEN d ELSE ch[c]]
      /\ pending' = IF getting = {}
                      THEN [pending EXCEPT ![DecisionKey[d]] = Append(@, d)]
                      ELSE pending
      /\ UNCHANGED <<pc, result>>

Step(c) ==
  \/ Refuse(c) \/ TakeFirst(c) \/ AddWaiter(c) \/ TakeSecond(c)
  \/ Receive(c) \/ Timeout(c) \/ RemoveWaiter(c)

Next ==
  \/ \E c \in Calls : Step(c) \/ Cancel(c)
  \/ \E d \in Decisions : RouteDecision(d)

Spec == Init /\ [][Next]_vars

\* Goroutines keep running and the five-minute timer fires; nobody owes the
\* gate a decision, nor a caller its cancellation.
FairSpec == Spec /\ \A c \in Calls : WF_vars(Step(c))

-----------------------------------------------------------------------------
(* Properties *)

\* No lost wake-up: a call blocked in the select with an empty channel has no
\* matching decision sitting in the buffer.  This is what looking at the
\* buffer again after addWaiter is for (approval_gate.go:62-71).
NoMissedDecision ==
  \A c \in Calls : pc[c] = "select" /\ ch[c] = None => Miss(c)

\* A call only ever returns a decision for its own task and tool call whose
\* trace id does not contradict the request's, through either path.
AnswerMatchesRequest ==
  \A c \in Calls : result[c] \in Decisions => Matches(c, result[c])

\* A registered waiter always has a free channel, so the default branch of
\* routeDecision never swallows a decision; and once WaitDecision returned,
\* nothing of the call stays registered.
WaiterRegistration ==
  \A c \in waiters : ch[c] = None /\ pc[c] \in {"added", "select", "leaving"}

Buffered(d) ==
  \E i \in DOMAIN pending[DecisionKey[d]] : pending[DecisionKey[d]][i] = d

\* The decision can still answer a call, or has.  The channel of a call that
\* has left the select does not count: nobody reads it.
Kept(d) ==
  \/ Buffered(d)
  \/ \E c \in Calls :
       result[c] = d \/ (ch[c] = d /\ pc[c] \in {"added", "select"})

\* Where a decision can disappear: a call of the same key has an answer (it was
\* buffered behind that answer, and takePendingDecision keeps only what precedes
\* the match, or the second look found another one first), or it lies in the
\* channel of a call that took its timer or its context instead.  A decision
\* nobody waits for, or whose waiter is still there, is never lost.
LostOnlyBehindOutcome ==
  \A d \in routed : ~Kept(d) =>
    \E c \in Calls :
      \/ result[c] \in Decisions /\ CallKey[c] = DecisionKey[d]
      \/ result[c] \in {"timeout", "cancelled"} /\ ch[c] = d

\* No call overtakes the buffer: when WaitDecision returned a decision, none
\* that matches the request and came earlier is left behind, where a later
\* wait on the same tool call would take it for its answer.
NoOlderLeftBehind ==
  \A c \in Calls : \A e \in Decisions :
    /\ result[c] \in Decisions
    /\ Matches(c, e)
    /\ <<e, result[c]>> \in before
    => ~Buffered(e)

\* Every WaitDecision returns.
EveryCallReturns == \A c \in Calls : (pc[c] # "idle") ~> (pc[c] = "done")
=============================================================================
