------------------------- MODULE ApprovalGateProofs -------------------------
(***************************************************************************)
(* Safety of the approval rendezvous for any number of calls, decisions,   *)
(* keys and traces, and of the webhook in front of it for any number of    *)
(* posts and nonces.                                                       *)
(***************************************************************************)
EXTENDS ApprovalWebhook, TLAPS

\* How far a call has come determines its registration, channel and result:
\* a waiter is visible to the consumer from addWaiter until either the
\* consumer or the deferred removeWaiter takes it away, and it loses its place
\* only by being handed a decision.
CallProgress ==
  \A c \in Calls :
    /\ pc[c] \in {"idle", "first"} => c \notin waiters /\ ch[c] = None
    /\ pc[c] \in {"added", "select"} => (c \in waiters <=> ch[c] = None)
    /\ pc[c] = "done" => c \notin waiters
    /\ pc[c] \notin {"leaving", "done"} => result[c] = None

\* A call that leaves the select, or the second look, has its outcome.
LeavesWithOutcome ==
  \A c \in Calls :
    pc[c] = "leaving" => result[c] \in Decisions \cup {"timeout", "cancelled"}

\* What travels through a channel matches the request that waits on it.
ChannelMatches == \A c \in Calls : ch[c] # None => Matches(c, ch[c])

GateInv ==
  /\ TypeOK
  /\ CallProgress
  /\ LeavesWithOutcome
  /\ WaiterRegistration
  /\ ChannelMatches
  /\ NoMissedDecision
  /\ AnswerMatchesRequest
  /\ LostOnlyBehindOutcome

\* The invariant holds when NewApprovalGate returns.
LEMMA InitGateInv == Init => GateInv
<1> USE GateAssumption
<1> SUFFICES ASSUME Init PROVE GateInv
  OBVIOUS
<1>1. TypeOK
  BY DEF Init, TypeOK, Outcomes
<1>2. CallProgress /\ LeavesWithOutcome /\ WaiterRegistration /\ ChannelMatches
  BY DEF Init, CallProgress, LeavesWithOutcome, WaiterRegistration, ChannelMatches
<1>3. NoMissedDecision /\ AnswerMatchesRequest /\ LostOnlyBehindOutcome
  BY DEF Init, NoMissedDecision, AnswerMatchesRequest, LostOnlyBehindOutcome
<1>4. QED
  BY <1>1, <1>2, <1>3 DEF GateInv

\* What the loss of a decision is excused by.
Excused(d) ==
  \E c \in Calls :
    \/ result[c] \in Decisions /\ CallKey[c] = DecisionKey[d]
    \/ result[c] \in {"timeout", "cancelled"} /\ ch[c] = d

\* A decision stays accounted for when pending and ch are untouched and a call
\* that had returned nothing returns something: what its channel holds, unless
\* the timer or the context came first.
LEMMA ReturnKeepsAccount ==
  ASSUME GateInv, NEW c \in Calls, NEW r \in Outcomes, Return(c, r),
         result[c] = None, UNCHANGED <<pending, ch, routed>>,
         \A b \in Calls : b # c => pc'[b] = pc[b],
         ch[c] # None => r = ch[c] \/ r \in {"timeout", "cancelled"}
  PROVE  LostOnlyBehindOutcome'
<1> USE GateAssumption DEF GateInv
<1>1. result'[c] = r /\ \A b \in Calls : b # c => result'[b] = result[b]
  BY DEF Return, TypeOK
<1>2. SUFFICES ASSUME NEW d \in routed', ~Kept(d)'
               PROVE  Excused(d)'
  BY DEF LostOnlyBehindOutcome, Excused
<1>3. d \in routed /\ d \in Decisions /\ d # None
  BY <1>2 DEF TypeOK
<1>4. CASE ch[c] = d
  <2>1. r # d
    BY <1>1, <1>2 DEF Kept
  <2>2. QED
    BY <1>1, <1>3, <1>4, <2>1 DEF Excused
<1>5. CASE ch[c] # d
  <2>1. ~Kept(d)
    BY <1>1, <1>2, <1>3, <1>5 DEF Kept, Buffered
  <2>2. Excused(d)
    BY <1>3, <2>1 DEF LostOnlyBehindOutcome, Excused
  <2>3. PICK b \in Calls :
          \/ result[b] \in Decisions /\ CallKey[b] = DecisionKey[d]
          \/ result[b] \in {"timeout", "cancelled"} /\ ch[b] = d
    BY <2>2 DEF Excused
  <2>4. b # c
    BY <2>3
  <2>5. result'[b] = result[b] /\ ch'[b] = ch[b]
    BY <1>1, <2>4
  <2>6. QED
    BY <2>3, <2>5 DEF Excused
<1>6. QED
  BY <1>4, <1>5

\* takePendingDecision, on a hit.
LEMMA TakePendingEffect ==
  ASSUME GateInv, NEW c \in Calls, NEW i \in DOMAIN PendingOf(c),
         TakePending(c, i), result[c] = None, UNCHANGED <<ch, routed>>,
         \A b \in Calls : b # c => pc'[b] = pc[b]
  PROVE  /\ pending' \in [Keys -> Seq(Decisions)]
         /\ result' \in [Calls -> Outcomes]
         /\ result'[c] \in Decisions /\ Matches(c, result'[c])
         /\ \A b \in Calls : b # c => result'[b] = result[b]
         /\ \A b \in Calls : Miss(b) => Miss(b)'
         /\ Miss(c)'
         /\ LostOnlyBehindOutcome'
<1> USE GateAssumption DEF GateInv
<1> DEFINE k == CallKey[c]
<1>1. /\ k \in Keys /\ pending[k] \in Seq(Decisions)
      /\ i \in 1..Len(pending[k]) /\ pending[k][i] \in Decisions
  BY DEF TypeOK, PendingOf
<1>2. /\ SubSeq(pending[k], 1, i - 1) \in Seq(Decisions)
      /\ Len(SubSeq(pending[k], 1, i - 1)) = i - 1
      /\ \A j \in 1..(i - 1) : SubSeq(pending[k], 1, i - 1)[j] = pending[k][j]
  BY <1>1
<1>3. pending' = [pending EXCEPT ![k] = SubSeq(pending[k], 1, i - 1)]
  BY DEF TakePending
<1>4. pending' \in [Keys -> Seq(Decisions)]
  BY <1>1, <1>2, <1>3 DEF TypeOK
<1>5. /\ result' \in [Calls -> Outcomes]
      /\ result'[c] = pending[k][i]
      /\ \A b \in Calls : b # c => result'[b] = result[b]
  BY <1>1 DEF TakePending, Return, PendingOf, TypeOK, Outcomes
<1>6. Matches(c, result'[c])
  BY <1>5 DEF TakePending, Hit, PendingOf
<1>7. ASSUME NEW b \in Calls, Miss(b)
      PROVE  Miss(b)'
  <2>1. CASE CallKey[b] = k
    <3>1. \A j \in 1..Len(pending[k]) : ~Matches(b, pending[k][j])
      BY <1>1, <1>7, <2>1 DEF Miss, PendingOf
    <3>2. pending'[k] = SubSeq(pending[k], 1, i - 1)
      BY <1>1, <1>3 DEF TypeOK
    <3>3. \A j \in 1..(i - 1) : ~Matches(b, pending'[k][j])
      BY <1>1, <1>2, <3>1, <3>2
    <3>4. DOMAIN pending'[k] = 1..(i - 1)
      BY <1>1, <1>2, <3>2
    <3>5. QED
      BY <2>1, <3>3, <3>4 DEF Miss, PendingOf, Matches
  <2>2. CASE CallKey[b] # k
    <3>1. pending'[CallKey[b]] = pending[CallKey[b]]
      BY <1>3, <2>2 DEF TypeOK
    <3>2. QED
      BY <1>7, <3>1 DEF Miss, PendingOf, Matches
  <2>3. QED
    BY <2>1, <2>2
<1>8. LostOnlyBehindOutcome'
  <2> SUFFICES ASSUME NEW d \in routed', ~Kept(d)'
               PROVE  Excused(d)'
    BY DEF LostOnlyBehindOutcome, Excused
  <2>1. d \in routed /\ d \in Decisions /\ d # None
    BY DEF TypeOK
  <2>2. CASE DecisionKey[d] = k
    BY <1>1, <1>5, <2>2 DEF Excused
  <2>3. CASE DecisionKey[d] # k
    <3>1. pending'[DecisionKey[d]] = pending[DecisionKey[d]]
      BY <1>3, <2>1, <2>3 DEF TypeOK
    <3>2. ch[c] # d
      BY <2>1, <2>3 DEF ChannelMatches, Matches
    <3>3. ~Kept(d)
      BY <1>5, <2>1, <3>1, <3>2 DEF Kept, Buffered
    <3>4. Excused(d)
      BY <2>1, <3>3 DEF LostOnlyBehindOutcome, Excused
    <3>5. PICK b \in Calls :
            \/ result[b] \in Decisions /\ CallKey[b] = DecisionKey[d]
            \/ result[b] \in {"timeout", "cancelled"} /\ ch[b] = d
      BY <3>4 DEF Excused
    <3>6. b # c
      BY <3>5
    <3>7. result'[b] = result[b] /\ ch'[b] = ch[b]
      BY <1>5, <3>6
    <3>8. QED
      BY <3>5, <3>7 DEF Excused
  <2>4. QED
    BY <2>2, <2>3
\* Only what precedes the first match is left.
<1>9. Miss(c)'
  <2>1. \A j \in 1..(i - 1) : ~Matches(c, pending[k][j])
    BY DEF TakePending, Hit, PendingOf
  <2>2. pending'[k] = SubSeq(pending[k], 1, i - 1)
    BY <1>1, <1>3 DEF TypeOK
  <2>3. DOMAIN pending'[k] = 1..(i - 1)
    BY <1>1, <1>2, <2>2
  <2>4. \A j \in 1..(i - 1) : ~Matches(c, pending'[k][j])
    BY <1>2, <2>1, <2>2
  <2>5. QED
    BY <2>3, <2>4 DEF Miss, PendingOf, Matches
<1>10. QED
  BY <1>1, <1>4, <1>5, <1>6, <1>7, <1>8, <1>9

\* TakeFirst and TakeSecond share their proof: after a hit the call leaves,
\* after a miss it goes on, and only now is it known to have missed nothing.
LEMMA TakePreserves ==
  ASSUME GateInv, NEW c \in Calls, TakeFirst(c) \/ TakeSecond(c)
  PROVE  GateInv'
<1> USE GateAssumption DEF GateInv
<1>1. /\ pc[c] \in {"idle", "added"} /\ result[c] = None
      /\ UNCHANGED <<waiters, ch, history>>
  BY DEF TakeFirst, TakeSecond, CallProgress
<1>2. CASE \E i \in DOMAIN PendingOf(c) : TakePending(c, i)
  <2>1. PICK i \in DOMAIN PendingOf(c) : TakePending(c, i)
    BY <1>2
  <2>2. /\ pending' \in [Keys -> Seq(Decisions)]
        /\ result' \in [Calls -> Outcomes]
        /\ result'[c] \in Decisions /\ Matches(c, result'[c])
        /\ \A b \in Calls : b # c => result'[b] = result[b]
        /\ \A b \in Calls : Miss(b) => Miss(b)'
        /\ LostOnlyBehindOutcome'
    <3>1. \A b \in Calls : b # c => pc'[b] = pc[b]
      BY DEF TakeFirst, TakeSecond, Goto, TypeOK
    <3>2. QED
      BY <1>1, <2>1, <3>1, TakePendingEffect DEF history
  <2>3. Hit(c, i)
    BY <2>1 DEF TakePending
  <2>4. ~Miss(c)
    BY <2>3 DEF Miss, Hit
  <2>5. pc' = [pc EXCEPT ![c] = IF pc[c] = "idle" THEN "done" ELSE "leaving"]
    BY <2>4 DEF TakeFirst, TakeSecond, Goto
  <2>6. \A b \in Calls : b # c => pc'[b] = pc[b]
    BY <2>5 DEF TypeOK
  <2>7. pc'[c] = IF pc[c] = "idle" THEN "done" ELSE "leaving"
    BY <2>5 DEF TypeOK
  <2>8. TypeOK'
    BY <1>1, <2>2, <2>5 DEF TypeOK, history
  <2>9. CallProgress' /\ WaiterRegistration' /\ ChannelMatches'
    BY <1>1, <2>2, <2>6, <2>7 DEF CallProgress, WaiterRegistration,
                                  ChannelMatches, Matches, TypeOK
  <2>10. NoMissedDecision' /\ AnswerMatchesRequest'
    BY <1>1, <2>2, <2>6, <2>7 DEF NoMissedDecision, AnswerMatchesRequest,
                                  Matches
  <2>11. LeavesWithOutcome'
    BY <2>2, <2>6 DEF LeavesWithOutcome
  <2>12. QED
    BY <2>2, <2>8, <2>9, <2>10, <2>11
<1>3. CASE Miss(c) /\ UNCHANGED <<pending, result>>
               /\ (Goto(c, "first") \/ Goto(c, "select"))
               /\ (pc[c] = "idle" <=> Goto(c, "first"))
  <2>1. \A b \in Calls : b # c => pc'[b] = pc[b]
    BY <1>3 DEF Goto, TypeOK
  <2>2. pc'[c] = IF pc[c] = "idle" THEN "first" ELSE "select"
    BY <1>3 DEF Goto, TypeOK
  <2>3. \A b \in Calls : Miss(b)' <=> Miss(b)
    BY <1>3 DEF Miss, PendingOf, Matches
  <2>4. TypeOK'
    BY <1>1, <1>3 DEF TypeOK, Goto, history
  <2>5. CallProgress' /\ WaiterRegistration' /\ ChannelMatches'
    BY <1>1, <1>3, <2>1, <2>2 DEF CallProgress, WaiterRegistration,
                                  ChannelMatches, Matches, TypeOK
  <2>6. NoMissedDecision' /\ AnswerMatchesRequest'
    BY <1>1, <1>3, <2>1, <2>2, <2>3 DEF NoMissedDecision, AnswerMatchesRequest, Matches
  <2>7. LostOnlyBehindOutcome'
    <3>1. \A d \in Decisions : Kept(d) => Kept(d)'
      BY <1>1, <1>3, <2>1, <2>2 DEF Kept, Buffered
    <3>2. QED
      BY <1>1, <1>3, <3>1 DEF LostOnlyBehindOutcome, TypeOK, history
  <2>8. LeavesWithOutcome'
    BY <1>3, <2>1, <2>2 DEF LeavesWithOutcome
  <2>9. QED
    BY <2>4, <2>5, <2>6, <2>7, <2>8
<1>4. QED
  <2>1. CASE TakeFirst(c)
    BY <1>2, <1>3, <2>1 DEF TakeFirst, Goto, TypeOK
  <2>2. CASE TakeSecond(c)
    BY <1>2, <1>3, <2>2 DEF TakeSecond, Goto, TypeOK
  <2>3. QED
    BY <2>1, <2>2

\* The steps that end a wait (Validate, the three select branches) keep the
\* invariant: they only set a result, and a received decision is a match.
LEMMA LeavePreserves ==
  ASSUME GateInv, NEW c \in Calls,
         Refuse(c) \/ Receive(c) \/ Timeout(c) \/ Cancel(c)
  PROVE  GateInv'
<1> USE GateAssumption DEF GateInv
<1>1. PICK r \in Outcomes : Return(c, r) /\ r # None
                              /\ (r \in Decisions => Matches(c, r))
  BY DEF Refuse, Receive, Timeout, Cancel, Outcomes, TypeOK, ChannelMatches
<1>2. /\ UNCHANGED <<pending, waiters, ch, routed, before>>
      /\ result[c] = None
      /\ \A b \in Calls : b # c => pc'[b] = pc[b] /\ result'[b] = result[b]
      /\ \/ pc[c] = "idle" /\ pc'[c] = "done"
         \/ pc[c] = "select" /\ pc'[c] = "leaving"
  BY <1>1 DEF Refuse, Receive, Timeout, Cancel, Goto, Return, TypeOK,
              CallProgress, history
<1>3. LostOnlyBehindOutcome'
  <2>1. ch[c] # None => r = ch[c] \/ r \in {"timeout", "cancelled"}
    BY <1>1 DEF Refuse, Receive, Timeout, Cancel, Return, CallProgress, TypeOK
  <2>2. QED
    BY <1>1, <1>2, <2>1, ReturnKeepsAccount
<1>4. TypeOK'
  BY <1>1, <1>2 DEF TypeOK, Refuse, Receive, Timeout, Cancel, Goto, Return
<1>5. CallProgress' /\ WaiterRegistration' /\ ChannelMatches'
  BY <1>2 DEF CallProgress, WaiterRegistration, ChannelMatches, Matches,
              TypeOK
<1>6. NoMissedDecision'
  BY <1>2 DEF NoMissedDecision, Miss, PendingOf, Matches
<1>7. AnswerMatchesRequest'
  BY <1>1, <1>2 DEF AnswerMatchesRequest, Matches, Return, TypeOK
<1>8. LeavesWithOutcome'
  <2>1. pc[c] = "select" => result'[c] \in Decisions \cup {"timeout", "cancelled"}
    BY DEF Refuse, Receive, Timeout, Cancel, Return, TypeOK
  <2>2. QED
    BY <1>2, <2>1 DEF LeavesWithOutcome
<1>9. QED
  BY <1>3, <1>4, <1>5, <1>6, <1>7, <1>8

\* addWaiter and removeWaiter keep it: a call registers with an empty channel.
LEMMA RegisterPreserves ==
  ASSUME GateInv, NEW c \in Calls, AddWaiter(c) \/ RemoveWaiter(c)
  PROVE  GateInv'
<1> USE GateAssumption DEF GateInv
<1>1. /\ UNCHANGED <<pending, ch, result, routed, before>>
      /\ \A b \in Calls : b # c => pc'[b] = pc[b]
      /\ \/ /\ pc[c] = "first" /\ pc'[c] = "added"
            /\ waiters' = waiters \cup {c}
         \/ /\ pc[c] = "leaving" /\ pc'[c] = "done"
            /\ waiters' = waiters \ {c}
  BY DEF AddWaiter, RemoveWaiter, Goto, TypeOK, history
<1>2. TypeOK'
  BY <1>1 DEF TypeOK, AddWaiter, RemoveWaiter, Goto
<1>3. CallProgress' /\ WaiterRegistration' /\ ChannelMatches'
  BY <1>1 DEF CallProgress, WaiterRegistration, ChannelMatches, Matches,
              TypeOK
<1>4. NoMissedDecision'
  BY <1>1 DEF NoMissedDecision, Miss, PendingOf, Matches
<1>5. AnswerMatchesRequest'
  BY <1>1 DEF AnswerMatchesRequest, Matches
<1>6. LostOnlyBehindOutcome'
  <2>1. \A d \in Decisions : Kept(d) => Kept(d)'
    BY <1>1 DEF Kept, Buffered
  <2>2. QED
    BY <1>1, <2>1 DEF LostOnlyBehindOutcome, TypeOK
<1>7. LeavesWithOutcome'
  BY <1>1 DEF LeavesWithOutcome
<1>8. QED
  BY <1>2, <1>3, <1>4, <1>5, <1>6, <1>7

\* routeDecision keeps it: a waiter that matches gets the decision and is
\* unregistered, and only a decision nobody got enters the buffer.
LEMMA RoutePreserves ==
  ASSUME GateInv, NEW d \in Decisions, RouteDecision(d)
  PROVE  GateInv'
<1> USE GateAssumption DEF GateInv
<1> DEFINE matching == {c \in waiters : Matches(c, d)}
           getting  == {c \in matching : ch[c] = None}
           k == DecisionKey[d]
<1>1. /\ UNCHANGED <<pc, result>>
      /\ routed' = routed \cup {d}
      /\ before' = before \cup (routed \X {d})
      /\ waiters' = waiters \ matching
      /\ ch' = [c \in Calls |-> IF c \in getting THEN d ELSE ch[c]]
      /\ pending' = IF getting = {}
                      THEN [pending EXCEPT ![k] = Append(pending[k], d)]
                      ELSE pending
  BY DEF RouteDecision, Record
\* Registered waiters have free channels, so everyone who matches gets it.
<1>2. getting = matching
  BY DEF WaiterRegistration
<1>3. \A c \in Calls : c \in matching <=> c \in waiters /\ Matches(c, d)
  BY DEF TypeOK
<1> HIDE DEF matching, getting
<1>4. k \in Keys /\ pending[k] \in Seq(Decisions)
  BY DEF TypeOK
<1>5. pending' \in [Keys -> Seq(Decisions)]
  BY <1>1, <1>4 DEF TypeOK
<1>6. TypeOK'
  <2>1. before' \subseteq Decisions \X Decisions
    BY <1>1 DEF TypeOK
  <2>2. QED
    BY <1>1, <1>5, <2>1 DEF TypeOK
<1>7. CallProgress' /\ WaiterRegistration' /\ ChannelMatches'
  BY <1>1, <1>2, <1>3, <1>6 DEF CallProgress, WaiterRegistration,
     ChannelMatches, Matches, TypeOK
<1>8. AnswerMatchesRequest'
  BY <1>1 DEF AnswerMatchesRequest, Matches
<1>9. /\ matching # {} => pending' = pending
      /\ matching = {} =>
           /\ pending'[k] = Append(pending[k], d)
           /\ \A j \in Keys : j # k => pending'[j] = pending[j]
  BY <1>1, <1>2, <1>4 DEF TypeOK
<1>10. /\ Len(Append(pending[k], d)) = Len(pending[k]) + 1
       /\ Append(pending[k], d)[Len(pending[k]) + 1] = d
       /\ \A j \in 1..Len(pending[k]) : Append(pending[k], d)[j] = pending[k][j]
  BY <1>4
<1>11. NoMissedDecision'
  <2> SUFFICES ASSUME NEW c \in Calls, pc[c] = "select", ch'[c] = None
               PROVE  Miss(c)'
    BY <1>1 DEF NoMissedDecision
  <2>1. ch[c] = None /\ c \notin matching
    BY <1>1, <1>2
  <2>2. Miss(c) /\ ~Matches(c, d)
    BY <1>3, <2>1 DEF NoMissedDecision, CallProgress
  <2>3. CASE matching # {} \/ CallKey[c] # k
    <3>1. pending'[CallKey[c]] = pending[CallKey[c]]
      BY <1>9, <2>3
    <3>2. QED
      BY <2>2, <3>1 DEF Miss, PendingOf, Matches
  <2>4. CASE matching = {} /\ CallKey[c] = k
    <3>1. pending'[k] = Append(pending[k], d)
      BY <1>9, <2>4
    <3>2. \A j \in 1..Len(pending[k]) : ~Matches(c, pending[k][j])
      BY <1>4, <2>2, <2>4 DEF Miss, PendingOf
    <3>3. \A j \in 1..(Len(pending[k]) + 1) : ~Matches(c, pending'[k][j])
      BY <1>4, <1>10, <2>2, <3>1, <3>2
    <3>4. DOMAIN pending'[k] = 1..(Len(pending[k]) + 1)
      BY <1>4, <1>10, <3>1
    <3>5. QED
      BY <2>4, <3>3, <3>4 DEF Miss, PendingOf, Matches
  <2>5. QED
    BY <2>3, <2>4
<1>12. LostOnlyBehindOutcome'
  <2> SUFFICES ASSUME NEW e \in routed', ~Kept(e)'
               PROVE  Excused(e)'
    BY DEF LostOnlyBehindOutcome, Excused
  <2>1. e \in Decisions /\ e # None
    BY <1>1 DEF TypeOK
\* Handed to a call that has left the select, it is lost with that call's outcome.
  <2>2. CASE e = d
    <3>1. matching # {}
      <4>1. SUFFICES ASSUME matching = {} PROVE FALSE
        OBVIOUS
      <4>2. Len(pending[k]) + 1 \in DOMAIN pending'[k]
        BY <1>4, <1>9, <1>10, <4>1
      <4>3. pending'[k][Len(pending[k]) + 1] = d
        BY <1>9, <1>10, <4>1
      <4>4. QED
        BY <2>2, <4>2, <4>3 DEF Kept, Buffered
    <3>2. PICK b \in Calls : b \in matching
      BY <3>1 DEF matching, TypeOK
    <3>3. ch'[b] = d /\ b \in waiters /\ Matches(b, d)
      BY <1>1, <1>2, <1>3, <3>2
    <3>4. pc[b] = "leaving"
      BY <1>1, <2>2, <3>3 DEF Kept, WaiterRegistration
    <3>5. result'[b] \in Decisions \cup {"timeout", "cancelled"}
      BY <1>1, <3>4 DEF LeavesWithOutcome
    <3>6. QED
      BY <2>2, <3>3, <3>5 DEF Excused, Matches
  <2>3. CASE e # d
    <3>1. e \in routed
      BY <1>1, <2>3
    <3>2. \A b \in Calls : ch[b] = e => ch'[b] = e
      BY <1>1, <2>1 DEF getting
    <3>3. ~Buffered(e)
      <4>1. SUFFICES ASSUME NEW i \in DOMAIN pending[DecisionKey[e]],
                            pending[DecisionKey[e]][i] = e
                     PROVE  FALSE
        BY DEF Buffered
      <4>2. DecisionKey[e] \in Keys /\ pending[DecisionKey[e]] \in Seq(Decisions)
        BY <2>1 DEF TypeOK
      <4>3. i \in 1..Len(pending[DecisionKey[e]])
        BY <4>1, <4>2
      <4>4. /\ i \in DOMAIN pending'[DecisionKey[e]]
            /\ pending'[DecisionKey[e]][i] = e
        BY <1>4, <1>9, <1>10, <4>1, <4>2, <4>3
      <4>5. QED
        BY <4>4 DEF Kept, Buffered
    <3>4. ~Kept(e)
      BY <1>1, <3>2, <3>3 DEF Kept
    <3>5. Excused(e)
      BY <3>1, <3>4 DEF LostOnlyBehindOutcome, Excused
    <3>6. QED
      BY <1>1, <3>2, <3>5 DEF Excused
  <2>4. QED
    BY <2>2, <2>3
<1>13. LeavesWithOutcome'
  BY <1>1 DEF LeavesWithOutcome
<1>14. QED
  BY <1>6, <1>7, <1>8, <1>11, <1>12, <1>13

\* The invariant holds in every reachable state.
LEMMA GateInvariant == Spec => []GateInv
<1>1. GateInv /\ [Next]_vars => GateInv'
  <2> SUFFICES ASSUME GateInv, [Next]_vars PROVE GateInv'
    OBVIOUS
  <2>1. CASE UNCHANGED vars
    BY <2>1 DEF vars, GateInv, TypeOK, CallProgress, LeavesWithOutcome, WaiterRegistration,
       ChannelMatches, NoMissedDecision, AnswerMatchesRequest, Matches,
       LostOnlyBehindOutcome, Kept, Buffered, Miss, PendingOf
  <2>2. QED
    BY <2>1, TakePreserves, LeavePreserves, RegisterPreserves, RoutePreserves
       DEF Next, Step
<1>2. QED
  BY InitGateInv, <1>1, PTL DEF Spec

\* For any number of concurrent WaitDecision calls and decisions: no call
\* blocks while a decision for it sits in the buffer.
THEOREM GateSafety == Spec => [](TypeOK /\ NoMissedDecision)
<1>1. GateInv => TypeOK /\ NoMissedDecision
  BY DEF GateInv
<1>2. QED
  BY GateInvariant, <1>1, PTL

\* No WaitDecision call returns a decision that was made for another request,
\* whichever calls and routings interleave with it.
THEOREM AnswersMatch == Spec => []AnswerMatchesRequest
<1>1. GateInv => AnswerMatchesRequest
  BY DEF GateInv
<1>2. QED
  BY GateInvariant, <1>1, PTL

\* The maps waiters and pending agree with where the calls are: the consumer
\* never meets a full channel or one nobody will read.
THEOREM WaitersAreRegistered == Spec => []WaiterRegistration
<1>1. GateInv => WaiterRegistration
  BY DEF GateInv
<1>2. QED
  BY GateInvariant, <1>1, PTL

\* A routed decision is lost only behind an answer to its tool call, or in the
\* channel of a call that returned its timeout or its cancellation instead.
THEOREM LossesHaveOutcomes == Spec => []LostOnlyBehindOutcome
<1>1. GateInv => LostOnlyBehindOutcome
  BY DEF GateInv
<1>2. QED
  BY GateInvariant, <1>1, PTL

-----------------------------------------------------------------------------
(* The order of the decisions *)

\* No decision for the call that came before d is buffered.
Overtakes(c, d) ==
  \A e \in Decisions : Matches(c, e) /\ <<e, d>> \in before => ~Buffered(e)

\* What a call has, in its channel or as its result, was routed; and once the
\* buffer was looked at again, what its channel holds overtakes nothing.
OrderInv ==
  /\ before \subseteq routed \X routed
  /\ \A c \in Calls :
       /\ result[c] \in Decisions => result[c] \in routed
       /\ ch[c] # None => ch[c] \in routed
  /\ \A k \in Keys : \A i \in DOMAIN pending[k] : pending[k][i] \in routed
  /\ \A c \in Calls : pc[c] = "select" /\ ch[c] # None => Overtakes(c, ch[c])
  /\ NoOlderLeftBehind

\* A call whose buffer holds no match overtakes nothing.
LEMMA MissOvertakesNothing ==
  ASSUME GateInv, NEW c \in Calls, Miss(c), NEW d
  PROVE  Overtakes(c, d)
<1>1. SUFFICES ASSUME NEW e \in Decisions, Matches(c, e), Buffered(e) PROVE FALSE
  BY DEF Overtakes
<1>2. PICK i \in DOMAIN pending[DecisionKey[e]] : pending[DecisionKey[e]][i] = e
  BY <1>1 DEF Buffered
<1>3. QED
  BY <1>1, <1>2 DEF Miss, PendingOf, Matches

\* What is taken from the buffer leaves nothing of the request behind; the
\* rest of the buffer only shrinks.
LEMMA TakePendingKeepsOrder ==
  ASSUME GateInv, GateInv', OrderInv, NEW c \in Calls, NEW i \in DOMAIN PendingOf(c),
         TakePending(c, i), result[c] = None, UNCHANGED <<ch, routed, before>>,
         \A b \in Calls : b # c => pc'[b] = pc[b],
         pc'[c] \in {"leaving", "done"}
  PROVE  OrderInv'
<1> USE GateAssumption DEF GateInv
<1> DEFINE k == CallKey[c]
<1>1. /\ k \in Keys /\ pending[k] \in Seq(Decisions)
      /\ i \in 1..Len(pending[k]) /\ pending[k][i] \in routed
  BY DEF TypeOK, PendingOf, OrderInv
<1>2. /\ Len(SubSeq(pending[k], 1, i - 1)) = i - 1
      /\ DOMAIN SubSeq(pending[k], 1, i - 1) = 1..(i - 1)
      /\ \A j \in 1..(i - 1) : SubSeq(pending[k], 1, i - 1)[j] = pending[k][j]
  BY <1>1
<1>3. /\ pending'[k] = SubSeq(pending[k], 1, i - 1)
      /\ \A m \in Keys : m # k => pending'[m] = pending[m]
  BY <1>1 DEF TakePending, TypeOK
<1>4. /\ result'[c] = pending[k][i]
      /\ \A b \in Calls : b # c => result'[b] = result[b]
  BY <1>1 DEF TakePending, Return, PendingOf, TypeOK
<1>5. 1..(i - 1) \subseteq DOMAIN pending[k]
  BY <1>1
<1>6. \A m \in Keys : \A j \in DOMAIN pending'[m] :
        j \in DOMAIN pending[m] /\ pending'[m][j] = pending[m][j]
  BY <1>2, <1>3, <1>5
<1>7. \A e \in Decisions : Buffered(e)' => Buffered(e)
  BY <1>6 DEF Buffered
<1>8. \A b \in Calls : \A d : Overtakes(b, d) => Overtakes(b, d)'
  BY <1>7 DEF Overtakes, Matches
<1>9. Miss(c)'
  BY TakePendingEffect
<1>10. \A d : Overtakes(c, d)'
  <2>1. SUFFICES ASSUME NEW e \in Decisions, Matches(c, e), Buffered(e)' PROVE FALSE
    BY DEF Overtakes, Matches
  <2>2. PICK j \in DOMAIN pending'[DecisionKey[e]] : pending'[DecisionKey[e]][j] = e
    BY <2>1 DEF Buffered
  <2>3. QED
    BY <1>9, <2>1, <2>2 DEF Miss, PendingOf, Matches
<1>11. NoOlderLeftBehind'
  <2>1. SUFFICES ASSUME NEW b \in Calls, result'[b] \in Decisions
                 PROVE  Overtakes(b, result[b])'
    BY DEF NoOlderLeftBehind, Overtakes
  <2>2. CASE b = c
    BY <1>10, <2>2
  <2>3. CASE b # c
    <3>1. Overtakes(b, result[b])
      BY <1>4, <2>1, <2>3 DEF OrderInv, NoOlderLeftBehind, Overtakes
    <3>2. QED
      BY <1>4, <1>8, <2>3, <3>1
  <2>4. QED
    BY <2>2, <2>3
<1>12. \A b \in Calls : pc'[b] = "select" /\ ch'[b] # None => Overtakes(b, ch[b])'
  BY <1>8 DEF OrderInv
<1>13. \A m \in Keys : \A j \in DOMAIN pending'[m] : pending'[m][j] \in routed'
  BY <1>6 DEF OrderInv
<1>14. \A b \in Calls :
         /\ result'[b] \in Decisions => result'[b] \in routed'
         /\ ch'[b] # None => ch'[b] \in routed'
  BY <1>1, <1>4 DEF OrderInv
<1>15. QED
  BY <1>11, <1>12, <1>13, <1>14 DEF OrderInv

\* Steps of a call that leave the buffer alone: it goes on to the select after
\* a miss only, and returns what its channel holds from the select only.
LEMMA CallKeepsOrder ==
  ASSUME GateInv, OrderInv, NEW c \in Calls,
         UNCHANGED <<pending, ch, routed, before>>,
         \A b \in Calls : b # c => pc'[b] = pc[b] /\ result'[b] = result[b],
         pc'[c] = "select" => Miss(c),
         \/ result'[c] = result[c]
         \/ result'[c] \notin Decisions
         \/ pc[c] = "select" /\ ch[c] # None /\ result'[c] = ch[c]
  PROVE  OrderInv'
<1> USE GateAssumption DEF GateInv
<1>1. \A b \in Calls : \A d : Overtakes(b, d)' <=> Overtakes(b, d)
  BY DEF Overtakes, Buffered, Matches
<1>2. \A b \in Calls : pc'[b] = "select" /\ ch'[b] # None => Overtakes(b, ch[b])'
  <2>1. SUFFICES ASSUME NEW b \in Calls, pc'[b] = "select", ch'[b] # None
                 PROVE  Overtakes(b, ch[b])
    BY <1>1
  <2>2. CASE b = c
    BY <2>1, <2>2, MissOvertakesNothing
  <2>3. CASE b # c
    BY <2>1, <2>3 DEF OrderInv
  <2>4. QED
    BY <2>2, <2>3
<1>3. \A b \in Calls : result'[b] \in Decisions =>
         result'[b] \in routed /\ Overtakes(b, result'[b])
  <2>1. SUFFICES ASSUME NEW b \in Calls, result'[b] \in Decisions
                 PROVE  result'[b] \in routed /\ Overtakes(b, result'[b])
    OBVIOUS
  <2>2. CASE result'[b] = result[b]
    BY <2>1, <2>2 DEF OrderInv, NoOlderLeftBehind, Overtakes
  <2>3. CASE result'[b] # result[b]
    BY <2>1, <2>3 DEF OrderInv
  <2>4. QED
    BY <2>2, <2>3
<1>4. NoOlderLeftBehind'
  <2>1. \A b \in Calls : result'[b] \in Decisions => Overtakes(b, result[b])'
    BY <1>1, <1>3
  <2>2. QED
    BY <2>1 DEF NoOlderLeftBehind, Overtakes
<1>5. QED
  BY <1>2, <1>3, <1>4 DEF OrderInv

\* A new decision is younger than everything, and is given only to waiters.
LEMMA RouteKeepsOrder ==
  ASSUME GateInv, OrderInv, NEW d \in Decisions, RouteDecision(d)
  PROVE  OrderInv'
<1> USE GateAssumption DEF GateInv
<1> DEFINE matching == {c \in waiters : Matches(c, d)}
           getting  == {c \in matching : ch[c] = None}
           k == DecisionKey[d]
<1>1. /\ UNCHANGED <<pc, result>> /\ d \notin routed
      /\ routed' = routed \cup {d}
      /\ before' = before \cup (routed \X {d})
      /\ ch' = [c \in Calls |-> IF c \in getting THEN d ELSE ch[c]]
      /\ pending' = IF getting = {}
                      THEN [pending EXCEPT ![k] = Append(pending[k], d)]
                      ELSE pending
  BY DEF RouteDecision, Record
<1>2. \A c \in Calls : c \in getting => c \in waiters /\ Matches(c, d) /\ ch[c] = None
  OBVIOUS
<1> HIDE DEF matching, getting
<1>3. k \in Keys /\ pending[k] \in Seq(Decisions) /\ routed \subseteq Decisions
  BY DEF TypeOK
<1>4. /\ DOMAIN Append(pending[k], d) = 1..(Len(pending[k]) + 1)
      /\ DOMAIN pending[k] = 1..Len(pending[k])
      /\ Append(pending[k], d)[Len(pending[k]) + 1] = d
      /\ \A j \in 1..Len(pending[k]) : Append(pending[k], d)[j] = pending[k][j]
      /\ \A j \in 1..(Len(pending[k]) + 1) : j \in 1..Len(pending[k]) \/ j = Len(pending[k]) + 1
  BY <1>3
<1>5. \A m \in Keys : \A j \in DOMAIN pending'[m] :
        \/ pending'[m][j] = d
        \/ j \in DOMAIN pending[m] /\ pending'[m][j] = pending[m][j]
  <2>1. CASE getting = {}
    <3>1. \A m \in Keys : pending'[m] = IF m = k THEN Append(pending[k], d) ELSE pending[m]
      BY <1>1, <2>1 DEF TypeOK
    <3>2. QED
      BY <1>4, <3>1
  <2>2. CASE getting # {}
    BY <1>1, <2>2
  <2>3. QED
    BY <2>1, <2>2
<1>6. \A e \in Decisions : Buffered(e)' => Buffered(e) \/ e = d
  BY <1>5 DEF Buffered
<1>7. \A e, x \in Decisions : x \in routed /\ <<e, x>> \in before' =>
         <<e, x>> \in before /\ e # d
  BY <1>1 DEF OrderInv
<1>8. \A b \in Calls : \A x \in routed : Overtakes(b, x) => Overtakes(b, x)'
  BY <1>3, <1>6, <1>7 DEF Overtakes, Matches
<1>9. NoOlderLeftBehind'
  <2>1. \A b \in Calls : result[b] \in Decisions =>
          result[b] \in routed /\ Overtakes(b, result[b])
    BY DEF OrderInv, NoOlderLeftBehind, Overtakes
  <2>2. \A b \in Calls : result'[b] \in Decisions => Overtakes(b, result[b])'
    BY <1>1, <1>8, <2>1
  <2>3. QED
    BY <2>2 DEF NoOlderLeftBehind, Overtakes
<1>10. \A b \in Calls : pc'[b] = "select" /\ ch'[b] # None => Overtakes(b, ch[b])'
  <2>1. SUFFICES ASSUME NEW b \in Calls, pc[b] = "select", ch'[b] # None
                 PROVE  Overtakes(b, ch[b])'
    BY <1>1
  <2>2. CASE b \in getting
    <3>1. ch[b] = None /\ pending' = pending /\ ch'[b] = d
      BY <1>1, <1>2, <2>2
    <3>2. Miss(b)
      BY <2>1, <3>1 DEF NoMissedDecision
    <3>3. \A e \in Decisions : Matches(b, e) => ~Buffered(e)
      <4>1. SUFFICES ASSUME NEW e \in Decisions, Matches(b, e), Buffered(e) PROVE FALSE
        OBVIOUS
      <4>2. PICK i \in DOMAIN pending[DecisionKey[e]] : pending[DecisionKey[e]][i] = e
        BY <4>1 DEF Buffered
      <4>3. QED
        BY <3>2, <4>1, <4>2 DEF Miss, PendingOf, Matches
    <3>4. QED
      BY <3>1, <3>3 DEF Overtakes, Buffered, Matches
  <2>3. CASE b \notin getting
    <3>1. ch'[b] = ch[b]
      BY <1>1, <2>3
    <3>2. ch[b] \in routed /\ Overtakes(b, ch[b])
      BY <2>1, <3>1 DEF OrderInv
    <3>3. QED
      BY <1>8, <3>1, <3>2
  <2>4. QED
    BY <2>2, <2>3
<1>11. before' \subseteq routed' \X routed'
  BY <1>1 DEF OrderInv
<1>12. \A b \in Calls :
         /\ result'[b] \in Decisions => result'[b] \in routed'
         /\ ch'[b] # None => ch'[b] \in routed'
  BY <1>1 DEF OrderInv
<1>13. \A m \in Keys : \A j \in DOMAIN pending'[m] : pending'[m][j] \in routed'
  BY <1>1, <1>5 DEF OrderInv
<1>14. QED
  BY <1>9, <1>10, <1>11, <1>12, <1>13 DEF OrderInv

\* A call that got a decision leaves none of its request behind that came earlier.
THEOREM NothingOvertaken == Spec => []NoOlderLeftBehind
<1>1. Init => OrderInv
  <2> SUFFICES ASSUME Init PROVE OrderInv
    OBVIOUS
  <2>1. \A k \in Keys : DOMAIN pending[k] = {}
    BY DEF Init
  <2>2. QED
    BY <2>1, GateAssumption DEF Init, OrderInv, NoOlderLeftBehind
<1>2. GateInv /\ GateInv' /\ OrderInv /\ [Next]_vars => OrderInv'
  <2> SUFFICES ASSUME GateInv, GateInv', OrderInv, [Next]_vars PROVE OrderInv'
    OBVIOUS
  <2>1. CASE UNCHANGED vars
    BY <2>1 DEF vars, OrderInv, Overtakes, NoOlderLeftBehind, Buffered, Matches
  <2>2. ASSUME NEW c \in Calls, TakeFirst(c) \/ TakeSecond(c)
        PROVE  OrderInv'
    <3>1. /\ UNCHANGED <<ch, routed, before>> /\ result[c] = None
          /\ \A b \in Calls : b # c => pc'[b] = pc[b]
      BY <2>2 DEF TakeFirst, TakeSecond, Goto, GateInv, TypeOK, CallProgress, history
    <3>2. CASE \E i \in DOMAIN PendingOf(c) : TakePending(c, i)
      <4>1. PICK i \in DOMAIN PendingOf(c) : TakePending(c, i)
        BY <3>2
      <4>2. ~Miss(c)
        BY <4>1 DEF TakePending, Hit, Miss
      <4>3. pc'[c] \in {"leaving", "done"}
        BY <2>2, <4>2 DEF TakeFirst, TakeSecond, Goto, GateInv, TypeOK
      <4>4. QED
        BY <3>1, <4>1, <4>3, TakePendingKeepsOrder
    <3>3. CASE Miss(c) /\ UNCHANGED <<pending, result>>
      BY <3>1, <3>3, CallKeepsOrder
    <3>4. QED
      BY <2>2, <3>2, <3>3 DEF TakeFirst, TakeSecond
  <2>3. ASSUME NEW c \in Calls,
               \/ Refuse(c) \/ AddWaiter(c) \/ Receive(c) \/ Timeout(c)
               \/ Cancel(c) \/ RemoveWaiter(c)
        PROVE  OrderInv'
    <3>1. /\ UNCHANGED <<pending, ch, routed, before>>
          /\ \A b \in Calls : b # c => pc'[b] = pc[b] /\ result'[b] = result[b]
          /\ pc'[c] # "select"
      BY <2>3 DEF Refuse, AddWaiter, Receive, Timeout, Cancel, RemoveWaiter, Goto, Return,
                  GateInv, TypeOK, history
    <3>2. \/ result'[c] = result[c]
          \/ result'[c] \notin Decisions
          \/ pc[c] = "select" /\ ch[c] # None /\ result'[c] = ch[c]
      BY <2>3, GateAssumption DEF Refuse, AddWaiter, Receive, Timeout, Cancel, RemoveWaiter,
                                  Return, GateInv, TypeOK
    <3>3. QED
      BY <3>1, <3>2, CallKeepsOrder
  <2>4. ASSUME NEW d \in Decisions, RouteDecision(d)
        PROVE  OrderInv'
    BY <2>4, RouteKeepsOrder
  <2>5. QED
    BY <2>1, <2>2, <2>3, <2>4 DEF Next, Step
<1>3. OrderInv => NoOlderLeftBehind
  BY DEF OrderInv
<1>4. QED
  BY GateInvariant, <1>1, <1>2, <1>3, PTL DEF Spec

-----------------------------------------------------------------------------
(* The webhook *)

\* How long a nonce is kept, in moments.
Life == NonceTTL * Second

\* A post gets past the verification only by using up its nonce, which then is in
\* the store until its life is over.
NonceInv ==
  /\ \A d \in Decisions :
       /\ accepted[d] <= now
       /\ accepted[d] # 0 => handler[d] \in {"verified", "answered"}
       /\ accepted[d] # 0 /\ now <= accepted[d] + Life =>
            accepted[d] + Life <= nonces[NonceOf[d]]
  /\ NonceCountsOnce

\* A post is on the topic at most once, after its handler is done with it and
\* before the gate sees it.
TopicInv ==
  /\ \A d \in routed : handler[d] = "answered"
  /\ \A i \in DOMAIN topic : handler[topic[i]] = "answered" /\ topic[i] \notin routed
  /\ \A i, j \in DOMAIN topic : topic[i] = topic[j] => i = j

WebhookInv == WebhookTypeOK /\ routed \subseteq Decisions /\ NonceInv /\ TopicInv

\* Steps of the calls concern neither the handlers nor the topic.
LEMMA WaitKeepsRouted ==
  ASSUME Wait
  PROVE  UNCHANGED <<routed, webhookVars>>
BY DEF Wait, Step, Cancel, Refuse, TakeFirst, AddWaiter, TakeSecond, Receive, Timeout,
   RemoveWaiter, history

\* The webhook invariant looks at nothing of the gate but routed.
LEMMA WebhookFrame ==
  ASSUME WebhookInv, UNCHANGED <<routed, webhookVars>>
  PROVE  WebhookInv'
BY DEF WebhookInv, WebhookTypeOK, NonceInv, NonceCountsOnce, TopicInv, webhookVars

\* The messages of the topic are posts.
LEMMA TopicHoldsPosts ==
  ASSUME WebhookInv
  PROVE  /\ topic \in Seq(Decisions)
         /\ \A i \in DOMAIN topic : topic[i] \in Decisions
         /\ topic # <<>> => /\ Head(topic) = topic[1] /\ 1 \in DOMAIN topic
                            /\ Head(topic) \in Decisions
<1>1. topic \in Seq(Decisions)
  BY DEF WebhookInv, WebhookTypeOK
<1>2. \A i \in DOMAIN topic : topic[i] \in Decisions
  BY <1>1
<1>3. topic # <<>> => Head(topic) = topic[1] /\ 1 \in DOMAIN topic
  BY <1>1
<1>4. QED
  BY <1>1, <1>2, <1>3

\* The clock and the life of a nonce are numbers.
LEMMA Moments ==
  ASSUME WebhookInv
  PROVE  /\ Life \in Nat /\ now \in Nat /\ now # 0
         /\ \A d \in Decisions : accepted[d] \in Nat
         /\ \A n \in Nonces : nonces[n] \in Nat
<1>1. Life \in Nat
  BY WebhookAssumption DEF Life
<1>2. QED
  BY <1>1 DEF WebhookInv, WebhookTypeOK

\* The store forgets nothing whose life is not over.
LEMMA UnexpiredKeepsNonces ==
  ASSUME WebhookInv
  PROVE  /\ Unexpired \in [Nonces -> Nat]
         /\ \A d \in Decisions : accepted[d] # 0 /\ now <= accepted[d] + Life =>
              accepted[d] + Life <= Unexpired[NonceOf[d]] /\ Unexpired[NonceOf[d]] # 0
<1>1. Unexpired \in [Nonces -> Nat]
  BY Moments DEF Unexpired
<1>2. SUFFICES ASSUME NEW d \in Decisions, accepted[d] # 0, now <= accepted[d] + Life
               PROVE  accepted[d] + Life <= Unexpired[NonceOf[d]] /\ Unexpired[NonceOf[d]] # 0
  BY <1>1
<1>3. NonceOf[d] \in Nonces
  BY WebhookAssumption
<1>4. accepted[d] + Life <= nonces[NonceOf[d]]
  BY <1>2 DEF WebhookInv, NonceInv
<1>5. /\ Life \in Nat /\ now \in Nat /\ accepted[d] \in Nat
      /\ nonces[NonceOf[d]] \in Nat
  BY <1>3, Moments
<1>6. ~(now > nonces[NonceOf[d]])
  BY <1>2, <1>4, <1>5
<1>7. Unexpired[NonceOf[d]] = nonces[NonceOf[d]]
  BY <1>3, <1>6 DEF Unexpired
<1>8. QED
  BY <1>2, <1>4, <1>5, <1>7

\* A handler that leaves topic and routed alone keeps TopicInv if it does not
\* take its answer back.
LEMMA TopicFrame ==
  ASSUME WebhookInv, NEW d \in Decisions, NEW l, Goes(d, l),
         handler[d] # "answered", topic' = topic, routed' = routed
  PROVE  TopicInv'
<1>1. handler \in [Decisions -> {"unsent", "timely", "verified", "answered"}]
  BY DEF WebhookInv, WebhookTypeOK
<1>2. \A e \in Decisions : handler[e] = "answered" => handler'[e] = "answered"
  BY <1>1 DEF Goes
<1>3. \A i \in DOMAIN topic : topic[i] \in Decisions
  BY TopicHoldsPosts
<1>4. QED
  BY <1>2, <1>3 DEF WebhookInv, TopicInv

\* The nonce part of the invariant when no post gets past the verification.
LEMMA NonceFrame ==
  ASSUME WebhookInv, NEW d \in Decisions, NEW l \in {"timely", "verified", "answered"}, Goes(d, l),
         l = "timely" => handler[d] = "unsent",
         accepted' = accepted, now' = now,
         nonces' = nonces \/ nonces' = Unexpired
  PROVE  NonceInv'
<1> USE DEF WebhookInv
<1>1. handler \in [Decisions -> {"unsent", "timely", "verified", "answered"}]
  BY DEF WebhookTypeOK
<1>2. NonceCountsOnce'
  BY DEF NonceInv, NonceCountsOnce
<1>3. \A e \in Decisions : accepted[e] # 0 => handler'[e] \in {"verified", "answered"}
  BY <1>1 DEF Goes, NonceInv
<1>4. \A e \in Decisions : accepted[e] # 0 /\ now <= accepted[e] + Life =>
        accepted[e] + Life <= nonces'[NonceOf[e]]
  BY UnexpiredKeepsNonces DEF NonceInv
<1>5. QED
  BY <1>2, <1>3, <1>4 DEF NonceInv

\* CheckAndSet lets a post pass only when those with its nonce are past their life.
LEMMA VerifyPreserves ==
  ASSUME WebhookInv, NEW d \in Decisions, VerifyNonce(d)
  PROVE  WebhookInv'
<1> USE WebhookAssumption
<1>a. /\ handler \in [Decisions -> {"unsent", "timely", "verified", "answered"}]
      /\ accepted \in [Decisions -> Nat]
  BY DEF WebhookInv, WebhookTypeOK
<1>b. /\ Life \in Nat /\ now \in Nat /\ now # 0
      /\ \A e \in Decisions : accepted[e] \in Nat
  BY Moments
<1>1. /\ handler[d] = "timely" /\ Goes(d, "verified")
      /\ accepted' = [accepted EXCEPT ![d] = now]
      /\ Unexpired[NonceOf[d]] = 0
      /\ nonces' = [Unexpired EXCEPT ![NonceOf[d]] = now + Life]
      /\ UNCHANGED <<secured, reply, now, topic, routed>>
  BY DEF VerifyNonce, CheckAndSet, Life, vars
<1>2. /\ accepted'[d] = now /\ now' = now
      /\ \A e \in Decisions : e # d => accepted'[e] = accepted[e]
  BY <1>1, <1>a
<1>3. /\ NonceOf[d] \in Nonces /\ \A e \in Decisions : NonceOf[e] \in Nonces
      /\ nonces'[NonceOf[d]] = now + Life
      /\ \A n \in Nonces : n # NonceOf[d] => nonces'[n] = Unexpired[n]
      /\ nonces' \in [Nonces -> Nat]
  <2>1. now + Life \in Nat
    BY <1>b
  <2>2. Unexpired \in [Nonces -> Nat]
    BY UnexpiredKeepsNonces
  <2>3. QED
    BY <1>1, <2>1, <2>2
<1>4. ASSUME NEW e \in Decisions, NonceOf[e] = NonceOf[d], accepted[e] # 0
      PROVE  accepted[e] + Life < now
  <2>1. ~(now <= accepted[e] + Life)
    BY <1>1, <1>4, UnexpiredKeepsNonces
  <2>2. QED
    BY <1>b, <2>1
<1>5. NonceCountsOnce'
  <2>1. SUFFICES ASSUME NEW x \in Decisions, NEW y \in Decisions, x # y, NonceOf[x] = NonceOf[y],
                        accepted'[x] # 0, accepted'[x] <= accepted'[y]
                 PROVE  accepted'[x] + Life < accepted'[y]
    BY DEF NonceCountsOnce, Life
  <2>2. CASE y = d
    BY <1>2, <1>4, <2>1, <2>2
  <2>3. CASE x = d
    <3>1. accepted[y] <= now /\ accepted'[y] = accepted[y]
      BY <1>2, <2>1, <2>3 DEF WebhookInv, NonceInv
    <3>2. accepted[y] = now /\ accepted[y] # 0
      BY <1>2, <1>b, <2>1, <2>3, <3>1
    <3>3. accepted[y] + Life < now
      BY <1>4, <2>1, <2>3, <3>2
    <3>4. FALSE
      BY <1>b, <3>2, <3>3
    <3>5. QED
      BY <3>4
  <2>4. CASE x # d /\ y # d
    <3>1. accepted'[x] = accepted[x] /\ accepted'[y] = accepted[y]
      BY <1>2, <2>4
    <3>2. QED
      BY <2>1, <3>1 DEF WebhookInv, NonceInv, NonceCountsOnce, Life
  <2>5. QED
    BY <2>2, <2>3, <2>4
<1>6. ASSUME NEW e \in Decisions
      PROVE  /\ accepted'[e] <= now'
             /\ accepted'[e] # 0 => handler'[e] \in {"verified", "answered"}
             /\ accepted'[e] # 0 /\ now' <= accepted'[e] + Life =>
                  accepted'[e] + Life <= nonces'[NonceOf[e]]
  <2>1. CASE e = d
    BY <1>1, <1>2, <1>3, <1>a, <1>b, <2>1 DEF Goes
  <2>2. CASE e # d
    <3>1. handler'[e] = handler[e] /\ accepted'[e] = accepted[e]
      BY <1>1, <1>2, <1>a, <2>2 DEF Goes
    <3>2. /\ accepted[e] <= now
          /\ accepted[e] # 0 => handler[e] \in {"verified", "answered"}
      BY DEF WebhookInv, NonceInv
    <3>3. ASSUME accepted[e] # 0, now <= accepted[e] + Life
          PROVE  accepted[e] + Life <= nonces'[NonceOf[e]]
      <4>1. CASE NonceOf[e] = NonceOf[d]
        BY <1>3, <1>b, <3>2, <4>1
      <4>2. CASE NonceOf[e] # NonceOf[d]
        BY <1>3, <3>3, <4>2, UnexpiredKeepsNonces
      <4>3. QED
        BY <4>1, <4>2
    <3>4. QED
      BY <1>2, <3>1, <3>2, <3>3
  <2>3. QED
    BY <2>1, <2>2
<1>7. NonceInv'
  BY <1>5, <1>6 DEF NonceInv
<1>8. TopicInv'
  BY <1>1, TopicFrame
<1>9. WebhookTypeOK' /\ (routed \subseteq Decisions)'
  <2>1. accepted' \in [Decisions -> Nat]
    BY <1>1, <1>a, <1>b
  <2>2. handler' \in [Decisions -> {"unsent", "timely", "verified", "answered"}]
    BY <1>1, <1>a DEF Goes
  <2>3. QED
    BY <1>1, <1>3, <2>1, <2>2 DEF WebhookInv, WebhookTypeOK
<1>10. QED
  BY <1>7, <1>8, <1>9 DEF WebhookInv

\* The steps of a handler that neither accept nor publish.
LEMMA QuietPreserves ==
  ASSUME WebhookInv, NEW d \in Decisions,
         \/ VerifySignature(d) \/ RefuseNonce(d) \/ SkipVerify(d) \/ Reject(d)
  PROVE  WebhookInv'
<1>a. /\ handler \in [Decisions -> {"unsent", "timely", "verified", "answered"}]
      /\ reply \in [Decisions -> {"none", "ok", "refused"}]
      /\ nonces \in [Nonces -> Nat]
  BY DEF WebhookInv, WebhookTypeOK
<1>1. PICK l \in {"timely", "verified", "answered"} :
        Goes(d, l) /\ (l = "timely" => handler[d] = "unsent")
  BY DEF VerifySignature, RefuseNonce, SkipVerify, Reject, Answer
<1>2. /\ handler[d] # "answered"
      /\ UNCHANGED <<secured, now, accepted, topic, routed>>
      /\ nonces' = nonces \/ nonces' = Unexpired
      /\ reply' = reply \/ reply' = [reply EXCEPT ![d] = "refused"]
  BY DEF VerifySignature, RefuseNonce, SkipVerify, Reject, Answer, vars
<1>3. NonceInv'
  BY <1>1, <1>2, NonceFrame
<1>4. TopicInv'
  BY <1>1, <1>2, TopicFrame
<1>5. nonces' \in [Nonces -> Nat]
  BY <1>2, <1>a, UnexpiredKeepsNonces
<1>6. /\ handler' \in [Decisions -> {"unsent", "timely", "verified", "answered"}]
      /\ reply' \in [Decisions -> {"none", "ok", "refused"}]
  BY <1>1, <1>2, <1>a DEF Goes
<1>7. WebhookTypeOK' /\ (routed \subseteq Decisions)'
  BY <1>2, <1>5, <1>6 DEF WebhookInv, WebhookTypeOK
<1>8. QED
  BY <1>3, <1>4, <1>7 DEF WebhookInv

\* A post enters the topic once, when its handler is done with it.
LEMMA PublishPreserves ==
  ASSUME WebhookInv, NEW d \in Decisions, Publish(d)
  PROVE  WebhookInv'
<1>a. /\ handler \in [Decisions -> {"unsent", "timely", "verified", "answered"}]
      /\ reply \in [Decisions -> {"none", "ok", "refused"}]
      /\ routed \subseteq Decisions /\ TopicInv
  BY DEF WebhookInv, WebhookTypeOK
<1>c. topic \in Seq(Decisions) /\ \A i \in DOMAIN topic : topic[i] \in Decisions
  BY TopicHoldsPosts
<1>1. /\ handler[d] = "verified" /\ Goes(d, "answered")
      /\ reply' = [reply EXCEPT ![d] = "ok"]
      /\ UNCHANGED <<secured, now, nonces, accepted, routed>>
      /\ topic' = Append(topic, d) \/ topic' = topic
  BY DEF Publish, Answer, vars
<1>2. /\ handler' \in [Decisions -> {"unsent", "timely", "verified", "answered"}]
      /\ reply' \in [Decisions -> {"none", "ok", "refused"}]
      /\ handler'[d] = "answered"
      /\ \A e \in Decisions : handler[e] = "answered" => handler'[e] = "answered"
  BY <1>1, <1>a DEF Goes
<1>3. topic' \in Seq(Decisions)
  BY <1>1, <1>c
<1>4. WebhookTypeOK' /\ (routed \subseteq Decisions)'
  BY <1>1, <1>2, <1>3 DEF WebhookInv, WebhookTypeOK
<1>5. NonceInv'
  BY <1>1, NonceFrame
<1>6. TopicInv'
  <2>1. d \notin routed /\ \A i \in DOMAIN topic : topic[i] # d
    BY <1>1, <1>a DEF TopicInv
  <2>2. CASE topic' = topic
    BY <1>1, <2>2, TopicFrame
  <2>3. CASE topic' = Append(topic, d)
    <3>1. \A i \in DOMAIN topic' :
            \/ i \in DOMAIN topic /\ topic'[i] = topic[i]
            \/ i = Len(topic) + 1 /\ topic'[i] = d
      BY <1>c, <2>3
    <3>2. \A e \in routed' : handler'[e] = "answered"
      BY <1>1, <1>2, <1>a DEF TopicInv
    <3>3. \A i \in DOMAIN topic' : handler'[topic'[i]] = "answered" /\ topic'[i] \notin routed'
      BY <1>1, <1>2, <1>a, <1>c, <2>1, <3>1 DEF TopicInv
    <3>4. \A i, j \in DOMAIN topic' : topic'[i] = topic'[j] => i = j
      BY <1>a, <2>1, <3>1 DEF TopicInv
    <3>5. QED
      BY <3>2, <3>3, <3>4 DEF TopicInv
  <2>4. QED
    BY <1>1, <2>2, <2>3
<1>7. QED
  BY <1>4, <1>5, <1>6 DEF WebhookInv

\* As the clock goes on, lives only end.
LEMMA TickPreserves ==
  ASSUME WebhookInv, Tick
  PROVE  WebhookInv'
<1>1. now' = now + 1 /\ UNCHANGED <<secured, handler, reply, nonces, accepted, topic, routed>>
  BY DEF Tick, vars
<1>2. /\ Life \in Nat /\ now \in Nat /\ now # 0
      /\ \A d \in Decisions : accepted[d] \in Nat
  BY Moments
<1>3. NonceInv'
  BY <1>1, <1>2 DEF WebhookInv, NonceInv, NonceCountsOnce
<1>4. TopicInv'
  BY <1>1 DEF WebhookInv, TopicInv
<1>5. now' \in Nat \ {0}
  BY <1>1, <1>2
<1>6. WebhookTypeOK' /\ (routed \subseteq Decisions)'
  BY <1>1, <1>5 DEF WebhookInv, WebhookTypeOK
<1>7. QED
  BY <1>3, <1>4, <1>6 DEF WebhookInv

\* The gate takes a post off the topic.
LEMMA ConsumePreserves ==
  ASSUME WebhookInv, Consume
  PROVE  WebhookInv'
<1> USE DEF WebhookInv
<1>1. /\ topic # <<>> /\ topic' = Tail(topic)
      /\ UNCHANGED <<secured, handler, reply, now, nonces, accepted>>
      /\ routed' = routed \cup {Head(topic)}
  BY DEF Consume, RouteDecision, Record
<1>2. topic \in Seq(Decisions) /\ Head(topic) = topic[1] /\ 1 \in DOMAIN topic
  BY <1>1, TopicHoldsPosts
<1>3. topic' \in Seq(Decisions) /\ Head(topic) \in Decisions
  BY <1>1, <1>2
<1>4. WebhookTypeOK' /\ (routed \subseteq Decisions)'
  BY <1>1, <1>3 DEF WebhookTypeOK
<1>5. NonceInv'
  BY <1>1 DEF NonceInv, NonceCountsOnce
<1>6. \A i \in DOMAIN topic' : i + 1 \in DOMAIN topic /\ i + 1 # 1 /\ topic'[i] = topic[i + 1]
  BY <1>1, <1>2
<1>7. \A i \in DOMAIN topic' : i \in Nat
  BY <1>3
<1>8. TopicInv'
  <2>1. \A e \in routed' : handler'[e] = "answered"
    BY <1>1, <1>2 DEF TopicInv
  <2>2. \A i \in DOMAIN topic' : handler'[topic'[i]] = "answered" /\ topic'[i] \notin routed'
    BY <1>1, <1>2, <1>6 DEF TopicInv
  <2>3. \A i, j \in DOMAIN topic' : topic'[i] = topic'[j] => i = j
    <3>1. SUFFICES ASSUME NEW i \in DOMAIN topic', NEW j \in DOMAIN topic',
                          topic'[i] = topic'[j]
                   PROVE  i = j
      OBVIOUS
    <3>2. i + 1 = j + 1
      BY <1>6, <3>1 DEF TopicInv
    <3>3. QED
      BY <1>7, <3>2
  <2>4. QED
    BY <2>1, <2>2, <2>3 DEF TopicInv
<1>9. QED
  BY <1>4, <1>5, <1>8

LEMMA WebhookInvariant == WebhookSpec => []WebhookInv
<1>1. WebhookInit => WebhookInv
  <2> SUFFICES ASSUME WebhookInit PROVE WebhookInv
    OBVIOUS
  <2>1. topic \in Seq(Decisions) /\ DOMAIN topic = {}
    BY DEF WebhookInit
  <2>2. WebhookTypeOK
    BY <2>1, WebhookAssumption DEF WebhookInit, WebhookTypeOK
  <2>3. routed = {}
    BY DEF WebhookInit, Init
  <2>4. NonceInv
    BY WebhookAssumption DEF WebhookInit, NonceInv, NonceCountsOnce
  <2>5. QED
    BY <2>1, <2>2, <2>3, <2>4 DEF WebhookInv, TopicInv
<1>2. WebhookInv /\ [WebhookNext]_allVars => WebhookInv'
  <2> SUFFICES ASSUME WebhookInv, [WebhookNext]_allVars PROVE WebhookInv'
    OBVIOUS
  <2>1. CASE UNCHANGED allVars
    BY <2>1, WebhookFrame DEF allVars, vars
  <2>2. CASE Wait
    BY <2>2, WaitKeepsRouted, WebhookFrame
  <2>3. CASE Consume
    BY <2>3, ConsumePreserves
  <2>4. CASE \E d \in Decisions : Handle(d)
    BY <2>4, QuietPreserves, VerifyPreserves, PublishPreserves DEF Handle
  <2>5. CASE Tick
    BY <2>5, TickPreserves
  <2>6. QED
    BY <2>1, <2>2, <2>3, <2>4, <2>5 DEF WebhookNext
<1>3. QED
  BY <1>1, <1>2, PTL DEF WebhookSpec

\* Two posts with one nonce that a secured webhook lets pass are further apart
\* than the life of the nonce, for any number of handlers that run at once.
THEOREM PostsCountOnce == WebhookSpec => []NonceCountsOnce
<1>1. WebhookInv => NonceCountsOnce
  BY DEF WebhookInv, NonceInv
<1>2. QED
  BY WebhookInvariant, <1>1, PTL

\* The message at the head of the topic is always new to the gate: the
\* consumer of the topic is never held up by the guard of RouteDecision.
THEOREM TopicIsFresh == WebhookSpec => [](topic # <<>> => Head(topic) \in Decisions \ routed)
<1>1. WebhookInv => (topic # <<>> => Head(topic) \in Decisions \ routed)
  <2> SUFFICES ASSUME WebhookInv, topic # <<>> PROVE Head(topic) \in Decisions \ routed
    OBVIOUS
  <2>1. Head(topic) = topic[1] /\ 1 \in DOMAIN topic /\ topic[1] \in Decisions
    BY TopicHoldsPosts
  <2>2. QED
    BY <2>1 DEF WebhookInv, TopicInv
<1>2. QED
  BY WebhookInvariant, <1>1, PTL

\* The gate behind the webhook behaves as the gate alone, so that what is
\* proved of Spec holds behind the webhook too: every step of a handler leaves
\* the gate alone, and what Consume takes off the topic is a decision.
THEOREM WebhookDrivesGate == WebhookSpec => Spec
<1>1. WebhookInit => Init
  BY DEF WebhookInit
<1>2. WebhookInv /\ [WebhookNext]_allVars => [Next]_vars
  <2> SUFFICES ASSUME WebhookInv, [WebhookNext]_allVars PROVE [Next]_vars
    OBVIOUS
  <2>1. CASE UNCHANGED allVars
    BY <2>1 DEF allVars
  <2>2. CASE Wait
    BY <2>2 DEF Wait, Next
  <2>3. CASE Consume
    <3>1. Head(topic) \in Decisions
      BY <2>3, TopicHoldsPosts DEF Consume
    <3>2. QED
      BY <2>3, <3>1 DEF Consume, Next
  <2>4. CASE \E d \in Decisions : Handle(d)
    BY <2>4 DEF Handle, VerifySignature, VerifyNonce, RefuseNonce, SkipVerify, Reject, Publish
  <2>5. CASE Tick
    BY <2>5 DEF Tick
  <2>6. QED
    BY <2>1, <2>2, <2>3, <2>4, <2>5 DEF WebhookNext
<1>3. QED
  BY WebhookInvariant, <1>1, <1>2, PTL DEF WebhookSpec, Spec
=============================================================================
