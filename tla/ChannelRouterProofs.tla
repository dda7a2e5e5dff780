------------------------ MODULE ChannelRouterProofs ------------------------
(***************************************************************************)
(* For any requests, channels and outputs, and however often a task is     *)
(* answered: types, at most one text reply per request, and the binding of *)
(* a task is there when its first result arrives.                          *)
(***************************************************************************)
EXTENDS ChannelRouter, TLAPS

\* Why one reply at most: a request that still has its binding has not been
\* answered, and neither has one whose binding is still to come.
Unanswered ==
  \A r \in Request :
    /\ r \in routes \/ rpc[r] = "new" => replies[r] = 0
    /\ r \in routes => rpc[r] # "new"

\* A text is sent only for a task that has its binding, and keeps it meanwhile.
TextIsBound ==
  lpc # "idle" /\ Head(inbox).out = Text => Head(inbox).task \in routes

IInv == TypeOK /\ TextIsBound /\ Unanswered /\ AnsweredAtMostOnce

\* The heads and tails of the two queues of results are of their types.
LEMMA QueueTypes ==
  ASSUME NEW q \in Seq(Result), q # <<>>
  PROVE  /\ Head(q) \in Result
         /\ Tail(q) \in Seq(Result)
         /\ Head(q).task \in Request
         /\ Head(q).out \in Output
<1>1. Head(q) \in Result /\ Tail(q) \in Seq(Result)
    OBVIOUS
<1> QED
    BY <1>1 DEF Result

\* A text that misses its binding is of a request.
LEMMA MissesType ==
  ASSUME NEW res \in Result
  PROVE  Misses(res) \subseteq Request
BY DEF Misses, Result

\* The invariant holds in the initial states.
LEMMA InitInv == Init => IInv
<1> SUFFICES ASSUME Init PROVE IInv
    OBVIOUS
<1>1. 0 \in 0..MaxResults
    BY RouterAssumption
<1>2. TypeOK
  <2>1. resultsQ \in Seq(Result) /\ inbox \in Seq(Result)
      BY DEF Init
  <2>2. produced \in [Request -> 0..MaxResults] /\ replies \in [Request -> Nat]
      BY <1>1 DEF Init
  <2>3. crashed \in BOOLEAN /\ lpc = "idle"
      BY DEF Init
  <2> QED
      BY <2>1, <2>2, <2>3 DEF Init, TypeOK
<1>3. TextIsBound /\ Unanswered /\ AnsweredAtMostOnce
    BY DEF Init, TextIsBound, Unanswered, AnsweredAtMostOnce
<1> QED
    BY <1>2, <1>3 DEF IInv

\* Every action of the handlers, the agents, both consumers and a restart
\* preserves the types.
LEMMA TypeStep == TypeOK /\ [Next]_vars => TypeOK'
<1> SUFFICES ASSUME TypeOK, [Next]_vars
             PROVE  TypeOK'
    OBVIOUS
<1>1. ASSUME NEW r \in Request, Dispatch(r)
      PROVE  TypeOK'
    BY <1>1 DEF TypeOK, Dispatch, RejectCallback, RememberRoute, EnqueueTask,
                EnqueueTaskFails
<1>2. ASSUME NEW r \in Request, Produce(r)
      PROVE  TypeOK'
  <2>1. PICK out \in Output : resultsQ' = Append(resultsQ, [task |-> r, out |-> out])
      BY <1>2 DEF Produce
  <2>2. resultsQ' \in Seq(Result)
      BY <2>1 DEF TypeOK, Result
  <2>3. produced' \in [Request -> 0..MaxResults]
      BY <1>2, RouterAssumption DEF TypeOK, Produce
  <2> QED
      BY <1>2, <2>2, <2>3 DEF TypeOK, Produce
<1>3. CASE OrchestratorPop
    BY <1>3, QueueTypes DEF TypeOK, OrchestratorPop
<1>4. CASE RouterPop
  <2>1. resultsQ' \in Seq(Result) /\ inbox' \in Seq(Result)
      BY <1>4, QueueTypes DEF TypeOK, RouterPop
  <2>2. inbox' # <<>>
      BY <1>4, QueueTypes DEF TypeOK, RouterPop
  <2> QED
      BY <1>4, <2>1, <2>2 DEF TypeOK, RouterPop
<1>5. CASE SkipResult
    BY <1>5, QueueTypes DEF TypeOK, SkipResult
<1>6. CASE DropReply
    BY <1>6, QueueTypes, MissesType DEF TypeOK, DropReply
<1>9. CASE TakeReply
    BY <1>9, QueueTypes, MissesType DEF TypeOK, TakeReply
<1>10. CASE Build
    BY <1>10 DEF TypeOK, Build
<1>11. CASE Upload
    BY <1>11 DEF TypeOK, Upload
<1>12. CASE BuildFails \/ UploadFails \/ Post \/ PostFails
  <2>1. lpc # "idle" /\ SendReturns
      BY <1>12 DEF BuildFails, UploadFails, Post, PostFails
  <2>2. Head(inbox).task \in Request /\ inbox' \in Seq(Result)
      BY <2>1, QueueTypes DEF TypeOK, SendReturns
  <2>3. failed' \subseteq Request
      BY <1>12, <2>2 DEF TypeOK, BuildFails, UploadFails, Post, PostFails, Lost
  <2>4. replies' \in [Request -> Nat]
    <3>1. replies' = replies \/ replies' = [replies EXCEPT ![Head(inbox).task] = @ + 1]
        BY <1>12 DEF BuildFails, UploadFails, Post, PostFails, Received
    <3>2. replies \in [Request -> Nat]
        BY DEF TypeOK
    <3>3. ASSUME NEW t \in Request, replies' = [replies EXCEPT ![t] = @ + 1]
          PROVE  replies' \in [Request -> Nat]
      <4>1. replies[t] + 1 \in Nat
          BY <3>2
      <4> QED
          BY <3>2, <3>3, <4>1
    <3> QED
        BY <2>2, <3>1, <3>2, <3>3
  <2>5. UNCHANGED <<rpc, produced, resultsQ, missed, crashed>>
      BY <1>12 DEF BuildFails, UploadFails, Post, PostFails
  <2> QED
      BY <2>1, <2>2, <2>3, <2>4, <2>5 DEF TypeOK, SendReturns
<1>7. CASE Crash
    BY <1>7 DEF TypeOK, Crash
<1>8. CASE UNCHANGED vars
    BY <1>8 DEF TypeOK, vars
<1> QED
    BY <1>1, <1>2, <1>3, <1>4, <1>5, <1>6, <1>7, <1>8, <1>9, <1>10, <1>11, <1>12
       DEF Next, Listen, Send

\* While a text is being sent its task keeps the binding: the channel it goes to
\* was the binding's, and only the end of the send removes it.
LEMMA BoundStep == TypeOK /\ TextIsBound /\ [Next]_vars => TextIsBound'
<1> SUFFICES ASSUME TypeOK, TextIsBound, [Next]_vars
             PROVE  TextIsBound'
    OBVIOUS
<1>1. ASSUME NEW r \in Request, Dispatch(r)
      PROVE  TextIsBound'
    BY <1>1 DEF TextIsBound, Dispatch, RejectCallback, RememberRoute, EnqueueTask,
                EnqueueTaskFails
<1>2. ASSUME NEW r \in Request, Produce(r)
      PROVE  TextIsBound'
    BY <1>2 DEF TextIsBound, Produce
<1>3. CASE OrchestratorPop \/ SkipResult \/ DropReply \/ Crash
    BY <1>3 DEF TextIsBound, OrchestratorPop, SkipResult, DropReply, Crash
<1>4. CASE RouterPop
  <2>1. lpc # "idle" => Head(inbox') = Head(inbox)
      BY <1>4, QueueTypes DEF TypeOK, RouterPop
  <2> QED
      BY <1>4, <2>1 DEF TextIsBound, RouterPop
<1>5. CASE TakeReply
  <2>1. Head(inbox).out = Text => Head(inbox).task \in routes
      BY <1>5, RouterAssumption DEF TakeReply, Address, Text
  <2> QED
      BY <1>5, <2>1 DEF TextIsBound, TakeReply
<1>6. CASE Build \/ Upload
    BY <1>6 DEF TextIsBound, Build, Upload
<1>7. CASE BuildFails \/ UploadFails \/ Post \/ PostFails
    BY <1>7 DEF TextIsBound, BuildFails, UploadFails, Post, PostFails, SendReturns
<1>8. CASE UNCHANGED vars
    BY <1>8 DEF TextIsBound, vars
<1> QED
    BY <1>1, <1>2, <1>3, <1>4, <1>5, <1>6, <1>7, <1>8 DEF Next, Listen, Send

\* Only RememberRoute gives a binding, to a request that was new; only a post
\* counts a reply, for a task whose binding goes when it returns.
LEMMA ReplyStep ==
  TypeOK /\ TextIsBound /\ Unanswered /\ AnsweredAtMostOnce /\ [Next]_vars
    => Unanswered' /\ AnsweredAtMostOnce'
<1> SUFFICES ASSUME TypeOK, TextIsBound, Unanswered, AnsweredAtMostOnce, [Next]_vars
             PROVE  Unanswered' /\ AnsweredAtMostOnce'
    OBVIOUS
<1>1. ASSUME NEW r \in Request, Dispatch(r)
      PROVE  Unanswered' /\ AnsweredAtMostOnce'
    BY <1>1 DEF TypeOK, Unanswered, AnsweredAtMostOnce, Dispatch, RejectCallback,
                RememberRoute, EnqueueTask, EnqueueTaskFails
<1>2. ASSUME NEW r \in Request, Produce(r)
      PROVE  Unanswered' /\ AnsweredAtMostOnce'
    BY <1>2 DEF Unanswered, AnsweredAtMostOnce, Produce
<1>3. CASE OrchestratorPop
    BY <1>3 DEF Unanswered, AnsweredAtMostOnce, OrchestratorPop
<1>4. CASE RouterPop
    BY <1>4 DEF Unanswered, AnsweredAtMostOnce, RouterPop
<1>5. CASE SkipResult
    BY <1>5 DEF Unanswered, AnsweredAtMostOnce, SkipResult
<1>6. CASE DropReply \/ TakeReply
    BY <1>6 DEF Unanswered, AnsweredAtMostOnce, DropReply, TakeReply
<1>9. CASE Build \/ Upload
    BY <1>9 DEF Unanswered, AnsweredAtMostOnce, Build, Upload
<1>10. CASE BuildFails \/ UploadFails \/ Post \/ PostFails
  <2> DEFINE t == Head(inbox).task
  <2>1. lpc # "idle" /\ SendReturns /\ UNCHANGED rpc
      BY <1>10 DEF BuildFails, UploadFails, Post, PostFails
  <2>2. t \in Request
      BY <2>1, QueueTypes DEF TypeOK
  <2>3. CASE replies' = replies
      BY <2>1, <2>3 DEF Unanswered, AnsweredAtMostOnce, SendReturns
  <2>4. CASE replies' # replies
    <3>1. /\ replies' = [replies EXCEPT ![t] = @ + 1]
          /\ Head(inbox).out = Text
        BY <1>10, <2>4 DEF BuildFails, UploadFails, Post, PostFails, Received
    <3>2. t \in routes
        BY <2>1, <3>1 DEF TextIsBound
    <3>3. replies[t] = 0 /\ rpc[t] # "new"
        BY <2>2, <3>2 DEF Unanswered
    <3> QED
        BY <2>1, <2>2, <3>1, <3>3 DEF TypeOK, Unanswered, AnsweredAtMostOnce, SendReturns
  <2> QED
      BY <2>3, <2>4
<1>7. CASE Crash
    BY <1>7 DEF TypeOK, Unanswered, AnsweredAtMostOnce, Crash
<1>8. CASE UNCHANGED vars
    BY <1>8 DEF Unanswered, AnsweredAtMostOnce, vars
<1> QED
    BY <1>1, <1>2, <1>3, <1>4, <1>5, <1>6, <1>7, <1>8, <1>9, <1>10 DEF Next, Listen, Send

\* The gateway answers a request at most once, whatever is run again, lost to
\* the other consumer or forgotten by a restart.
THEOREM OneReplyPerRequest == Spec => [](TypeOK /\ AnsweredAtMostOnce)
<1>1. IInv /\ [Next]_vars => IInv'
    BY TypeStep, BoundStep, ReplyStep DEF IInv
<1>2. IInv => TypeOK /\ AnsweredAtMostOnce
    BY DEF IInv
<1> QED
    BY InitInv, <1>1, <1>2, PTL DEF Spec
-----------------------------------------------------------------------------
(* The binding is there *)

In(q, r) == \E i \in 1..Len(q) : q[i].task = r

Once(q, r) == \A i, j \in 1..Len(q) : q[i].task = r /\ q[j].task = r => i = j

\* As long as a request has at most one result, that result is in one place, and
\* the binding made before the task was enqueued is there until it is used.
Bound(r) ==
  /\ produced[r] = 0 => ~In(resultsQ, r) /\ ~In(inbox, r)
  /\ produced[r] = 0 /\ rpc[r] \in {"routed", "accepted"} => r \in routes
  /\ produced[r] <= 1 =>
       /\ Once(resultsQ, r) /\ Once(inbox, r) /\ ~(In(resultsQ, r) /\ In(inbox, r))
       /\ In(resultsQ, r) \/ In(inbox, r) => r \in routes
       /\ r \notin missed

BoundInv == crashed = FALSE => \A r \in Request : Bound(r)

\* What Append and Tail do to the results of a request.
LEMMA AppendResult ==
  ASSUME NEW q \in Seq(Result), NEW x \in Result, NEW r
  PROVE  /\ In(Append(q, x), r) <=> In(q, r) \/ x.task = r
         /\ Once(q, r) /\ (x.task = r => ~In(q, r)) => Once(Append(q, x), r)
<1>1. /\ Len(q) \in Nat /\ Len(Append(q, x)) = Len(q) + 1
      /\ \A i \in 1..Len(q) : Append(q, x)[i] = q[i]
      /\ Append(q, x)[Len(q) + 1] = x
    OBVIOUS
<1>2. In(Append(q, x), r) <=> In(q, r) \/ x.task = r
  <2>1. ASSUME NEW i \in 1..Len(Append(q, x)) PROVE i \in 1..Len(q) \/ i = Len(q) + 1
      BY <1>1
  <2>2. Len(q) + 1 \in 1..Len(Append(q, x)) /\ 1..Len(q) \subseteq 1..Len(Append(q, x))
      BY <1>1
  <2> QED
      BY <1>1, <2>1, <2>2 DEF In
<1>3. ASSUME Once(q, r), x.task = r => ~In(q, r) PROVE Once(Append(q, x), r)
  <2> SUFFICES ASSUME NEW i \in 1..Len(Append(q, x)), NEW j \in 1..Len(Append(q, x)),
                      Append(q, x)[i].task = r, Append(q, x)[j].task = r
               PROVE  i = j
      BY DEF Once
  <2>1. CASE i \in 1..Len(q) /\ j \in 1..Len(q)
      BY <1>1, <1>3, <2>1 DEF Once
  <2>2. CASE i = Len(q) + 1 /\ j \in 1..Len(q)
      BY <1>1, <1>3, <2>2 DEF In
  <2>3. CASE i \in 1..Len(q) /\ j = Len(q) + 1
      BY <1>1, <1>3, <2>3 DEF In
  <2> QED
      BY <1>1, <2>1, <2>2, <2>3
<1> QED
    BY <1>2, <1>3

LEMMA TailResult ==
  ASSUME NEW q \in Seq(Result), q # <<>>, NEW r
  PROVE  /\ In(q, r) <=> In(Tail(q), r) \/ Head(q).task = r
         /\ Once(q, r) => Once(Tail(q), r) /\ (Head(q).task = r => ~In(Tail(q), r))
<1>1. /\ Len(q) \in Nat /\ Len(q) > 0 /\ Len(Tail(q)) = Len(q) - 1 /\ Head(q) = q[1]
      /\ \A i \in 1..Len(Tail(q)) : Tail(q)[i] = q[i + 1]
    OBVIOUS
<1>2. \A i \in 1..Len(q) : i = 1 \/ (i - 1 \in 1..Len(Tail(q)) /\ Tail(q)[i - 1] = q[i])
    BY <1>1
<1>3. 1 \in 1..Len(q) /\ \A i \in 1..Len(Tail(q)) : i + 1 \in 1..Len(q) /\ i + 1 # 1
    BY <1>1
<1>4. In(q, r) <=> In(Tail(q), r) \/ Head(q).task = r
    BY <1>1, <1>2, <1>3 DEF In
<1>5. ASSUME Once(q, r) PROVE Once(Tail(q), r)
  <2> SUFFICES ASSUME NEW i \in 1..Len(Tail(q)), NEW j \in 1..Len(Tail(q)),
                      Tail(q)[i].task = r, Tail(q)[j].task = r
               PROVE  i = j
      BY DEF Once
  <2>1. i + 1 = j + 1
      BY <1>1, <1>3, <1>5 DEF Once
  <2> QED
      BY <2>1
<1>6. ASSUME Once(q, r), Head(q).task = r, In(Tail(q), r) PROVE FALSE
  <2>1. PICK i \in 1..Len(Tail(q)) : Tail(q)[i].task = r
      BY <1>6 DEF In
  <2>2. q[i + 1].task = r /\ q[1].task = r
      BY <1>1, <1>6, <2>1
  <2> QED
      BY <1>3, <1>6, <2>2 DEF Once
<1> QED
    BY <1>4, <1>5, <1>6

\* The listener is done with the head of its inbox: the binding of its task may
\* go, for it was the only result.
LEMMA ConsumeHead ==
  ASSUME TypeOK, NEW r \in Request, Bound(r), inbox # <<>>, inbox' = Tail(inbox),
         UNCHANGED <<rpc, produced, resultsQ>>,
         routes' = routes \/ routes' = routes \ {Head(inbox).task},
         produced[r] <= 1 => r \notin missed'
  PROVE  Bound(r)'
<1>1. inbox \in Seq(Result)
    BY DEF TypeOK
<1>2. /\ In(inbox, r) <=> In(inbox', r) \/ Head(inbox).task = r
      /\ Once(inbox, r) => Once(inbox', r) /\ (Head(inbox).task = r => ~In(inbox', r))
    BY <1>1, TailResult
<1>3. In(resultsQ', r) = In(resultsQ, r) /\ Once(resultsQ', r) = Once(resultsQ, r)
    BY DEF In, Once
<1>4. produced[r] \in Nat
    BY RouterAssumption DEF TypeOK
<1>5. r \in routes /\ Head(inbox).task # r => r \in routes'
    OBVIOUS
<1>6. produced[r] = 0 => Head(inbox).task # r
    BY <1>2 DEF Bound
<1> QED
    BY <1>2, <1>3, <1>4, <1>5, <1>6 DEF Bound

\* A text that misses its binding is a further result.
LEMMA MissedLate ==
  ASSUME TypeOK, NEW r \in Request, Bound(r), inbox # <<>>,
         missed' = missed \cup Misses(Head(inbox)), produced[r] <= 1
  PROVE  r \notin missed'
<1>1. Head(inbox).task = r => r \in routes
  <2>1. inbox \in Seq(Result)
      BY DEF TypeOK
  <2>2. Head(inbox).task = r => In(inbox, r)
      BY <2>1, TailResult
  <2> QED
      BY <2>2 DEF Bound
<1> QED
    BY <1>1 DEF Bound, Misses

\* Every step keeps the invariant.
LEMMA BindingStep == TypeOK /\ BoundInv /\ [Next]_vars => BoundInv'
<1> SUFFICES ASSUME TypeOK, BoundInv, [Next]_vars, crashed' = FALSE, NEW r \in Request
             PROVE  Bound(r)'
    BY DEF BoundInv
<1>1. ~Crash /\ crashed' = crashed
    BY DEF Next, Listen, Send, Dispatch, vars, RejectCallback, RememberRoute, EnqueueTask,
           EnqueueTaskFails, Produce, OrchestratorPop, RouterPop, SkipResult, DropReply,
           TakeReply, Build, BuildFails, Upload, UploadFails, Post, PostFails, Crash
<1>2. Bound(r)
    BY <1>1 DEF BoundInv
<1>3. resultsQ \in Seq(Result) /\ inbox \in Seq(Result) /\ produced[r] \in Nat
    BY RouterAssumption DEF TypeOK
<1>4. ASSUME NEW x \in Request, Dispatch(x) PROVE Bound(r)'
  <2>1. /\ UNCHANGED <<produced, resultsQ, inbox, missed>> /\ routes \subseteq routes'
        /\ rpc'[r] \in {"routed", "accepted"} =>
             rpc[r] \in {"routed", "accepted"} \/ r \in routes'
      BY <1>4 DEF TypeOK, Dispatch, RejectCallback, RememberRoute, EnqueueTask,
                  EnqueueTaskFails
  <2> QED
      BY <1>2, <2>1 DEF Bound, In, Once
<1>5. ASSUME NEW x \in Request, Produce(x) PROVE Bound(r)'
  <2>1. PICK out \in Output : resultsQ' = Append(resultsQ, [task |-> x, out |-> out])
      BY <1>5 DEF Produce
  <2>2. [task |-> x, out |-> out] \in Result
      BY DEF Result
  <2>3. /\ In(resultsQ', r) <=> In(resultsQ, r) \/ x = r
        /\ Once(resultsQ, r) /\ (x = r => ~In(resultsQ, r)) => Once(resultsQ', r)
      BY <1>3, <2>1, <2>2, AppendResult
  <2>4. /\ UNCHANGED <<rpc, routes, inbox, missed>> /\ rpc[x] = "accepted"
        /\ produced'[r] = IF r = x THEN produced[r] + 1 ELSE produced[r]
      BY <1>5 DEF TypeOK, Produce
  <2>5. In(inbox', r) = In(inbox, r) /\ Once(inbox', r) = Once(inbox, r)
      BY <2>4 DEF In, Once
  <2>6. CASE x = r
    <3>1. produced'[r] = produced[r] + 1 /\ produced'[r] # 0
        BY <1>3, <2>4, <2>6
    <3>2. ASSUME produced'[r] <= 1 PROVE produced[r] = 0
        BY <1>3, <3>1, <3>2
    <3>3. produced[r] = 0 => produced[r] <= 1
        BY <1>3
    <3> QED
        BY <1>2, <2>3, <2>4, <2>5, <2>6, <3>1, <3>2, <3>3 DEF Bound
  <2>7. CASE x # r
      BY <1>2, <2>3, <2>4, <2>5, <2>7 DEF Bound
  <2> QED
      BY <2>6, <2>7
<1>6. CASE OrchestratorPop
  <2>1. /\ resultsQ # <<>> /\ resultsQ' = Tail(resultsQ)
        /\ UNCHANGED <<rpc, produced, routes, inbox, missed>>
      BY <1>6 DEF OrchestratorPop
  <2>2. /\ In(resultsQ', r) => In(resultsQ, r)
        /\ Once(resultsQ, r) => Once(resultsQ', r)
      BY <1>3, <2>1, TailResult
  <2>3. In(inbox', r) = In(inbox, r) /\ Once(inbox', r) = Once(inbox, r)
      BY <2>1 DEF In, Once
  <2> QED
      BY <1>2, <2>1, <2>2, <2>3 DEF Bound
<1>7. CASE RouterPop
  <2>1. /\ resultsQ # <<>> /\ resultsQ' = Tail(resultsQ)
        /\ inbox' = Append(inbox, Head(resultsQ))
        /\ UNCHANGED <<rpc, produced, routes, missed>>
      BY <1>7 DEF RouterPop
  <2>2. /\ In(resultsQ, r) <=> In(resultsQ', r) \/ Head(resultsQ).task = r
        /\ Once(resultsQ, r) =>
             Once(resultsQ', r) /\ (Head(resultsQ).task = r => ~In(resultsQ', r))
      BY <1>3, <2>1, TailResult
  <2>3. /\ In(inbox', r) <=> In(inbox, r) \/ Head(resultsQ).task = r
        /\ Once(inbox, r) /\ (Head(resultsQ).task = r => ~In(inbox, r)) => Once(inbox', r)
      BY <1>3, <2>1, QueueTypes, AppendResult
  <2> QED
      BY <1>2, <2>1, <2>2, <2>3 DEF Bound
<1>8. CASE SkipResult
  <2>1. produced[r] <= 1 => r \notin missed'
      BY <1>2, <1>8 DEF SkipResult, Bound
  <2> QED
      BY <1>2, <1>8, <2>1, ConsumeHead DEF SkipResult
<1>9. CASE DropReply
  <2>1. produced[r] <= 1 => r \notin missed'
      BY <1>2, <1>9, MissedLate DEF DropReply
  <2> QED
      BY <1>2, <1>9, <2>1, ConsumeHead DEF DropReply
<1>10. CASE TakeReply
  <2>1. produced[r] <= 1 => r \notin missed'
      BY <1>2, <1>10, MissedLate DEF TakeReply
  <2>2. UNCHANGED <<rpc, produced, resultsQ, routes, inbox>>
      BY <1>10 DEF TakeReply
  <2> QED
      BY <1>2, <2>1, <2>2 DEF Bound, In, Once
<1>11. CASE BuildFails \/ UploadFails \/ Post \/ PostFails
  <2>1. /\ lpc # "idle" /\ SendReturns /\ UNCHANGED <<rpc, produced, resultsQ, missed>>
      BY <1>11 DEF BuildFails, UploadFails, Post, PostFails
  <2>2. inbox # <<>> /\ (produced[r] <= 1 => r \notin missed')
      BY <1>2, <2>1 DEF TypeOK, Bound
  <2> QED
      BY <1>2, <2>1, <2>2, ConsumeHead DEF SendReturns
<1>12. CASE Build \/ Upload \/ UNCHANGED vars
  <2>1. UNCHANGED <<rpc, produced, resultsQ, routes, inbox, missed>>
      BY <1>12 DEF Build, Upload, vars
  <2> QED
      BY <1>2, <2>1 DEF Bound, In, Once
<1> QED
    BY <1>1, <1>4, <1>5, <1>6, <1>7, <1>8, <1>9, <1>10, <1>11, <1>12
       DEF Next, Listen, Send

\* However fast a task is and whatever else goes on: a text result finds the
\* binding of its task, unless it is a further result of it or the gateway was
\* restarted (router.go DispatchIncoming remembers the route first).
THEOREM ResultsFindTheirBinding == Spec => []BindingIsThere
<1>1. Init => TypeOK /\ BoundInv
  <2> SUFFICES ASSUME Init PROVE BoundInv
      BY InitInv DEF IInv
  <2>1. ASSUME NEW r \in Request PROVE Bound(r)
      BY DEF Init, Bound, In, Once
  <2> QED
      BY <2>1 DEF BoundInv
<1>2. TypeOK /\ BoundInv => BindingIsThere
  <2> SUFFICES ASSUME TypeOK, BoundInv, NEW r \in missed, ~crashed PROVE produced[r] > 1
      BY DEF BindingIsThere
  <2>1. crashed = FALSE
      BY DEF TypeOK
  <2>2. r \in Request /\ Bound(r) /\ produced[r] \in Nat
      BY <2>1, RouterAssumption DEF BoundInv, TypeOK
  <2> QED
      BY <2>2 DEF Bound
<1> QED
    BY <1>1, <1>2, TypeStep, BindingStep, PTL DEF Spec
=============================================================================
