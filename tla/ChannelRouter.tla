--------------------------- MODULE ChannelRouter ---------------------------
(***************************************************************************)
(* The gateway process: callbacks of chat channels become tasks, and the   *)
(* results of tasks go back to the channel that asked                      *)
(* (internal/gateway/router.go, ingress_handler.go and the callback        *)
(* handlers of the adapters).  DispatchIncoming remembers the route of a   *)
(* task and then enqueues it; one goroutine takes results from             *)
(* "task_results", the queue the orchestrator takes them from as well.     *)
(*                                                                         *)
(* A request is identified with its task id, a fresh reading of the clock; *)
(* a callback the channel sends twice is two requests.  Orchestrator and   *)
(* agents are module Orchestrator; here they put up to MaxResults results  *)
(* per task on the queue: a task recovered after a crash is run, and       *)
(* answered, again.                                                        *)
(*                                                                         *)
(* One goroutine sends all replies: it builds the message, uploads its     *)
(* media and posts it (module ReplyPlan says which of these an adapter     *)
(* needs), and goes on to the next result whatever came of it.  The tokens *)
(* the WeCom and DingTalk applications need for this are in ChannelClient. *)
(***************************************************************************)
EXTENDS Naturals, Sequences, ReplyPlan

CONSTANTS
  Request,
  Origin,       \* per request, its session and channel
  Channel,      \* channel names
  Adapters,     \* channels with a registered adapter
  Blank,        \* an empty session or channel name
  Output,       \* what results may carry, see below
  MaxResults,   \* bound on the results of one task
  Faults        \* subset of {"enqueue", "send", "crash"}

\* What decodeGatewayResponse makes of an output: nothing (a failed task, or
\* one that answered with an empty text), a text without an address, or a
\* message that may carry its own.
Empty == [kind |-> "empty", channel |-> Blank, reply |-> PlainText]
Text == [kind |-> "text", channel |-> Blank, reply |-> PlainText]
Message(ch, m) == [kind |-> "message", channel |-> ch, reply |-> m]

ASSUME RouterAssumption ==
  /\ Origin \in [Request -> Channel]
  /\ Adapters \subseteq Channel \cap AdapterName
  /\ Blank \notin Channel
  /\ Output \subseteq
       {Empty, Text} \cup {Message(ch, m) : ch \in Channel \cup {Blank}, m \in Reply}
  /\ MaxResults \in Nat
  /\ Faults \subseteq {"enqueue", "send", "crash"}

VARIABLES
  rpc,       \* the handler of each request
  produced,  \* results put on the queue so far, per request
  resultsQ,  \* queue "task_results"
  routes,    \* SessionRouter.routes: the tasks with a binding
  inbox,     \* results the Dequeue goroutine of the router forwarded; the one
             \* being sent stays at the head until the send is over
  lpc,       \* the listener: "idle", or what it does for the head of inbox
  replies,   \* texts that reached the channel, per request (history)
  failed,    \* requests the send of a text failed for (history)
  missed,    \* requests a text result of which found no binding (history)
  crashed    \* the gateway was restarted (history)

vars == <<rpc, produced, resultsQ, routes, inbox, lpc, replies, failed, missed, crashed>>

Result == [task : Request, out : Output]

\* Type invariant: the routing table and the results hold requests the gateway
\* dispatched and outputs that parsed (router.go).
TypeOK ==
  /\ rpc \in [Request -> {"new", "rejected", "routed", "accepted", "refused", "gone"}]
  /\ produced \in [Request -> 0..MaxResults]
  /\ resultsQ \in Seq(Result)
  /\ routes \subseteq Request
  /\ inbox \in Seq(Result)
  /\ lpc \in {"idle", "build", "upload", "post"}
  /\ lpc # "idle" => inbox # <<>>
  /\ replies \in [Request -> Nat]
  /\ failed \subseteq Request
  /\ missed \subseteq Request
  /\ crashed \in BOOLEAN

Init ==
  /\ rpc = [r \in Request |-> "new"]
  /\ produced = [r \in Request |-> 0]
  /\ resultsQ = <<>>
  /\ routes = {}
  /\ inbox = <<>>
  /\ lpc = "idle"
  /\ replies = [r \in Request |-> 0]
  /\ failed = {}
  /\ missed = {}
  /\ crashed = FALSE

-----------------------------------------------------------------------------
(* A callback handler and DispatchIncoming, on the handler's goroutine *)

\* The callback fails to authenticate, to parse or to map, or it was only the
\* channel's challenge: the handler answers without dispatching it.
RejectCallback(r) ==
  /\ rpc[r] = "new"
  /\ rpc' = [rpc EXCEPT ![r] = "rejected"]
  /\ UNCHANGED <<produced, resultsQ, routes, inbox, lpc, replies, failed, missed, crashed>>

\* Mutant of RememberRoute: nothing is remembered before the task is enqueued.
ForgetRoute(r) ==
  /\ rpc[r] = "new"
  /\ rpc' = [rpc EXCEPT ![r] = "routed"]
  /\ UNCHANGED <<produced, resultsQ, routes, inbox, lpc, replies, failed, missed, crashed>>

RememberRoute(r) ==
  /\ rpc[r] = "new"
  /\ rpc' = [rpc EXCEPT ![r] = "routed"]
  /\ routes' = routes \cup {r}
  /\ UNCHANGED <<produced, resultsQ, inbox, lpc, replies, failed, missed, crashed>>

EnqueueTask(r) ==
  /\ rpc[r] = "routed"
  /\ rpc' = [rpc EXCEPT ![r] = "accepted"]
  /\ UNCHANGED <<produced, resultsQ, routes, inbox, lpc, replies, failed, missed, crashed>>

\* The client is told that it failed; the binding stays.
EnqueueTaskFails(r) ==
  /\ rpc[r] = "routed"
  /\ "enqueue" \in Faults
  /\ rpc' = [rpc EXCEPT ![r] = "refused"]
  /\ UNCHANGED <<produced, resultsQ, routes, inbox, lpc, replies, failed, missed, crashed>>

-----------------------------------------------------------------------------
(* Agents, and the orchestrator as the other consumer of their results *)

Produce(r) ==
  /\ rpc[r] = "accepted"
  /\ produced[r] < MaxResults
  /\ produced' = [produced EXCEPT ![r] = @ + 1]
  /\ \E out \in Output : resultsQ' = Append(resultsQ, [task |-> r, out |-> out])
  /\ UNCHANGED <<rpc, routes, inbox, lpc, replies, failed, missed, crashed>>

OrchestratorPop ==
  /\ resultsQ # <<>>
  /\ resultsQ' = Tail(resultsQ)
  /\ UNCHANGED <<rpc, produced, routes, inbox, lpc, replies, failed, missed, crashed>>

-----------------------------------------------------------------------------
(* StartStreamListener *)

RouterPop ==
  /\ resultsQ # <<>>
  /\ inbox' = Append(inbox, Head(resultsQ))
  /\ resultsQ' = Tail(resultsQ)
  /\ UNCHANGED <<rpc, produced, routes, lpc, replies, failed, missed, crashed>>

\* Skipped: the binding of the task, if any, stays.
SkipResult ==
  /\ lpc = "idle"
  /\ inbox # <<>>
  /\ Head(inbox).out.kind = "empty"
  /\ inbox' = Tail(inbox)
  /\ UNCHANGED <<rpc, produced, resultsQ, routes, lpc, replies, failed, missed, crashed>>

\* The channel a reply goes to: its own, else that of the binding.
Address(res) ==
  IF res.out.channel = Blank /\ res.task \in routes THEN Origin[res.task]
  ELSE res.out.channel

\* A text that has no binding any more.
Misses(res) == IF res.out = Text /\ res.task \notin routes THEN {res.task} ELSE {}

\* Without a channel, or without an adapter for it, nothing is sent.  The
\* binding goes all the same.
DropReply ==
  /\ lpc = "idle"
  /\ inbox # <<>>
  /\ Head(inbox).out.kind # "empty"
  /\ Address(Head(inbox)) \notin Adapters
  /\ missed' = missed \cup Misses(Head(inbox))
  /\ routes' = routes \ {Head(inbox).task}
  /\ inbox' = Tail(inbox)
  /\ UNCHANGED <<rpc, produced, resultsQ, lpc, replies, failed, crashed>>

TakeReply ==
  /\ lpc = "idle"
  /\ inbox # <<>>
  /\ Head(inbox).out.kind # "empty"
  /\ Address(Head(inbox)) \in Adapters
  /\ missed' = missed \cup Misses(Head(inbox))
  /\ lpc' = "build"
  /\ UNCHANGED <<rpc, produced, resultsQ, routes, inbox, replies, failed, crashed>>

-----------------------------------------------------------------------------
(* The adapter's Send, on the listener's goroutine *)

ReplyPlanned == Plan(Address(Head(inbox)), Head(inbox).out.reply)

\* Mutant of SendReturns: the binding is kept.
SendReturnsKeepRoute ==
  /\ lpc' = "idle"
  /\ inbox' = Tail(inbox)
  /\ UNCHANGED routes

\* Send returns to the listener, which ignores its error and drops the binding.
SendReturns ==
  /\ lpc' = "idle"
  /\ inbox' = Tail(inbox)
  /\ routes' = routes \ {Head(inbox).task}

\* A text the channel receives as one is an answer.
Received ==
  replies' = IF Head(inbox).out = Text /\ ReplyPlanned.form = "text"
               THEN [replies EXCEPT ![Head(inbox).task] = @ + 1] ELSE replies

Lost == failed' = IF Head(inbox).out = Text THEN failed \cup {Head(inbox).task} ELSE failed

Build ==
  /\ lpc = "build"
  /\ ReplyPlanned # Refused
  /\ lpc' = IF ReplyPlanned.upload THEN "upload" ELSE "post"
  /\ UNCHANGED <<rpc, produced, resultsQ, routes, inbox, replies, failed, missed, crashed>>

\* The message has no form for this adapter, or it lacks an address: a session
\* or receiver, a webhook.
BuildFails ==
  /\ lpc = "build"
  /\ ReplyPlanned = Refused \/ "send" \in Faults
  /\ SendReturns
  /\ Lost
  /\ UNCHANGED <<rpc, produced, resultsQ, replies, missed, crashed>>

Upload ==
  /\ lpc = "upload"
  /\ lpc' = "post"
  /\ UNCHANGED <<rpc, produced, resultsQ, routes, inbox, replies, failed, missed, crashed>>

UploadFails ==
  /\ lpc = "upload"
  /\ "send" \in Faults
  /\ SendReturns
  /\ Lost
  /\ UNCHANGED <<rpc, produced, resultsQ, replies, missed, crashed>>

Post ==
  /\ lpc = "post"
  /\ SendReturns
  /\ Received
  /\ UNCHANGED <<rpc, produced, resultsQ, failed, missed, crashed>>

\* Mutant of PostFails: the listener gives up on the first error.
PostFailsFatal ==
  /\ lpc = "post"
  /\ "send" \in Faults
  /\ lpc' = "stopped"
  /\ Lost
  /\ UNCHANGED <<rpc, produced, resultsQ, routes, inbox, replies, missed, crashed>>

\* No answer within the timeout, or one that is no success: the channel may
\* have received the message nevertheless.
PostFails ==
  /\ lpc = "post"
  /\ "send" \in Faults
  /\ SendReturns
  /\ Received \/ UNCHANGED replies
  /\ Lost
  /\ UNCHANGED <<rpc, produced, resultsQ, missed, crashed>>

\* The gateway is restarted: bindings, forwarded results and running handlers
\* are gone.
Crash ==
  /\ "crash" \in Faults
  /\ crashed' = TRUE
  /\ routes' = {}
  /\ inbox' = <<>>
  /\ lpc' = "idle"
  /\ rpc' = [r \in Request |-> IF rpc[r] = "routed" THEN "gone" ELSE rpc[r]]
  /\ UNCHANGED <<produced, resultsQ, replies, failed, missed>>

-----------------------------------------------------------------------------
Dispatch(r) ==
  RejectCallback(r) \/ RememberRoute(r) \/ EnqueueTask(r) \/ EnqueueTaskFails(r)

Listen == SkipResult \/ DropReply \/ TakeReply

Send == Build \/ BuildFails \/ Upload \/ UploadFails \/ Post \/ PostFails

Next ==
  \/ \E r \in Request : Dispatch(r) \/ Produce(r)
  \/ OrchestratorPop \/ RouterPop
  \/ Listen \/ Send
  \/ Crash

Spec == Init /\ [][Next]_vars

\* The gateway's goroutines run, every exchange of an adapter ends, and tasks end;
\* which consumer gets a result is the queue's choice.  The adapters' HTTP clients
\* have a timeout, but DingTalk's SDK calls are given none and drop the context
\* (dingtalk/app_client.go:721-762): that they return is an assumption.
FairSpec ==
  /\ Spec
  /\ \A r \in Request : WF_vars(EnqueueTask(r)) /\ WF_vars(Produce(r))
  /\ WF_vars(OrchestratorPop \/ RouterPop)
  /\ WF_vars(Listen \/ Send)

-----------------------------------------------------------------------------
(* Safety *)

\* A request is answered with a text at most once, although its task may be
\* run, and its result delivered, several times: the first reply takes the
\* binding with it, and a text without a binding has no channel
\* (router.go:132-159).
AnsweredAtMostOnce == \A r \in Request : replies[r] <= 1

\* A text result finds the binding of its task, however fast the task was: the
\* route is remembered before the task is enqueued (router.go:91-100).  Only a
\* later result of the same task, or a restart of the gateway in between, can
\* come too late for it.
BindingIsThere ==
  \A r \in missed : crashed \/ produced[r] > 1

-----------------------------------------------------------------------------
(* Liveness *)

\* A text result the router has taken, and whose binding is there, is sent to
\* the channel that asked, or its send fails: replies that cannot be built,
\* uploaded or posted, to this channel or to another, do not keep the listener
\* from it, nor does the queue before it (router.go:150-159 ignores the error
\* and goes on).  It may also find the binding used up by an earlier result of
\* the same task, or gone with a restart.  DingTalk's application with a default card template is left
\* out: there the text is replaced by a card (dingtalk/app_client.go:259-264).
ReachedIsAnswered ==
  \A r \in {q \in Request : /\ Origin[q] \in Adapters
                           /\ Plan(Origin[q], PlainText).form = "text"} :
    (/\ r \in routes
     /\ \E i \in 1..Len(inbox) : inbox[i].task = r /\ inbox[i].out = Text)
    ~> replies[r] > 0 \/ r \in failed \cup missed \/ crashed

-----------------------------------------------------------------------------
(* What the documentation says and the code does not do *)

\* "the gateway/session router also listens for the fanback on task_results to
\* push replies back to external channels" (internal_bus.md:11).  The results
\* are a queue: what the orchestrator takes the router never sees.
AcceptedIsAnswered ==
  \A r \in Request : rpc[r] = "accepted" ~> replies[r] > 0
=============================================================================
