--------------------------- MODULE ApprovalWebhook ---------------------------
(***************************************************************************)
(* The way of a decision from the approval webhook to the gate: handlers   *)
(* of the orchestrator's /approval (cmd/orchestrator handleApproval) run   *)
(* concurrently, one per post; they share the nonce store, and put the     *)
(* decisions they accept on the topic "approvals", which the gate of       *)
(* module ApprovalGate consumes in order.                                  *)
(*                                                                         *)
(* A decision of module ApprovalGate is one post.  A sender that had no    *)
(* answer posts again with the same nonce and timestamp.  The clock counts *)
(* moments, Second of them to a second: timestamps are compared in whole   *)
(* seconds, nonces expire to the moment.                                   *)
(***************************************************************************)
EXTENDS ApprovalGate, Integers

CONSTANTS
  Nonces,
  NonceOf,      \* the nonce of each post
  TimestampOf,  \* its timestamp, in seconds
  Unsigned,     \* posts without the headers, or whose signature is wrong
  Malformed,    \* posts whose body does not decode or fails Validate
  Second,       \* moments to a second
  TimeWindow,   \* timeWindow, in seconds
  NonceTTL,     \* nonceTTL, in seconds
  Start,        \* the moment the orchestrator starts
  MaxTime       \* bound on the clock

ASSUME WebhookAssumption ==
  /\ NonceOf \in [Decisions -> Nonces]
  /\ TimestampOf \in [Decisions -> Int]
  /\ Unsigned \subseteq Decisions /\ Malformed \subseteq Decisions
  /\ Second \in Nat \ {0} /\ Start \in Nat \ {0}
  /\ TimeWindow \in Nat /\ NonceTTL \in Nat /\ MaxTime \in Nat

VARIABLES
  secured,    \* is an approval secret configured?
  handler,    \* per post: "unsent", "timely", "verified" or "answered"
  reply,      \* the status it was answered with
  now,        \* the orchestrator's clock
  nonces,     \* InMemNonceStore: when each nonce expires, 0 for no entry
  accepted,   \* when each post got past the verification, 0 for not (history)
  topic       \* messages published and not yet consumed

webhookVars == <<secured, handler, reply, now, nonces, accepted, topic>>
allVars == <<vars, webhookVars>>

\* Type invariant: handlers, the nonce store and the topic (main.go handleApproval,
\* webhook_auth.go).
WebhookTypeOK ==
  /\ secured \in BOOLEAN
  /\ handler \in [Decisions -> {"unsent", "timely", "verified", "answered"}]
  /\ reply \in [Decisions -> {"none", "ok", "refused"}]
  /\ now \in Nat \ {0}
  /\ nonces \in [Nonces -> Nat]
  /\ accepted \in [Decisions -> Nat]
  /\ topic \in Seq(Decisions)

WebhookInit ==
  /\ Init
  /\ secured \in BOOLEAN
  /\ handler = [d \in Decisions |-> "unsent"]
  /\ reply = [d \in Decisions |-> "none"]
  /\ now = Start
  /\ nonces = [n \in Nonces |-> 0]
  /\ accepted = [d \in Decisions |-> 0]
  /\ topic = <<>>

Goes(d, l) == handler' = [handler EXCEPT ![d] = l]

Answer(d, status) == Goes(d, "answered") /\ reply' = [reply EXCEPT ![d] = status]

\* Only a secured webhook reads the clock.
Tick ==
  /\ secured /\ now < MaxTime
  /\ now' = now + 1
  /\ UNCHANGED <<vars, secured, handler, reply, nonces, accepted, topic>>

\* VerifyWebhookSignature up to the nonce: headers, timestamp and signature.
\* The window is tested with the time handleApproval read before it.
InWindow(d) == now \div Second - TimestampOf[d] \in (-TimeWindow)..TimeWindow

VerifySignature(d) ==
  /\ handler[d] = "unsent" /\ secured
  /\ IF d \notin Unsigned /\ InWindow(d)
       THEN Goes(d, "timely") /\ UNCHANGED reply
       ELSE Answer(d, "refused")
  /\ UNCHANGED <<vars, secured, now, nonces, accepted, topic>>

\* The entries that have not expired: the others are deleted whenever the
\* store is asked.
Unexpired == [n \in Nonces |-> IF now > nonces[n] THEN 0 ELSE nonces[n]]

\* Mutant of CheckAndSet: the nonce is looked up and not recorded.
CheckOnly(n) == Unexpired[n] = 0 /\ nonces' = Unexpired

\* InMemNonceStore.CheckAndSet returns true: under its lock and with its own
\* reading of the clock, the last thing VerifyWebhookSignature does.
CheckAndSet(n) ==
  /\ Unexpired[n] = 0
  /\ nonces' = [Unexpired EXCEPT ![n] = now + NonceTTL * Second]

\* The post gets past the verification.
VerifyNonce(d) ==
  /\ handler[d] = "timely"
  /\ CheckAndSet(NonceOf[d])
  /\ accepted' = [accepted EXCEPT ![d] = now]
  /\ Goes(d, "verified")
  /\ UNCHANGED <<vars, secured, reply, now, topic>>

RefuseNonce(d) ==
  /\ handler[d] = "timely"
  /\ Unexpired[NonceOf[d]] # 0
  /\ nonces' = Unexpired
  /\ Answer(d, "refused")
  /\ UNCHANGED <<vars, secured, now, accepted, topic>>

\* Without a secret nothing is verified.
SkipVerify(d) ==
  /\ handler[d] = "unsent" /\ ~secured
  /\ Goes(d, "verified")
  /\ UNCHANGED <<vars, secured, reply, now, nonces, accepted, topic>>

\* The body is refused; its nonce is used up.
Reject(d) ==
  /\ handler[d] = "verified"
  /\ d \in Malformed
  /\ Answer(d, "refused")
  /\ UNCHANGED <<vars, secured, now, nonces, accepted, topic>>

\* The decision is published; an error of Publish is ignored.
Publish(d) ==
  /\ handler[d] = "verified"
  /\ d \notin Malformed
  /\ topic' = Append(topic, d) \/ UNCHANGED topic
  /\ Answer(d, "ok")
  /\ UNCHANGED <<vars, secured, now, nonces, accepted>>

\* The gate's goroutine takes the next message.
Consume ==
  /\ topic # <<>>
  /\ RouteDecision(Head(topic))
  /\ topic' = Tail(topic)
  /\ UNCHANGED <<secured, handler, reply, now, nonces, accepted>>

Handle(d) ==
  \/ VerifySignature(d) \/ VerifyNonce(d) \/ RefuseNonce(d) \/ SkipVerify(d)
  \/ Reject(d) \/ Publish(d)

Wait == (\E c \in Calls : Step(c) \/ Cancel(c)) /\ UNCHANGED webhookVars

WebhookNext == Wait \/ Consume \/ Tick \/ \E d \in Decisions : Handle(d)

\* The gate as in FairSpec.
WebhookSpec ==
  /\ WebhookInit /\ [][WebhookNext]_allVars
  /\ \A c \in Calls : WF_vars(Step(c))

-----------------------------------------------------------------------------
\* A decision posted again while its nonce is kept is not a second decision: two
\* posts with one nonce that both get past the verification of a secured webhook
\* do so more than nonceTTL apart, however their handlers interleave and although
\* the window was tested with an earlier reading of the clock (CheckAndSet before
\* Decode and Publish, webhook_auth.go:39-57).  Further apart the store has
\* forgotten the nonce, and a timestamp that is still in the window passes.
NonceCountsOnce ==
  \A d, e \in Decisions :
    /\ d # e /\ NonceOf[d] = NonceOf[e]
    /\ accepted[d] # 0 /\ accepted[d] <= accepted[e]
    => accepted[d] + NonceTTL * Second < accepted[e]
=============================================================================
