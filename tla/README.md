# A verification of agentic-core in TLA+

agentic-core runs LLM agents as processes: a gateway takes chat requests and
messages of chat channels, an orchestrator turns queued messages into workflows
and starts a subagent per task, a runtime loop drives the model, its tools and
the approval of writes, and a bus (Redis lists and topics) connects them. This
directory models the parts that carry the control of that system, checks them
with TLC on small instances and proves the central invariants with TLAPS for all
instances. `PROJECT.json` maps every definition to the lines it models.

## The system and its parts

| part | state | operations | interacts through | what is hard |
|---|---|---|---|---|
| workflow executor (`internal/workflow`) | graph, node states | AddTask, Start, MarkCompleted, MarkFailed | callback OnNodeReady, which spawns an agent | map iteration order, an error in the middle of a loop, duplicate results |
| approval gate (`internal/skill/approval_gate.go`) | buffered decisions, waiters | WaitDecision, consume | topic `approvals`, channels of the waiters | lost wake-ups, timeout against decision, repeated and late callbacks |
| execution kernel (`internal/llm`) | turn, transcript, chunk numbers | Run, Emit* | provider, tools, approval gate, topic `chunks.<task>` | cancellation at any point, lost publishes, one terminal event, status from error texts |
| status contract (`internal/memory/task_status.go`) | none | Normalize, IsTerminal, three classifiers | used by all | layers that disagree |
| orchestrator (`cmd/orchestrator`) | workflows, task rows | recovery, ProcessOneTask, ListenResults, chat requests | queues `tasks`, `task.<id>`, `task_results`, SQLite, spawned processes | crashes between steps, goroutines left behind, two writers of one row, rows of chat requests among the tasks |
| approval webhook (`handleApproval`, `internal/skill/webhook_auth.go`) | used nonces and when they expire | verify, decode, publish | topic `approvals` | posts sent again, at once or when the nonce expires; a publish whose error is ignored |
| subagent (`cmd/subagent`) | its queue | Run, sendResult | `task.<id>`, `task_results` | several agents for one task, results that cannot be encoded |
| chat streaming (`internal/gateway/chat_completions_handler.go`, `sender.go`) | request row, sink table | ServeHTTP, PublishChunk, Start | topic `chunks.*`, the HTTP response | handler and Sender goroutine share the response; disconnects; publish errors |
| session router (`internal/gateway/router.go`) and the adapters | routes | DispatchIncoming, StartStreamListener, Send | `tasks`, `task_results`, the channels' HTTP APIs | replies once, routes before tasks, a queue with two consumers, one goroutine for all sends, restarts |
| channel clients (`wecom/client.go`, `dingtalk/app_client.go`) | cached access token | Send, DownloadMedia | the services' HTTP APIs | a token checked early and used late, refreshes that overtake each other |
| session history and context guard (`internal/session`, `internal/llm/context_guard.go`) | messages of a session | AddMessage, GetHistory, SemanticCompact | a SQLite file shared by agents | runs of one session that interleave, inserts and summaries that fail, windows that cut |
| inbound media (`wecom/handler.go`, `wecom/media_retention.go`) | files, their ages | DownloadMedia, the sweep | the media directory | a sweep beside a copy, files that cannot be removed, files nobody refers to |
| field mapping of callbacks, callback encryption, audit, logging, sandbox, vector store, heartbeat, provider HTTP and routes, configuration | see `PROJECT.json` | | | not modelled, reasons below |

## Modules

`Workflow` — the operations hold the executor's mutex, so each is one action. The
readying loop of Start and MarkNodeCompleted takes its candidates in any order and
stops at the first error; `ReadyAll` is that loop in closed form: a set readied
without error and, possibly, the node that failed. `built`, `spawned` and `aborted`
are history.

`DagOrder` — TopologicalOrder, one action per iteration of the queue loop. The
reference definition of acyclicity is a ranking of the nodes. `WorkflowOrder` composes
it with `Workflow`: both work on the graph AddTask built.

`ApprovalGate` — one action per critical section of the mutex; `WaitDecision` is a
program counter per call: first look at the buffer, registration, second look,
select, deferred removal. `RouteDecision` is the consumer's handling of a message.
`before` records the order in which the consumer took the decisions.
`ApprovalWebhook` extends it with the producer of the decisions: one handler per post,
with the window of timestamps, the nonce store's critical section, the checks of the
body, and a publish that may fail or get lost. A post sent again is another post with
the same nonce and timestamp. The clock counts moments, `Second` of them to a second,
because the window is tested in whole seconds with the time the handler read first,
while a nonce expires to the moment by the store's own reading.

`TaskStatus` — the status contract and the classifiers. An error is abstracted to
what the classifiers look at: the context error it wraps and the phrases its text
contains.

`Runtime` — one Run: an action per step of the loop. Cancelling the context is an
action of its own that may happen between any two, after which every publish
fails. `Wirings` are the ways the repository builds a Runtime. `Fanout` numbers
chunks before publishing them and lets one terminal chunk through. The approval gate
is the one of `ApprovalGate` as a single task sees it: decisions are posted at any time,
kept by call id and by nothing else, taken oldest first, and a look at the buffer and
the registration behind it are one step. `executed` records which decision each tool
ran with.

`Orchestrator` — composes main's recovery and task loop, the Dequeue goroutines it
leaves behind, the result listener, the SQLite rows and the agents of each life
(boot) of the orchestrator, all over the queues of the bus. Agents outlive the
orchestrator. Chat requests keep their rows in the same table, and recovery may meet
them. `Settings` are the environments of a run, one of which is chosen at the start:
the tasks, the chat requests, the lives, and which calls may fail (enqueue, spawn,
store, encoding a result, the death of an agent, the gateway taking a result, a
crash).

`ChatStream` — composes the handler of one request, streaming or not (both producers:
upstream bridge and runtime with tools), the fanout, the bus and the Sender goroutine.
`StreamDelivery` is the abstract specification: numbered chunks that are published or
lost, delivered in order until a terminal one, a terminator, nothing after it.
An outcome may fail to be stored, which the handler ignores; `saved` records it.
ChatStream implements StreamDelivery; the mapping takes what the Sender holds and what is on the
bus for `queue` while the sink is registered, and `closed` is a sink that is gone or a
handler that returned. The property is `DeliversInOrder`.

`ReplyPlan` — what each of the six adapters makes of a reply: the form it posts,
whether it uploads first, or that it refuses. Pure operators.

`ChannelRouter` — callback handlers, routing table and result listener of the
gateway with the adapters' sends on the listener's goroutine, and agents and
orchestrator as the environment of `task_results`.

`ChannelClient` — concurrent calls of one client over its cached token, with a
clock. The mutex protects reading and replacing the token, not the fetch between. That
every exchange ends within `Timeout` is the HTTP client's doing, except for the two that
DingTalk makes through its SDK (`GetAccessToken`, `SendInteractiveCard`,
`dingtalk/app_client.go:721-762`), which this repository gives neither a timeout nor a
context: for them it is an assumption.

`SessionHistory` — the runs of a session, each a program counter over the calls of the
subagent: read and compact, prompt, two inserts whose stamps are taken before, reply.
A read may fail, or break off unnoticed (`BuildMessagesCut`, `rows.Err()` is not asked).
Prompts hold row numbers, so a property can say which messages a run was told.

`MediaStore` — handlers that download into the media directory and the sweeper, over
files with an age; a directory listing is taken once per sweep and worked through.

`MC*` modules give the constants that a cfg cannot, `*Proofs` modules the proofs.
Operators described as a *mutant of* another one are deliberately wrong variants of
it: replacing the original by the variant must make TLC report the property named
for it in `PROJECT.json`, which shows that the property depends on that code.

## Runs

Passing runs, with their bounds:

| run | instance | shows |
|---|---|---|
| `workflow` | 3 nodes, all graphs including cycles, spawns may fail; TopologicalOrder on the same graphs | DepsDone, SpawnedOnce, ReadyNodeRunsUnlessAborted, SettledStaysSettled, AcyclicRunsToTheEnd; OrderRespectsEdges, VerdictIsRight |
| `approval` | 3 calls (one refused) on one key under 2 traces, 4 posts: one sent again, one without a trace and unsigned, one malformed from a clock ahead; with a secret or without; window and nonce life of 1 second, a clock of 4 half seconds; losses (324 thousand states) | NoMissedDecision, AnswerMatchesRequest, WaiterRegistration, LostOnlyBehindOutcome, NoOlderLeftBehind, EveryCallReturns; NonceCountsOnce |
| `runtime` | 2 turns, 2 call ids, 3 decisions at any time, all wirings (2 million states) | TerminalIsLast, WritesAreApproved, ReportsAgree, TranscriptPaired, CauseDecidesStatus, OnlyPredictHangs |
| `orchestrator` | four environments: 2 tasks over a restart; 1 task, 3 lives, every fault; a chat request with every fault; a task and a chat request over a restart | WaitingIsUntouched, SuccessIsEarned, EveryMessageRunsOnce, OneStartPerBoot; StartedTaskSettles |
| `chat_stream` | up to 4 chunks before the terminal one, streaming or not, with or without tools, a client that disconnects, a store that refuses, publishes that fail in some behaviours and in others not | SuccessMeansFinal, DrainedBeforeReturn, AnswerAgreesWithRow, DeliversInOrder; HandlerReturns where no publish fails |
| `channel_router` | 2 requests from 2 channels, 2 results each, messages for all six adapters, every fault | AnsweredAtMostOnce, BindingIsThere; ReachedIsAnswered |
| `channel_client` | 2 calls, 9 ticks, timeout and work of 1 tick | NoExpiredToken |
| `session_history` | 3 interleaving runs after 2 finished turns and one of another session, a window of 4 of which 2 are kept, a clock of 2 readings, one fault (an insert, a summary, a read, a death) | AnswerIsRemembered, QuestionBeforeAnswer, WholeTurns |
| `media` | 2 deliveries, files kept for 2 ticks, copies and sweeps of 1 tick, 2 crashes | AcceptedMediaIsThere; ExpiredIsRemoved |

Why the bounds are enough: three nodes hold a chain, a fork, a join and every cycle
up to three; two waits on one key and a decision that matches both are the least
with which a decision can be taken by the wrong call or lost behind another, and the
clock runs past the life of a nonce while the timestamp of its post is still in the
window, and past the window; two turns of the runtime are the least in which an
approval could be used by a second call of the same id, the second of them being the
last, and three decisions the least for one before, one for and one after a call; two
tasks are the least for which one Dequeue
goroutine can take the other's task, two lives for an agent of the past beside a
present one, three for a recovery of a recovery; two results the least for a second
reply, and two requests for a failing send in front of another's reply. Three runs
beside two finished turns overfill the window; two readings of the clock let messages
share a stamp or not. Two files are the least for one to block the sweep of another,
and a sweep of one tick can list a file before it expires and look at it after. In
`channel_client` the margin is tight: with one tick less TLC finds an expired token.

Runs that must be violated show where the code does not do what a document or a
test of the repository says; `PROJECT.json` quotes the lines.

| run | property | the code |
|---|---|---|
| `orchestrator_row` | SettledRowIsTerminal | the running row may overwrite a terminal one |
| `orchestrator_stranded` | SubmittedTaskIsScheduled | a Dequeue goroutine of an earlier ProcessOneTask swallows a task |
| `channel_router_fanback` | AcceptedIsAnswered | results taken by the orchestrator are never sent to the channel |

### Other divergences the models exhibit

Each of these is a behaviour that a module above has, against what a document or test
says. They are described here and no run is about them: a passing run that checks a
property with them in the model shows the property holds in spite of them. KD is
`docs/superpowers/specs/2026-03-18-llm-execution-kernel-design.md`, AL is
`docs/superpowers/specs/2026-03-19-task-terminal-state-alignment-design.md`.

| the code | a document or test says |
|---|---|
| `approval_gate.go:117` buffers every decision nobody waits for, so a repeated or late callback answers a later wait on the key (ApprovalGate: `RouteDecision` after the call's `Timeout`, then a call on the same key returns it; Runtime: a `Post` behind one call decides a later call with its id) | KD:251 only the first callback is effective; KD:252 a late one is `ignored_late_decision` |
| `approval_gate.go:69`: between the registration and the second look one decision reaches the channel and a second one, with no waiter left, the buffer; the second look returns the second one (ApprovalGate: two `RouteDecision` between `AddWaiter` and `TakeSecond`) | KD:251 only the first callback is effective |
| `webhook_auth.go:54` and `:83`: a nonce is kept for 300 seconds from its receipt to the moment, a timestamp passes for 300 whole seconds on either side, so the repetition of a post whose clock runs ahead, or that was received early in its second, can be accepted once the nonce is forgotten (ApprovalWebhook: NonceCountsOnce does not hold without its distance) | the comment at `webhook_auth.go:25`: the store is there against repeated posts |
| `runtime_loop.go:183` reads the status from an error text that quotes the model's output, so a parse failure can be a timeout (Runtime: `ParseFails` with the phrase `timeout`, `cause = "parse"` and SubagentReport is `timeout`) | AL:78 parse failures are `failed` |
| `runtime_loop.go:157` publishes the cancelled event through the cancelled context, where it is lost (Runtime: a cancelled run ends without a terminal chunk on the bus) | `runtime_loop_test.go:267` expects `cancelled` among the events |
| `cmd/orchestrator/main.go:444` recovers a task whose first agent still runs, and both runs end with a terminal event (Orchestrator, two lives) | KD:150 one `final` or `error` per task |
| `cmd/orchestrator/main.go:391` looks for terminal rows in the list read before; a task that became terminal since is enqueued (Orchestrator, two lives) | `main_test.go:978` "terminal task should not enqueue" |
| `cmd/subagent/main.go:304` pastes the output between quotes, so one with a quote cannot be encoded and its result is never sent (Orchestrator, fault `encode`) | `docs/protocol/internal_bus.md:11` subagents publish their terminal result |
| `sender.go:137` unregisters the sink before it writes `[DONE]`; the handler may return in between (ChatStream: `Return` between `SenderUnregister` and `SenderClose`) | KD:26 the transport ends with `[DONE]` |
| `chat_completions_handler.go:358` and `:289`: a failed publish ends the production without a terminal chunk, and the handler waits for ever (ChatStream: HandlerReturns without `~lossy`) | KD:147 `done` is mandatory for SSE |
| `chat_completions_handler.go:463` stores the outcome of a cancelled request through its cancelled context, and ignores any error of the store: the row stays running, with a cancelled client or behind an answer (ChatStream: `Persist`) | AL:81 `cancelled` when the context is cancelled |

Further behaviours the models have, with nothing in the documents against them: a
default card template makes every reply of the DingTalk application a card without its
text (`dingtalk/app_client.go:259`); the Feishu bot posts a text in place of media, and
the WeCom robot one in place of audio and video; a reply whose send fails is not sent
again, and its route is gone (`router.go:152`); the route of a request that could not
be enqueued, or whose result has no text, stays in memory; the webhook answers success
when its publish failed (`main.go:245`); a chat row left running is recovered as a task
(`chat_completions_handler.go:116`); rows that break off pass for a whole history
(`history_store.go:74`); one file that cannot be removed keeps all that
sort behind it (`media_retention.go:68`); the comment at `context_guard.go:21` speaks of
six rounds where six messages are kept.

Deadlock checking is off where the system may rest: all calls returned, all tasks
settled, the clock at its bound.

## Fairness

Weak fairness only. `Workflow`: an agent that was started reports. `ApprovalGate` and
`ApprovalWebhook`: callers run and the timer fires; no decision, no post and no handler
is owed. `Runtime`: the loop takes its next step, because WaitDecision has its timer;
that tools return is assumed. A prediction is not assumed to return: the provider's
`http.Client` has no timeout (`openai_provider.go:23`) and the subagent's context is
`Background` (`cmd/subagent/main.go:340`), so OnlyPredictHangs says that a run ends or one
prediction on a live context hangs, and only a cancelled context makes it fail for sure.
`Orchestrator`: main, the listener, each agent, and *some* Dequeue goroutine, none for a
particular one. Three assumptions stand behind that which the code does not see to: a
run of an agent ends, stores and queues answer, and the orchestrator is started again
while the environment has starts left (`Restart` is a step of main). StartedTaskSettles
does not rest on the last one, since a crash ends its obligation; nothing makes a crash
happen. `ChatStream`: the handler and the Sender; that the upstream goes on is an
assumption, for the same reason as above. `ChannelRouter`: the gateway's goroutines, the
production of results, and *some* consumer of the queue; a send ends because the
adapters' HTTP clients have a timeout (10 seconds by default), but for the two SDK calls
of DingTalk, where it is assumed. `MediaStore`: the ticker and the sweep it starts.
`SessionHistory` and `ChannelClient` state safety only.

## What is proved

Every safety property that a run expects to hold is a theorem, as is the refinement of
`StreamDelivery`, for every value of the constants that satisfies the named assumptions,
which TLC evaluates in the runs. Each rests on an inductive invariant, of which these are
the parts that the property alone does not have.

* `WorkflowProofs`: **WorkflowSafety** (types, DepsDone), **SpawnsOnce**,
  **ReadyNodesRun**, **SettledNodesStaySettled**. Added: `Building`: before the first
  start no node has run, so edges are only added between pending nodes; without it a
  later AddTask could break DepsDone. What one pass of the readying loop may do is a
  lemma (`ReadyAllEffect`) that Start and MarkCompleted share.
  **OrderIsTopological** and **CyclesAreFound** are the correctness of TopologicalOrder.
  `Counts`: while the loop runs, a node's count is the number of its dependencies not
  listed yet, and the nodes with count zero are those listed or queued. At the end the
  lengths agree exactly when all nodes are listed (a list without repetitions). Then
  the position in the list is a ranking. Otherwise each node left over waits for
  another one left over, and the one of least rank could not.
  **OrderDrivesWorkflow**: a workflow that is also put in order is a fair workflow.
* `ApprovalGateProofs`: **GateSafety** (types, NoMissedDecision), **AnswersMatch**,
  **WaitersAreRegistered**, **LossesHaveOutcomes**, **NothingOvertaken**. Added:
  `CallProgress`, what each program counter says of registration, channel and result, and
  `ChannelMatches`, that a channel only holds a decision of its call. NoMissedDecision
  needs them because the consumer unregisters a waiter while it fills its channel.
  NothingOvertaken needs `OrderInv`: what a call in the select was given overtakes
  nothing in the buffer, since the buffer held no match when the call began to wait and
  a match can only be buffered behind what the call was given.
  Of the webhook: **PostsCountOnce** (an entry of the store lives as long as its nonce
  keeps a second post away, and an accepted post left one behind),
  **TopicIsFresh** (`TopicInv`: a post is on the topic at most once, after its
  handler and before the gate) and **WebhookDrivesGate**: `WebhookSpec => Spec`, so the
  theorems about the gate hold behind the webhook.
* `RuntimeProofs`: **OneTerminalChunk**, **CallersReportAlike** from `RuntimeInv`: numbers
  on the bus do not exceed the counter, and a run that has not ended has neither sent a
  terminal chunk nor set the flag. **WritesNeedApproval** from `ApprovalInv`: a
  decision in a buffer or in the slot of the waiting call is for that id and has not run
  a tool yet, and none is in a buffer and in the slot.
  **StatusFollowsCause** from `CauseInv`, which relates the cause of the end to the
  classified error; **TranscriptIsPaired** from the even length of the transcript between
  turns.
* `OrchestratorProofs`: **SuccessesAreEarned**: `EarnedInv` follows a success through
  every place it can be between the run and the row (the queue, the listener's channel
  and its hand); `UpIsBooted` says that a running orchestrator has a life.
  **WaitingTasksAreUntouched**: `PlaceInv` says that a task is in one of the queue, the
  loop's channel and the channels nobody reads, and once in it, and that nothing in the
  system speaks of a task that waits or was not submitted yet. **StartsOncePerBoot**:
  starts are counted per task and life; `StartInv` says which tasks this life can still
  dispatch, that it has dispatched none of them, and that later lives have no starts.
  **MessagesRunOnce** is an
  account of messages; the messages agents hold are counted as a set
  (`Carried`), so that one step changes the sum by one element.
* `ChatStreamProofs`: **SuccessIsFinal**, **NoEarlyReturn**, **AnswersAgree** from
  `ChatInv`: the one terminal chunk wherever it is (announced, on the bus, at the Sender,
  on the wire), whether the outcome was stored, a sink that stays until the terminal chunk passed while the client is
  connected, and what producer and handler have announced, returned and stored by then.
  **StreamKeepsPromise** is the refinement: each step of handler, producers, client and
  Sender is a step or a stutter of `StreamDelivery` under the mapping. Together with an
  invariant of the abstract stream (numbers on the wire are below those that wait, and
  each phase says what may be on the wire) it gives **ClientSeesOneStream**: chunks in
  order, at most one terminator, nothing after it.
* `ChannelRouterProofs`: **OneReplyPerRequest**. Added: a request that still has a
  route has not been answered, and `TextIsBound`: a text being sent still has its route,
  since the address it goes to was the route's. **ResultsFindTheirBinding**: `BoundInv`
  says that, until a restart, the only result of a request is in one place and its
  route is there until that result uses it.
* `SessionHistoryProofs`: **FollowUpsRemember**, **PromptsAreOrdered**,
  **PromptsKeepTurns** from `HistoryInv`. A prompt is a `Window`: the newest part of the
  rows that the run could see, oldest first. The rank of a row is the number of newer
  ones; in a finite set of rows the ranks are 0, 1, 2, ... without gaps (a pigeonhole
  argument), so a window of n rows holds exactly the ranks below n. Rows that break off make a
  smaller window; only a run that read all of its history has one as long as the limits. `BeforeInv` orders
  the rows of a run that answered before another one began to read. Whole turns follow
  from parity: the rows newer than a question pair up with answers but for its own.
* `ChannelClientProofs`: **NoStaleToken**. An account of time: each state of a call
  says how much of its token's life is left for the states to come, and the cache
  promises that much at any moment before `expiresAt`. The assumption is
  `Slack <= Margin` with `Slack = 4 Timeout + 3 Delay`: with the default timeout of 10
  seconds and the margin of 60, the call's own work may take 6 seconds at a time.
  Lives too short for the margin are excluded by the assumption on `Grants`.
  **AcceptedMediaStays** is the other account of time, over the ages of files in
  `MediaStore`: a file being copied is younger than any cutoff of a sweep
  (`CopyIsYoung`, from the assumption that a download takes less than the retention),
  so a sweep that works through an old listing does not remove it. The definitions of
  `MediaStore` have names of their own (`MediaSpec`, `mediaVars`, ...), so both modules
  can be extended at once.

With TLC only: the liveness properties (AcyclicRunsToTheEnd, EveryCallReturns,
OnlyPredictHangs, StartedTaskSettles, HandlerReturns,
ReachedIsAnswered, ExpiredIsRemoved), since the prover has no fairness and no ENABLED;
and the three refuted properties, whose counterexamples TLC finds.

## Not modelled

Payload contents and the mapping of callback fields, callback encryption and the
computation of signatures (authentication; the verdict is an input), configuration,
logging, audit records, the WASM sandbox and what skills compute, the vector store,
the heartbeat, the callback simulator, the HTTP exchange with a model provider and the
choice of its route. Redis, SQLite and the HTTP services are modelled as their callers
use them. Of the chat handler: the branches without a Sender or a fanout, which the
program's wiring never takes, and the second look-up of tools, which finds what
ServeHTTP found. TopologicalOrder has no caller outside the tests; it is modelled
because it states what the executor assumes. The nonce store and the handler are taken
to read one clock that does not go back. A recovered
task carries another payload than the lost one; payloads are not part of the model.
Feishu's access tokens are kept by the vendor's SDK. One Sender goroutine serves all
requests; ChatStream follows one of them, so a slow client that delays another is
outside it. How many agent processes a host bears is not modelled; agents never end.
The DingTalk client refuses a message without a receiver before it asks for a token;
nothing changes and the model has no step for it. `AddTask` takes no lock, and no caller uses it after Start;
the model builds before it starts.

## Plan

Done: the modules and proofs above; no safety property of a run is without a proof.
What is left, in this order:

1. an abstract life of a task (submitted, started, settled) that `Orchestrator`
   implements, and the step-by-step proof of it;
2. `Runtime` composed with `ApprovalGate` itself rather than with its view of one task,
   with WritesAreApproved proved of the composition;
3. a Sender with two clients, one slow.
