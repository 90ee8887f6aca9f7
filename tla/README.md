# Verification of modmex-ai

TLA+ models of the parts of `modmex_ai` in which order matters: which actor
acts when, what is persisted between two steps, what is left behind by a
failure. TLC checks the models on small instances; TLAPS proves the theorems
listed below for every value of the constants. `PROJECT.json` holds the map
from definitions to source lines, the runs, the mutants that show what each
property can catch, the findings, the hazards and the theorems.

## 1. Inventory

modmex-ai builds agents on language models. A host gives an *agent* or a *flow*
an input; the agent asks a *model* through a provider adapter, executes the
*tools* it calls, hands over to another agent, or answers. The host keeps a
*session* between turns, and *flow states* for turns that stopped for approval.

| Component | State it keeps | Operations | What is hard | What makes it correct |
|---|---|---|---|---|
| Agent run (`agents/execution.py`, drivers in `agents/agent.py`) | messages, pending messages, provider state, tool-call and retry counters, approval checkpoint | next_request, accept_response, begin_tool_call, accept_tool_result, retry, handoff, suspend | three continuation strategies times tool steps, retries and handoffs; a reply lost in transport; a batch refused half way | the model sees the whole run once; no call is left unanswered; the checkpoint resumes; requests are bounded; the strategy is kept |
| Parallel tool batch (`Agent._execute_tool_events`) | tasks, an event queue, a results dict | start, progress, result, failure, cancel, close | task interleavings, failure of one task, a generator suspended at a yield | no tool outlives the batch; results all or none, in call order; nothing hangs |
| Tools, approvals (`tools/`, `approvals.py`) | decisions and policy in the run context | execute, require approval | the approval is asked in one process and honoured in another | an approved call runs once with the arguments approved |
| Flow (`flows/flow.py`) | active agent, conversation, provider state, generated items | run and its three twins, resume, completed_state | handoffs with and without remote state, suspension, failure in the middle | each agent sees the conversation once; the session is the conversation; a suspended turn can be resumed |
| Stores (`flows/state.py`, `sessions/durable.py`, `persistence/dynamodb.py`) | revisioned states | load, save with an expected revision | get-then-put, stale reads, lost replies, crashes, ttl | no lost update, expiry excepted; conflicts only when something changed |
| Sessions (`sessions/`) | a list of items, snapshots | get, add, pop, clear, compact | shared by turns | see Flow |
| Chained voice (`voice/chained.py`, `providers/openai/transcription.py`) | turn stage, cancel flag, continuation, transcription connection, event queue | process_audio, process_audio_stream, process_live_audio, cancel, close, voice_events | timeout, cancellation, close and retries meet; worker threads outlive turns; the feeder of a live conversation and its turns share one flag | a cancellation hits its turn; turns and conversations end and leave nothing running; session and continuation agree |
| Realtime sessions (`realtime/`, `providers/openai/realtime.py`) | transport, active agent, open calls, event stream | connect, send, tool calls, handoff, close | server events against local calls | each call answered once, by the right agent; one end of the stream |
| MCP (`mcp/`, `Agent._prepare_mcp_clients`) | connection, tool catalogue and its cache, tools attached to agents | connect, refresh, invalidate, call, close; manager of a group | connections shared by runs, a manager and the host; one failing or cleared while others are awaited; a name two servers offer | a catalogue is whole; a run has every tool from its own client or does not start; a failed group leaves nothing open |
| Context compaction (`context.py`) | snapshot of a prefix | select, summarise, apply | boundaries between a call and its output | every message is summarised once or kept; calls and recent turns stay whole |
| Execution budget (`budget.py`) | a deadline per context | nest, remaining, bounded await | nesting across generators | a child never outlives its parent's deadline |
| HTTP (`http/`) | attempts, stream decoder | request, retry, stream, SSE | retry after partial delivery, chunk boundaries, bodies cut anywhere | at most one delivered body; framing independent of chunks |
| OpenAI adapters (`providers/`), models (`models/`) | streamed tool-call fragments | map requests and responses | fragments of several calls interleave, three ways to name a call, a terminal event that may not come | the reply is what the model meant and what the caller was shown |
| Guardrails, messages, schemas, tracing, evals | none that controls anything | | | data |

How they interact. The host calls `Flow.run`; the flow calls `Agent.run` once
per active agent; the agent's driver steps an `AgentExecution`, calls the model
and the `ToolExecutor`, in tasks of its own when batches are parallel. A
protected tool raises `ApprovalRequired` through all of these up to the flow,
which turns it into a `PersistedFlowState`; the host saves that in a store and
later calls `resume` with a decision. The voice session is a host of its own:
it runs a flow on its session once per turn.

## 2. Modules

| Module | Models | Its relation to others |
|---|---|---|
| `AgentExecution` | one agent run with its provider | takes a parallel tool step as one action, which `ToolBatch` justifies |
| `AgentExecutionProofs` | theorems about it: budgets, strategy, and what the model is shown | |
| `ToolStep` | abstract: what a batch promises the run | |
| `ToolBatch` | tasks, queue and generator of one batch | implements `ToolStep` |
| `ToolBatchProofs` | that implementation, proved | |
| `VersionedStore` | abstract: an optimistic store; also the in-memory stores | |
| `DynamoStore` | workers on the DynamoDB stores | implements `VersionedStore` |
| `DynamoStoreProofs` | that implementation, and when a conflict is reported, proved | |
| `FlowRun` | flow, session and host over several turns | takes an agent run as one action, with what `AgentExecution` guarantees |
| `FlowRunProofs` | theorems about it | |
| `ContextCompaction` | the compactor and the host that keeps history and snapshot | |
| `ContextCompactionProofs` | theorems about it | |
| `HttpRequest` | requests of both HTTP clients, their retries, and the nested budgets around them | a lost reply and a repeated request as `AgentExecution` sees them (`ReplyLost`), in detail |
| `Realtime` | a realtime session, the server, and the host that reads and closes it | |
| `ChainedVoice` | the voice session's bounded turns | takes a flow run as read, work, save; `FlowRun` is that run in detail |
| `LiveVoice` | a live conversation: feeder, consumer and transcription connection | extends `ChainedVoice`, whose turns it makes and whose cancel flag it shares |
| `VoiceProofs` | theorems about `LiveVoice`, bounded turns included, and about `Realtime` | extends both, which share no definition |
| `McpConnection` | connections, a manager, the runs of an agent that attach their tools, and the host | what comes before `AgentExecution`'s first request |
| `McpConnectionProofs` | theorems about it | |
| `StreamedReply` | a streamed reply from bytes to the response | what `HttpRequest` delivers in chunks, and one `ProviderAnswers` of `AgentExecution` in detail |
| `ModelCallProofs` | theorems about `HttpRequest` and `StreamedReply` | extends both, which share no definition |

### AgentExecution

State and code: `providerState`, `messages`, `pending`, `available`,
`toolCallCount`, `retryCount`, `generated` are the attributes of
`AgentExecution`; `checkpoint` is what `begin_tool_call` leaves in the run
context; `phase`, `request`, `reply` and `calls` are the local state of the four
drivers; `parallel` says which driver runs. `responses` and `conversations` are
the provider: the items behind each response id and each conversation. It is
external and modelled by what the adapters rely on: it keeps what a request
carried and what it answered, except instructions, which are sent with every
request.

Actions: `NextRequest` is `next_request`; `ProviderAnswers` the model call, with
any batch of calls by name and a continuation state (`ReplyStates`): none, a response
id or a conversation, with its mode, as the repository's adapter sends it, or without, as
a host's own model may. A reply in stateless mode, which no adapter sends, is left out
(see section 3). `ReplyLost` is a transport retry. `StartTools`, `HandOff`, `Finish` and `RetryOutput` are the four ways
`accept_response` and the driver take a reply; `Fail` is every exception.
`BeginToolCalls` and `AcceptToolResults` are the tool step, one call at a time
in sequential drivers, the whole batch in the parallel one.

`Ambiguous`: if a reply is lost in conversation mode, the provider may have
stored the request and will be sent it again. The repository's README names
this risk for the host; `ContextDelivered` and `CallsAnswered` make an exception
for it and for nothing else.

### ToolBatch

One asyncio task per call, the unbounded queue between them and the generator,
the dict of results and the `finally` that cancels and gathers. A step is what
runs between two awaits. `Interrupt` is a deadline, a cancelled task or a closed
generator. A tool in `MayHang` may never return unless it is
cancelled.

### DynamoStore

`save` is its get (`SaveReads`) and its conditional put (`PutLands`,
`PutRefused`), so other workers act in between; `SaveReturns` and `SaveFails`
are its outcomes, a lost reply included; `Crash` restarts a worker with nothing.
With `staleReads` a get may return any item the table ever held: the code asks
for no consistent read, and the connector decides. `Expire` is the ttl. The
item's `version` is history: it tells two items with one revision apart.
`VersionedStore` says what an expiry may cost: whoever works from a version that
had been written before it may overwrite what came after, and nobody else may.

### ContextCompaction

`compact` and `compact_async` up to their call of the model are `CompactNothing`,
`CompactRefused` and `AskSummary`; what follows it is `SummaryReturns` (`_finish`,
and `_failed`, whose result is that of an invalid summary) or `CompactAborted`
(a deadline or a cancelled task). In between the host goes on appending. `_finish`
reads the list it was called with: the host's own, which has grown, or a copy.
The host persists the snapshot returned or fails to. Between compactions it may
remove items, so that a snapshot may belong to another history. Nothing is
appended to a history that `_tool_spans` refuses: all its extensions are refused
too.

A message is its position, a summary the set of positions it was made from, so
that "nothing lost, nothing twice" can be said; a digest is the prefix itself.

### HttpRequest

One task opens budgets (`OpenBudget`, `CloseBudget`: the context manager of
`budget.py`) and makes requests: `mode` says with which client and whether the
body is streamed. `Send` is an attempt as far as its first await or read;
`HeadersArrive`, `ChunkArrives` and `BodyEnds` are what the server may do,
`ServerRefuses`, `Breaks`, `TimesOut` what may go wrong, and `Fails` is what both
clients do about it: `RetryConfig.delay` and the `raise` or the sleep after it.
Times are seconds left, counted down by `Tick`, which may come between any two
steps; so a budget may be spent while nobody looks. `delivered` and `forbidden`
are history: the chunks the caller was given, by attempt, and the server's last
Retry-After. Budgets are closed in the reverse order of their opening; the
repository leaves that to the caller of a stream, and generators closed in another
order would restore a deadline that is over or drop one that is not.

### FlowRun

`StartRun` is the prologue of `Flow.run`, used by a new turn and by `Resume`.
`HandOff`, `Finish`, `Fail` and `Suspend` are the ends of one agent run as the
loop sees them; `SuspendNested` is an approval asked for by an agent used as a
tool. `run`, `run_async`, `run_stream` and `arun_stream` are the same at this
grain. `ledger` is history: the conversation as it happened.

`host` says how the host continues: with its session, with a response chain, or with
both. `remote` says whether the model returns response ids; the flow takes these up from
every result, whoever the host is (`StateAfter`), so a host that has only ever passed a
session goes on remotely behind a handoff and after a resume. What that costs is history
in two variables: `persisted.chained`, the suspended agent had started on remote state and
its snapshot lacks what the provider holds; and `cut`, the session was replaced by what a
run resumed from such a snapshot returned. Agents in `NestedAgents` are also tools of the
others.

### ChainedVoice

`process_audio` from await to await. `CheckCancelled` is
`_raise_if_turn_cancelled` with what follows it: the turn ends or enters its next
stage. `CancelCurrentTurn` sets the flag at any time; between turns it is meant for the next
one (`test_chained.py:452`). A native flow is part of the turn and dies with it; a threaded one
(`threaded`: the model has no `acomplete`) goes through `queued`, `working` and
`saved`, and stays in `abandoned` when the turn is interrupted. `TimeOut` and
`CancelTask` may come at any await. Reporting an event is not an await that lets
others run, as the queue of `voice_events` has no limit, and is left out.

### LiveVoice

`process_live_audio` is a generator: `consumer` says whether it waits for a
transcription, answers one, is suspended at its yield, or is in its `finally` clause.
`feeder` is the task that passes the caller's audio on. `Answer` is a step of
`ChainedVoice`'s turn in it; `TakeFinal` begins that turn without checking the flag
again, as the code does. `Leave` and `FinallyEnds` are the way out, whatever the
reason, with the feeder's own exception replacing it (`Raised`);
`CloseFails` is a close of the transcription session that raises, and `HostCancelsCleanup` a
second cancellation in the middle. When no conversation is
on, the host makes bounded turns on the same session, so that a turn may meet a
flag, a thread or a continuation that a conversation left behind, and the reverse.

### McpConnection

A `call` is one `connect()` or `refresh_tools()` from its first step to its answer,
in a task of its owner: a run of the agent, the manager or the host. Each await is a
state of it: the `server/discover` request, and a page of the catalogue. `StartRun`,
`GatherReturns` or `GatherRaises`, and `Settle` are `_prepare_mcp_clients`, whose
`finally` cancels the tasks and awaits them; `RunSync` is
`_ensure_mcp_clients_connected`. `Attach` is the loop over clients and tools that
both share, up to the first name that is taken: `Taken` are the names of a client
that the agent or a client before it has, `Added` those the loop comes to first,
`Reached` the clients it comes to. `Clear` is what
`invalidate_tools_cache` and `close` have in common. The manager closes in reverse
order, one connection per step: `closing` are those it has yet to close. Servers answer, fail or stay silent; each keeps one
catalogue. A cancelled task does not go on: what an answer would have changed is not
changed (`CallCancelled`). A second cancellation while an owner awaits its cancelled
tasks is not modelled.

### StreamedReply

An event is a line of data and a blank line, and in the Responses API its name before them
(`Frame`). A byte is half a line of data, a name or an end of line, so that a chunk, or the
body, may end inside a line, between lines or between events; the middle of a text's line is
inside a character. The parser (`parse_sse_lines`) goes line by line: `ReadChunk` decodes a
chunk and puts it behind the line left unfinished (`buffer`), `ReadLine` takes a line of data
(`data`) and skips a name, `ReadBlank` gives the event to the mapper at the blank line after
it, and `ReadEnd` is what they do when there are no more bytes: data without its blank line is
an event, too. A body may stop anywhere (`BodyStops`): inside a line it is torn, between two
lines it is cut, and once the last line of data is there it counts as ended. `Map` is a mapper with the
agent's loop behind it (`PassText`, `PassPiece`), which take each event as it is parsed.
Text and arguments are sequences of numbered pieces.

The server is external: it sends the pieces of its calls in any order, may repeat each
whole (`ArgumentsDone`), and ends with `[DONE]`, `response.completed` with the message
anywhere among the calls, something else or nothing. `dialect` is how events name a
call: by index (Chat), by `call_id`, or by `item_id` only. `shown` is what the caller of
the streamed run was given; `pending`, which no code has, are the events sent that the
mapper was not given yet.

### Realtime

`voice_events` from await to await, in `doing`: it receives, executes a tool, sends
(`todo` holds what the handler has yet to send, one await each), and reports: first
what handlers queued (`voiceQueue`), then the event itself. `Raise` is the `except`
clauses. `CloseSession` and `CloseTransport` are `close`, whose reason is set before the
transport is told. The server is external and permissive: it may call anything on
the surface it last read, several times before it reads on, announces each call
twice or more, and may send an error, `session.ended` or no event at all. Each
agent has one tool and a handoff to every other agent and to the `Strangers`, which
are not registered. What the host was given is in `told` (the calls whose work was
reported) and `endings` (errors and the end); `work` is what was done. Both channels are
first in, first out; a lost connection delivers what had arrived, and one the
application closed may not. A send fails only when the connection is not open
(`SendFails`): an output that `dumps` cannot serialize, which raises with the connection
open after the work is queued, is not modelled.

## 3. What the runs check

Bounds are the constants of each `.cfg`.

| Run | Shows | Bounds, and why they are enough |
|---|---|---|
| `agent_run` | `ContextDelivered`: at every request, what the provider holds plus what is sent is the whole run, nothing twice. `CallsAnswered`: the model never sees a call without its output or the reverse. `StopsResumably`: what a stopped run leaves behind has one open call, the one that stopped it. `ContinuationWhole`: whoever goes on from a run has the whole conversation and nothing else. `RequestBound` | one conversation id, no input filter on handoffs; two tools (one protected), one handoff, batches of two, two tool calls, one retry, one lost reply; a selector that answers with every name or with one tool (`Selections`): two steps of each kind in every order, in both drivers, from fresh and resumed starts and all states a host can pass, invalid ones included; replies with their mode and without. |
| `tool_batch` | refinement of `ToolStep`; `ResultsComplete`: no missing key at the end; `BatchEnds`: no event is lost that the generator waits for, and a failure ends the batch although a sibling never returns | three calls: a remote one with progress that may return null, one that returns or fails, one that may hang |
| `dynamo_store` | `ImplementsVersionedStore`: no update is lost, but to a worker with an expired state. `ConflictMeansChanged`: with consistent reads, nobody is refused who worked from what is stored | three workers, three versions, one lost reply: a reader of an old version, a writer between get and put, a third, and an expiry before any of them |
| `context_compaction` | `SummaryIsPrefix`, `ContextComplete`: each message is in the summary, pinned or verbatim, exactly once, whatever failed before. `CallsNotSplit`, `RecentTurnsKept` | histories of six items with two call ids, and one removal of items: two successive summaries, the second merged with the first, calls that are open, parallel and closed at the boundary |
| `http_request` | `OneBody`: the chunks given to the caller are one attempt's, in order, all of them on success. `WithinBudgets`: an attempt's timeout and a retry's delay fit every open budget. `RetryAfterHonoured`: no attempt within the server's Retry-After. `RequestEnds` | three attempts, three nested budgets of 2, 4 or 7 seconds around a timeout of 3 and delays of 1 to 4: each is the tightest in some state; bodies of two chunks, so that a stream may fail before, between and after them |
| `flow_run` | `HistoryDelivered`: each agent that starts sees the conversation once, unless its host has nothing but a session that was cut. `SessionIsLedger`: until it is cut, the session is the conversation. `SnapshotKeepsHistory`: a snapshot not taken in a chain holds the session's history | three kinds of host, and for the one with a session only a model that returns response ids and one that does not; two agents, both with a protected tool, one of them nested; two handoffs, two turns: a handoff, a suspension behind it, its resume and a following turn, with local history and with a response chain; nested suspensions and refused resumes occur |
| `realtime` | `TypeOK`: each call is executed, reported and answered at most once. `ServerInStep`: a response is asked for only on the active agent's surface, each executed call has one output. `EndsTruly`: no error before the work done is reported, no close reported as a lost connection. `StreamEnds` | two agents, two calls in one response or in two, two events in flight: a handoff with another call behind it, each announced twice, with a close or a loss between any two steps |
| `voice` | `CancelStopsOrIntercepted`: a turn is not completed after a cancellation in time, unless the feeder took it. `CompletedTurnKept`, `TurnsBuildOnEachOther`: session and continuation, whatever interrupted earlier turns. `ConversationCleanedUp`: no feeder is left; and no connection, and a feeder's fault is raised, unless the close itself raised or the cleanup was cancelled. `TurnEnds`, `ConversationEnds` | two turns, bounded or live, one retry, one cancellation: an abandoned thread of turn one may save during or after turn two, a conversation may follow a turn or come before it |
| `mcp_connection` | `CatalogueWhole`: what a connection offers is one whole catalogue. `LostOnlyToOthers`: a run does not lose a connection it waited for, unless somebody cleared it. `RunServed`: a run goes on only with each tool of each client from that client. `GroupClosed`, `FailureEnds` | two connections, an owned one that discovers and one that does neither; servers with one tool or two (hence two pages), so that names are distinct or collide; one run at a time, started twice, beside the manager and one refresh, invalidation or close of the host's. The system stops when these bounds are used up: deadlock is not checked |
| `streamed_reply` | `ReplyWhole`: a whole stream gives the reply meant. `ShownIsReply`: the deltas are the reply, also after a cut. `TornRefused`: a body that ends inside a line is never accepted, and no other is refused as no JSON | two calls and a text of up to two pieces, three dialects; two events may be unread, so that a chunk covers parts of both; deadlock is not checked, as a reply is read once |

Three reminders on reading them. `SnapshotKeepsHistory`, `HistoryDelivered` and
`SessionIsLedger` except what follows a suspension in a chain, and the first also an
approval asked for by a nested agent; the first two bullets on `FlowRun` under "Seen while
modelling" are these very cases. `TurnsBuildOnEachOther` speaks of native models:
with a threaded model TLC shows that a turn given up may enter the session after, and
unseen by, its successor, which the repository's README lists as a limit of worker
threads. And `CancelStopsOrIntercepted` is named for its exception: that the feeder
takes a cancellation meant for the turn, and the turn goes on, does happen.

### Findings

Each of these runs checks one statement of the repository and ends in a
counterexample.

- `flow_completed` (`SessionAnswered`): `completed_state` appends the resumed
  run's outputs to the snapshot, but the approved tool's output was that run's
  input. The terminal checkpoint holds a call without output.
- `voice_cancel` (`CancelHitsItsTurn`): a cancellation that comes after the
  turn's last check, or in a turn that times out, stays set and cancels the next
  turn.

Seen while modelling, without a run of their own:

- `FlowRun`: an agent that starts on remote state is sent only what is new: behind a
  handoff, also for a host with a session only, the acknowledgement. If it is suspended, its
  snapshot holds no more than that, and the resumed run returns no more than what followed
  (`flow.py:763`). The host's session is the conversation no longer, and a host that goes by
  its session alone has the next turn run without it. TLC refutes `SessionMirrors`, as the
  repository's README puts it ("Flow may mirror remote conversations in a local Session"),
  with any host that has a session.
- `FlowRun`: an approval asked for by an agent used as a tool is recorded with the outer
  agent, which does not have the tool: every resume is refused. So is that of a protected tool
  with a `ctx` or `context` parameter, which suspends with the context among its arguments
  (`tool.py:180`). TLC refutes `SuspendedCanResume` with `NestedAgents` or with
  `ContextParameter`.
- The feeder of a live conversation looks at the flag `cancel_current_turn` sets, too.
  If it looks first, it ends, the turn is completed, and the caller is not heard from
  then on; the conversation goes on until its connection ends.
- A feeder that fails is noticed only when the consumer leaves for another reason.
- A task cancelled again while `process_live_audio` awaits its feeder skips the close
  of the transcription session. A close that raises may leave the connection open, and the
  feeder's error is then not raised (`chained.py:182`).
- A reply without mode under an explicit response chain replaces the strategy with an
  implicit one (`execution.py:191`), so that a later reply may turn the run into a
  conversation. One in stateless mode would be adopted there, too, and drop the remote
  history: what the provider holds is not sent again. `ReplyStates` leaves it out, so that
  nothing in this project covers it.
- An answer to `connect` that arrives after `invalidate_tools_cache` or `close` sets
  the old catalogue and `connected`, also of a client that was closed. One to
  `refresh_tools` sets `_tools` of a connection that is no longer connected.
- `invalidate_tools_cache` or `close` while a run awaits its other connections makes
  `client.tools` raise a RuntimeError that tells the caller to connect.
- Two servers that offer one name make every run raise after the first has attached
  part of the tools; tools that a refreshed catalogue no longer lists stay attached.
- `MCPClientManager` stops closing at the first connection whose close raises, and
  does not begin if its task is cancelled again while it awaits its tasks.
- A chunk that ends inside a multibyte character raises UnicodeDecodeError: each chunk
  is decoded by itself.
- A stream cut between two lines, be it of one event, and one that ends with
  `response.incomplete` or `response.failed`, is returned as a completed reply, with the
  calls as far as they have come: an event whose name has come without its data is missed,
  one whose data has come without the blank line is used. If `response.completed` is missing and deltas carry the `item_id` only,
  the calls go by item ids, which the API does not accept in an output.
- A streamed remote tool that returns JSON null is taken for one without a result;
  its batch ends with `CancelledError` although nobody cancelled
  (`ToolReturnsNull`).
- With eventually consistent reads a conflict may be reported to the worker that
  wrote last. A save repeated after a lost reply is a conflict, although the store's
  docstring speaks of idempotency: no store reads `idempotency_key`. After an expiry
  revisions start over, so that a save of an expired state can replace a newer one.
- In a realtime session the second call of a response whose first is a handoff is
  looked up with the new agent and ends the stream with a tool error
  (`CallUnknown`). After `session.ended` the stream ends a second time, when the
  transport closes.
- A read that fails in the middle of an async stream surfaces as the transport's own
  exception, not as a `ProviderError`: `post_json_stream` reads outside `_post`'s
  `try`.

## 4. Fairness

`ToolBatch`: every task's steps are weakly fair (the event loop runs ready
tasks; tools not in `MayHang` return or raise; a cancelled tool stops), and so is
the generator with its host (the consumer of the stream keeps asking). No
fairness for `Interrupt`: the properties must hold if nobody interrupts.

`ChainedVoice`: the step of the turn is weakly fair (providers and flows answer
or raise, sleeps end). None for the timeout, the host's cancellations and `close`. `TurnEnds` therefore says that retries alone
cannot keep a turn going, and needs no timeout.

`LiveVoice`: also the consumer's (what has arrived is read, the host iterates the
generator) and its `finally` clause. Nothing makes the caller speak, the feeder go on
or the server answer; `ConversationEnds` begins when the connection is lost.

`McpConnection`: only `Unwind` is fair: the loop runs a task that was cancelled, and an
owner one of whose tasks has failed or all of whose tasks are over. Servers need not
answer, which is why `FailureEnds` is not trivial.

`HttpRequest`: the client's own steps are weakly fair (it sends, sleeps end,
sockets time out, the caller of a stream asks on), and time passes. Nothing is
assumed of the server, not even that it answers. `RequestEnds` speaks of finite
bodies: timeouts are per socket operation, and a server may send chunks for ever.

`Realtime`: the session's steps are weakly fair (tools return, the host reads on) and
a transport that was told to close does. Nothing is assumed of the server.

The other modules have safety properties only.

## 5. Proofs

`AgentExecutionProofs` proves, for all sets of tools, handoffs and
conversations, all bounds and all behaviours of the model and the provider
(assumption `ConstantsAssumption`):

- `TypeCorrect`: types, and the tool-call and retry counters within their limits;
- `RequestsBounded`: at most `MaxToolCalls + MaxRetries + 1` requests;
- `StrategyIsKept`: the action property `StrategyKept`, which no run checks: no reply
  moves an explicitly stateless run, or one in a conversation, to another state, and the
  reply to a request in an explicit response chain does not make it a conversation. It
  says that of `ReplyStates`, in which no state is stateless.

They rest on one inductive invariant (`Invariance`), `Inv == TypeOK /\
StatesKnown /\ ToolsDue /\ RequestsPaid`. `TypeOK` alone is not inductive: what
a provider holds behind a response id is a set of items only if the id names a
response (`StatesKnown`), and the head of a batch is a call only if the batch is
not empty when a tool is due (`ToolsDue`). `RequestBound` needs `RequestsPaid`:
each request but the first was preceded by a tool call or a retry. `StatesKnown`
also says that the states in use are valid, from which `StrategyIsKept` follows
case by case along `accept_response`.

A second invariant, `ContextInv`, says where each item of a run is, and gives
`ContextIsDelivered`, `CallsAreAnswered` and `AlwaysStopsResumably`. With remote state a run
sends only what is pending and relies on the provider for the rest, so the properties,
which speak of the moment of a request, need a statement about every moment (`Synced`):
each spoken item is held by the provider or pending and not both, and the calls without
an output there are those of the step in progress. Around it stand: ids are given
out once (`Numbered`) and no message is there twice (`Distinct`); the same of local history
(`LocalCalls`) and of the calls that are due (`DueCalls`); what the checkpoint holds
(`CheckpointTaken`); that the request is the one computed (`Requested`); what a reply
on its way back has left with the provider (`ReplyHeld`); and, as a model may put a run into a
conversation that it had not been in, be it from a chain whose reply named no mode, that
such a conversation holds nothing foreign (`CleanConversations`). The exception for lost replies in conversation mode is theirs, too
(`Unsure`).

`ContinuationIsWhole` is the contract between a run and the flow: `FlowRun` assumes that
after an agent's run its provider state stands for all that was said (`ProviderKeeps`), and
this theorem shows it, for a run that ended, handed off or was suspended. `ContextInv`
stops at the last reply and bounds what the provider holds from below. `LeftInv` goes on:
it bounds from above what the provider holds, and what a reply is about to add
(`HeldWasSaid`, `ReplyWasSaid`), by what was said before and in this run; the history is never
lost on the way from local messages to the provider (`HistoryKept`); the last
reply is held (`EndHeld`), and the result names every call and output (`Reported`).

`ToolBatchProofs` proves, for any number of calls, remote or hanging or failing,
`NoResultMissing` and `BatchIsStep`: `ToolBatch` implements `ToolStep`. The invariant: in
the queue, the end of a task comes after that task's last event, unless its result was
taken already (`QueueInOrder`); so when the generator has counted the last end, it has
every result. `Closed` and `Decided` add that a task whose end was counted is done, and
that nothing is decided while the generator still waits.

`FlowRunProofs` proves `FlowTypes`, `HistoryIsDelivered`, `SessionKeepsLedger` and
`SnapshotKeeps`, for any agents, hosts and numbers of turns and handoffs. The invariant
relates `ledger`, what was said, to each of the places where a part of the conversation may
be: the session and the continuation between turns (`Committed`), the agent's input, the
provider and the flow's own list while a run goes on (`RunSees`), and the persisted state
while it is suspended (`WaitingSees`, `SnapshotHeld`, of which the second also holds in the
resumed run, which may fail and leave the suspended state behind). Each part says on which
condition it holds: `Lost`, `cut` and `chained` are the exceptions, and `LocalOnly` shows
that a model without response ids meets none of them. One hypothesis is needed, and TLC
shows what happens without it: a host with a session does not replace it by a completed
state (`ResultsKept`; the finding `flow_completed` is that very case). `FlowTypes` does
without.

`DynamoStoreProofs` proves `NoLostUpdate`: `DynamoStore` implements
`VersionedStore`, for any number of workers, with stale reads, lost replies,
crashes and expiry. The invariant: revisions and versions move together among
what was written since the last expiry, for the stored item, for every item ever
stored and for every state a worker holds; a put that has landed wrote the
version after the one loaded. Hence a put that passes its condition on the
revision was made from the version stored or from one that has expired
(`AllowedPutIsCurrent`), which is the abstract `Write`. `ConflictsAreReal` follows from
the same invariant: with consistent reads two different revisions are of two versions, so
whoever is refused holds a state that is not the stored one.

`ContextCompactionProofs` proves every property of `context_compaction`, and types and
`CoverageGrows` besides, for all call ids, parameters and lengths: `TypeCorrect`, `SummariesArePrefixes`,
`ContextIsComplete`, `CallsStayWhole`, `RecentTurnsAreKept` and
`CoverageOnlyGrows`. The invariant adds to them what a pending request knows: its
batch is what lies between the saved snapshot and a boundary of the history it
was given, that history is a prefix of the present one, and the boundary crosses
no call and leaves enough turns behind. It is needed because the answer arrives
when the history has grown.

`ModelCallProofs` proves the three safety properties of `http_request`, and types, for all
configurations, any nesting of budgets and bodies of any length: `TypeCorrect`,
`OneBodyHolds`, `RetryAfterHolds` and `WithinBudgetsHolds`. The invariant adds that
the innermost budget has the least time left (the code looks at that one only, the
property speaks of all), that nothing has been delivered while another attempt may
come, and that a wait lasts at least as long as the server asked for. That a
product with a power of two is a natural number is an assumption
(`HttpAssumption`): the provers do not know powers.

It also proves the three properties of `streamed_reply`, for any number of calls, pieces
and unread bytes: `ReplyIsWhole`, `ShownMakesUpReply` and `TornIsRefused`, about
`ReplySpec`. None of them is inductive: they speak of the end of a reply, and what has
been collected until then is a part of it. The invariant (`ReplyInv`) says which part, by
the events between the server and the mapper (`pending`):

- `Sending`, `Collecting`: the mapper has a prefix of the text, of the list of calls and
  of each call's arguments, and the pending events hold the rest of each, every piece
  once and in order, whatever lies between them (`Holds`). A step at either end keeps
  this (`HoldsMore`, `HoldsLess`); that the end of a call's arguments replaces what was
  collected changes nothing, as no piece of that call comes after it.
- `Framing`: the bytes to come, in `buffer` and on the wire, are the lines of the pending
  events from the place the parser has reached, wherever chunks ended (`Before`, `Frame`). Hence the
  event a blank line completes is the first pending one.
- `Stopping`, `Judging`: how a body that stopped relates to the bytes left, and what an
  outcome says of them. A reply is accepted with a whole stream only when nothing is
  pending, and then what was collected is all.

A call is found by its key. That calls have different keys (an index, a `call_id` or an
`item_id`) is so by construction of the server.

`VoiceProofs` proves, for any number of retries, turns, pieces of audio and
cancellations, the properties of the run `voice` but its liveness: `TurnsBuild`,
`CompletedTurnIsKept`, `CancellationStops` and `CleanedUp`. They are theorems about
`LiveSpec`, whose next-state relation has the bounded turns of `ChainedVoice` as
disjuncts. The invariant has four parts. `Native`: a native run has read exactly the
session it will be added to, which no thread can change meanwhile. `Placed`: a turn is in
the session, in the run or in one abandoned thread, and in one of them once; without it
a thread might add a turn that the session has. `Heeded`: a cancellation that came before
the speech stays set until the turn or the feeder takes it. `Talking`: which stage goes
with which point of the generator, and that no feeder runs when it is over.

It also proves the safety properties of `realtime`, for any agents, unregistered targets,
calls and events in flight: `SessionTypeCorrect`, `SessionStaysInStep` and
`SessionEndsTruly`, about `RealtimeSpec`. `ServerInStep` speaks of a server that has read all
there is, which no single step shows. The invariant (`SessionInv`) speaks of what it has yet
to read instead, on its way (`toServer`) and yet to be sent (`todo`), in this order. Read
through, it leaves the server with the active agent's surface and asked to go on last, each
request to go on coming upon the surface of the agent that asks (`Offering`), and with one
output for each executed call (`Answering`). A read takes a message from its front
(`ReadingKeepsStep`, `ReadingKeepsAnswers`), a handler adds a whole reply at its end
(`ReplyKeepsStep`), and a send leaves it as it is. A stream that ends in the middle of a
reply is in step no more, and nobody reads on. `Reporting`, that work done is work
reported and work queued, and that nothing is queued while the session receives or
executes, gives `EndsTruly` with `ClosedByReason`: the reason of a close is set before the
transport is told.

`McpConnectionProofs` proves the safety properties of `mcp_connection`, for any
connections, runs, catalogues and bounds. For `CatalogueIsWhole`: what a call has listed so
far belongs to the catalogue of the server it asks. It lives in the call, where an
invalidation or a close cannot reach it; the last page sets the cache and the flag together
from it, and clearing takes both. It assumes that `None` is no catalogue
(`McpAssumption`). The others rest on three more parts of the invariant. `Prepared`: unless
it was disturbed, a run that prepares finds the tools of each client it has no open call
on; no step of a call takes a catalogue away, and one that ends well leaves one
(`CallsMove`). Hence `LossIsByOthers`. `ToolsAttached`: names are the agent's once, and what
is noted as attached is attached, also after a loop that stopped half way. With what the
loop adds (`AttachKeeps`) it gives `ReadyRunsAreServed`. `Group`: the manager has a call
only while it gathers or unwinds, and while it closes each connection that is open by its
doing is among those it has yet to close. Hence `GroupIsClosed`.

Every safety property a run checks is so a theorem. Model-checked only is liveness
(`BatchEnds`, `TurnEnds`, `ConversationEnds`, `FailureEnds`, `RequestEnds`, `StreamEnds`),
which the prover does not handle.

The type invariants of the other proved modules hold by theorem (`FlowTypes`, also for
the handoff limit of a turn) and are not checked again.

## 6. Not modelled

Contents of messages, schemas, prompts, wire formats, usage and tracing: no
control depends on them. Handoff input filters and `emit` callbacks: host code;
a failing one is `Fail`. Tool selectors that look at the conversation, `FallbackModel`.
Of HTTP: the requests without retries (`post_json_bytes`, `post_multipart`) and opening
the async client. Of MCP: the matching of JSON-RPC ids, invalid tool definitions, a
server that changes its catalogue, tool calls (but for what `ToolBatch` sees of them).
Of voice: `process_audio_stream`, which has neither timeout nor turn outcome, and
`transcribe_stream` behind it; the queue of `voice_events`; observers that raise; a live
conversation and a bounded turn at once. `SessionSnapshot.compact`: called by hosts
between turns only (`pop_item` and `clear_session` appear in `ContextCompaction`).

Two runs on one session at once: both read the same history and each turn is answered
without the other; the repository leaves that to the host. So does it leave the keys of
flow states: a streamed run has no `flow_instance_id`, and without a session every
suspended flow of one name persists under that name.

## 7. Plan

In order of importance:

1. Composition: `FlowRun` on a `VersionedStore` (suspend, save, resume twice), with
   `ContinuationWhole`, what a run leaves, as the contract between a run and the flow.
2. `process_audio_stream` with `transcribe_stream`.
