--------------------------- MODULE AgentExecution ---------------------------
(***************************************************************************)
(* One run of an Agent: the provider-neutral state machine of              *)
(* agents/execution.py, stepped by the drivers of agents/agent.py.         *)
(*                                                                         *)
(* The run builds a request, the model answers, and the answer is a final  *)
(* output, a rejected output (guardrail retry), a handoff, or a batch of   *)
(* tool calls whose results are appended before the next request.  With    *)
(* remote provider state only the pending items are sent: the provider     *)
(* already holds the rest.  The provider (not in this repository) is       *)
(* modelled by what it stores: one context per response and one per        *)
(* conversation.                                                           *)
(***************************************************************************)
EXTENDS Naturals, Sequences, FiniteSets

CONSTANTS
  Tools,               \* names of the registered tools
  ApprovalTools,       \* the tools with requires_approval
  Handoffs,            \* names of the registered handoffs
  FilteredHandoffs,    \* the handoffs with an input_filter
  Conversations,       \* ids of provider conversations
  NoConversation,      \* conversation_id is None
  MaxToolCalls,        \* Agent.max_tool_calls
  MaxRetries,          \* Agent.max_output_guardrail_retries
  ReturnErrors,        \* Agent.tool_error_policy = "return_error"
  Selections,          \* bound: the sets of names a tool selector may answer with
  MaxBatch,            \* bound: tool calls in one model response
  MaxLostReplies       \* bound: replies lost before a transport retry

ASSUME ConstantsAssumption ==
  /\ ApprovalTools \subseteq Tools
  /\ FilteredHandoffs \subseteq Handoffs
  /\ Tools \cap Handoffs = {}
  /\ Selections \subseteq SUBSET (Tools \cup Handoffs)
  /\ NoConversation \notin Conversations
  /\ MaxToolCalls \in Nat /\ MaxRetries \in Nat
  /\ MaxBatch \in Nat \ {0} /\ MaxLostReplies \in Nat
  /\ ReturnErrors \in BOOLEAN

VARIABLES
  parallel,       \* the driver is async and Agent.parallel_tool_calls is set
  phase,          \* where the driver stands
  providerState,  \* AgentExecution.provider_state
  messages,       \* AgentExecution.messages
  pending,        \* AgentExecution.pending_messages, in the order of messages
  available,      \* AgentExecution.available_names
  request,        \* the ModelRequest in flight: the items it carries
  reply,          \* the ModelResponse on its way back
  calls,          \* tool calls of the current step not yet answered
  generated,      \* AgentExecution.generated_items
  checkpoint,     \* context.state["__modmex_ai_approval_checkpoint"]
  toolCallCount,  \* AgentExecution.tool_call_count
  retryCount,     \* AgentExecution.output_guardrail_retry_count
  responses,      \* provider: the context behind each response id
  conversations,  \* provider: the context of each conversation
  requests,       \* history: requests built
  lostReplies     \* history: replies the transport lost

localVars == <<providerState, messages, pending, generated, checkpoint,
               toolCallCount, retryCount>>
providerVars == <<responses, conversations>>
vars == <<parallel, phase, localVars, available, request, reply, calls,
          providerVars, requests, lostReplies>>

-----------------------------------------------------------------------------
(* Items of a conversation.  An item is its kind and a number: the tool     *)
(* call it belongs to, or which input, candidate or correction it is.       *)

Kinds == {"instructions", "input", "call", "output", "handoff_call",
          "handoff_output", "candidate", "correction"}
Item == [kind: Kinds, id: Nat]

ItemOf(kind, id) == [kind |-> kind, id |-> id]
CallItem(call) == ItemOf("call", call.id)
OutputItem(call) == ItemOf("output", call.id)
ItemsOf(seq) == {seq[i] : i \in DOMAIN seq}

\* Messages with role "system" or "developer": always reissued, never stored.
Instructional(items) == {m \in items : m.kind \in {"instructions", "correction"}}

Names == Tools \cup Handoffs
Call == [id: Nat, name: Names]

-----------------------------------------------------------------------------
(* ProviderState: an explicit mode or none, and at most one remote id.      *)
(* previous is a position in responses, 0 when previous_response_id is      *)
(* None.  A state without mode and ids behaves as no state at all.          *)

Modes == {"unset", "stateless", "response_chain", "conversation"}
ProviderState == [mode: Modes, conversation: Conversations \cup {NoConversation},
                  previous: Nat]
NoState == [mode |-> "unset", conversation |-> NoConversation, previous |-> 0]

NoReply == [calls |-> <<>>, state |-> NoState]

ResolvedMode(s) ==
  IF s.mode # "unset" THEN s.mode
  ELSE IF s.conversation # NoConversation THEN "conversation"
  ELSE IF s.previous # 0 THEN "response_chain"
  ELSE "stateless"

ValidState(s) ==
  /\ s.conversation = NoConversation \/ s.previous = 0
  /\ ResolvedMode(s) = "stateless" => s.conversation = NoConversation /\ s.previous = 0
  /\ ResolvedMode(s) = "conversation" => s.conversation # NoConversation
  /\ ResolvedMode(s) = "response_chain" => s.conversation = NoConversation

HasRemoteState(s) == ResolvedMode(s) \in {"conversation", "response_chain"}

\* What the provider holds behind a state.
Stored(s) ==
  IF ResolvedMode(s) = "conversation" THEN conversations[s.conversation]
  ELSE IF ResolvedMode(s) = "response_chain" /\ s.previous # 0
       THEN responses[s.previous]
  ELSE {}

-----------------------------------------------------------------------------
(* A run starts a fresh turn, or continues a turn that stopped at tool call *)
(* number 0.  With remote state the host passes the new item only.          *)

Resumed == <<ItemOf("input", 0), ItemOf("call", 0)>>

StartStates == [mode: Modes, conversation: Conversations \cup {NoConversation},
                previous: {0, 1}]

\* An invalid state ends the run before its first request.
StartWith(s, history) ==
  LET new == IF history = <<>> THEN ItemOf("input", 0) ELSE ItemOf("output", 0)
      local == IF HasRemoteState(s) THEN <<>> ELSE history
      first == <<ItemOf("instructions", 0)>> \o local \o <<new>>
  IN  /\ s.mode = "response_chain" /\ s.previous = 0 => history = <<>>
      /\ phase = IF ValidState(s) THEN "request" ELSE "failed"
      /\ providerState = s
      /\ messages = first
      /\ pending = ItemsOf(first)
      /\ responses = <<ItemsOf(history)>>
      /\ conversations = [c \in Conversations |-> ItemsOf(history)]

Init ==
  /\ parallel \in BOOLEAN
  /\ \E s \in StartStates, history \in {<<>>, Resumed} : StartWith(s, history)
  /\ available = {}
  /\ request = {}
  /\ reply = NoReply
  /\ calls = <<>>
  /\ generated = <<>>
  /\ checkpoint = [state |-> NoState, items |-> <<>>, pending |-> {}]
  /\ toolCallCount = 0
  /\ retryCount = 0
  /\ requests = 0
  /\ lostReplies = 0

-----------------------------------------------------------------------------
(* The request and the provider.                                            *)

RequestItems_PendingOnly ==
  IF HasRemoteState(providerState) THEN pending ELSE ItemsOf(messages)

RequestItems ==
  IF HasRemoteState(providerState)
  THEN Instructional(ItemsOf(messages)) \cup (pending \ Instructional(pending))
  ELSE ItemsOf(messages)

\* next_request: the selector's answer is a set of registered names; an
\* invalid one, and an exhausted budget, end the run (Fail).
NextRequest ==
  /\ phase = "request"
  /\ available' \in Selections
  /\ request' = RequestItems
  /\ phase' = "model"
  /\ requests' = requests + 1
  /\ UNCHANGED <<localVars, reply, calls, providerVars, lostReplies>>

\* The provider's continuation state: none, its response id, or a conversation, with its
\* mode or, from a model of the host's own, without.
ReplyStates ==
  {NoState}
  \cup {[mode |-> m, conversation |-> NoConversation, previous |-> Len(responses) + 1] :
          m \in {"unset", "response_chain"}}
  \cup {[mode |-> m, conversation |-> c, previous |-> 0] :
          m \in {"unset", "conversation"}, c \in Conversations}

\* The model proposes a batch of calls by name; a name it makes up is refused
\* like one that is not available.  Ids are new, unless a faulty model repeats
\* the first one throughout.
NameLists == UNION {[1..n -> Names] : n \in 0..MaxBatch}
CallId(i) == Len(responses) * MaxBatch + i
Batch(names, repeatsId) ==
  [i \in DOMAIN names |-> [id |-> CallId(IF repeatsId THEN 1 ELSE i), name |-> names[i]]]

\* The provider answers the request it received and stores what it now knows.
\* A response it reports under a conversation is stored in that conversation.
ProviderAnswers(batch, state) ==
  LET produced == IF batch = <<>> THEN {ItemOf("candidate", retryCount)}
                  ELSE {CallItem(batch[i]) : i \in DOMAIN batch}
      context == Stored(providerState) \cup (request \ Instructional(request))
                   \cup produced
      written == {state.conversation, providerState.conversation}
  IN  /\ phase = "model"
      /\ reply' = [calls |-> batch, state |-> state]
      /\ responses' = Append(responses, context)
      /\ conversations' = [c \in Conversations |->
                             IF c \in written THEN conversations[c] \cup context
                             ELSE conversations[c]]
      /\ phase' = "replied"
      /\ UNCHANGED <<localVars, available, request, calls, requests, lostReplies>>

\* The reply is lost and the transport sends the same request again.
ReplyLost ==
  /\ phase = "replied"
  /\ lostReplies < MaxLostReplies
  /\ lostReplies' = lostReplies + 1
  /\ phase' = "model"
  /\ reply' = NoReply
  /\ UNCHANGED <<localVars, available, request, calls, providerVars, requests>>

-----------------------------------------------------------------------------
(* accept_response.                                                         *)

\* The reply carries no usable continuation for the strategy in force.
StateRejected ==
  LET mode == ResolvedMode(providerState)
      incoming == reply.state
  IN  \/ mode = "response_chain" /\ incoming = NoState
      \/ /\ mode = "conversation"
         /\ incoming.conversation \notin {NoConversation, providerState.conversation}
      \/ /\ providerState.mode = "response_chain"
         /\ incoming.conversation # NoConversation

NextState_CallsOnly ==
  IF \/ reply.calls = <<>>
     \/ providerState.mode = "stateless"
     \/ reply.state = NoState
     \/ ResolvedMode(providerState) = "conversation"
  THEN providerState
  ELSE reply.state

\* provider_state after the reply: explicit stateless runs and conversations
\* keep theirs, every other run takes the one the provider returned.
NextState ==
  IF \/ providerState.mode = "stateless"
     \/ reply.state = NoState
     \/ ResolvedMode(providerState) = "conversation"
  THEN providerState
  ELSE reply.state

\* Delivered items leave the pending list once the provider keeps them.
PendingAfterReply == IF HasRemoteState(NextState) THEN {} ELSE pending

\* _tool_step's checks, made before any callback or tool runs.
Unchecked(batch) == FALSE
DuplicateIds(batch) == \E i, j \in DOMAIN batch : i # j /\ batch[i].id = batch[j].id
Unavailable(batch) == \E i \in DOMAIN batch : batch[i].name \notin available
MixedHandoff(batch) ==
  Len(batch) # 1 /\ \E i \in DOMAIN batch : batch[i].name \in Handoffs
MixedApproval(batch) ==
  Len(batch) > 1 /\ \E i \in DOMAIN batch : batch[i].name \in ApprovalTools
OverBudget(batch) == toolCallCount + Len(batch) > MaxToolCalls
FilteredRemoteHandoff(batch) ==
  /\ HasRemoteState(NextState)
  /\ \E i \in DOMAIN batch : batch[i].name \in FilteredHandoffs

BatchAllowed(batch) ==
  /\ ~DuplicateIds(batch)
  /\ ~Unavailable(batch)
  /\ ~MixedHandoff(batch)
  /\ ~MixedApproval(batch)
  /\ ~OverBudget(batch)
  /\ ~FilteredRemoteHandoff(batch)

\* Once a reply is taken nobody reads it, its request or the names that were
\* available for it.
NothingInFlight == request' = {} /\ reply' = NoReply /\ available' = {}

\* What every accepted reply does to the run.
TakeReply ==
  /\ phase = "replied"
  /\ ~StateRejected
  /\ providerState' = NextState
  /\ NothingInFlight
  /\ UNCHANGED <<providerVars, requests, lostReplies>>

StartTools ==
  /\ TakeReply
  /\ reply.calls # <<>>
  /\ BatchAllowed(reply.calls)
  /\ reply.calls[1].name \notin Handoffs
  /\ pending' = PendingAfterReply
  /\ toolCallCount' = toolCallCount + Len(reply.calls)
  /\ calls' = reply.calls
  /\ phase' = "tools"
  /\ UNCHANGED <<messages, generated, checkpoint, retryCount>>

\* The handoff's callback runs and the run ends with the transfer as its result.
HandOff ==
  /\ TakeReply
  /\ reply.calls # <<>>
  /\ BatchAllowed(reply.calls)
  /\ reply.calls[1].name \in Handoffs
  /\ pending' = PendingAfterReply
  /\ toolCallCount' = toolCallCount + 1
  /\ generated' = generated \o <<ItemOf("handoff_call", reply.calls[1].id),
                                 ItemOf("handoff_output", reply.calls[1].id)>>
  /\ calls' = reply.calls
  /\ phase' = "handed_off"
  /\ UNCHANGED <<messages, checkpoint, retryCount>>

\* The output passes its guardrails: the run ends with it as its result.
Finish ==
  /\ reply.calls = <<>>
  /\ TakeReply
  /\ pending' = PendingAfterReply
  /\ phase' = "done"
  /\ UNCHANGED <<messages, generated, checkpoint, toolCallCount, retryCount, calls>>

RetryLeft_OffByOne == retryCount <= MaxRetries
RetryLeft == retryCount < MaxRetries

\* A guardrail rejects the output and a retry is left: the candidate and the
\* correction are appended, and only the correction is still to be delivered.
RetryOutput ==
  LET correction == ItemOf("correction", retryCount)
  IN  /\ TakeReply
      /\ reply.calls = <<>>
      /\ RetryLeft
      /\ messages' = messages \o <<ItemOf("candidate", retryCount), correction>>
      /\ pending' = PendingAfterReply \cup {correction}
      /\ retryCount' = retryCount + 1
      /\ phase' = "request"
      /\ UNCHANGED <<generated, checkpoint, toolCallCount, calls>>

-----------------------------------------------------------------------------
(* The drivers' tool steps.  The sequential drivers begin, run and accept   *)
(* one call at a time; the parallel one begins the whole batch and accepts  *)
(* the results in call order once every call has returned (ToolBatch has    *)
(* its tasks and its queue).                                                *)

Begun == IF parallel THEN calls ELSE <<Head(calls)>>
Remaining == IF parallel THEN <<>> ELSE Tail(calls)
MapCalls(F(_), batch) == [i \in DOMAIN batch |-> F(batch[i])]

\* begin_tool_call for each call begun; the last one's checkpoint stays.
BeginToolCalls ==
  LET items == MapCalls(CallItem, Begun)
  IN  /\ phase = "tools"
      /\ messages' = messages \o items
      /\ generated' = generated \o items
      /\ checkpoint' =
           [state |-> providerState, items |-> messages \o items,
            pending |-> IF HasRemoteState(providerState) THEN pending ELSE {}]
      /\ phase' = "executing"
      /\ UNCHANGED <<providerState, pending, toolCallCount, retryCount, available,
                     request, reply, calls, providerVars, requests, lostReplies>>

AcceptToolResults_NotPending ==
  LET items == MapCalls(OutputItem, Begun)
  IN  /\ phase = "executing"
      /\ ReturnErrors \/ \A i \in DOMAIN Begun : Begun[i].name \notin ApprovalTools
      /\ messages' = messages \o items
      /\ generated' = generated \o items
      /\ calls' = Remaining
      /\ phase' = IF Remaining = <<>> THEN "request" ELSE "tools"
      /\ UNCHANGED <<providerState, pending, checkpoint, toolCallCount, retryCount,
                     available, request, reply, providerVars, requests, lostReplies>>

\* accept_tool_result for each call begun.  A protected tool never returns
\* here, but its invalid arguments can be returned as an error output.
AcceptToolResults ==
  LET items == MapCalls(OutputItem, Begun)
  IN  /\ phase = "executing"
      /\ ReturnErrors \/ \A i \in DOMAIN Begun : Begun[i].name \notin ApprovalTools
      /\ messages' = messages \o items
      /\ generated' = generated \o items
      /\ pending' = pending \cup ItemsOf(items)
      /\ calls' = Remaining
      /\ phase' = IF Remaining = <<>> THEN "request" ELSE "tools"
      /\ UNCHANGED <<providerState, checkpoint, toolCallCount, retryCount, available,
                     request, reply, providerVars, requests, lostReplies>>

\* A protected tool has no decision yet: ApprovalRequired leaves the run.
Suspend ==
  /\ phase = "executing"
  /\ \E i \in DOMAIN Begun : Begun[i].name \in ApprovalTools
  /\ phase' = "suspended"
  /\ UNCHANGED <<localVars, available, request, reply, calls, providerVars,
                 requests, lostReplies>>

\* The model call, a selector or a tool raises; the execution budget is found
\* exhausted (remaining_seconds); or the reply is refused: its continuation or
\* its batch is not allowed, its output does not parse or is out of retries.
\* What a refused reply has already changed nobody reads again.
Fail ==
  /\ phase \in {"request", "model", "replied", "executing"}
  /\ phase' = "failed"
  /\ NothingInFlight
  /\ UNCHANGED <<localVars, calls, providerVars, requests, lostReplies>>

Ended == phase \in {"done", "handed_off", "suspended", "failed"}

Stop == Ended /\ UNCHANGED vars

Step ==
  \/ NextRequest
  \/ \E names \in NameLists, repeatsId \in BOOLEAN, state \in ReplyStates :
       ProviderAnswers(Batch(names, repeatsId), state)
  \/ ReplyLost
  \/ StartTools
  \/ HandOff
  \/ Finish
  \/ RetryOutput
  \/ BeginToolCalls
  \/ AcceptToolResults
  \/ Suspend
  \/ Fail
  \/ Stop

\* One driver takes the run from its first request to its end.
Next == Step /\ UNCHANGED parallel

Spec == Init /\ [][Next]_vars

-----------------------------------------------------------------------------
(* Properties.                                                              *)

TypeOK ==
  /\ parallel \in BOOLEAN
  /\ phase \in {"request", "model", "replied", "tools", "executing", "done",
                "handed_off", "suspended", "failed"}
  /\ providerState \in ProviderState
  /\ messages \in Seq(Item) /\ generated \in Seq(Item)
  /\ pending \subseteq Item /\ request \subseteq Item
  /\ available \subseteq Tools \cup Handoffs
  /\ reply \in [calls: Seq(Call), state: ProviderState]
  /\ calls \in Seq(Call)
  /\ checkpoint \in [state: ProviderState, items: Seq(Item), pending: SUBSET Item]
  /\ toolCallCount \in 0..MaxToolCalls
  /\ retryCount \in 0..MaxRetries
  /\ responses \in Seq(SUBSET Item)
  /\ conversations \in [Conversations -> SUBSET Item]
  /\ requests \in Nat /\ lostReplies \in Nat

\* What the model sees when it works on the request in flight.
View == Stored(providerState) \cup request

\* A lost reply may have reached a conversation the provider appends to; a
\* response chain forks and a stateless request starts over.
Ambiguous == lostReplies > 0 /\ ResolvedMode(providerState) = "conversation"

\* Every request makes the model see the whole run and nothing twice: no local
\* message repeats another, each is either stored behind the provider state or
\* in the request, and only instructions are reissued.  (next_request)
ContextDelivered ==
  phase = "model" =>
    /\ Cardinality(ItemsOf(messages)) = Len(messages)
    /\ ItemsOf(messages) \subseteq View
    /\ ~Ambiguous => Stored(providerState) \cap request = {}

CallIds(items) == {m.id : m \in {n \in items : n.kind = "call"}}
OutputIds(items) == {m.id : m \in {n \in items : n.kind = "output"}}

\* No request shows the model a tool call without its output or an output
\* without its call, whatever the mode and however batches were executed.
CallsAnswered ==
  phase = "model" /\ ~Ambiguous => CallIds(View) = OutputIds(View)

\* A suspended run can be continued from its checkpoint: the only call without
\* an output is the protected one, in the saved items and in what the provider
\* holds, and nothing else is waiting to be delivered.  (begin_tool_call)
CheckpointResumable ==
  phase = "suspended" =>
    LET open == {calls[1].id}
        saved == ItemsOf(checkpoint.items)
        held == Stored(checkpoint.state)
    IN  /\ CallIds(saved) \ OutputIds(saved) = open
        /\ HasRemoteState(checkpoint.state) =>
             /\ checkpoint.pending = {}
             /\ ~Ambiguous => CallIds(held) \ OutputIds(held) = open

\* A run that ends in a handoff leaves no tool call open: with remote state the
\* transfer's own call is the only one the next agent has to acknowledge.
HandoffLeavesNoCallOpen ==
  phase = "handed_off" =>
    LET held == Stored(providerState)
    IN  /\ CallIds(ItemsOf(messages)) \subseteq OutputIds(ItemsOf(messages))
        /\ HasRemoteState(providerState) /\ ~Ambiguous =>
             CallIds(held) \ OutputIds(held) = {calls[1].id}

\* What a stopped run leaves behind can be taken up by whoever goes on.
StopsResumably == CheckpointResumable /\ HandoffLeavesNoCallOpen

\* What the run was told and has said, without instructions: the history it continues,
\* its messages and, last, its output or the calls it ended at.
Said ==
  LET local == ItemsOf(messages)
  IN  responses[1] \cup (local \ Instructional(local))
        \cup IF phase = "done" THEN {ItemOf("candidate", retryCount)}
             ELSE ItemsOf(MapCalls(CallItem, calls))

\* What a run leaves to whoever goes on is the whole conversation: with remote state the
\* provider holds all that was said and nothing else behind the state the run ends with;
\* otherwise the messages contain the history.  The result's items have every call and
\* output of the run.  (accept_response, accept_tool_result)
ContinuationWhole ==
  phase \in {"done", "handed_off", "suspended"} =>
    LET local == ItemsOf(messages)
    IN  /\ IF HasRemoteState(providerState)
           THEN /\ Said \subseteq Stored(providerState)
                /\ ~Ambiguous => Stored(providerState) \subseteq Said
           ELSE responses[1] \subseteq local
        /\ {m \in local : m.kind \in {"call", "output"} /\ m.id # 0} \subseteq ItemsOf(generated)

\* The model is asked at most once per tool call and per retry the agent
\* allows, plus once: a model that keeps calling tools cannot run up requests.
RequestBound == requests <= MaxToolCalls + MaxRetries + 1

\* No reply takes an explicitly stateless run to remote history or leaves a conversation,
\* and the reply to a request in explicit chain mode does not turn it into a conversation.
\* After a reply without mode the chain is no longer explicit, and the next one may.
\* (accept_response)
StrategyKept ==
  [][ /\ providerState.mode = "stateless" \/ ResolvedMode(providerState) = "conversation" =>
           providerState' = providerState
      /\ providerState.mode = "response_chain" =>
           ResolvedMode(providerState') = "response_chain"
    ]_providerState

=============================================================================
