------------------------------- MODULE FlowRun -------------------------------
(***************************************************************************)
(* A host talking to a Flow over several turns: Flow.run and its async and *)
(* streamed twins, handoffs between agents, suspension for approval,       *)
(* resume, and what the host keeps between turns (flows/flow.py).          *)
(*                                                                         *)
(* An agent's run is one step here: it takes its input and its provider    *)
(* state and ends in a result, a handoff, an ApprovalRequired or another   *)
(* error.  AgentExecution is that step in detail; what it guarantees about *)
(* items and provider state (ContinuationWhole) is assumed here.           *)
(*                                                                         *)
(* The ledger is the conversation as it happened; the properties compare   *)
(* with it what sessions, snapshots and agents are given.                  *)
(***************************************************************************)
EXTENDS Naturals, Sequences

CONSTANTS
  Agents, Entrypoint,   \* every agent may hand off to every other
  ProtectedAgents,      \* agents with a tool of their own that needs approval
  NestedAgents,         \* agents the others have as a tool (Agent.as_tool)
  ContextParameter,     \* protected tools take a ctx parameter
  MaxHandoffs,          \* Flow.max_handoffs
  Hosts,                \* how hosts keep the conversation: see host
  SaveCompletedState,   \* after resume the host keeps completed_state's snapshot
  MaxTurns, MaxItems    \* bounds: turns; items after which no tool is called

ASSUME FlowAssumption ==
  /\ Entrypoint \in Agents
  /\ ProtectedAgents \subseteq Agents /\ NestedAgents \subseteq Agents
  /\ MaxHandoffs \in Nat /\ MaxTurns \in Nat /\ MaxItems \in Nat
  /\ {ContextParameter, SaveCompletedState} \subseteq BOOLEAN
  /\ Hosts \subseteq {"session", "chain", "both"}

VARIABLES
  host,           \* "session": passes its Session; "chain": the provider_state
                  \* of the last result; "both"
  remote,         \* the model returns response ids, whatever the host passes
  phase,          \* "idle", "running" or "suspended"
  session,        \* items of the host's session
  cut,            \* history: the session was replaced after a resume from a
                  \* snapshot without what the provider held
  continuation,   \* FlowContinuation of the last result
  contexts,       \* provider: the items behind each response id
  agent,          \* the active agent
  handoffs,       \* handoff_index of this run
  providerState,  \* active_provider_state: a response id, or 0 for none
  inputItems,     \* session history and the input of this run
  conversation,   \* conversation_items
  agentInput,     \* what the active agent is given
  generated,      \* items of this run's agent results so far
  persisted,      \* the PersistedFlowState the host holds while suspended
  executed,       \* history: the suspended tool has run
  decision,       \* history: how the last resume went
  resumed,        \* history: this run is the continuation of a resume
  ledger,         \* history: the conversation so far
  committed,      \* history: the conversation of the turns that ended well
  turns

hostVars == <<host, remote, session, cut, continuation>>
runVars == <<agent, handoffs, providerState, inputItems, conversation,
             agentInput, generated>>
vars == <<phase, hostVars, contexts, runVars, persisted, executed, decision,
          resumed, ledger, committed, turns>>

-----------------------------------------------------------------------------
Kinds == {"input", "call", "output", "handoff_call", "handoff_output", "answer"}
Item == [kind: Kinds, id: Nat]
ItemOf(kind, id) == [kind |-> kind, id |-> id]
ItemsOf(seq) == {seq[i] : i \in DOMAIN seq}
NextId == Len(ledger) + 1

UseSession == host \in {"session", "both"}
KeepState == host \in {"chain", "both"}

\* What the provider holds behind a response id.
Stored(state) == IF state = 0 THEN {} ELSE contexts[state]

NotSuspended == [agent |-> Entrypoint, owner |-> Entrypoint, call |-> 0,
                 state |-> 0, snapshot |-> <<>>, chained |-> FALSE]

\* A host that keeps provider states has a model that returns them.
Init ==
  /\ host \in Hosts /\ remote \in BOOLEAN /\ (KeepState => remote)
  /\ phase = "idle"
  /\ session = <<>> /\ cut = FALSE
  /\ continuation = [agent |-> Entrypoint, state |-> 0]
  /\ contexts = <<>>
  /\ agent = Entrypoint /\ handoffs = 0 /\ providerState = 0
  /\ inputItems = <<>> /\ conversation = <<>> /\ agentInput = <<>>
  /\ generated = <<>>
  /\ persisted = NotSuspended
  /\ executed = FALSE /\ decision = "none" /\ resumed = FALSE
  /\ ledger = <<>> /\ committed = <<>>
  /\ turns = 0

-----------------------------------------------------------------------------
(* Flow.run.                                                                *)

InitialAgentInput_Resent(history, current, state) == history \o current

\* _initial_agent_input: with remote state only the new items are sent.
InitialAgentInput(history, current, state) ==
  IF state # 0 THEN current ELSE history \o current

\* The part of run before its loop.
StartRun(name, history, current, state) ==
  /\ agent' = name
  /\ handoffs' = 0
  /\ providerState' = state
  /\ inputItems' = history \o current
  /\ conversation' = history \o current
  /\ agentInput' = InitialAgentInput(history, current, state)
  /\ generated' = <<>>
  /\ ledger' = ledger \o current
  /\ phase' = "running"

\* The host runs a turn with its session, its continuation, or both.
HostStartsTurn ==
  /\ phase = "idle" /\ turns < MaxTurns
  /\ turns' = turns + 1
  /\ \E name \in {Entrypoint, continuation.agent} :
       StartRun(name, session, <<ItemOf("input", NextId)>>,
                IF KeepState THEN continuation.state ELSE 0)
  /\ resumed' = FALSE /\ decision' = "none"
  /\ UNCHANGED <<hostVars, contexts, persisted, executed, committed>>

\* Tool calls the agent makes and answers before its run ends.
Work == {<<>>} \cup (IF NextId > MaxItems THEN {}
                     ELSE {<<ItemOf("call", NextId), ItemOf("output", NextId)>>})

\* The agent's last model response: with remote state, and whenever the model
\* returns a response id, the provider stores what it has seen and produced.
ProviderKeeps(items) ==
  contexts' = IF providerState = 0 /\ ~remote THEN contexts
              ELSE Append(contexts, Stored(providerState) \cup ItemsOf(agentInput)
                                      \cup ItemsOf(items))
\* active_provider_state: the flow adopts what a result brings, whoever the host is.
StateAfter == IF providerState = 0 /\ ~remote THEN 0 ELSE Len(contexts) + 1

HandoffLeft == handoffs < MaxHandoffs

HandoffInput_Before(items) ==
  IF StateAfter # 0 THEN <<items[Len(items)]>> ELSE conversation

\* _handoff_input without an input_filter: the acknowledgement, or everything.
HandoffInput(items) ==
  IF StateAfter # 0 THEN <<items[Len(items)]>> ELSE conversation \o items

\* The result names a handoff and the loop goes on with its target.
HandOff(work, target) ==
  LET acknowledgement == ItemOf("handoff_output", NextId + 1)
      items == work \o <<ItemOf("handoff_call", NextId + 1), acknowledgement>>
  IN  /\ phase = "running" /\ HandoffLeft
      /\ ProviderKeeps(work \o <<ItemOf("handoff_call", NextId + 1)>>)
      /\ providerState' = StateAfter
      /\ conversation' = conversation \o items
      /\ generated' = generated \o items
      /\ agentInput' = HandoffInput(items)
      /\ agent' = target
      /\ handoffs' = handoffs + 1
      /\ ledger' = ledger \o items
      /\ UNCHANGED <<phase, hostVars, inputItems, persisted, executed, decision,
                     resumed, committed, turns>>

OutputItems_AnswerOnly(work, answer) == <<answer>>
OutputItems(work, answer) == generated \o work \o <<answer>>

\* The turn ends.  A run adds its input and its output items to its session;
\* after a resume that session is the flow's own, and the host keeps either
\* the items of the FlowResult or the snapshot of completed_state.
SavedItems(work, answer) ==
  IF ~UseSession THEN <<>>
  ELSE IF resumed /\ SaveCompletedState
       THEN persisted.snapshot \o OutputItems(work, answer)
  ELSE inputItems \o OutputItems(work, answer)

Finish(work) ==
  LET answer == ItemOf("answer", NextId + 1)
  IN  /\ phase = "running"
      /\ ProviderKeeps(work \o <<answer>>)
      /\ session' = SavedItems(work, answer)
      /\ cut' = (cut \/ (UseSession /\ resumed /\ persisted.chained))
      /\ continuation' = [agent |-> agent, state |-> StateAfter]
      /\ ledger' = ledger \o work \o <<answer>>
      /\ UNCHANGED <<host, remote>>
      /\ committed' = ledger'
      /\ persisted' = NotSuspended
      /\ phase' = "idle"
      /\ UNCHANGED <<runVars, executed, decision, resumed, turns>>

\* An error leaves run: a handoff too many, a model or tool error, a failing
\* emit.  The session is as before, and after a resume the host still has the
\* suspended state.
Fail ==
  /\ phase = "running"
  /\ phase' = IF resumed THEN "suspended" ELSE "idle"
  /\ ledger' = IF resumed THEN ledger ELSE committed
  /\ UNCHANGED <<hostVars, contexts, runVars, persisted, executed, decision,
                 resumed, committed, turns>>

-----------------------------------------------------------------------------
(* Suspension and resume.                                                   *)

Snapshot_ThisRun(work, call) == work \o <<call>>

\* checkpoint["items"][1:]: the messages of the agent's run, without its
\* instructions, up to the protected call.  An agent that started on remote state
\* was sent only what is new (history: chained).
Snapshot(work, call) == agentInput \o work \o <<call>>

\* _suspended_error: the agent asked for its own protected tool.
Suspend(work) ==
  LET call == ItemOf("call", NextId + 1)
  IN  /\ phase = "running"
      /\ agent \in ProtectedAgents /\ NextId <= MaxItems
      /\ ProviderKeeps(work \o <<call>>)
      /\ persisted' = [agent |-> agent, owner |-> agent, call |-> call.id,
                       state |-> StateAfter, snapshot |-> Snapshot(work, call),
                       chained |-> providerState # 0]
      /\ executed' = FALSE
      /\ ledger' = ledger \o work \o <<call>>
      /\ phase' = "suspended"
      /\ UNCHANGED <<hostVars, runVars, decision, resumed, committed, turns>>

\* The same when the protected tool belongs to an agent it runs as a tool: the
\* approval error and the checkpoint are the inner agent's, the flow's active
\* agent is the outer one.
SuspendNested(inner) ==
  LET outerCall == ItemOf("call", NextId)
      prompt == ItemOf("input", NextId + 1)
      innerCall == ItemOf("call", NextId + 1)
  IN  /\ phase = "running"
      /\ inner \in (NestedAgents \cap ProtectedAgents) \ {agent}
      /\ NextId <= MaxItems
      /\ contexts' = IF remote THEN Append(contexts, {prompt, innerCall}) ELSE contexts
      /\ persisted' = [agent |-> agent, owner |-> inner, call |-> innerCall.id,
                       state |-> IF remote THEN Len(contexts) + 1 ELSE 0,
                       snapshot |-> <<prompt, innerCall>>, chained |-> FALSE]
      /\ executed' = FALSE
      /\ ledger' = ledger \o <<outerCall>>
      /\ phase' = "suspended"
      /\ UNCHANGED <<hostVars, runVars, decision, resumed, committed, turns>>

\* The executor of the suspended agent knows the tool and takes the arguments
\* of the request, which include the context if the tool has a parameter for it.
Executable == persisted.owner = persisted.agent /\ ~ContextParameter

\* resume with a verified approval: the tool runs and the flow continues.  The
\* host keeps a receipt and never resumes an executed call again.
Resume ==
  LET output == ItemOf("output", persisted.call)
  IN  /\ phase = "suspended" /\ ~executed
      /\ Executable
      /\ executed' = TRUE
      /\ decision' = "executed"
      /\ resumed' = TRUE
      /\ StartRun(persisted.agent, persisted.snapshot, <<output>>, persisted.state)
      /\ UNCHANGED <<hostVars, contexts, persisted, committed, turns>>

\* resume with a verified approval raises before the tool is called.
ResumeRefused ==
  /\ phase = "suspended" /\ ~executed
  /\ ~Executable
  /\ decision' = "refused"
  /\ UNCHANGED <<phase, hostVars, contexts, runVars, persisted, executed, resumed,
                 ledger, committed, turns>>

\* resume with a rejection or a decision the policy does not verify, or the
\* tool itself fails: an error, and the state is still suspended.
ResumeRejected ==
  /\ phase = "suspended" /\ ~executed
  /\ decision' = "rejected"
  /\ UNCHANGED <<phase, hostVars, contexts, runVars, persisted, executed, resumed,
                 ledger, committed, turns>>

\* The host gives the suspended turn up and keeps what it had before it.
HostAbandons ==
  /\ phase = "suspended"
  /\ phase' = "idle"
  /\ persisted' = NotSuspended
  /\ ledger' = committed
  /\ UNCHANGED <<hostVars, contexts, runVars, executed, decision, resumed,
                 committed, turns>>

Over == phase = "idle" /\ turns = MaxTurns /\ UNCHANGED vars

Next ==
  \/ HostStartsTurn
  \/ \E work \in Work :
       \/ \E target \in Agents \ {agent} : HandOff(work, target)
       \/ Finish(work)
       \/ Suspend(work)
  \/ \E inner \in NestedAgents : SuspendNested(inner)
  \/ Fail
  \/ Resume
  \/ ResumeRefused
  \/ ResumeRejected
  \/ HostAbandons
  \/ Over

Spec == Init /\ [][Next]_vars

-----------------------------------------------------------------------------
(* Properties.                                                              *)

TypeOK ==
  /\ host \in Hosts /\ remote \in BOOLEAN /\ cut \in BOOLEAN
  /\ phase \in {"idle", "running", "suspended"}
  /\ session \in Seq(Item) /\ inputItems \in Seq(Item)
  /\ conversation \in Seq(Item) /\ agentInput \in Seq(Item)
  /\ generated \in Seq(Item) /\ ledger \in Seq(Item) /\ committed \in Seq(Item)
  /\ contexts \in Seq(SUBSET Item)
  /\ continuation \in [agent: Agents, state: 0..Len(contexts)]
  /\ agent \in Agents /\ handoffs \in 0..MaxHandoffs
  /\ providerState \in 0..Len(contexts)
  /\ persisted \in [agent: Agents, owner: Agents, call: Nat,
                    state: 0..Len(contexts), snapshot: Seq(Item), chained: BOOLEAN]
  /\ executed \in BOOLEAN /\ resumed \in BOOLEAN
  /\ decision \in {"none", "executed", "refused", "rejected"}
  /\ turns \in 0..MaxTurns

\* A session that has lost part of the conversation is all its host goes by.
Lost == cut /\ ~KeepState

\* Whenever an agent starts, after a new turn, a handoff or a resume, the model
\* sees the conversation so far: all of it, in order and once; unless the host goes
\* by a session that lost part of it.  (_initial_agent_input, _handoff_input)
HistoryDelivered ==
  phase = "running" /\ ~Lost =>
    IF providerState = 0 THEN agentInput = ledger
    ELSE /\ Stored(providerState) \cup ItemsOf(agentInput) = ItemsOf(ledger)
         /\ Stored(providerState) \cap ItemsOf(agentInput) = {}

\* Between turns the session is the conversation of the turns that ended well, in
\* order, through handoffs, suspensions and failures, with and without remote state;
\* until a turn that was suspended in a chain is resumed.  (session.add_items)
SessionIsLedger == phase = "idle" /\ UseSession /\ ~cut => session = ledger

\* The state a host persists for a suspended flow contains the history of the
\* session the run was given, as long as it is suspended and through resumes that
\* fail; unless the suspended agent started on remote state, or an agent it ran as a
\* tool made the request.  (_suspended_error)
SnapshotKeepsHistory ==
  phase = "suspended" /\ ~persisted.chained /\ persisted.owner = persisted.agent =>
    ItemsOf(session) \subseteq ItemsOf(persisted.snapshot)

\* "A Flow stopped at an approval boundary and can be resumed from its state"
\* (flows/state.py): resume does not refuse a verified approval.  It does one asked for
\* by an agent used as a tool, or by a tool with a context parameter.
SuspendedCanResume == phase = "suspended" => decision # "refused"

\* "Flow may mirror remote conversations in a local Session" (README.md): between
\* turns the session has the whole conversation.  Not so once a turn that was suspended
\* in a chain is resumed.
SessionMirrors == phase = "idle" /\ UseSession => session = ledger

Ids(kind, items) == {m.id : m \in {n \in items : n.kind = kind}}

\* A terminal checkpoint holds no call without its output: the next turn can
\* be run from it.
SessionAnswered ==
  phase = "idle" => Ids("call", ItemsOf(session)) = Ids("output", ItemsOf(session))

=============================================================================
