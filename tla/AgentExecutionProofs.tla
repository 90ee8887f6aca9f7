------------------------ MODULE AgentExecutionProofs ------------------------
(* Proofs about AgentExecution, for every set of tools, every bound and      *)
(* every behaviour of the model and of the provider.                         *)
EXTENDS AgentExecution, FiniteSetTheorems, SequenceTheorems, TLAPS

USE ConstantsAssumption

\* Every request beyond the first was paid for by a tool call or a retry.
RequestsPaid ==
  requests <= toolCallCount + retryCount
                + (IF phase \in {"request", "tools", "executing"} THEN 0 ELSE 1)

\* States in use are valid and name responses the provider has given out.
StatesKnown ==
  /\ phase # "failed" => ValidState(providerState)
  /\ ValidState(reply.state)
  /\ reply.state # NoState => HasRemoteState(reply.state)
  /\ providerState.previous <= Len(responses)
  /\ reply.state.previous <= Len(responses)

\* The drivers leave the tool step when its last call is answered.
ToolsDue == phase \in {"tools", "executing"} => calls # <<>>

\* RequestBound alone is not inductive: it does not say that the counters it
\* is bounded by advance between two requests.  TypeOK alone is not either: what
\* the provider stores behind a response id is typed only if the id is known.
Inv == TypeOK /\ StatesKnown /\ ToolsDue /\ RequestsPaid

\* An item made of a kind and a number is an item.
LEMMA ItemTypes ==
  ASSUME NEW kind \in Kinds, NEW id \in Nat
  PROVE  ItemOf(kind, id) \in Item
BY DEF ItemOf, Item

\* The items made from a batch of calls form a sequence of items.
LEMMA BatchItems ==
  ASSUME NEW batch \in Seq(Call)
  PROVE  /\ MapCalls(CallItem, batch) \in Seq(Item)
         /\ MapCalls(OutputItem, batch) \in Seq(Item)
<1>1. DOMAIN batch = 1..Len(batch) /\ Len(batch) \in Nat
  OBVIOUS
<1>2. \A i \in 1..Len(batch) : batch[i] \in Call
  OBVIOUS
<1>3. \A i \in 1..Len(batch) : CallItem(batch[i]) \in Item
  BY <1>2 DEF CallItem, ItemOf, Item, Kinds, Call
<1>4. \A i \in 1..Len(batch) : OutputItem(batch[i]) \in Item
  BY <1>2 DEF OutputItem, ItemOf, Item, Kinds, Call
<1>5. \A f : f \in [1..Len(batch) -> Item] => f \in Seq(Item)
  BY <1>1
<1> QED
  BY <1>1, <1>3, <1>4, <1>5 DEF MapCalls

\* The members of a sequence over S are in S.
LEMMA ItemsOfType ==
  ASSUME NEW S, NEW seq \in Seq(S)
  PROVE  ItemsOf(seq) \subseteq S
BY DEF ItemsOf

\* Each element of a sequence over S is in S.
LEMMA MembersType ==
  ASSUME NEW S, NEW seq \in Seq(S)
  PROVE  \A i \in DOMAIN seq : seq[i] \in S
OBVIOUS

\* No provider state and no reply are values of their types.
LEMMA StatesType == NoState \in ProviderState /\ NoReply \in [calls: Seq(Call), state: ProviderState]
BY DEF NoState, NoReply, ProviderState, Modes

\* A run starts in the invariant, fresh or resumed, in every strategy.
LEMMA InitInv == Init => Inv
<1> SUFFICES ASSUME Init PROVE Inv
  OBVIOUS
<1>1. PICK s \in StartStates, history \in {<<>>, Resumed} : StartWith(s, history)
  BY DEF Init
<1>2. history \in Seq(Item)
  <2>1. ItemOf("input", 0) \in Item /\ ItemOf("call", 0) \in Item
    BY ItemTypes DEF Kinds
  <2>2. Resumed \in Seq(Item)
    BY <2>1 DEF Resumed
  <2>3. <<>> \in Seq(Item)
    OBVIOUS
  <2> QED
    BY <2>2, <2>3
<1>3. s \in ProviderState
  BY DEF StartStates, ProviderState
<1> DEFINE new == IF history = <<>> THEN ItemOf("input", 0) ELSE ItemOf("output", 0)
           local == IF HasRemoteState(s) THEN <<>> ELSE history
           first == <<ItemOf("instructions", 0)>> \o local \o <<new>>
<1>4. first \in Seq(Item)
  <2>1. new \in Item
    BY ItemTypes DEF Kinds
  <2>2. ItemOf("instructions", 0) \in Item
    BY ItemTypes DEF Kinds
  <2>3. local \in Seq(Item)
    BY <1>2
  <2> HIDE DEF new, local
  <2> QED
    BY <2>1, <2>2, <2>3
<1>5. ItemsOf(history) \subseteq Item /\ ItemsOf(first) \subseteq Item
  <2> HIDE DEF first
  <2> QED
    BY <1>2, <1>4, ItemsOfType
<1>6. /\ phase \in {"request", "failed"}
      /\ providerState = s
      /\ messages = first
      /\ pending = ItemsOf(first)
      /\ responses = <<ItemsOf(history)>>
      /\ conversations = [c \in Conversations |-> ItemsOf(history)]
  BY <1>1 DEF StartWith
<1> HIDE DEF first
<1>7. TypeOK
  BY <1>3, <1>4, <1>5, <1>6, StatesType DEF Init, TypeOK
<1>8. RequestsPaid
  BY DEF Init, RequestsPaid
<1>9. StatesKnown
  <2>1. s.previous \in {0, 1}
    BY DEF StartStates
  <2> QED
    BY <1>1, <1>6, <2>1 DEF Init, StatesKnown, StartWith, NoReply, NoState, ValidState, ResolvedMode
<1> QED
  BY <1>6, <1>7, <1>8, <1>9 DEF Inv, ToolsDue

\* Whatever next_request puts in a request is an item.
LEMMA RequestTypes == TypeOK => RequestItems \subseteq Item
BY ItemsOfType DEF TypeOK, RequestItems, Instructional

\* What the model proposes is a sequence of calls.
LEMMA BatchType ==
  ASSUME TypeOK, NEW names \in NameLists, NEW repeatsId \in BOOLEAN
  PROVE  Batch(names, repeatsId) \in Seq(Call)
<1>1. PICK n \in 0..MaxBatch : names \in [1..n -> Names]
  BY DEF NameLists
<1>2. \A i \in 1..n : CallId(i) \in Nat /\ CallId(1) \in Nat
  <2>1. Len(responses) \in Nat
    BY DEF TypeOK
  <2>2. Len(responses) * MaxBatch \in Nat
    BY <2>1
  <2> QED
    BY <2>2 DEF CallId
<1>3. Batch(names, repeatsId) \in [1..n -> Call]
  BY <1>1, <1>2 DEF Batch, Call
<1> QED
  BY <1>3

\* The continuations a provider may return are provider states.
LEMMA ReplyStatesType == TypeOK => ReplyStates \subseteq ProviderState
BY StatesType DEF TypeOK, ReplyStates, ProviderState, Modes

\* What an accepted reply leaves behind is well typed.
LEMMA TakeReplyTypes ==
  ASSUME TypeOK, TakeReply
  PROVE  /\ providerState' \in ProviderState
         /\ PendingAfterReply \subseteq Item
         /\ request' = {} /\ available' = {} /\ reply' = NoReply
         /\ UNCHANGED <<responses, conversations, requests, lostReplies>>
         /\ phase = "replied"
BY DEF TypeOK, TakeReply, NextState, PendingAfterReply, NothingInFlight, providerVars

\* While tools are due there is a call to begin, and what is begun and what
\* remains are batches.
LEMMA BegunType ==
  ASSUME TypeOK, ToolsDue, phase \in {"tools", "executing"}
  PROVE  Begun \in Seq(Call) /\ Remaining \in Seq(Call)
BY DEF TypeOK, ToolsDue, Begun, Remaining

\* Every step keeps the types: one case per action of the run and its drivers.
LEMMA TypePreserved == TypeOK /\ StatesKnown /\ ToolsDue /\ [Next]_vars => TypeOK'
<1> SUFFICES ASSUME TypeOK, StatesKnown, ToolsDue, [Next]_vars PROVE TypeOK'
  OBVIOUS
<1>0. parallel' \in BOOLEAN
  BY DEF TypeOK, Next, vars
<1>1. CASE NextRequest
  BY <1>0, <1>1, RequestTypes DEF NextRequest, TypeOK, localVars, providerVars
<1>2. ASSUME NEW names \in NameLists, NEW repeatsId \in BOOLEAN,
             NEW state \in ReplyStates,
             ProviderAnswers(Batch(names, repeatsId), state)
      PROVE  TypeOK'
  <2> DEFINE batch == Batch(names, repeatsId)
             produced == IF batch = <<>> THEN {ItemOf("candidate", retryCount)}
                         ELSE {CallItem(batch[i]) : i \in DOMAIN batch}
             context == Stored(providerState) \cup (request \ Instructional(request))
                          \cup produced
  <2>1. batch \in Seq(Call)
    BY BatchType
  <2>2. produced \subseteq Item
    <3>1. \A i \in DOMAIN batch : batch[i] \in Call
      BY <2>1
    <3>2. \A i \in DOMAIN batch : CallItem(batch[i]) \in Item
      BY <3>1 DEF CallItem, ItemOf, Item, Kinds, Call
    <3>3. ItemOf("candidate", retryCount) \in Item
      BY ItemTypes DEF TypeOK, Kinds
    <3> QED
      BY <3>2, <3>3
  <2>3. Stored(providerState) \subseteq Item
    BY <1>2 DEF ProviderAnswers, TypeOK, StatesKnown, Stored, ProviderState,
                ResolvedMode, ValidState
  <2>4. context \subseteq Item
    BY <2>2, <2>3 DEF TypeOK
  <2>5. /\ reply' = [calls |-> batch, state |-> state]
        /\ responses' = Append(responses, context)
        /\ conversations' \in [Conversations -> SUBSET Item]
    BY <1>2, <2>4 DEF ProviderAnswers, TypeOK
  <2>6. state \in ProviderState
    BY ReplyStatesType
  <2> HIDE DEF batch, produced, context
  <2> QED
    BY <1>0, <1>2, <2>1, <2>4, <2>5, <2>6 DEF ProviderAnswers, TypeOK, localVars
<1>3. CASE ReplyLost
  BY <1>0, <1>3, StatesType DEF ReplyLost, TypeOK, localVars, providerVars
<1>4. CASE StartTools
  BY <1>0, <1>4, TakeReplyTypes, StatesType DEF StartTools, TypeOK, OverBudget, BatchAllowed
<1>5. CASE HandOff
  <2>1. reply.calls[1].id \in Nat
    <3>1. reply.calls \in Seq(Call) /\ reply.calls # <<>>
      BY <1>5 DEF HandOff, TypeOK
    <3>2. reply.calls[1] \in Call
      BY <3>1
    <3> QED
      BY <3>2 DEF Call
  <2>2. <<ItemOf("handoff_call", reply.calls[1].id),
          ItemOf("handoff_output", reply.calls[1].id)>> \in Seq(Item)
    BY <2>1, ItemTypes DEF Kinds
  <2>3. generated' \in Seq(Item)
    BY <1>5, <2>2 DEF HandOff, TypeOK
  <2>4. toolCallCount' \in 0..MaxToolCalls
    BY <1>5 DEF HandOff, TypeOK, BatchAllowed, OverBudget
  <2> QED
    BY <1>0, <1>5, <2>3, <2>4, TakeReplyTypes, StatesType DEF HandOff, TypeOK
<1>6. CASE Finish
  BY <1>0, <1>6, TakeReplyTypes, StatesType DEF Finish, TypeOK
<1>7. CASE RetryOutput
  <2>1. /\ ItemOf("correction", retryCount) \in Item
        /\ ItemOf("candidate", retryCount) \in Item
    BY ItemTypes DEF TypeOK, Kinds
  <2>2. messages' \in Seq(Item) /\ pending' \subseteq Item
    BY <1>7, <2>1, TakeReplyTypes DEF RetryOutput, TypeOK
  <2>3. retryCount' \in 0..MaxRetries
    BY <1>7 DEF RetryOutput, RetryLeft, TypeOK
  <2> QED
    BY <1>0, <1>7, <2>2, <2>3, TakeReplyTypes, StatesType DEF RetryOutput, TypeOK
<1>8. CASE BeginToolCalls
  <2>1. MapCalls(CallItem, Begun) \in Seq(Item)
    BY <1>8, BegunType, BatchItems DEF BeginToolCalls
  <2> DEFINE items == MapCalls(CallItem, Begun)
  <2>2. /\ messages \o items \in Seq(Item)
        /\ generated \o items \in Seq(Item)
    BY <2>1 DEF TypeOK
  <2> HIDE DEF items
  <2> QED
    BY <1>0, <1>8, <2>2 DEF BeginToolCalls, TypeOK, items, providerVars
<1>9. CASE AcceptToolResults
  <2>1. MapCalls(OutputItem, Begun) \in Seq(Item)
    BY <1>9, BegunType, BatchItems DEF AcceptToolResults
  <2> DEFINE items == MapCalls(OutputItem, Begun)
  <2>2. /\ messages \o items \in Seq(Item)
        /\ generated \o items \in Seq(Item)
        /\ pending \cup ItemsOf(items) \subseteq Item
    BY <2>1, ItemsOfType DEF TypeOK
  <2>3. Remaining \in Seq(Call)
    BY <1>9, BegunType DEF AcceptToolResults
  <2> HIDE DEF items
  <2> QED
    BY <1>0, <1>9, <2>2, <2>3 DEF AcceptToolResults, TypeOK, items, providerVars
<1>10. CASE Suspend
  BY <1>0, <1>10 DEF Suspend, TypeOK, localVars, providerVars
<1>11. CASE Fail
  BY <1>0, <1>11, StatesType DEF Fail, NothingInFlight, TypeOK, localVars, providerVars
<1>12. CASE Stop \/ UNCHANGED vars
  BY <1>0, <1>12 DEF Stop, vars, TypeOK, localVars, providerVars
<1> QED
  BY <1>1, <1>2, <1>3, <1>4, <1>5, <1>6, <1>7, <1>8, <1>9, <1>10, <1>11, <1>12 DEF Next, Step

\* The provider only ever gives out valid states and counts its responses up.
LEMMA StatesPreserved == TypeOK /\ StatesKnown /\ [Next]_vars => StatesKnown'
<1> SUFFICES ASSUME TypeOK, StatesKnown, [Next]_vars PROVE StatesKnown'
  OBVIOUS
<1>1. ValidState(NoState) /\ NoState.previous = 0 /\ NoReply.state = NoState
  BY DEF ValidState, NoState, NoReply, ResolvedMode
<1>2. Len(responses) \in Nat
  BY DEF TypeOK
<1>3. ASSUME NEW batch, NEW state \in ReplyStates, ProviderAnswers(batch, state)
      PROVE  StatesKnown'
  <2>1. /\ ValidState(state) /\ state.previous <= Len(responses) + 1
        /\ state # NoState => HasRemoteState(state)
    BY <1>1, <1>2 DEF ReplyStates, ValidState, ResolvedMode, HasRemoteState
  <2>2. Len(responses') = Len(responses) + 1
    BY <1>3 DEF ProviderAnswers, TypeOK
  <2>3. reply'.state = state /\ phase = "model" /\ UNCHANGED providerState
    BY <1>3 DEF ProviderAnswers, localVars
  <2>4. providerState.previous \in Nat /\ state.previous \in Nat
    BY ReplyStatesType DEF TypeOK, ProviderState
  <2> QED
    BY <1>2, <2>1, <2>2, <2>3, <2>4 DEF StatesKnown, ValidState, ResolvedMode
<1>4. ASSUME TakeReply PROVE StatesKnown'
  <2>1. providerState' \in {providerState, reply.state} /\ reply' = NoReply
    BY <1>4 DEF TakeReply, NextState, NothingInFlight
  <2>2. phase = "replied" /\ UNCHANGED responses
    BY <1>4 DEF TakeReply, providerVars
  <2> QED
    BY <1>1, <1>2, <2>1, <2>2 DEF StatesKnown, ValidState, ResolvedMode
<1>5. ASSUME UNCHANGED <<providerState, responses>>,
             reply' = reply \/ reply' = NoReply,
             phase = "failed" => phase' = "failed"
      PROVE  StatesKnown'
  BY <1>1, <1>2, <1>5 DEF StatesKnown, ValidState, ResolvedMode
<1> QED
  BY <1>3, <1>4, <1>5 DEF Next, Step, NextRequest, ReplyLost, StartTools, HandOff, Finish,
     RetryOutput, BeginToolCalls, AcceptToolResults, Suspend, Fail, NothingInFlight,
     Stop, Ended, vars, localVars, providerVars

\* The drivers stand at a tool step only while a call is left in the batch.
LEMMA ToolsDuePreserved == TypeOK /\ ToolsDue /\ [Next]_vars => ToolsDue'
<1> SUFFICES ASSUME TypeOK, ToolsDue, [Next]_vars PROVE ToolsDue'
  OBVIOUS
<1>1. CASE StartTools
  BY <1>1 DEF StartTools, ToolsDue
<1>2. CASE BeginToolCalls
  BY <1>2 DEF BeginToolCalls, ToolsDue
<1>3. CASE AcceptToolResults
  BY <1>3 DEF AcceptToolResults, ToolsDue
<1>4. CASE UNCHANGED <<phase, calls>>
  BY <1>4 DEF ToolsDue
<1>5. CASE phase' \notin {"tools", "executing"}
  BY <1>5 DEF ToolsDue
<1> QED
  BY <1>1, <1>2, <1>3, <1>4, <1>5 DEF Next, Step, NextRequest, ProviderAnswers, ReplyLost,
     HandOff, Finish, RetryOutput, Suspend, Fail, Stop, vars

\* Every request after the first was paid for by a tool call or a retry.
LEMMA PaidPreserved == TypeOK /\ RequestsPaid /\ [Next]_vars => RequestsPaid'
<1> SUFFICES ASSUME TypeOK, RequestsPaid, [Next]_vars PROVE RequestsPaid'
  OBVIOUS
<1>1. toolCallCount \in Nat /\ retryCount \in Nat /\ requests \in Nat
  BY DEF TypeOK
<1>2. CASE NextRequest
  BY <1>1, <1>2 DEF NextRequest, RequestsPaid, localVars
<1>3. CASE StartTools
  <2>1. Len(reply.calls) \in Nat \ {0}
    BY <1>3 DEF StartTools, TypeOK
  <2> QED
    BY <1>1, <1>3, <2>1, TakeReplyTypes DEF StartTools, RequestsPaid
<1>4. CASE RetryOutput
  BY <1>1, <1>4, TakeReplyTypes DEF RetryOutput, RequestsPaid
<1>5. CASE HandOff
  BY <1>1, <1>5, TakeReplyTypes DEF HandOff, RequestsPaid
<1>6. CASE Finish
  BY <1>1, <1>6, TakeReplyTypes DEF Finish, RequestsPaid
<1>7. CASE BeginToolCalls \/ AcceptToolResults
  BY <1>1, <1>7 DEF BeginToolCalls, AcceptToolResults, RequestsPaid
<1>8. CASE /\ UNCHANGED <<requests, toolCallCount, retryCount>>
           /\ phase' \in {"request", "tools", "executing"} => phase' = phase
  BY <1>1, <1>8 DEF RequestsPaid
<1> QED
  BY <1>2, <1>3, <1>4, <1>5, <1>6, <1>7, <1>8 DEF Next, Step, ProviderAnswers, ReplyLost,
     Suspend, Fail, Stop, vars, localVars

\* The inductive invariant holds in every run.
THEOREM Invariance == Spec => []Inv
<1>1. Inv /\ [Next]_vars => Inv'
  BY TypePreserved, StatesPreserved, ToolsDuePreserved, PaidPreserved DEF Inv
<1> QED
  BY InitInv, <1>1, PTL DEF Spec

\* Type correctness of a run, whatever the model answers.
THEOREM TypeCorrect == Spec => []TypeOK
<1>1. Inv => TypeOK
  BY DEF Inv
<1> QED
  BY Invariance, <1>1, PTL

\* A run never asks the model more than MaxToolCalls + MaxRetries + 1 times,
\* for every agent and every provider.
THEOREM RequestsBounded == Spec => []RequestBound
<1>1. Inv => RequestBound
  BY DEF Inv, TypeOK, RequestsPaid, RequestBound
<1> QED
  BY Invariance, <1>1, PTL

\* For every provider and whether or not its states name their mode: an explicitly stateless
\* run and a conversation keep their state, and no reply turns an explicit chain into
\* anything but a chain (execution.py:173-191).
THEOREM StrategyIsKept == Spec => StrategyKept
<1> DEFINE Kept ==
      /\ providerState.mode = "stateless" \/ ResolvedMode(providerState) = "conversation" =>
           providerState' = providerState
      /\ providerState.mode = "response_chain" =>
           ResolvedMode(providerState') = "response_chain"
<1>1. ASSUME Inv, [Next]_vars PROVE [Kept]_providerState
  <2>1. CASE TakeReply
    <3>1. providerState' = NextState /\ ~StateRejected
      BY <2>1 DEF TakeReply
    <3>2. CASE providerState' = providerState
      BY <3>2
    <3>3. CASE /\ providerState' = reply.state
               /\ reply.state # NoState
               /\ providerState.mode # "stateless"
               /\ ResolvedMode(providerState) # "conversation"
      <4>1. ASSUME providerState.mode = "response_chain"
            PROVE  ResolvedMode(reply.state) = "response_chain"
        <5>1. ValidState(reply.state) /\ HasRemoteState(reply.state)
          BY <1>1, <3>3 DEF Inv, StatesKnown
        <5>2. reply.state.conversation = NoConversation
          BY <3>1, <4>1 DEF StateRejected
        <5> QED
          BY <5>1, <5>2 DEF ValidState, HasRemoteState
      <4> QED
        BY <3>3, <4>1
    <3> QED
      BY <3>1, <3>2, <3>3 DEF NextState
  <2>2. CASE UNCHANGED providerState
    BY <2>2
  <2> QED
    BY <1>1, <2>1, <2>2 DEF Next, Step, NextRequest, ProviderAnswers, ReplyLost, StartTools,
       HandOff, Finish, RetryOutput, BeginToolCalls, AcceptToolResults, Suspend, Fail,
       Stop, vars, localVars
<1>2. Spec => [][Kept]_providerState
  BY Invariance, <1>1, PTL DEF Spec
<1> QED
  BY <1>2 DEF StrategyKept

-----------------------------------------------------------------------------
(* What the model sees.  With remote state a run relies on the provider for *)
(* everything it does not send, so the invariant says where each item of    *)
(* the run is, phase by phase, and which calls have no output there.        *)

BatchIds(batch) == {batch[i].id : i \in DOMAIN batch}
CallItems(batch) == {CallItem(batch[i]) : i \in DOMAIN batch}
Local == ItemsOf(messages)
Spoken(items) == items \ Instructional(items)
Held == Stored(providerState)

\* Numbers are given out once: none is above Top.
Top == Len(responses) * MaxBatch
Known(items) == \A x \in items : x.kind \in {"call", "output"} => x.id <= Top

Numbered ==
  /\ Known(Local) /\ Known(pending)
  /\ \A r \in DOMAIN responses : Known(responses[r]) /\ Instructional(responses[r]) = {}
  /\ \A c \in Conversations : Known(conversations[c]) /\ Instructional(conversations[c]) = {}
  /\ \A x \in Local : x.kind \in {"candidate", "correction"} => x.id < retryCount
  /\ \A id \in BatchIds(calls) \cup BatchIds(reply.calls) : id <= Top

Distinct == \A i, j \in DOMAIN messages : messages[i] = messages[j] => i = j

\* Calls without an output among the local messages: those being executed.
LocalCalls ==
  /\ phase \in {"request", "model", "replied", "tools", "handed_off"} =>
       CallIds(Local) \subseteq OutputIds(Local)
  /\ phase \in {"executing", "suspended"} => CallIds(Local) \ OutputIds(Local) = BatchIds(Begun)
  /\ ~HasRemoteState(providerState) => OutputIds(Local) \subseteq CallIds(Local)

Protected(batch) == \E i \in DOMAIN batch : batch[i].name \in ApprovalTools

\* The calls of a step that are still due.
DueCalls ==
  /\ phase \in {"tools", "executing", "suspended"} =>
    /\ \A i, j \in DOMAIN calls : calls[i].id = calls[j].id => i = j
    /\ BatchIds(calls) \cap OutputIds(Local) = {}
    /\ BatchIds(IF phase = "tools" THEN calls ELSE Remaining) \cap CallIds(Local) = {}
    /\ Protected(calls) => Len(calls) = 1 /\ (HasRemoteState(providerState) => pending = {})
  /\ phase = "suspended" => Protected(calls)
  /\ phase = "handed_off" => Len(calls) = 1 /\ (HasRemoteState(providerState) => pending = {})

CheckpointTaken ==
  phase \in {"executing", "suspended"} =>
    checkpoint = [state |-> providerState, items |-> messages,
                  pending |-> IF HasRemoteState(providerState) THEN pending ELSE {}]

Requested == phase \in {"model", "replied"} => request = RequestItems

\* The conversation may hold more than one request's worth.
Unsure ==
  ResolvedMode(providerState) = "conversation" /\ (lostReplies > 0 \/ phase = "replied")

OpenIds == IF phase \in {"tools", "executing", "suspended", "handed_off"} THEN BatchIds(calls) ELSE {}

\* With remote state every item but instructions is held or pending, and not both;
\* the calls without an output are those of the step in progress.
Synced ==
  HasRemoteState(providerState) /\ phase \notin {"failed", "done"} =>
    /\ Spoken(Local) \subseteq Held \cup pending
    /\ ~Unsure => Held \cap pending = {}
    /\ OpenIds \cap OutputIds(Held \cup pending) = {}
    /\ phase \in {"tools", "executing", "suspended"} => CallItems(calls) \subseteq Held
    /\ ~Unsure => CallIds(Held \cup pending) = OutputIds(Held \cup pending) \cup OpenIds

\* A conversation nobody has adopted yet holds nothing but what the run started from.
Unadopted(c) == phase = "replied" => c # reply.state.conversation
CleanConversations ==
  /\ lostReplies = 0 /\ phase # "failed"
  /\ providerState.mode # "stateless" /\ ResolvedMode(providerState) # "conversation"
  => \A c \in Conversations : Unadopted(c) =>
       conversations[c] \subseteq (IF HasRemoteState(providerState) THEN Held ELSE Local)

\* What a reply on its way back has left with the provider.
Produced == IF reply.calls = <<>> THEN {ItemOf("candidate", retryCount)} ELSE CallItems(reply.calls)
ReplyHeld ==
  phase = "replied" =>
    /\ BatchIds(reply.calls) \cap (CallIds(Local) \cup OutputIds(Local)) = {}
    /\ ~StateRejected /\ HasRemoteState(NextState) =>
         LET held == Stored(NextState)
         IN  /\ Spoken(Local) \cup Produced \cup Held \subseteq held
             /\ OutputIds(held) \cap BatchIds(reply.calls) = {}
             /\ lostReplies = 0 \/ ResolvedMode(NextState) # "conversation" =>
                  CallIds(held) = OutputIds(held) \cup BatchIds(reply.calls)

ContextInv ==
  /\ Numbered /\ Distinct /\ LocalCalls /\ DueCalls /\ CheckpointTaken /\ Requested
  /\ Synced /\ CleanConversations /\ ReplyHeld

-----------------------------------------------------------------------------
(* Items and batches.                                                       *)

\* What kind of an item a set has is had by its parts.
LEMMA SetParts ==
  ASSUME NEW A, NEW B
  PROVE  /\ CallIds(A \cup B) = CallIds(A) \cup CallIds(B)
         /\ OutputIds(A \cup B) = OutputIds(A) \cup OutputIds(B)
         /\ Instructional(A \cup B) = Instructional(A) \cup Instructional(B)
         /\ Spoken(A \cup B) = Spoken(A) \cup Spoken(B)
         /\ Spoken(A) \subseteq A /\ Instructional(A) \subseteq A
         /\ A = Spoken(A) \cup Instructional(A)
         /\ A \subseteq B => CallIds(A) \subseteq CallIds(B) /\ OutputIds(A) \subseteq OutputIds(B)
         /\ Instructional(Spoken(A)) = {}
<1>1. /\ CallIds(A \cup B) = CallIds(A) \cup CallIds(B)
      /\ A \subseteq B => CallIds(A) \subseteq CallIds(B)
  BY DEF CallIds
<1>2. /\ OutputIds(A \cup B) = OutputIds(A) \cup OutputIds(B)
      /\ A \subseteq B => OutputIds(A) \subseteq OutputIds(B)
  BY DEF OutputIds
<1>3. /\ Instructional(A \cup B) = Instructional(A) \cup Instructional(B)
      /\ Spoken(A \cup B) = Spoken(A) \cup Spoken(B)
      /\ Spoken(A) \subseteq A /\ Instructional(A) \subseteq A
      /\ A = Spoken(A) \cup Instructional(A)
      /\ Instructional(Spoken(A)) = {}
  BY DEF Instructional, Spoken
<1> QED
  BY <1>1, <1>2, <1>3

\* The calls and outputs of a union.
LEMMA UnionIds ==
  \A A, B : /\ CallIds(A \cup B) = CallIds(A) \cup CallIds(B)
            /\ OutputIds(A \cup B) = OutputIds(A) \cup OutputIds(B)
BY SetParts, Zenon

\* Instructions are neither calls nor outputs.
LEMMA SpokenIds ==
  ASSUME NEW A
  PROVE  /\ CallIds(Instructional(A)) = {} /\ OutputIds(Instructional(A)) = {}
         /\ CallIds(Spoken(A)) = CallIds(A) /\ OutputIds(Spoken(A)) = OutputIds(A)
  BY DEF CallIds, OutputIds, Instructional, Spoken

\* The items and ids a batch gives rise to.
LEMMA BatchParts ==
  ASSUME NEW batch \in Seq(Call)
  PROVE  /\ CallIds(CallItems(batch)) = BatchIds(batch) /\ OutputIds(CallItems(batch)) = {}
         /\ Instructional(CallItems(batch)) = {} /\ CallItems(batch) \subseteq Item
         /\ BatchIds(batch) \subseteq Nat
         /\ ItemsOf(MapCalls(CallItem, batch)) = CallItems(batch)
         /\ CallIds(ItemsOf(MapCalls(OutputItem, batch))) = {}
         /\ OutputIds(ItemsOf(MapCalls(OutputItem, batch))) = BatchIds(batch)
         /\ Instructional(ItemsOf(MapCalls(OutputItem, batch))) = {}
<1>1. \A i \in DOMAIN batch : batch[i] \in Call /\ batch[i].id \in Nat
  <2>1. \A i \in DOMAIN batch : batch[i] \in Call
    OBVIOUS
  <2> QED
    BY <2>1 DEF Call
<1>2. /\ \A x \in CallItems(batch) : x.kind = "call" /\ x.id \in BatchIds(batch)
      /\ \A id \in BatchIds(batch) : \E x \in CallItems(batch) : x.id = id
      /\ CallItems(batch) \subseteq Item
  <2>1. \A i \in DOMAIN batch : /\ CallItem(batch[i]).kind = "call"
                                /\ CallItem(batch[i]).id = batch[i].id
                                /\ CallItem(batch[i]) \in Item
    BY <1>1 DEF CallItem, ItemOf, Item, Kinds
  <2> QED
    BY <2>1 DEF CallItems, BatchIds
<1>3. DOMAIN MapCalls(CallItem, batch) = DOMAIN batch /\ DOMAIN MapCalls(OutputItem, batch) = DOMAIN batch
  BY DEF MapCalls
<1>4. ItemsOf(MapCalls(CallItem, batch)) = CallItems(batch)
  BY <1>3 DEF ItemsOf, MapCalls, CallItems
<1>5. /\ \A x \in ItemsOf(MapCalls(OutputItem, batch)) : x.kind = "output" /\ x.id \in BatchIds(batch)
      /\ \A id \in BatchIds(batch) : \E x \in ItemsOf(MapCalls(OutputItem, batch)) : x.id = id
  <2>1. \A i \in DOMAIN batch : /\ OutputItem(batch[i]).kind = "output"
                                /\ OutputItem(batch[i]).id = batch[i].id
    BY DEF OutputItem, ItemOf
  <2>2. \A i \in DOMAIN batch : MapCalls(OutputItem, batch)[i] = OutputItem(batch[i])
    BY DEF MapCalls
  <2>3. ItemsOf(MapCalls(OutputItem, batch)) = {OutputItem(batch[i]) : i \in DOMAIN batch}
    BY <1>3, <2>2 DEF ItemsOf
  <2> QED
    BY <2>1, <2>3 DEF BatchIds
<1>6. /\ CallIds(CallItems(batch)) = BatchIds(batch) /\ OutputIds(CallItems(batch)) = {}
      /\ Instructional(CallItems(batch)) = {}
  BY <1>2 DEF CallIds, OutputIds, Instructional
<1>7. /\ CallIds(ItemsOf(MapCalls(OutputItem, batch))) = {}
      /\ OutputIds(ItemsOf(MapCalls(OutputItem, batch))) = BatchIds(batch)
      /\ Instructional(ItemsOf(MapCalls(OutputItem, batch))) = {}
  BY <1>5 DEF CallIds, OutputIds, Instructional
<1>8. BatchIds(batch) \subseteq Nat
  BY <1>1 DEF BatchIds
<1> QED
  BY <1>2, <1>4, <1>6, <1>7, <1>8

\* The items of a batch are of one kind and carry its ids.
LEMMA BatchMembers ==
  ASSUME NEW batch \in Seq(Call)
  PROVE  /\ \A x \in CallItems(batch) : x.kind = "call" /\ x.id \in BatchIds(batch)
         /\ \A x \in ItemsOf(MapCalls(OutputItem, batch)) :
              x.kind = "output" /\ x.id \in BatchIds(batch)
<1>1. \A i \in DOMAIN batch : /\ CallItem(batch[i]).kind = "call"
                              /\ CallItem(batch[i]).id = batch[i].id
                              /\ OutputItem(batch[i]).kind = "output"
                              /\ OutputItem(batch[i]).id = batch[i].id
  BY DEF CallItem, OutputItem, ItemOf
<1>2. /\ DOMAIN MapCalls(OutputItem, batch) = DOMAIN batch
      /\ \A i \in DOMAIN batch : MapCalls(OutputItem, batch)[i] = OutputItem(batch[i])
  BY DEF MapCalls
<1>3. \A i \in DOMAIN batch : batch[i].id \in BatchIds(batch)
  BY DEF BatchIds
<1>4. \A x \in CallItems(batch) : \E i \in DOMAIN batch : x = CallItem(batch[i])
  BY DEF CallItems
<1>5. \A x \in ItemsOf(MapCalls(OutputItem, batch)) : \E i \in DOMAIN batch : x = OutputItem(batch[i])
  BY <1>2 DEF ItemsOf
<1> QED
  BY <1>1, <1>3, <1>4, <1>5, ZenonT(40)

\* Two sequences without repetitions and nothing in common.
LEMMA Joined ==
  ASSUME NEW s \in Seq(Item), NEW t \in Seq(Item)
  PROVE  /\ ItemsOf(s \o t) = ItemsOf(s) \cup ItemsOf(t)
         /\ /\ \A i, j \in DOMAIN s : s[i] = s[j] => i = j
            /\ \A i, j \in DOMAIN t : t[i] = t[j] => i = j
            /\ ItemsOf(s) \cap ItemsOf(t) = {}
            => \A i, j \in DOMAIN (s \o t) : (s \o t)[i] = (s \o t)[j] => i = j
<1> DEFINE u == s \o t
           m == Len(s)
           n == Len(t)
<1>1. /\ m \in Nat /\ n \in Nat /\ DOMAIN s = 1..m /\ DOMAIN t = 1..n /\ DOMAIN u = 1..(m + n)
      /\ \A i \in 1..m : u[i] = s[i]
      /\ \A i \in 1..n : u[m + i] = t[i]
  OBVIOUS
<1>2. \A k \in DOMAIN u : k \in 1..m \/ k - m \in 1..n
  BY <1>1
<1>3. \A k \in DOMAIN u : k - m \in 1..n => u[k] = t[k - m]
  BY <1>1
<1>4. \A i \in 1..m : i \in DOMAIN u
  BY <1>1
<1>5. \A i \in 1..n : m + i \in DOMAIN u
  BY <1>1
<1> HIDE DEF u
<1>6. ItemsOf(u) \subseteq ItemsOf(s) \cup ItemsOf(t)
  BY <1>1, <1>2, <1>3 DEF ItemsOf
<1>7. ItemsOf(s) \cup ItemsOf(t) \subseteq ItemsOf(u)
  BY <1>1, <1>4, <1>5 DEF ItemsOf
<1>8. ASSUME \A i, j \in DOMAIN s : s[i] = s[j] => i = j,
             \A i, j \in DOMAIN t : t[i] = t[j] => i = j,
             ItemsOf(s) \cap ItemsOf(t) = {},
             NEW i \in DOMAIN u, NEW j \in DOMAIN u, u[i] = u[j]
      PROVE  i = j
  <2>1. CASE i \in 1..m /\ j \in 1..m
    BY <1>1, <1>8, <2>1
  <2>2. CASE i - m \in 1..n /\ j - m \in 1..n
    <3>1. t[i - m] = t[j - m] /\ i \in Nat /\ j \in Nat
      BY <1>1, <1>3, <1>8, <2>2
    <3>2. i - m = j - m
      BY <1>1, <1>8, <2>2, <3>1
    <3> QED
      BY <1>1, <3>1, <3>2
  <2>3. ASSUME NEW k \in 1..m, NEW l \in DOMAIN u, l - m \in 1..n PROVE u[k] # u[l]
    <3>1. s[k] \in ItemsOf(s) /\ u[k] = s[k]
      BY <1>1 DEF ItemsOf
    <3>2. t[l - m] \in ItemsOf(t) /\ u[l] = t[l - m]
      BY <1>1, <1>3, <2>3 DEF ItemsOf
    <3> QED
      BY <1>8, <3>1, <3>2
  <2> QED
    BY <1>2, <1>8, <2>1, <2>2, <2>3
<1>9. (/\ \A i, j \in DOMAIN s : s[i] = s[j] => i = j
       /\ \A i, j \in DOMAIN t : t[i] = t[j] => i = j
       /\ ItemsOf(s) \cap ItemsOf(t) = {})
      => \A i, j \in DOMAIN u : u[i] = u[j] => i = j
  BY <1>8
<1> QED
  BY <1>6, <1>7, <1>9 DEF u

\* A sequence without repetitions has as many members as elements.
LEMMA DistinctCounts ==
  ASSUME NEW s \in Seq(Item), \A i, j \in DOMAIN s : s[i] = s[j] => i = j
  PROVE  Cardinality(ItemsOf(s)) = Len(s)
<1>1. Len(s) \in Nat /\ DOMAIN s = 1..Len(s) /\ s \in [1..Len(s) -> ItemsOf(s)]
  BY DEF ItemsOf
<1>2. IsFiniteSet(1..Len(s)) /\ Cardinality(1..Len(s)) = Len(s)
  BY <1>1, FS_Interval
<1>3. s \in Surjection(1..Len(s), ItemsOf(s)) /\ s \in Injection(1..Len(s), ItemsOf(s))
  BY <1>1 DEF Surjection, Injection, IsInjective, ItemsOf
<1> QED
  BY <1>2, <1>3, FS_Surjection

\* The calls of a batch whose ids differ make different items.
LEMMA BatchDistinct ==
  ASSUME NEW batch \in Seq(Call), \A i, j \in DOMAIN batch : batch[i].id = batch[j].id => i = j
  PROVE  /\ LET t == MapCalls(CallItem, batch)
            IN  \A i, j \in DOMAIN t : t[i] = t[j] => i = j
         /\ LET t == MapCalls(OutputItem, batch)
            IN  \A i, j \in DOMAIN t : t[i] = t[j] => i = j
<1>1. \A i, j \in DOMAIN batch :
        CallItem(batch[i]) = CallItem(batch[j]) \/ OutputItem(batch[i]) = OutputItem(batch[j])
          => i = j
  BY DEF CallItem, OutputItem, ItemOf
<1> QED
  BY <1>1 DEF MapCalls

\* What is begun and what remains make up the calls that are due.
LEMMA BegunParts ==
  ASSUME TypeOK, calls # <<>>,
         \A i, j \in DOMAIN calls : calls[i].id = calls[j].id => i = j
  PROVE  /\ Begun \in Seq(Call) /\ Remaining \in Seq(Call)
         /\ BatchIds(Begun) \cup BatchIds(Remaining) = BatchIds(calls)
         /\ BatchIds(Begun) \cap BatchIds(Remaining) = {}
         /\ CallItems(Begun) \cup CallItems(Remaining) = CallItems(calls)
         /\ \A i, j \in DOMAIN Begun : Begun[i].id = Begun[j].id => i = j
         /\ \A i, j \in DOMAIN Remaining : Remaining[i].id = Remaining[j].id => i = j
         /\ \A i \in DOMAIN Begun : \E j \in DOMAIN calls : Begun[i] = calls[j]
         /\ \A i \in DOMAIN Remaining : \E j \in DOMAIN calls : Remaining[i] = calls[j]
         /\ Len(calls) = 1 => Begun = calls /\ Remaining = <<>>
<1>1. CASE parallel
  <2>1. Begun = calls /\ Remaining = <<>> /\ DOMAIN Remaining = {}
    BY <1>1 DEF Begun, Remaining
  <2> QED
    BY <2>1 DEF BatchIds, CallItems, TypeOK
<1>2. CASE ~parallel
  <2>1. Begun = <<Head(calls)>> /\ Remaining = Tail(calls)
    BY <1>2 DEF Begun, Remaining
  <2>2. /\ calls \in Seq(Call) /\ Len(calls) \in Nat \ {0} /\ DOMAIN calls = 1..Len(calls)
        /\ Head(calls) = calls[1] /\ Tail(calls) \in Seq(Call) /\ Head(calls) \in Call
        /\ DOMAIN Tail(calls) = 1..(Len(calls) - 1)
        /\ \A i \in 1..(Len(calls) - 1) : Tail(calls)[i] = calls[i + 1] /\ i + 1 \in 1..Len(calls) /\ i \in Nat
        /\ \A i \in 1..Len(calls) : i # 1 => i - 1 \in 1..(Len(calls) - 1) /\ Tail(calls)[i - 1] = calls[i]
    BY DEF TypeOK
  <2>3. DOMAIN Begun = {1} /\ Begun[1] = calls[1] /\ 1 \in DOMAIN calls
    BY <2>1, <2>2
  <2>4. BatchIds(Begun) = {calls[1].id} /\ CallItems(Begun) = {CallItem(calls[1])}
    BY <2>3 DEF BatchIds, CallItems
  <2>5. /\ \A id : id \in BatchIds(calls) <=> id = calls[1].id \/ id \in BatchIds(Remaining)
        /\ \A x : x \in CallItems(calls) <=> x = CallItem(calls[1]) \/ x \in CallItems(Remaining)
    <3>1. \A i \in DOMAIN calls : i = 1 \/ \E j \in DOMAIN Remaining : Remaining[j] = calls[i]
      BY <2>1, <2>2
    <3>2. \A j \in DOMAIN Remaining : \E i \in DOMAIN calls : Remaining[j] = calls[i]
      BY <2>1, <2>2
    <3> QED
      BY <2>3, <3>1, <3>2 DEF BatchIds, CallItems
  <2>6. calls[1].id \notin BatchIds(Remaining)
    BY <2>1, <2>2 DEF BatchIds
  <2>7. Len(calls) = 1 => Begun = calls /\ Remaining = <<>>
    BY <2>1, <2>2
  <2>8. \A i, j \in DOMAIN Remaining : Remaining[i].id = Remaining[j].id => i = j
    BY <2>1, <2>2
  <2>9. \A i \in DOMAIN Remaining : \E j \in DOMAIN calls : Remaining[i] = calls[j]
    BY <2>1, <2>2
  <2>10. Begun \in Seq(Call) /\ Remaining \in Seq(Call)
    BY <2>1, <2>2
  <2> QED
    BY <2>3, <2>4, <2>5, <2>6, <2>7, <2>8, <2>9, <2>10
<1> QED
  BY <1>1, <1>2

-----------------------------------------------------------------------------
(* Where the items of a run are, action by action.                          *)

\* What the provider holds behind a state it knows.
LEMMA StoredIn ==
  ASSUME TypeOK, Numbered, NEW s \in ProviderState, ValidState(s),
         s.previous <= Len(responses)
  PROVE  /\ Known(Stored(s)) /\ Instructional(Stored(s)) = {} /\ Stored(s) \subseteq Item
         /\ ~HasRemoteState(s) => Stored(s) = {}
<1>1. CASE ResolvedMode(s) = "conversation"
  <2>1. s.conversation \in Conversations
    BY <1>1 DEF ValidState, ProviderState
  <2> QED
    BY <1>1, <2>1 DEF Stored, Numbered, TypeOK, HasRemoteState
<1>2. CASE ResolvedMode(s) = "response_chain" /\ s.previous # 0
  <2>1. s.previous \in DOMAIN responses
    BY <1>2 DEF ProviderState, TypeOK
  <2> QED
    BY <1>2, <2>1 DEF Stored, Numbered, TypeOK, HasRemoteState
<1>3. CASE ResolvedMode(s) # "conversation" /\ ~(ResolvedMode(s) = "response_chain" /\ s.previous # 0)
  BY <1>3 DEF Stored, Known, Instructional
<1> QED
  BY <1>1, <1>2, <1>3

\* What is behind the run's own state, in any state but a failed one.
LEMMA HeldIn ==
  ASSUME Inv, Numbered, phase # "failed"
  PROVE  /\ Known(Held) /\ Instructional(Held) = {} /\ Held \subseteq Item
         /\ ~HasRemoteState(providerState) => Held = {}
BY StoredIn DEF Inv, StatesKnown, TypeOK, Held

\* A step that leaves the provider alone leaves what it holds.
LEMMA HeldSame ==
  ASSUME UNCHANGED <<responses, conversations>>
  PROVE  Held' = Stored(providerState')
BY DEF Held, Stored

\* The first messages of a run, put together.
LEMMA Flattened ==
  ASSUME NEW a, NEW b, NEW c, NEW d
  PROVE  /\ <<a>> \o <<>> \o <<d>> = <<a, d>>
         /\ <<a>> \o <<b, c>> \o <<d>> = <<a, b, c, d>>
<1> DEFINE S == {a, b, c, d}
<1>1. <<a>> \in Seq(S) /\ <<d>> \in Seq(S) /\ <<b, c>> \in Seq(S) /\ <<>> \in Seq(S)
  OBVIOUS
<1>2. <<a>> \o <<>> = <<a>>
  BY <1>1, ConcatEmptySeq
<1>3. <<a>> \o <<d>> = <<a, d>>
  <2> DEFINE u == <<a>> \o <<d>>
             v == <<a, d>>
  <2>1. u \in Seq(S) /\ Len(u) = 2 /\ u[1] = a /\ u[2] = d
    BY <1>1, ConcatProperties
  <2>2. v \in Seq(S) /\ Len(v) = 2 /\ v[1] = a /\ v[2] = d
    OBVIOUS
  <2> HIDE DEF u, v, S
  <2>3. Len(u) = Len(v) /\ \A i \in 1..Len(u) : u[i] = v[i]
    BY <2>1, <2>2
  <2>4. u = v
    BY <2>1, <2>2, <2>3, SeqEqual, Zenon
  <2> QED
    BY <2>4 DEF u, v
<1>4. <<a>> \o <<b, c>> = <<a, b, c>>
  <2> DEFINE u == <<a>> \o <<b, c>>
             v == <<a, b, c>>
  <2>1. u \in Seq(S) /\ Len(u) = 3 /\ u[1] = a /\ u[2] = b /\ u[3] = c
    BY <1>1, ConcatProperties
  <2>2. v \in Seq(S) /\ Len(v) = 3 /\ v[1] = a /\ v[2] = b /\ v[3] = c
    OBVIOUS
  <2> HIDE DEF u, v, S
  <2>3. Len(u) = Len(v) /\ \A i \in 1..Len(u) : u[i] = v[i]
    BY <2>1, <2>2
  <2>4. u = v
    BY <2>1, <2>2, <2>3, SeqEqual, Zenon
  <2> QED
    BY <2>4 DEF u, v
<1>5. <<a, b, c>> \o <<d>> = <<a, b, c, d>>
  <2> DEFINE u == <<a, b, c>> \o <<d>>
             v == <<a, b, c, d>>
  <2>1. u \in Seq(S) /\ Len(u) = 4 /\ u[1] = a /\ u[2] = b /\ u[3] = c /\ u[4] = d
    BY <1>1, ConcatProperties
  <2>2. v \in Seq(S) /\ Len(v) = 4 /\ v[1] = a /\ v[2] = b /\ v[3] = c /\ v[4] = d
    OBVIOUS
  <2> HIDE DEF u, v, S
  <2>3. Len(u) = Len(v) /\ \A i \in 1..Len(u) : u[i] = v[i]
    BY <2>1, <2>2
  <2>4. u = v
    BY <2>1, <2>2, <2>3, SeqEqual, Zenon
  <2> QED
    BY <2>4 DEF u, v
<1> QED
  BY <1>2, <1>3, <1>4, <1>5

\* The run starts with every item in its place, fresh or resumed.
LEMMA InitContext == Init => ContextInv
<1> SUFFICES ASSUME Init PROVE ContextInv
  OBVIOUS
<1>1. PICK s \in StartStates, history \in {<<>>, Resumed} : StartWith(s, history)
  BY DEF Init
<1> DEFINE remote == HasRemoteState(s)
           instr == ItemOf("instructions", 0)
           in0 == ItemOf("input", 0)
           call0 == ItemOf("call", 0)
           out0 == ItemOf("output", 0)
<1>2. /\ providerState = s /\ pending = Local
      /\ responses = <<ItemsOf(history)>>
      /\ conversations = [c \in Conversations |-> ItemsOf(history)]
      /\ phase = IF ValidState(s) THEN "request" ELSE "failed"
      /\ s.mode = "response_chain" /\ s.previous = 0 => history = <<>>
  BY <1>1 DEF StartWith, Local
<1>3. /\ history = <<>> => messages = <<instr, in0>>
      /\ history = Resumed /\ remote => messages = <<instr, out0>>
      /\ history = Resumed /\ ~remote => messages = <<instr, in0, call0, out0>>
  <2>1. /\ history = <<>> => messages = <<instr>> \o <<>> \o <<in0>>
        /\ history = Resumed /\ remote => messages = <<instr>> \o <<>> \o <<out0>>
        /\ history = Resumed /\ ~remote => messages = <<instr>> \o <<in0, call0>> \o <<out0>>
    BY <1>1, <<ItemOf("input", 0), ItemOf("call", 0)>> # <<>> DEF StartWith, Resumed
  <2> HIDE DEF instr, in0, call0, out0, remote
  <2>2. /\ <<instr>> \o <<>> \o <<in0>> = <<instr, in0>>
        /\ <<instr>> \o <<>> \o <<out0>> = <<instr, out0>>
        /\ <<instr>> \o <<in0, call0>> \o <<out0>> = <<instr, in0, call0, out0>>
    BY Flattened
  <2> QED
    BY <2>1, <2>2
<1>4. /\ history = <<>> => ItemsOf(history) = {} /\ Local = {instr, in0}
      /\ history = Resumed => ItemsOf(history) = {in0, call0}
      /\ history = Resumed /\ remote => Local = {instr, out0}
      /\ history = Resumed /\ ~remote => Local = {instr, in0, call0, out0}
  BY <1>3 DEF Local, ItemsOf, Resumed
<1>5. /\ instr.kind = "instructions" /\ in0.kind = "input" /\ call0.kind = "call" /\ out0.kind = "output"
      /\ instr.id = 0 /\ in0.id = 0 /\ call0.id = 0 /\ out0.id = 0
  BY DEF ItemOf
<1>6. /\ instr # in0 /\ instr # call0 /\ instr # out0
      /\ in0 # call0 /\ in0 # out0 /\ call0 # out0
  BY <1>5
<1> HIDE DEF instr, in0, call0, out0, remote
<1>7. history = <<>> \/ history = Resumed
  OBVIOUS
<1>8. /\ reply.calls = <<>> /\ calls = <<>> /\ lostReplies = 0 /\ phase \in {"request", "failed"}
      /\ BatchIds(calls) = {} /\ BatchIds(reply.calls) = {}
  BY <1>2 DEF Init, NoReply, BatchIds
<1>9. Top >= 0
  <2>1. Top = Len(responses) * MaxBatch /\ Len(responses) = 1 /\ MaxBatch \in Nat
    BY <1>2 DEF Top
  <2> QED
    BY <2>1
<1>10. Numbered
  BY <1>2, <1>4, <1>5, <1>7, <1>8, <1>9 DEF Numbered, Known, Instructional
<1>11. Distinct
  <2>1. CASE history = <<>> \/ (history = Resumed /\ remote)
    BY <1>3, <1>6, <2>1 DEF Distinct
  <2>2. CASE history = Resumed /\ ~remote
    BY <1>3, <1>6, <2>2 DEF Distinct
  <2> QED
    BY <1>7, <2>1, <2>2
<1>12. /\ history = <<>> => CallIds(Local) = {} /\ OutputIds(Local) = {}
       /\ history = Resumed => OutputIds(Local) = {0} /\ CallIds(Local) = IF remote THEN {} ELSE {0}
  <2>1. history = <<>> => CallIds(Local) = {} /\ OutputIds(Local) = {}
    BY <1>4, <1>5 DEF CallIds, OutputIds
  <2>2. history = Resumed /\ remote => OutputIds(Local) = {0} /\ CallIds(Local) = {}
    BY <1>4, <1>5 DEF CallIds, OutputIds
  <2>3. history = Resumed /\ ~remote => OutputIds(Local) = {0} /\ CallIds(Local) = {0}
    BY <1>4, <1>5 DEF CallIds, OutputIds
  <2> QED
    BY <2>1, <2>2, <2>3
<1>13. LocalCalls
  BY <1>2, <1>7, <1>8, <1>12 DEF LocalCalls, remote
<1>14. ValidState(s) /\ remote => Held = ItemsOf(history)
  <2>1. s.conversation \in Conversations \cup {NoConversation} /\ s.previous \in {0, 1}
    BY DEF StartStates
  <2> QED
    BY <1>2, <1>4, <1>7, <2>1 DEF Held, Stored, HasRemoteState, remote, ResolvedMode, ValidState
<1>15. Synced
  <2> SUFFICES ASSUME remote, phase = "request" PROVE Synced
    BY <1>2, <1>8 DEF Synced, remote
  <2>1. Held = ItemsOf(history) /\ OpenIds = {} /\ pending = Local
    BY <1>2, <1>14 DEF OpenIds
  <2>2. Held \cap pending = {}
    BY <1>4, <1>6, <1>7, <2>1
  <2>3. CallIds(Held \cup pending) = OutputIds(Held \cup pending)
    <3>1. CASE history = <<>>
      <4>1. Held \cup pending = Local
        BY <1>4, <2>1, <3>1
      <4> QED
        BY <1>12, <3>1, <4>1
    <3>2. CASE history = Resumed
      <4>1. CallIds(Held) = {0} /\ OutputIds(Held) = {}
        BY <1>4, <1>5, <2>1, <3>2 DEF CallIds, OutputIds
      <4>2. CallIds(pending) = {} /\ OutputIds(pending) = {0}
        BY <1>12, <2>1, <3>2
      <4>3. /\ CallIds(Held \cup pending) = CallIds(Held) \cup CallIds(pending)
            /\ OutputIds(Held \cup pending) = OutputIds(Held) \cup OutputIds(pending)
        BY SetParts
      <4> QED
        BY <4>1, <4>2, <4>3
    <3> QED
      BY <1>7, <3>1, <3>2
  <2>4. Spoken(Local) \subseteq Held \cup pending
    BY <2>1 DEF Spoken
  <2> QED
    BY <2>1, <2>2, <2>3, <2>4 DEF Synced
<1>16. CleanConversations
  BY <1>2, <1>4, <1>7, <1>8, <1>14 DEF CleanConversations, remote
<1> QED
  BY <1>8, <1>10, <1>11, <1>13, <1>15, <1>16 DEF ContextInv, DueCalls, CheckpointTaken, Requested, ReplyHeld

\* What a step that touches neither the run's own items nor the provider leaves.
LEMMA NothingMoved ==
  ASSUME UNCHANGED <<parallel, messages, pending, providerState, calls, responses, conversations>>
  PROVE  /\ Held' = Held /\ Local' = Local /\ Top' = Top
         /\ Begun' = Begun /\ Remaining' = Remaining /\ RequestItems' = RequestItems
<1>1. Held' = Held
  BY HeldSame DEF Held
<1> QED
  BY <1>1 DEF Local, Top, Begun, Remaining, RequestItems

\* A request that is built carries the run's items to the model.
LEMMA NextRequestKeeps == Inv /\ ContextInv /\ NextRequest /\ UNCHANGED parallel => ContextInv'
<1> SUFFICES ASSUME Inv, ContextInv, NextRequest, UNCHANGED parallel PROVE ContextInv'
  OBVIOUS
<1>1. /\ phase = "request" /\ phase' = "model" /\ request' = RequestItems
      /\ UNCHANGED <<messages, pending, providerState, calls, responses, conversations, reply,
                     retryCount, lostReplies, checkpoint>>
  BY DEF NextRequest, localVars, providerVars
<1>2. /\ Held' = Held /\ Local' = Local /\ Top' = Top
      /\ Begun' = Begun /\ Remaining' = Remaining /\ RequestItems' = RequestItems
  BY <1>1, NothingMoved
<1>3. Numbered' /\ Distinct'
  BY <1>1, <1>2 DEF ContextInv, Numbered, Known, Distinct
<1>4. LocalCalls' /\ DueCalls' /\ CheckpointTaken' /\ Requested' /\ ReplyHeld'
  BY <1>1, <1>2 DEF ContextInv, LocalCalls, DueCalls, CheckpointTaken, Requested, ReplyHeld
<1>5. Synced'
  BY <1>1, <1>2 DEF ContextInv, Synced, Unsure, OpenIds
<1>6. CleanConversations'
  BY <1>1, <1>2 DEF ContextInv, CleanConversations, Unadopted
<1> QED
  BY <1>3, <1>4, <1>5, <1>6 DEF ContextInv

\* A reply that gets lost leaves a conversation in doubt and nothing else.
LEMMA ReplyLostKeeps == Inv /\ ContextInv /\ ReplyLost /\ UNCHANGED parallel => ContextInv'
<1> SUFFICES ASSUME Inv, ContextInv, ReplyLost, UNCHANGED parallel PROVE ContextInv'
  OBVIOUS
<1>1. /\ phase = "replied" /\ phase' = "model" /\ reply'.calls = <<>>
      /\ lostReplies \in Nat /\ lostReplies' > 0
      /\ UNCHANGED <<messages, pending, providerState, calls, responses, conversations, request,
                     retryCount, checkpoint>>
  BY DEF ReplyLost, localVars, providerVars, NoReply, Inv, TypeOK
<1>2. /\ Held' = Held /\ Local' = Local /\ Top' = Top
      /\ Begun' = Begun /\ Remaining' = Remaining /\ RequestItems' = RequestItems
  BY <1>1, NothingMoved
<1>3. BatchIds(reply'.calls) = {}
  BY <1>1 DEF BatchIds
<1>4. Numbered' /\ Distinct'
  BY <1>1, <1>2, <1>3 DEF ContextInv, Numbered, Known, Distinct
<1>5. LocalCalls' /\ DueCalls' /\ CheckpointTaken' /\ Requested' /\ ReplyHeld'
  BY <1>1, <1>2 DEF ContextInv, LocalCalls, DueCalls, CheckpointTaken, Requested, ReplyHeld
<1>6. Synced'
  BY <1>1, <1>2 DEF ContextInv, Synced, Unsure, OpenIds
<1>7. CleanConversations'
  BY <1>1 DEF CleanConversations
<1> QED
  BY <1>4, <1>5, <1>6, <1>7 DEF ContextInv

\* A run that waits for an approval keeps what it was about to execute.
LEMMA SuspendKeeps == Inv /\ ContextInv /\ Suspend /\ UNCHANGED parallel => ContextInv'
<1> SUFFICES ASSUME Inv, ContextInv, Suspend, UNCHANGED parallel PROVE ContextInv'
  OBVIOUS
<1>1. /\ phase = "executing" /\ phase' = "suspended"
      /\ UNCHANGED <<messages, pending, providerState, calls, responses, conversations, request,
                     reply, retryCount, checkpoint, lostReplies>>
  BY DEF Suspend, localVars, providerVars
<1>2. /\ Held' = Held /\ Local' = Local /\ Top' = Top
      /\ Begun' = Begun /\ Remaining' = Remaining /\ RequestItems' = RequestItems
  BY <1>1, NothingMoved
<1>3. Numbered' /\ Distinct'
  BY <1>1, <1>2 DEF ContextInv, Numbered, Known, Distinct
<1>4. DueCalls'
  <2>1. Protected(calls)
    <3>1. calls # <<>> /\ TypeOK /\ \A i, j \in DOMAIN calls : calls[i].id = calls[j].id => i = j
      BY <1>1 DEF Inv, ToolsDue, ContextInv, DueCalls
    <3>2. \A i \in DOMAIN Begun : \E j \in DOMAIN calls : Begun[i] = calls[j]
      BY <3>1, BegunParts
    <3> QED
      BY <3>2 DEF Suspend, Protected
  <2> QED
    BY <1>1, <1>2, <2>1 DEF ContextInv, DueCalls, Protected
<1>5. LocalCalls' /\ CheckpointTaken' /\ Requested' /\ ReplyHeld'
  BY <1>1, <1>2 DEF ContextInv, LocalCalls, CheckpointTaken, Requested, ReplyHeld
<1>6. Synced'
  BY <1>1, <1>2 DEF ContextInv, Synced, Unsure, OpenIds
<1>7. CleanConversations'
  BY <1>1, <1>2 DEF ContextInv, CleanConversations, Unadopted
<1> QED
  BY <1>3, <1>4, <1>5, <1>6, <1>7 DEF ContextInv

\* A failed run keeps its items, and nobody relies on the provider any more.
LEMMA FailKeeps == Inv /\ ContextInv /\ Fail /\ UNCHANGED parallel => ContextInv'
<1> SUFFICES ASSUME Inv, ContextInv, Fail, UNCHANGED parallel PROVE ContextInv'
  OBVIOUS
<1>1. /\ phase' = "failed" /\ reply'.calls = <<>>
      /\ UNCHANGED <<messages, pending, providerState, calls, responses, conversations,
                     retryCount, checkpoint, lostReplies>>
  BY DEF Fail, NothingInFlight, localVars, providerVars, NoReply
<1>2. /\ Held' = Held /\ Local' = Local /\ Top' = Top
      /\ Begun' = Begun /\ Remaining' = Remaining /\ RequestItems' = RequestItems
  BY <1>1, NothingMoved
<1>3. BatchIds(reply'.calls) = {}
  BY <1>1 DEF BatchIds
<1>4. Numbered' /\ Distinct'
  BY <1>1, <1>2, <1>3 DEF ContextInv, Numbered, Known, Distinct
<1>5. LocalCalls' /\ DueCalls' /\ CheckpointTaken' /\ Requested' /\ ReplyHeld' /\ Synced'
  BY <1>1, <1>2 DEF ContextInv, LocalCalls, DueCalls, CheckpointTaken, Requested, ReplyHeld, Synced
<1>6. CleanConversations'
  BY <1>1 DEF CleanConversations
<1> QED
  BY <1>4, <1>5, <1>6 DEF ContextInv

\* Nothing changes where nothing happens.
LEMMA StutterKeeps == ContextInv /\ UNCHANGED vars => ContextInv'
<1> SUFFICES ASSUME ContextInv, UNCHANGED vars PROVE ContextInv'
  OBVIOUS
<1>1. UNCHANGED <<parallel, phase, messages, pending, providerState, calls, responses,
                  conversations, request, reply, retryCount, checkpoint, lostReplies>>
  BY DEF vars, localVars, providerVars
<1>2. /\ Held' = Held /\ Local' = Local /\ Top' = Top
      /\ Begun' = Begun /\ Remaining' = Remaining /\ RequestItems' = RequestItems
  BY <1>1, NothingMoved
<1>3. Numbered' /\ Distinct' /\ LocalCalls' /\ DueCalls' /\ CheckpointTaken' /\ Requested'
  BY <1>1, <1>2 DEF ContextInv, Numbered, Distinct, LocalCalls, DueCalls, CheckpointTaken,
     Requested, Known
<1>4. Synced' /\ CleanConversations'
  BY <1>1, <1>2 DEF ContextInv, Synced, Unsure, OpenIds, CleanConversations, Unadopted
<1>5. ReplyHeld'
  <2>1. StateRejected' = StateRejected /\ NextState' = NextState /\ Stored(NextState)' = Stored(NextState)
    BY <1>1 DEF StateRejected, NextState, Stored
  <2> QED
    BY <1>1, <1>2, <2>1 DEF ContextInv, ReplyHeld, Produced
<1> QED
  BY <1>3, <1>4, <1>5 DEF ContextInv

\* A response gets numbers nobody had before.
LEMMA BatchNumbers ==
  ASSUME TypeOK, NEW names \in NameLists, NEW repeatsId \in BOOLEAN
  PROVE  /\ \A id \in BatchIds(Batch(names, repeatsId)) :
              id \in Nat /\ Top < id /\ id <= Top + MaxBatch
         /\ Top \in Nat
<1>1. PICK n \in 0..MaxBatch : names \in [1..n -> Names]
  BY DEF NameLists
<1>2. Top \in Nat
  <2>1. Len(responses) \in Nat /\ MaxBatch \in Nat
    BY DEF TypeOK
  <2> QED
    BY <2>1 DEF Top
<1>3. \A i \in 1..n : CallId(i) = Top + i /\ CallId(1) = Top + 1
  BY DEF CallId, Top
<1> HIDE DEF Top
<1>4. \A i \in 1..n : /\ Top < CallId(i) /\ CallId(i) <= Top + MaxBatch /\ CallId(i) \in Nat
                      /\ Top < CallId(1) /\ CallId(1) <= Top + MaxBatch /\ CallId(1) \in Nat
  BY <1>1, <1>2, <1>3
<1> QED
  BY <1>1, <1>2, <1>4 DEF Batch, BatchIds

\* The next response's numbers start where this one's end.
LEMMA TopGrows ==
  ASSUME TypeOK, Len(responses') = Len(responses) + 1
  PROVE  Top' = Top + MaxBatch
<1>1. \A l, b \in Nat : (l + 1) * b = l * b + b
  OBVIOUS
<1> QED
  BY <1>1 DEF Top, TypeOK

\* What the model is shown and what it answers, as the provider stores it.
LEMMA AnswerStored ==
  ASSUME Inv, ContextInv, NEW names \in NameLists, NEW repeatsId \in BOOLEAN,
         NEW state \in ReplyStates, ProviderAnswers(Batch(names, repeatsId), state)
  PROVE  \E context \in SUBSET Item :
           /\ responses' = Append(responses, context)
           /\ conversations' = [c \in Conversations |->
                IF c \in {state.conversation, providerState.conversation}
                THEN conversations[c] \cup context ELSE conversations[c]]
           /\ context = Held \cup Spoken(request) \cup Produced'
           /\ Instructional(context) = {}
           /\ \A x \in context : x.kind \in {"call", "output"} => x.id <= Top + MaxBatch
           /\ Spoken(Local) \cup Held \subseteq context
           /\ OutputIds(context) \cap BatchIds(Batch(names, repeatsId)) = {}
           /\ ~(ResolvedMode(providerState) = "conversation" /\ lostReplies > 0) =>
                CallIds(context) = OutputIds(context) \cup BatchIds(Batch(names, repeatsId))
<1> DEFINE batch == Batch(names, repeatsId)
           context == Held \cup Spoken(request) \cup Produced'
<1>1. /\ phase = "model" /\ reply'.calls = batch /\ UNCHANGED <<retryCount, providerState>>
      /\ responses' = Append(responses, context)
      /\ conversations' = [c \in Conversations |->
           IF c \in {state.conversation, providerState.conversation}
           THEN conversations[c] \cup context ELSE conversations[c]]
  BY DEF ProviderAnswers, Produced, CallItems, Held, Spoken, localVars
<1>2. batch \in Seq(Call) /\ Top \in Nat
      /\ \A id \in BatchIds(batch) : id \in Nat /\ Top < id /\ id <= Top + MaxBatch
  BY BatchType, BatchNumbers DEF Inv
<1>3. /\ Produced' \subseteq Item /\ Instructional(Produced') = {} /\ OutputIds(Produced') = {}
      /\ CallIds(Produced') = BatchIds(batch)
  <2>1. CASE batch = <<>>
    <3>1. Produced' = {ItemOf("candidate", retryCount)} /\ BatchIds(batch) = {}
      BY <1>1, <2>1 DEF Produced, BatchIds
    <3>2. ItemOf("candidate", retryCount) \in Item /\ ItemOf("candidate", retryCount).kind = "candidate"
      BY ItemTypes DEF Inv, TypeOK, Kinds, ItemOf
    <3> QED
      BY <3>1, <3>2 DEF Instructional, OutputIds, CallIds
  <2>2. CASE batch # <<>>
    <3>1. Produced' = CallItems(batch)
      BY <1>1, <2>2 DEF Produced
    <3> QED
      BY <1>2, <3>1, BatchParts
  <2> QED
    BY <2>1, <2>2
<1>4. Known(Held) /\ Instructional(Held) = {} /\ Held \subseteq Item
      /\ (~HasRemoteState(providerState) => Held = {})
  BY <1>1, HeldIn DEF ContextInv
<1> DEFINE carried == IF HasRemoteState(providerState) THEN pending ELSE Local
<1>5. Spoken(request) = Spoken(carried) /\ Known(carried) /\ carried \subseteq Item
  <2>1. request = RequestItems
    BY <1>1 DEF ContextInv, Requested
  <2>2. Spoken(request) = Spoken(carried)
    BY <2>1 DEF RequestItems, Spoken, Instructional, Local
  <2>3. pending \subseteq Item /\ Local \subseteq Item
    BY ItemsOfType DEF Inv, TypeOK, Local
  <2> QED
    BY <2>2, <2>3 DEF ContextInv, Numbered
<1>6. context \subseteq Item
  BY <1>3, <1>4, <1>5, SetParts
<1>7. Instructional(context) = {}
  <2>1. Instructional(Spoken(request)) = {}
    BY SetParts
  <2> QED
    BY <1>3, <1>4, <2>1 DEF Instructional
<1>8. Spoken(Local) \cup Held \subseteq context
  <2>1. HasRemoteState(providerState) => Spoken(Local) \subseteq Held \cup Spoken(carried)
    BY <1>1 DEF ContextInv, Synced, Spoken, Instructional
  <2> QED
    BY <1>5, <2>1
<1>9. CallIds(carried) = CallIds(Spoken(request)) /\ OutputIds(carried) = OutputIds(Spoken(request))
  BY <1>5, SpokenIds
<1>10. /\ CallIds(context) = CallIds(Held \cup carried) \cup BatchIds(batch)
       /\ OutputIds(context) = OutputIds(Held \cup carried)
  <2>1. /\ CallIds(context) = CallIds(Held) \cup CallIds(Spoken(request)) \cup CallIds(Produced')
        /\ OutputIds(context) = OutputIds(Held) \cup OutputIds(Spoken(request)) \cup OutputIds(Produced')
    BY DEF CallIds, OutputIds
  <2>2. /\ CallIds(Held \cup carried) = CallIds(Held) \cup CallIds(carried)
        /\ OutputIds(Held \cup carried) = OutputIds(Held) \cup OutputIds(carried)
    BY UnionIds
  <2> HIDE DEF carried, context
  <2> QED
    BY <1>3, <1>9, <2>1, <2>2
<1> HIDE DEF carried
<1>11. \A x \in Held \cup Spoken(carried) : x.kind \in {"call", "output"} => x.id <= Top /\ x.id \in Nat
  BY <1>4, <1>5 DEF Known, Spoken, Item
<1>12. \A x \in Produced' : x.kind \in {"call", "output"} => x.id <= Top + MaxBatch
  BY <1>2, <1>3 DEF CallIds, OutputIds
<1>13. \A x \in context : x.kind \in {"call", "output"} => x.id <= Top + MaxBatch
  BY <1>2, <1>5, <1>11, <1>12
<1>14. OutputIds(context) \cap BatchIds(batch) = {}
  <2>1. \A id \in OutputIds(Held \cup Spoken(carried)) : id <= Top /\ id \in Nat
    BY <1>11 DEF OutputIds
  <2>2. OutputIds(Held \cup carried) = OutputIds(Held \cup Spoken(carried))
    BY DEF OutputIds, Spoken, Instructional
  <2> QED
    BY <1>2, <1>10, <2>1, <2>2
<1>15. ASSUME ~(ResolvedMode(providerState) = "conversation" /\ lostReplies > 0)
       PROVE  CallIds(Held \cup carried) = OutputIds(Held \cup carried)
  <2>1. CASE HasRemoteState(providerState)
    BY <1>1, <1>15, <2>1 DEF ContextInv, Synced, Unsure, OpenIds, carried
  <2>2. CASE ~HasRemoteState(providerState)
    <3>1. Held \cup carried = Local
      BY <1>4, <2>2 DEF carried
    <3> QED
      BY <1>1, <2>2, <3>1 DEF ContextInv, LocalCalls
  <2> QED
    BY <2>1, <2>2
<1> HIDE DEF context, batch
<1> QED
  BY <1>1, <1>6, <1>7, <1>8, <1>10, <1>13, <1>14, <1>15 DEF context, batch

\* The response leaves the run's own items alone, and whatever continuation it
\* names, what is behind it accounts for all of them.
LEMMA ProviderAnswersKeeps ==
  ASSUME Inv, ContextInv, UNCHANGED parallel,
         NEW names \in NameLists, NEW repeatsId \in BOOLEAN, NEW state \in ReplyStates,
         ProviderAnswers(Batch(names, repeatsId), state)
  PROVE  ContextInv'
<1> DEFINE batch == Batch(names, repeatsId)
<1>1. /\ phase = "model" /\ phase' = "replied" /\ reply'.calls = batch /\ reply'.state = state
      /\ UNCHANGED <<messages, pending, providerState, calls, request, retryCount, checkpoint,
                     lostReplies>>
  BY DEF ProviderAnswers, localVars
<1>2. PICK context \in SUBSET Item :
        /\ responses' = Append(responses, context)
        /\ conversations' = [c \in Conversations |->
             IF c \in {state.conversation, providerState.conversation}
             THEN conversations[c] \cup context ELSE conversations[c]]
        /\ context = Held \cup Spoken(request) \cup Produced'
        /\ Instructional(context) = {}
        /\ \A x \in context : x.kind \in {"call", "output"} => x.id <= Top + MaxBatch
        /\ Spoken(Local) \cup Held \subseteq context
        /\ OutputIds(context) \cap BatchIds(batch) = {}
        /\ ~(ResolvedMode(providerState) = "conversation" /\ lostReplies > 0) =>
             CallIds(context) = OutputIds(context) \cup BatchIds(batch)
  BY AnswerStored
<1>3. /\ Len(responses') = Len(responses) + 1 /\ Len(responses) \in Nat
      /\ \A r \in DOMAIN responses : r \in DOMAIN responses' /\ responses'[r] = responses[r]
      /\ \A r \in DOMAIN responses' : r \in DOMAIN responses \/ responses'[r] = context
      /\ responses'[Len(responses) + 1] = context
      /\ DOMAIN responses = 1..Len(responses)
  BY <1>2 DEF Inv, TypeOK
<1>4. /\ \A id \in BatchIds(batch) : id \in Nat /\ Top < id /\ id <= Top + MaxBatch
      /\ Top \in Nat /\ MaxBatch \in Nat /\ Top' = Top + MaxBatch
  BY <1>3, BatchNumbers, TopGrows DEF Inv
<1>5. Local' = Local /\ Begun' = Begun /\ Remaining' = Remaining /\ RequestItems' = RequestItems
  BY <1>1 DEF Local, Begun, Remaining, RequestItems
<1>6. /\ Local \subseteq Item /\ pending \subseteq Item
      /\ \A r \in DOMAIN responses : responses[r] \subseteq Item
      /\ \A c \in Conversations : conversations[c] \subseteq Item
      /\ BatchIds(calls) \subseteq Nat
  <2>1. \A r \in DOMAIN responses : responses[r] \subseteq Item
    BY MembersType DEF Inv, TypeOK
  <2>2. messages \in Seq(Item) /\ calls \in Seq(Call) /\ pending \subseteq Item
        /\ conversations \in [Conversations -> SUBSET Item]
    BY DEF Inv, TypeOK
  <2>3. BatchIds(calls) \subseteq Nat
    BY <2>2, BatchParts
  <2>4. Local \subseteq Item
    BY <2>2, ItemsOfType DEF Local
  <2> QED
    BY <2>1, <2>2, <2>3, <2>4
<1> HIDE DEF batch
<1>7. Numbered'
  <2>0. /\ Known(Local) /\ Known(pending)
        /\ \A r \in DOMAIN responses : Known(responses[r]) /\ Instructional(responses[r]) = {}
        /\ \A c \in Conversations : Known(conversations[c]) /\ Instructional(conversations[c]) = {}
        /\ \A x \in Local : x.kind \in {"candidate", "correction"} => x.id < retryCount
        /\ \A id \in BatchIds(calls) : id <= Top
    BY DEF ContextInv, Numbered
  <2>1. ASSUME NEW A \in SUBSET Item, Known(A)
        PROVE  \A x \in A : x.kind \in {"call", "output"} => x.id <= Top + MaxBatch
    BY <1>4, <2>1 DEF Known, Item
  <2>2. Known(Local)' /\ Known(pending)'
    <3>1. \A x \in Local \cup pending : x.kind \in {"call", "output"} => x.id <= Top'
      BY <1>4, <1>6, <2>0, <2>1
    <3> QED
      BY <1>1, <1>5, <3>1 DEF Known
  <2>3. (\A r \in DOMAIN responses : Known(responses[r]) /\ Instructional(responses[r]) = {})'
    <3>1. \A r \in DOMAIN responses : \A x \in responses[r] :
            x.kind \in {"call", "output"} => x.id <= Top'
      BY <1>4, <1>6, <2>0, <2>1
    <3>2. \A x \in context : x.kind \in {"call", "output"} => x.id <= Top'
      BY <1>2, <1>4
    <3> QED
      BY <1>2, <1>3, <2>0, <3>1, <3>2 DEF Known
  <2>4. (\A c \in Conversations : Known(conversations[c]) /\ Instructional(conversations[c]) = {})'
    <3>1. ASSUME NEW c \in Conversations
          PROVE  conversations'[c] \in {conversations[c], conversations[c] \cup context}
      BY <1>2
    <3>2. \A c \in Conversations :
            /\ Instructional(conversations[c]) = {}
            /\ Instructional(conversations[c] \cup context) = {}
            /\ \A x \in conversations[c] \cup context :
                 x.kind \in {"call", "output"} => x.id <= Top + MaxBatch
      <4>1. \A c \in Conversations : \A x \in conversations[c] :
              x.kind \in {"call", "output"} => x.id <= Top + MaxBatch
        BY <1>6, <2>0, <2>1
      <4> QED
        BY <1>2, <2>0, <4>1 DEF Instructional
    <3> QED
      BY <1>4, <3>1, <3>2 DEF Known
  <2>5. \A x \in Local' : x.kind \in {"candidate", "correction"} => x.id < retryCount'
    BY <1>1, <1>5, <2>0
  <2>6. \A id \in BatchIds(calls') \cup BatchIds(reply'.calls) : id <= Top'
    <3>1. \A id \in BatchIds(calls) : id <= Top /\ id \in Nat
      BY <1>6, <2>0
    <3> QED
      BY <1>1, <1>4, <3>1
  <2> QED
    BY <2>2, <2>3, <2>4, <2>5, <2>6 DEF Numbered
<1>8. Distinct' /\ LocalCalls' /\ DueCalls' /\ CheckpointTaken' /\ Requested'
  BY <1>1, <1>5 DEF ContextInv, Distinct, LocalCalls, DueCalls, CheckpointTaken, Requested
<1>9. ValidState(providerState) /\ providerState \in ProviderState
      /\ providerState.previous <= Len(responses) /\ providerState.previous \in Nat
  BY <1>1 DEF Inv, StatesKnown, TypeOK, ProviderState
<1>10. /\ ResolvedMode(providerState) # "conversation" => Held' = Held
       /\ ResolvedMode(providerState) = "conversation" => Held' = Held \cup context
  <2>1. ResolvedMode(providerState) = "response_chain" /\ providerState.previous # 0 =>
          responses'[providerState.previous] = responses[providerState.previous]
    BY <1>3, <1>9
  <2>2. ResolvedMode(providerState) = "conversation" =>
          /\ providerState.conversation \in Conversations
          /\ conversations'[providerState.conversation]
               = conversations[providerState.conversation] \cup context
    BY <1>2, <1>9 DEF ValidState, ProviderState
  <2> QED
    BY <1>1, <2>1, <2>2 DEF Held, Stored
<1>11. Synced'
  <2>1. Held \subseteq Held'
    BY <1>10
  <2>2. OpenIds' = {} /\ OpenIds = {}
    BY <1>1 DEF OpenIds
  <2>3. ~Unsure' => ~Unsure /\ Held' = Held
    BY <1>1, <1>10 DEF Unsure
  <2> QED
    BY <1>1, <1>5, <2>1, <2>2, <2>3 DEF ContextInv, Synced
<1>12. CleanConversations'
  <2> SUFFICES ASSUME lostReplies = 0, providerState.mode # "stateless",
                      ResolvedMode(providerState) # "conversation",
                      NEW c \in Conversations, c # state.conversation
               PROVE  conversations'[c] \subseteq
                        (IF HasRemoteState(providerState) THEN Held ELSE Local)
    BY <1>1, <1>5, <1>10 DEF CleanConversations, Unadopted
  <2>1. providerState.conversation = NoConversation
    BY <1>9 DEF ResolvedMode, ValidState, ProviderState, Modes
  <2>2. conversations'[c] = conversations[c]
    BY <1>2, <2>1
  <2>3. conversations[c] \subseteq (IF HasRemoteState(providerState) THEN Held ELSE Local)
    BY <1>1 DEF ContextInv, CleanConversations, Unadopted
  <2> QED
    BY <2>2, <2>3
<1>13. ReplyHeld'
  <2>1. BatchIds(batch) \cap (CallIds(Local) \cup OutputIds(Local)) = {}
    <3>1. \A id \in CallIds(Local) \cup OutputIds(Local) : id \in Nat /\ id <= Top
      BY <1>6 DEF ContextInv, Numbered, Known, CallIds, OutputIds, Item
    <3> QED
      BY <1>4, <3>1
  <2> DEFINE next == NextState'
             held == Stored(NextState)'
  <2>2. ASSUME ~StateRejected', HasRemoteState(next)
        PROVE  /\ context \subseteq held
               /\ \A x \in held \ context : x.kind \in {"call", "output"} => x.id <= Top
               /\ lostReplies = 0 \/ ResolvedMode(next) # "conversation" => held = context
               /\ Held' \subseteq held
               /\ ResolvedMode(providerState) = "conversation" => ResolvedMode(next) = "conversation"
    <3>1. CASE ResolvedMode(providerState) = "conversation"
      <4>1. next = providerState /\ held = Held' /\ Held' = Held \cup context
        BY <1>1, <1>10, <3>1 DEF NextState, Held, Stored
      <4> QED
        BY <1>2, <3>1, <4>1
    <3>2. CASE ResolvedMode(providerState) # "conversation"
      <4>1. state # NoState
        BY <1>1, <2>2, <3>2 DEF StateRejected, NextState, HasRemoteState
      <4>2. next = state /\ providerState.mode # "stateless"
        BY <1>1, <2>2, <3>2, <4>1 DEF NextState, HasRemoteState, ResolvedMode
      <4>3. CASE ResolvedMode(state) = "response_chain"
        <5>1. held = context /\ ResolvedMode(next) = "response_chain"
          BY <1>3, <4>1, <4>2, <4>3, ConstantsAssumption DEF ReplyStates, Stored, ResolvedMode
        <5> QED
          BY <1>2, <1>10, <3>2, <5>1
      <4>4. CASE ResolvedMode(state) # "response_chain"
        <5>1. /\ state.conversation \in Conversations /\ ResolvedMode(next) = "conversation"
              /\ state.conversation # NoConversation
          BY <4>1, <4>2, <4>4, ConstantsAssumption DEF ReplyStates, ResolvedMode
        <5>2. held = conversations[state.conversation] \cup context
          BY <1>2, <4>2, <5>1 DEF Stored
        <5>3. \A x \in conversations[state.conversation] :
                x.kind \in {"call", "output"} => x.id <= Top
          BY <5>1 DEF ContextInv, Numbered, Known
        <5>4. providerState.mode # "stateless"
          BY <4>2
        <5>5. lostReplies = 0 => conversations[state.conversation] \subseteq context
          <6>1. lostReplies = 0 => conversations[state.conversation] \subseteq
                  (IF HasRemoteState(providerState) THEN Held ELSE Local)
            BY <1>1, <3>2, <5>1, <5>4 DEF ContextInv, CleanConversations, Unadopted
          <6>2. Instructional(conversations[state.conversation]) = {}
            BY <5>1 DEF ContextInv, Numbered
          <6> QED
            BY <1>2, <6>1, <6>2 DEF Spoken, Instructional
        <5> QED
          BY <1>2, <1>10, <3>2, <5>1, <5>2, <5>3, <5>5
      <4> QED
        BY <4>3, <4>4
    <3> QED
      BY <3>1, <3>2
  <2>3. ASSUME ~StateRejected', HasRemoteState(next)
        PROVE  /\ Spoken(Local) \cup Produced' \cup Held' \subseteq held
               /\ OutputIds(held) \cap BatchIds(batch) = {}
               /\ lostReplies = 0 \/ ResolvedMode(next) # "conversation" =>
                    CallIds(held) = OutputIds(held) \cup BatchIds(batch)
    <3>1. OutputIds(held) \cap BatchIds(batch) = {}
      <4>1. \A id \in OutputIds(held) : id \in OutputIds(context) \/ id <= Top
        BY <2>2, <2>3 DEF OutputIds
      <4>2. \A id \in BatchIds(batch) : ~(id <= Top)
        BY <1>4
      <4> QED
        BY <1>2, <4>1, <4>2
    <3> HIDE DEF held, next
    <3>2. Spoken(Local) \cup Produced' \cup Held' \subseteq held
      BY <1>2, <2>2, <2>3
    <3>3. lostReplies = 0 \/ ResolvedMode(next) # "conversation" =>
            CallIds(held) = OutputIds(held) \cup BatchIds(batch)
      <4>1. lostReplies \in Nat
        BY DEF Inv, TypeOK
      <4>2. ASSUME lostReplies = 0 \/ ResolvedMode(next) # "conversation"
            PROVE  CallIds(held) = OutputIds(held) \cup BatchIds(batch)
        <5>1. held = context
          BY <2>2, <2>3, <4>2
        <5>2. ~(ResolvedMode(providerState) = "conversation" /\ lostReplies > 0)
          BY <2>2, <2>3, <4>1, <4>2
        <5> QED
          BY <1>2, <5>1, <5>2
      <4> QED
        BY <4>2
    <3> QED
      BY <3>1, <3>2, <3>3
  <2> HIDE DEF held, next
  <2>4. /\ Local' = Local /\ reply'.calls = batch /\ lostReplies' = lostReplies
    BY <1>1, <1>5
  <2> QED
    BY <2>1, <2>3, <2>4 DEF ReplyHeld, held, next
<1> QED
  BY <1>7, <1>8, <1>11, <1>12, <1>13 DEF ContextInv

\* What a run knows once it has taken a reply, whatever comes of it.
Taken ==
  /\ phase = "replied" /\ providerState' = NextState
  /\ UNCHANGED <<responses, conversations, lostReplies>>
  /\ Top' = Top /\ BatchIds(reply.calls) \subseteq Nat /\ BatchIds(reply'.calls) = {}
  /\ reply.calls \in Seq(Call)
  /\ HasRemoteState(providerState) => HasRemoteState(providerState')
  /\ Instructional(Held') = {}
  /\ HasRemoteState(providerState') =>
       /\ Spoken(Local) \cup Produced \subseteq Held'
       /\ OutputIds(Held') \cap BatchIds(reply.calls) = {}
       /\ lostReplies = 0 \/ ResolvedMode(providerState') # "conversation" =>
            CallIds(Held') = OutputIds(Held') \cup BatchIds(reply.calls)
  /\ lostReplies = 0 /\ providerState'.mode # "stateless"
       /\ ResolvedMode(providerState') # "conversation" =>
       \A c \in Conversations :
         conversations[c] \subseteq (IF HasRemoteState(providerState') THEN Held' ELSE Local)

\* Taking a reply gives that knowledge, in every strategy.
LEMMA TakenFacts ==
  ASSUME Inv, ContextInv, TakeReply
  PROVE  Taken
<1>1. /\ phase = "replied" /\ providerState' = NextState /\ ~StateRejected
      /\ UNCHANGED <<responses, conversations, lostReplies>> /\ reply' = NoReply
  BY DEF TakeReply, NothingInFlight, providerVars
<1>2. Held' = Stored(NextState)
  BY <1>1, HeldSame
<1>3. /\ NextState \in ProviderState /\ ValidState(NextState) /\ NextState.previous <= Len(responses)
      /\ ValidState(reply.state)
      /\ reply.state # NoState => HasRemoteState(reply.state)
  BY <1>1 DEF NextState, Inv, TypeOK, StatesKnown
<1>4. Instructional(Held') = {}
  BY <1>2, <1>3, StoredIn DEF Inv, ContextInv
<1>5. HasRemoteState(providerState) => HasRemoteState(providerState')
  BY <1>1, <1>3 DEF NextState, HasRemoteState, ResolvedMode
<1>6. ASSUME lostReplies = 0, providerState'.mode # "stateless",
             ResolvedMode(providerState') # "conversation", NEW c \in Conversations
      PROVE  conversations[c] \subseteq (IF HasRemoteState(providerState') THEN Held' ELSE Local)
  <2>1. Unadopted(c) => conversations[c] \subseteq (IF HasRemoteState(providerState) THEN Held ELSE Local)
    <3>1. providerState.mode # "stateless" /\ ResolvedMode(providerState) # "conversation"
      BY <1>1, <1>6 DEF NextState
    <3> QED
      BY <1>1, <1>6, <3>1 DEF ContextInv, CleanConversations
  <2>2. CASE reply.state = NoState
    <3>1. providerState' = providerState /\ Held' = Held
      BY <1>1, <2>2, HeldSame DEF NextState, Held
    <3>2. Unadopted(c)
      BY <2>2, ConstantsAssumption DEF Unadopted, NoState
    <3> QED
      BY <2>1, <3>1, <3>2
  <2>3. CASE reply.state # NoState
    <3>1. providerState' = reply.state /\ HasRemoteState(providerState')
      BY <1>1, <1>3, <1>6, <2>3 DEF NextState
    <3>2. Unadopted(c)
      BY <1>3, <1>6, <3>1, ConstantsAssumption DEF ValidState, HasRemoteState, Unadopted
    <3>3. Spoken(Local) \cup Held \subseteq Held'
      BY <1>1, <1>2, <3>1 DEF ContextInv, ReplyHeld
    <3>4. Instructional(conversations[c]) = {}
      BY DEF ContextInv, Numbered
    <3> QED
      BY <2>1, <3>1, <3>2, <3>3, <3>4 DEF Spoken, Instructional
  <2> QED
    BY <2>2, <2>3
<1>7. HasRemoteState(providerState') =>
        /\ Spoken(Local) \cup Produced \subseteq Held'
        /\ OutputIds(Held') \cap BatchIds(reply.calls) = {}
        /\ lostReplies = 0 \/ ResolvedMode(providerState') # "conversation" =>
             CallIds(Held') = OutputIds(Held') \cup BatchIds(reply.calls)
  BY <1>1, <1>2 DEF ContextInv, ReplyHeld
<1>8. /\ Top' = Top /\ reply.calls \in Seq(Call) /\ BatchIds(reply.calls) \subseteq Nat
      /\ BatchIds(reply'.calls) = {}
  <2>1. reply.calls \in Seq(Call)
    BY DEF Inv, TypeOK
  <2>2. BatchIds(reply'.calls) = {}
    BY <1>1 DEF NoReply, BatchIds
  <2>3. Top' = Top
    BY <1>1 DEF Top
  <2> QED
    BY <2>1, <2>2, <2>3, BatchParts
<1> QED
  BY <1>1, <1>4, <1>5, <1>6, <1>7, <1>8 DEF Taken

\* The batch that passed the checks becomes the step to execute.
LEMMA StartToolsKeeps == Inv /\ ContextInv /\ StartTools /\ UNCHANGED parallel => ContextInv'
<1> SUFFICES ASSUME Inv, ContextInv, StartTools, UNCHANGED parallel PROVE ContextInv'
  OBVIOUS
<1>1. /\ TakeReply /\ reply.calls # <<>> /\ calls' = reply.calls /\ phase' = "tools"
      /\ ~DuplicateIds(reply.calls) /\ ~MixedApproval(reply.calls)
      /\ pending' = PendingAfterReply /\ UNCHANGED <<messages, retryCount, checkpoint>>
  BY DEF StartTools, BatchAllowed
<1>2. Taken
  BY <1>1, TakenFacts
<1>3. Local' = Local /\ Produced = CallItems(reply.calls)
      /\ pending' = IF HasRemoteState(providerState') THEN {} ELSE pending
  BY <1>1, <1>2 DEF Taken, Local, Produced, PendingAfterReply
<1>4. BatchIds(reply.calls) \cap (CallIds(Local) \cup OutputIds(Local)) = {}
  BY <1>2 DEF Taken, ContextInv, ReplyHeld
<1>5. Numbered' /\ Distinct'
  BY <1>1, <1>2, <1>3 DEF Taken, ContextInv, Numbered, Known, Distinct
<1>6. LocalCalls'
  BY <1>1, <1>2, <1>3 DEF Taken, ContextInv, LocalCalls
<1>7. DueCalls'
  <2>1. Protected(reply.calls) => Len(reply.calls) = 1
    <3>1. Len(reply.calls) \in Nat \ {0}
      BY <1>1 DEF Inv, TypeOK
    <3>2. ASSUME Protected(reply.calls), Len(reply.calls) > 1 PROVE FALSE
      BY <1>1, <3>2 DEF Protected, MixedApproval
    <3>3. \A n \in Nat \ {0} : n > 1 \/ n = 1
      OBVIOUS
    <3> QED
      BY <3>1, <3>2, <3>3
  <2>2. \A i, j \in DOMAIN reply.calls : reply.calls[i].id = reply.calls[j].id => i = j
    BY <1>1 DEF DuplicateIds
  <2> QED
    BY <1>1, <1>3, <1>4, <2>1, <2>2 DEF DueCalls, Protected
<1>8. Synced'
  <2>1. OpenIds' = BatchIds(reply.calls)
    BY <1>1 DEF OpenIds
  <2>2. ~Unsure' => lostReplies = 0 \/ ResolvedMode(providerState') # "conversation"
    <3>1. lostReplies \in Nat
      BY DEF Inv, TypeOK
    <3> QED
      BY <1>1, <1>2, <3>1 DEF Taken, Unsure
  <2> QED
    BY <1>1, <1>2, <1>3, <2>1, <2>2 DEF Taken, Synced
<1>9. CleanConversations'
  BY <1>2, <1>3 DEF Taken, CleanConversations
<1>10. CheckpointTaken' /\ Requested' /\ ReplyHeld'
  BY <1>1 DEF CheckpointTaken, Requested, ReplyHeld
<1> QED
  BY <1>5, <1>6, <1>7, <1>8, <1>9, <1>10 DEF ContextInv

\* The run that hands off leaves its own items and the transfer's call.
LEMMA HandOffKeeps == Inv /\ ContextInv /\ HandOff /\ UNCHANGED parallel => ContextInv'
<1> SUFFICES ASSUME Inv, ContextInv, HandOff, UNCHANGED parallel PROVE ContextInv'
  OBVIOUS
<1>1. /\ TakeReply /\ reply.calls # <<>> /\ calls' = reply.calls /\ phase' = "handed_off"
      /\ reply.calls[1].name \in Handoffs /\ ~MixedHandoff(reply.calls)
      /\ pending' = PendingAfterReply /\ UNCHANGED <<messages, retryCount, checkpoint>>
  BY DEF HandOff, BatchAllowed
<1>2. Taken
  BY <1>1, TakenFacts
<1>3. Local' = Local /\ Produced = CallItems(reply.calls)
      /\ pending' = IF HasRemoteState(providerState') THEN {} ELSE pending
  BY <1>1, <1>2 DEF Taken, Local, Produced, PendingAfterReply
<1>4. Len(calls') = 1
  <2>1. 1 \in DOMAIN reply.calls
    BY <1>1, <1>2 DEF Taken
  <2> QED
    BY <1>1, <2>1 DEF MixedHandoff
<1>5. Numbered' /\ Distinct'
  BY <1>1, <1>2, <1>3 DEF Taken, ContextInv, Numbered, Known, Distinct
<1>6. LocalCalls'
  BY <1>1, <1>2, <1>3 DEF Taken, ContextInv, LocalCalls
<1>7. DueCalls'
  BY <1>1, <1>3, <1>4 DEF DueCalls
<1>8. Synced'
  <2>1. OpenIds' = BatchIds(reply.calls)
    BY <1>1 DEF OpenIds
  <2>2. ~Unsure' => lostReplies = 0 \/ ResolvedMode(providerState') # "conversation"
    <3>1. lostReplies \in Nat
      BY DEF Inv, TypeOK
    <3> QED
      BY <1>1, <1>2, <3>1 DEF Taken, Unsure
  <2> QED
    BY <1>1, <1>2, <1>3, <2>1, <2>2 DEF Taken, Synced
<1>9. CleanConversations'
  BY <1>2, <1>3 DEF Taken, CleanConversations
<1>10. CheckpointTaken' /\ Requested' /\ ReplyHeld'
  BY <1>1 DEF CheckpointTaken, Requested, ReplyHeld
<1> QED
  BY <1>5, <1>6, <1>7, <1>8, <1>9, <1>10 DEF ContextInv

\* The run that is done keeps its items, and asks the provider nothing more.
LEMMA FinishKeeps == Inv /\ ContextInv /\ Finish /\ UNCHANGED parallel => ContextInv'
<1> SUFFICES ASSUME Inv, ContextInv, Finish, UNCHANGED parallel PROVE ContextInv'
  OBVIOUS
<1>1. /\ TakeReply /\ phase' = "done" /\ pending' = PendingAfterReply
      /\ UNCHANGED <<messages, retryCount, checkpoint, calls>>
  BY DEF Finish
<1>2. Taken
  BY <1>1, TakenFacts
<1>3. Local' = Local /\ pending' \subseteq pending
  BY <1>1 DEF Local, PendingAfterReply
<1>4. Numbered' /\ Distinct'
  BY <1>1, <1>2, <1>3 DEF Taken, ContextInv, Numbered, Known, Distinct
<1>5. LocalCalls'
  BY <1>1, <1>2, <1>3 DEF Taken, ContextInv, LocalCalls
<1>6. CleanConversations'
  BY <1>2, <1>3 DEF Taken, CleanConversations
<1>7. DueCalls' /\ Synced' /\ CheckpointTaken' /\ Requested' /\ ReplyHeld'
  BY <1>1 DEF DueCalls, Synced, CheckpointTaken, Requested, ReplyHeld
<1> QED
  BY <1>4, <1>5, <1>6, <1>7 DEF ContextInv

\* A rejected output leaves its candidate with the provider and its correction pending.
LEMMA RetryOutputKeeps == Inv /\ ContextInv /\ RetryOutput /\ UNCHANGED parallel => ContextInv'
<1> SUFFICES ASSUME Inv, ContextInv, RetryOutput, UNCHANGED parallel PROVE ContextInv'
  OBVIOUS
<1> DEFINE candidate == ItemOf("candidate", retryCount)
           correction == ItemOf("correction", retryCount)
<1>1. /\ TakeReply /\ reply.calls = <<>> /\ phase' = "request"
      /\ messages' = messages \o <<candidate, correction>>
      /\ pending' = PendingAfterReply \cup {correction} /\ retryCount' = retryCount + 1
      /\ UNCHANGED <<checkpoint, calls>>
  BY DEF RetryOutput
<1>2. Taken
  BY <1>1, TakenFacts
<1>3. /\ candidate \in Item /\ correction \in Item /\ retryCount \in Nat
      /\ candidate.kind = "candidate" /\ correction.kind = "correction"
      /\ candidate.id = retryCount /\ correction.id = retryCount
  BY ItemTypes DEF Inv, TypeOK, Kinds, ItemOf
<1>4. /\ Produced = {candidate} /\ BatchIds(reply.calls) = {}
      /\ PendingAfterReply = IF HasRemoteState(providerState') THEN {} ELSE pending
  BY <1>1, <1>2 DEF Taken, Produced, PendingAfterReply, BatchIds
<1> HIDE DEF candidate, correction
<1> DEFINE added == <<candidate, correction>>
<1>5. /\ ItemsOf(added) = {candidate, correction} /\ added \in Seq(Item)
      /\ \A i, j \in DOMAIN added : added[i] = added[j] => i = j
  BY <1>3 DEF ItemsOf
<1> HIDE DEF added
<1>6. messages \in Seq(Item) /\ messages' = messages \o added
  BY <1>1 DEF Inv, TypeOK, added
<1>7. Local' = Local \cup {candidate, correction} /\ Local \subseteq Item
  BY <1>5, <1>6, Joined, ItemsOfType DEF Local
<1>8. /\ CallIds(Local') = CallIds(Local) /\ OutputIds(Local') = OutputIds(Local)
      /\ Spoken(Local') = Spoken(Local) \cup {candidate}
  BY <1>3, <1>7 DEF CallIds, OutputIds, Spoken, Instructional
<1>9. Distinct'
  <2>1. candidate \notin Local /\ correction \notin Local
    BY <1>3, <1>7 DEF ContextInv, Numbered
  <2>2. ItemsOf(messages) \cap ItemsOf(added) = {}
    BY <1>5, <2>1 DEF Local
  <2>3. \A i, j \in DOMAIN messages : messages[i] = messages[j] => i = j
    BY DEF ContextInv, Distinct
  <2>4. \A i, j \in DOMAIN (messages \o added) : (messages \o added)[i] = (messages \o added)[j] => i = j
    BY <1>5, <1>6, <2>2, <2>3, Joined
  <2> QED
    BY <1>6, <2>4 DEF Distinct
<1>10. Numbered'
  <2>1. /\ Known(Local) /\ Known(pending)
        /\ \A r \in DOMAIN responses : Known(responses[r]) /\ Instructional(responses[r]) = {}
        /\ \A c \in Conversations : Known(conversations[c]) /\ Instructional(conversations[c]) = {}
        /\ \A x \in Local : x.kind \in {"candidate", "correction"} => x.id < retryCount
        /\ \A id \in BatchIds(calls) : id <= Top
    BY DEF ContextInv, Numbered
  <2>2. UNCHANGED <<responses, conversations, calls>> /\ Top' = Top /\ BatchIds(reply'.calls) = {}
    BY <1>1, <1>2 DEF Taken
  <2>3. Known(Local)' /\ Known(pending)'
    BY <1>1, <1>3, <1>4, <1>7, <2>1, <2>2 DEF Known
  <2>4. \A x \in Local' : x.kind \in {"candidate", "correction"} => x.id < retryCount'
    <3>1. \A x \in Local : x.kind \in {"candidate", "correction"} => x.id < retryCount + 1
      BY <1>3, <1>7, <2>1 DEF Item
    <3> QED
      BY <1>1, <1>3, <1>7, <3>1
  <2>5. (\A r \in DOMAIN responses : Known(responses[r]) /\ Instructional(responses[r]) = {})'
    BY <2>1, <2>2 DEF Known
  <2>6. (\A c \in Conversations : Known(conversations[c]) /\ Instructional(conversations[c]) = {})'
    BY <2>1, <2>2 DEF Known
  <2> QED
    BY <2>1, <2>2, <2>3, <2>4, <2>5, <2>6 DEF Numbered
<1>11. LocalCalls'
  BY <1>1, <1>2, <1>8 DEF ContextInv, LocalCalls, Taken
<1>12. Synced'
  <2> SUFFICES ASSUME HasRemoteState(providerState') PROVE Synced'
    BY DEF Synced
  <2>1. OpenIds' = {}
    BY <1>1 DEF OpenIds
  <2>2. ~Unsure' => lostReplies = 0 \/ ResolvedMode(providerState') # "conversation"
    <3>1. lostReplies \in Nat
      BY DEF Inv, TypeOK
    <3> QED
      BY <1>1, <1>2, <3>1 DEF Taken, Unsure
  <2>3. pending' = {correction}
    BY <1>1, <1>4
  <2>4. Held' \cap pending' = {}
    BY <1>2, <1>3, <2>3 DEF Taken, Instructional
  <2>5. CallIds(Held' \cup pending') = CallIds(Held') /\ OutputIds(Held' \cup pending') = OutputIds(Held')
    BY <1>3, <2>3 DEF CallIds, OutputIds
  <2>6. Spoken(Local') \subseteq Held'
    BY <1>2, <1>4, <1>8 DEF Taken
  <2>7. ~Unsure' => CallIds(Held') = OutputIds(Held')
    BY <1>2, <1>4, <2>2 DEF Taken
  <2> QED
    BY <1>1, <2>1, <2>4, <2>5, <2>6, <2>7 DEF Synced
<1>13. CleanConversations'
  BY <1>2, <1>7 DEF CleanConversations, Taken
<1>14. DueCalls' /\ CheckpointTaken' /\ Requested' /\ ReplyHeld'
  BY <1>1 DEF DueCalls, CheckpointTaken, Requested, ReplyHeld
<1> QED
  BY <1>9, <1>10, <1>11, <1>12, <1>13, <1>14 DEF ContextInv

\* The calls begun join the local messages; the provider has them already.
LEMMA BeginToolCallsKeeps ==
  Inv /\ ContextInv /\ BeginToolCalls /\ UNCHANGED parallel => ContextInv'
<1> SUFFICES ASSUME Inv, ContextInv, BeginToolCalls, UNCHANGED parallel PROVE ContextInv'
  OBVIOUS
<1> DEFINE items == MapCalls(CallItem, Begun)
<1>1. /\ phase = "tools" /\ phase' = "executing" /\ messages' = messages \o items
      /\ checkpoint' = [state |-> providerState, items |-> messages \o items,
                        pending |-> IF HasRemoteState(providerState) THEN pending ELSE {}]
      /\ UNCHANGED <<providerState, pending, retryCount, reply, calls, responses, conversations,
                     lostReplies>>
  BY DEF BeginToolCalls, providerVars
<1>2. Held' = Held /\ Top' = Top /\ Begun' = Begun /\ Remaining' = Remaining /\ OpenIds' = OpenIds
      /\ OpenIds = BatchIds(calls)
  BY <1>1, HeldSame DEF Held, Top, Begun, Remaining, OpenIds
<1>3. /\ calls # <<>> /\ TypeOK /\ \A i, j \in DOMAIN calls : calls[i].id = calls[j].id => i = j
      /\ BatchIds(calls) \cap OutputIds(Local) = {} /\ BatchIds(calls) \cap CallIds(Local) = {}
      /\ Protected(calls) => Len(calls) = 1 /\ (HasRemoteState(providerState) => pending = {})
  BY <1>1 DEF Inv, ToolsDue, ContextInv, DueCalls
<1>4. /\ Begun \in Seq(Call)
      /\ BatchIds(Begun) \cup BatchIds(Remaining) = BatchIds(calls)
      /\ BatchIds(Begun) \cap BatchIds(Remaining) = {}
      /\ CallItems(Begun) \subseteq CallItems(calls)
      /\ \A i, j \in DOMAIN Begun : Begun[i].id = Begun[j].id => i = j
  BY <1>3, BegunParts
<1>5. /\ ItemsOf(items) = CallItems(Begun) /\ items \in Seq(Item)
      /\ \A i, j \in DOMAIN items : items[i] = items[j] => i = j
      /\ CallIds(CallItems(Begun)) = BatchIds(Begun) /\ OutputIds(CallItems(Begun)) = {}
      /\ Instructional(CallItems(Begun)) = {} /\ CallItems(Begun) \subseteq Item
  BY <1>4, BatchItems, BatchParts, BatchDistinct
<1> HIDE DEF items
<1>6. messages \in Seq(Item)
  BY <1>3 DEF TypeOK
<1>7. Local' = Local \cup CallItems(Begun)
  BY <1>1, <1>5, <1>6, Joined DEF Local
<1>8. /\ CallIds(Local') = CallIds(Local) \cup BatchIds(Begun)
      /\ OutputIds(Local') = OutputIds(Local)
  <2>1. /\ CallIds(Local \cup CallItems(Begun)) = CallIds(Local) \cup CallIds(CallItems(Begun))
        /\ OutputIds(Local \cup CallItems(Begun)) = OutputIds(Local) \cup OutputIds(CallItems(Begun))
    BY UnionIds
  <2> QED
    BY <1>5, <1>7, <2>1
<1>9. Spoken(Local') \subseteq Spoken(Local) \cup CallItems(Begun)
  BY <1>7 DEF Spoken, Instructional
<1>10. Distinct'
  <2>1. ItemsOf(messages) \cap ItemsOf(items) = {}
    <3>1. \A x \in CallItems(Begun) : x.kind = "call" /\ x.id \in BatchIds(calls)
      BY <1>4, BatchMembers
    <3>2. \A x \in Local : x.kind = "call" => x.id \in CallIds(Local)
      BY DEF CallIds
    <3> QED
      BY <1>3, <1>5, <3>1, <3>2 DEF Local
  <2>2. \A i, j \in DOMAIN messages : messages[i] = messages[j] => i = j
    BY DEF ContextInv, Distinct
  <2>3. \A i, j \in DOMAIN (messages \o items) : (messages \o items)[i] = (messages \o items)[j] => i = j
    BY <1>5, <1>6, <2>1, <2>2, Joined
  <2> QED
    BY <1>1, <2>3 DEF Distinct
<1>11. Numbered'
  <2>1. /\ Known(Local) /\ Known(pending)
        /\ \A r \in DOMAIN responses : Known(responses[r]) /\ Instructional(responses[r]) = {}
        /\ \A c \in Conversations : Known(conversations[c]) /\ Instructional(conversations[c]) = {}
        /\ \A x \in Local : x.kind \in {"candidate", "correction"} => x.id < retryCount
        /\ \A id \in BatchIds(calls) \cup BatchIds(reply.calls) : id <= Top
    BY DEF ContextInv, Numbered
  <2>2. \A x \in CallItems(Begun) : x.kind = "call" /\ x.id \in BatchIds(calls)
    BY <1>4, BatchMembers
  <2> QED
    BY <1>1, <1>2, <1>7, <2>1, <2>2 DEF Numbered, Known
<1>12. LocalCalls'
  BY <1>1, <1>2, <1>3, <1>4, <1>8 DEF ContextInv, LocalCalls
<1>13. DueCalls'
  BY <1>1, <1>2, <1>3, <1>4, <1>8 DEF DueCalls, Protected
<1>14. Synced'
  <2>1. Unsure' = Unsure
    BY <1>1 DEF Unsure
  <2>2. HasRemoteState(providerState) => CallItems(Begun) \subseteq Held
    BY <1>1, <1>4 DEF ContextInv, Synced
  <2> QED
    BY <1>1, <1>2, <1>9, <2>1, <2>2 DEF ContextInv, Synced
<1>15. CleanConversations'
  BY <1>1, <1>2, <1>7 DEF ContextInv, CleanConversations, Unadopted
<1>16. CheckpointTaken' /\ Requested' /\ ReplyHeld'
  BY <1>1 DEF CheckpointTaken, Requested, ReplyHeld
<1> QED
  BY <1>10, <1>11, <1>12, <1>13, <1>14, <1>15, <1>16 DEF ContextInv

\* The results answer the calls begun, and wait to be delivered.
LEMMA AcceptToolResultsKeeps ==
  Inv /\ ContextInv /\ AcceptToolResults /\ UNCHANGED parallel => ContextInv'
<1> SUFFICES ASSUME Inv, ContextInv, AcceptToolResults, UNCHANGED parallel PROVE ContextInv'
  OBVIOUS
<1> DEFINE items == MapCalls(OutputItem, Begun)
           outputs == ItemsOf(items)
<1>1. /\ phase = "executing" /\ messages' = messages \o items
      /\ pending' = pending \cup outputs /\ calls' = Remaining
      /\ phase' = IF Remaining = <<>> THEN "request" ELSE "tools"
      /\ UNCHANGED <<providerState, retryCount, reply, responses, conversations, lostReplies>>
  BY DEF AcceptToolResults, providerVars
<1>2. Held' = Held /\ Top' = Top /\ OpenIds = BatchIds(calls)
  BY <1>1, HeldSame DEF Held, Top, OpenIds
<1>3. /\ calls # <<>> /\ TypeOK /\ \A i, j \in DOMAIN calls : calls[i].id = calls[j].id => i = j
      /\ BatchIds(calls) \cap OutputIds(Local) = {} /\ BatchIds(Remaining) \cap CallIds(Local) = {}
      /\ Protected(calls) => Len(calls) = 1 /\ (HasRemoteState(providerState) => pending = {})
      /\ CallIds(Local) \ OutputIds(Local) = BatchIds(Begun)
  BY <1>1 DEF Inv, ToolsDue, ContextInv, DueCalls, LocalCalls
<1>4. /\ Begun \in Seq(Call) /\ Remaining \in Seq(Call)
      /\ BatchIds(Begun) \cup BatchIds(Remaining) = BatchIds(calls)
      /\ BatchIds(Begun) \cap BatchIds(Remaining) = {}
      /\ CallItems(Remaining) \subseteq CallItems(calls)
      /\ \A i, j \in DOMAIN Begun : Begun[i].id = Begun[j].id => i = j
      /\ \A i, j \in DOMAIN Remaining : Remaining[i].id = Remaining[j].id => i = j
      /\ \A i \in DOMAIN Remaining : \E j \in DOMAIN calls : Remaining[i] = calls[j]
      /\ Len(calls) = 1 => Remaining = <<>>
  BY <1>3, BegunParts
<1>5. /\ items \in Seq(Item)
      /\ \A i, j \in DOMAIN items : items[i] = items[j] => i = j
      /\ CallIds(outputs) = {} /\ OutputIds(outputs) = BatchIds(Begun)
      /\ Instructional(outputs) = {}
  BY <1>4, BatchItems, BatchParts, BatchDistinct
<1>6. \A x \in outputs : x.kind = "output" /\ x.id \in BatchIds(Begun)
  BY <1>4, BatchMembers
<1> HIDE DEF items
<1>7. messages \in Seq(Item)
  BY <1>3 DEF TypeOK
<1>8. Local' = Local \cup outputs
  BY <1>1, <1>5, <1>7, Joined DEF Local
<1> HIDE DEF outputs
<1>9. /\ CallIds(Local') = CallIds(Local)
      /\ OutputIds(Local') = OutputIds(Local) \cup BatchIds(Begun)
  <2>1. /\ CallIds(Local \cup outputs) = CallIds(Local) \cup CallIds(outputs)
        /\ OutputIds(Local \cup outputs) = OutputIds(Local) \cup OutputIds(outputs)
    BY UnionIds
  <2> QED
    BY <1>5, <1>8, <2>1
<1>10. Distinct'
  <2>1. \A x \in Local : x.kind = "output" => x.id \in OutputIds(Local)
    BY DEF OutputIds
  <2>2. Local \cap outputs = {}
    BY <1>3, <1>4, <1>6, <2>1
  <2>3. \A i, j \in DOMAIN messages : messages[i] = messages[j] => i = j
    BY DEF ContextInv, Distinct
  <2>4. \A i, j \in DOMAIN (messages \o items) : (messages \o items)[i] = (messages \o items)[j] => i = j
    BY <1>5, <1>7, <2>2, <2>3, Joined DEF Local, outputs
  <2> QED
    BY <1>1, <2>4 DEF Distinct
<1>11. Numbered'
  <2>1. /\ Known(Local) /\ Known(pending)
        /\ \A r \in DOMAIN responses : Known(responses[r]) /\ Instructional(responses[r]) = {}
        /\ \A c \in Conversations : Known(conversations[c]) /\ Instructional(conversations[c]) = {}
        /\ \A x \in Local : x.kind \in {"candidate", "correction"} => x.id < retryCount
        /\ \A id \in BatchIds(calls) \cup BatchIds(reply.calls) : id <= Top
    BY DEF ContextInv, Numbered
  <2>2. Known(Local)' /\ Known(pending)'
    BY <1>1, <1>2, <1>4, <1>6, <1>8, <2>1 DEF Known
  <2>3. \A x \in Local' : x.kind \in {"candidate", "correction"} => x.id < retryCount'
    BY <1>1, <1>6, <1>8, <2>1
  <2>4. (\A r \in DOMAIN responses : Known(responses[r]) /\ Instructional(responses[r]) = {})'
    BY <1>1, <1>2, <2>1 DEF Known
  <2>5. (\A c \in Conversations : Known(conversations[c]) /\ Instructional(conversations[c]) = {})'
    BY <1>1, <1>2, <2>1 DEF Known
  <2> QED
    BY <1>1, <1>2, <1>4, <2>1, <2>2, <2>3, <2>4, <2>5 DEF Numbered
<1>12. LocalCalls'
  <2>1. CallIds(Local') \subseteq OutputIds(Local')
    BY <1>3, <1>9
  <2>2. ~HasRemoteState(providerState) => OutputIds(Local') \subseteq CallIds(Local')
    BY <1>3, <1>9 DEF ContextInv, LocalCalls
  <2> QED
    BY <1>1, <2>1, <2>2 DEF LocalCalls
<1>13. DueCalls'
  <2>1. BatchIds(calls') \cap OutputIds(Local') = {} /\ BatchIds(calls') \cap CallIds(Local') = {}
    BY <1>1, <1>3, <1>4, <1>9
  <2>2. ~Protected(calls') \/ Remaining = <<>>
    BY <1>1, <1>3, <1>4 DEF Protected
  <2> QED
    BY <1>1, <1>4, <2>1, <2>2 DEF DueCalls
<1>14. Synced'
  <2> SUFFICES ASSUME HasRemoteState(providerState) PROVE Synced'
    BY <1>1 DEF Synced
  <2>1. /\ Spoken(Local) \subseteq Held \cup pending
        /\ ~Unsure => Held \cap pending = {}
        /\ BatchIds(calls) \cap OutputIds(Held \cup pending) = {}
        /\ CallItems(calls) \subseteq Held
        /\ ~Unsure => CallIds(Held \cup pending) = OutputIds(Held \cup pending) \cup BatchIds(calls)
    BY <1>1, <1>2 DEF ContextInv, Synced
  <2>2. Unsure' = Unsure
    BY <1>1 DEF Unsure
  <2>3. OpenIds' = BatchIds(Remaining)
    BY <1>1 DEF OpenIds, BatchIds
  <2>4. Spoken(Local') \subseteq Held' \cup pending'
    BY <1>1, <1>2, <1>8, <2>1 DEF Spoken, Instructional
  <2>5. /\ CallIds(Held' \cup pending') = CallIds(Held \cup pending)
        /\ OutputIds(Held' \cup pending') = OutputIds(Held \cup pending) \cup BatchIds(Begun)
    <3>1. /\ CallIds((Held \cup pending) \cup outputs) = CallIds(Held \cup pending) \cup CallIds(outputs)
          /\ OutputIds((Held \cup pending) \cup outputs) = OutputIds(Held \cup pending) \cup OutputIds(outputs)
      BY UnionIds
    <3>2. Held' \cup pending' = (Held \cup pending) \cup outputs
      BY <1>1, <1>2
    <3> QED
      BY <1>5, <3>1, <3>2
  <2>6. ~Unsure' => Held' \cap pending' = {}
    <3>1. \A x \in outputs : x \notin Held
      <4>1. \A x \in Held : x.kind = "output" => x.id \in OutputIds(Held \cup pending)
        BY DEF OutputIds
      <4> QED
        BY <1>4, <1>6, <2>1, <4>1
    <3> QED
      BY <1>1, <1>2, <2>1, <2>2, <3>1
  <2>7. OpenIds' \cap OutputIds(Held' \cup pending') = {}
    BY <1>4, <2>1, <2>3, <2>5
  <2>8. ~Unsure' => CallIds(Held' \cup pending') = OutputIds(Held' \cup pending') \cup OpenIds'
    BY <1>4, <2>1, <2>2, <2>3, <2>5
  <2>9. CallItems(calls') \subseteq Held'
    BY <1>1, <1>2, <1>4, <2>1
  <2> QED
    BY <2>4, <2>6, <2>7, <2>8, <2>9 DEF Synced
<1>15. CleanConversations'
  BY <1>1, <1>2, <1>8 DEF ContextInv, CleanConversations, Unadopted
<1>16. CheckpointTaken' /\ Requested' /\ ReplyHeld'
  BY <1>1 DEF CheckpointTaken, Requested, ReplyHeld
<1> QED
  BY <1>10, <1>11, <1>12, <1>13, <1>14, <1>15, <1>16 DEF ContextInv

\* Every item of a run stays in its place: one case per action.
LEMMA ContextPreserved == Inv /\ ContextInv /\ [Next]_vars => ContextInv'
<1> SUFFICES ASSUME Inv, ContextInv, Next PROVE ContextInv'
  BY StutterKeeps
<1>1. UNCHANGED parallel
  BY DEF Next
<1>2. ASSUME NEW names \in NameLists, NEW repeatsId \in BOOLEAN, NEW state \in ReplyStates,
             ProviderAnswers(Batch(names, repeatsId), state)
      PROVE  ContextInv'
  BY <1>1, <1>2, ProviderAnswersKeeps
<1>3. Stop => ContextInv'
  BY StutterKeeps DEF Stop
<1> QED
  BY <1>1, <1>2, <1>3, NextRequestKeeps, ReplyLostKeeps, StartToolsKeeps, HandOffKeeps, FinishKeeps,
     RetryOutputKeeps, BeginToolCallsKeeps, AcceptToolResultsKeeps, SuspendKeeps, FailKeeps
  DEF Next, Step

\* Where every item of a run is, in every run.
THEOREM ContextInvariance == Spec => []ContextInv
<1>1. Inv /\ ContextInv /\ [Next]_vars => ContextInv'
  BY ContextPreserved
<1> QED
  BY InitContext, Invariance, <1>1, PTL DEF Spec

-----------------------------------------------------------------------------
(* What that gives the model, and whoever takes up a run that stopped.      *)

\* Every request of every run makes the model see the whole run, nothing
\* twice: whatever the strategy, the batches, the retries and the lost replies.
THEOREM ContextIsDelivered == Spec => []ContextDelivered
<1>1. Inv /\ ContextInv => ContextDelivered
  <2> SUFFICES ASSUME Inv, ContextInv, phase = "model" PROVE
                 /\ Cardinality(Local) = Len(messages)
                 /\ Local \subseteq View
                 /\ ~Ambiguous => Held \cap request = {}
    BY DEF ContextDelivered, Local, Held
  <2>1. Cardinality(Local) = Len(messages)
    BY DistinctCounts DEF Inv, TypeOK, ContextInv, Distinct, Local
  <2>2. /\ request = RequestItems /\ View = Held \cup request
        /\ Instructional(Held) = {} /\ (~HasRemoteState(providerState) => Held = {})
    BY HeldIn DEF ContextInv, Requested, View, Held
  <2>3. CASE HasRemoteState(providerState)
    <3>1. request = Instructional(Local) \cup Spoken(pending)
      BY <2>2, <2>3 DEF RequestItems, Spoken, Local
    <3>2. /\ Spoken(Local) \subseteq Held \cup pending
          /\ ~Ambiguous => Held \cap pending = {}
      BY <2>3 DEF ContextInv, Synced, Unsure, Ambiguous, Inv, TypeOK
    <3>3. Local \subseteq View
      BY <2>2, <3>1, <3>2 DEF Spoken, Instructional
    <3>4. ~Ambiguous => Held \cap request = {}
      BY <2>2, <3>1, <3>2 DEF Spoken, Instructional
    <3> QED
      BY <2>1, <3>3, <3>4
  <2>4. CASE ~HasRemoteState(providerState)
    BY <2>1, <2>2, <2>4 DEF RequestItems, Local
  <2> QED
    BY <2>3, <2>4
<1> QED
  BY Invariance, ContextInvariance, <1>1, PTL

\* No request of any run shows the model a call without its output or an
\* output without its call.
THEOREM CallsAreAnswered == Spec => []CallsAnswered
<1>1. Inv /\ ContextInv => CallsAnswered
  <2> SUFFICES ASSUME Inv, ContextInv, phase = "model", ~Ambiguous
               PROVE  CallIds(View) = OutputIds(View)
    BY DEF CallsAnswered
  <2>1. /\ request = RequestItems /\ View = Held \cup request
        /\ (~HasRemoteState(providerState) => Held = {})
    BY HeldIn DEF ContextInv, Requested, View, Held
  <2>2. CASE HasRemoteState(providerState)
    <3>1. request = Instructional(Local) \cup Spoken(pending)
      BY <2>1, <2>2 DEF RequestItems, Spoken, Local
    <3>2. CallIds(Held \cup pending) = OutputIds(Held \cup pending)
      BY <2>2 DEF ContextInv, Synced, Unsure, OpenIds, Ambiguous, Inv, TypeOK
    <3>3. CallIds(View) = CallIds(Held \cup pending) /\ OutputIds(View) = OutputIds(Held \cup pending)
      <4>1. \A x : x.kind \in {"call", "output"} => (x \in View <=> x \in Held \cup pending)
        BY <2>1, <3>1 DEF Spoken, Instructional
      <4> QED
        BY <4>1 DEF CallIds, OutputIds
    <3> QED
      BY <3>2, <3>3
  <2>3. CASE ~HasRemoteState(providerState)
    <3>1. View = Local
      BY <2>1, <2>3 DEF RequestItems, Local
    <3>2. CallIds(Local) = OutputIds(Local)
      BY <2>3 DEF ContextInv, LocalCalls
    <3> QED
      BY <3>1, <3>2
  <2> QED
    BY <2>2, <2>3
<1> QED
  BY Invariance, ContextInvariance, <1>1, PTL

\* Whatever a run was doing, the one it leaves behind can be taken up: from the
\* checkpoint of an approval, or by the agent it handed off to.
THEOREM AlwaysStopsResumably == Spec => []StopsResumably
<1>1. Inv /\ ContextInv => HandoffLeavesNoCallOpen
  <2> SUFFICES ASSUME Inv, ContextInv, phase = "handed_off"
               PROVE  /\ CallIds(Local) \subseteq OutputIds(Local)
                      /\ HasRemoteState(providerState) /\ ~Ambiguous =>
                           CallIds(Held) \ OutputIds(Held) = {calls[1].id}
    BY DEF HandoffLeavesNoCallOpen, Local, Held
  <2>1. /\ CallIds(Local) \subseteq OutputIds(Local) /\ Len(calls) = 1
        /\ HasRemoteState(providerState) => pending = {}
    BY DEF ContextInv, LocalCalls, DueCalls
  <2>2. OpenIds = {calls[1].id}
    <3>1. DOMAIN calls = {1}
      BY <2>1 DEF Inv, TypeOK
    <3> QED
      BY <3>1 DEF OpenIds, BatchIds
  <2>3. ASSUME HasRemoteState(providerState), ~Ambiguous
        PROVE  CallIds(Held) \ OutputIds(Held) = OpenIds
    <3>1. Held \cup pending = Held /\ ~Unsure
      BY <2>1, <2>3 DEF Ambiguous, Unsure, Inv, TypeOK
    <3>2. /\ OpenIds \cap OutputIds(Held \cup pending) = {}
          /\ CallIds(Held \cup pending) = OutputIds(Held \cup pending) \cup OpenIds
      BY <2>3, <3>1 DEF ContextInv, Synced
    <3> QED
      BY <3>1, <3>2
  <2> QED
    BY <2>1, <2>2, <2>3
<1>2. Inv /\ ContextInv => CheckpointResumable
  <2> SUFFICES ASSUME Inv, ContextInv, phase = "suspended"
               PROVE  LET open == {calls[1].id}
                      IN  /\ CallIds(Local) \ OutputIds(Local) = open
                          /\ HasRemoteState(providerState) =>
                               /\ pending = {}
                               /\ ~Ambiguous => CallIds(Held) \ OutputIds(Held) = open
    BY DEF CheckpointResumable, ContextInv, CheckpointTaken, Local, Held
  <2>1. /\ Len(calls) = 1 /\ (HasRemoteState(providerState) => pending = {})
        /\ CallIds(Local) \ OutputIds(Local) = BatchIds(Begun)
        /\ \A i, j \in DOMAIN calls : calls[i].id = calls[j].id => i = j
    BY DEF ContextInv, LocalCalls, DueCalls
  <2>2. BatchIds(calls) = {calls[1].id} /\ Begun = calls
    <3>1. DOMAIN calls = {1} /\ calls # <<>> /\ TypeOK
      <4>1. TypeOK /\ calls \in Seq(Call)
        BY DEF Inv, TypeOK
      <4> QED
        BY <2>1, <4>1
    <3>2. Begun = calls
      BY <2>1, <3>1, BegunParts
    <3> QED
      BY <3>1, <3>2 DEF BatchIds
  <2>3. OpenIds = BatchIds(calls)
    BY DEF OpenIds
  <2>4. ASSUME HasRemoteState(providerState), ~Ambiguous
        PROVE  CallIds(Held) \ OutputIds(Held) = BatchIds(calls)
    <3>1. Held \cup pending = Held /\ ~Unsure
      BY <2>1, <2>4 DEF Ambiguous, Unsure, Inv, TypeOK
    <3>2. /\ OpenIds \cap OutputIds(Held \cup pending) = {}
          /\ CallIds(Held \cup pending) = OutputIds(Held \cup pending) \cup OpenIds
      BY <2>4, <3>1 DEF ContextInv, Synced
    <3> QED
      BY <2>3, <3>1, <3>2
  <2> QED
    BY <2>1, <2>2, <2>4
<1> QED
  BY Invariance, ContextInvariance, <1>1, <1>2, PTL DEF StopsResumably

-----------------------------------------------------------------------------
(* What a run leaves to whoever goes on.  ContextInv has it that nothing is  *)
(* missing while the run goes on; that nothing else is held, and that the    *)
(* last reply is, takes knowing where everything the provider has came from. *)

Before == responses[1]

\* What the provider has and the local messages may not have yet.
Ending ==
  IF phase = "done" THEN {ItemOf("candidate", retryCount)}
  ELSE IF phase \in {"tools", "executing", "suspended", "handed_off"} THEN CallItems(calls)
  ELSE {}

HistoryKept ==
  /\ 1 \in DOMAIN responses
  /\ phase # "failed" => Before \subseteq (IF HasRemoteState(providerState) THEN Held ELSE Local)

HeldWasSaid ==
  HasRemoteState(providerState) /\ phase # "failed" /\ ~Unsure =>
    Held \subseteq Before \cup Local \cup Ending

ReplyWasSaid ==
  /\ phase = "replied" /\ ~StateRejected /\ HasRemoteState(NextState)
  /\ lostReplies = 0 \/ ResolvedMode(NextState) # "conversation"
  => Stored(NextState) \subseteq Before \cup Local \cup Produced

EndHeld ==
  phase \in {"done", "handed_off"} /\ HasRemoteState(providerState) =>
    Spoken(Local) \cup Ending \subseteq Held

Reported == {m \in Local : m.kind \in {"call", "output"} /\ m.id # 0} \subseteq ItemsOf(generated)

LeftInv ==
  pending \subseteq Local /\ HistoryKept /\ HeldWasSaid /\ ReplyWasSaid /\ EndHeld /\ Reported

\* A run starts with what came before it, in its messages or with the provider.
LEMMA InitLeft == Init => LeftInv
<1> SUFFICES ASSUME Init PROVE LeftInv
  OBVIOUS
<1>1. PICK s \in StartStates, history \in {<<>>, Resumed} : StartWith(s, history)
  BY DEF Init
<1>2. /\ Inv /\ ContextInv
  BY InitInv, InitContext
<1> DEFINE new == IF history = <<>> THEN ItemOf("input", 0) ELSE ItemOf("output", 0)
           local == IF HasRemoteState(s) THEN <<>> ELSE history
           first == <<ItemOf("instructions", 0)>> \o local \o <<new>>
<1>3. /\ providerState = s /\ messages = first /\ pending = Local
      /\ responses = <<ItemsOf(history)>> /\ Before = ItemsOf(history) /\ 1 \in DOMAIN responses
      /\ conversations = [c \in Conversations |-> ItemsOf(history)]
      /\ phase = IF ValidState(s) THEN "request" ELSE "failed"
      /\ s.mode = "response_chain" /\ s.previous = 0 => history = <<>>
  BY <1>1 DEF StartWith, Local, Before
<1>4. /\ ItemOf("instructions", 0) \in Item /\ new \in Item
      /\ ItemOf("input", 0) \in Item /\ ItemOf("call", 0) \in Item
      /\ ItemOf("instructions", 0).id = 0 /\ new.id = 0
      /\ ItemOf("input", 0).id = 0 /\ ItemOf("call", 0).id = 0
  BY ItemTypes DEF Kinds, ItemOf
<1>5. history \in Seq(Item) /\ \A x \in ItemsOf(history) : x.id = 0
  <2>1. CASE history = <<>>
    BY <2>1 DEF ItemsOf
  <2>2. CASE history = Resumed
    <3> DEFINE a == ItemOf("input", 0)
               b == ItemOf("call", 0)
    <3>1. a \in Item /\ b \in Item /\ a.id = 0 /\ b.id = 0 /\ history = <<a, b>>
      BY <1>4, <2>2 DEF Resumed
    <3> HIDE DEF a, b
    <3> QED
      BY <3>1 DEF ItemsOf
  <2> QED
    BY <2>1, <2>2
<1>6. local \in Seq(Item) /\ (~HasRemoteState(s) => local = history)
      /\ \A x \in ItemsOf(local) : x.id = 0
  BY <1>5 DEF ItemsOf
<1> DEFINE instr == ItemOf("instructions", 0)
<1> HIDE DEF new, local, instr
<1>7. Local = {instr} \cup ItemsOf(local) \cup {new}
  <2>1. <<instr>> \in Seq(Item) /\ <<new>> \in Seq(Item) /\ <<instr>> \o local \in Seq(Item)
    BY <1>4, <1>6 DEF instr
  <2>2. ItemsOf(<<instr>>) = {instr} /\ ItemsOf(<<new>>) = {new}
    BY DEF ItemsOf
  <2>3. ItemsOf(<<instr>> \o local) = {instr} \cup ItemsOf(local)
    BY <1>6, <2>1, <2>2, Joined
  <2>4. ItemsOf((<<instr>> \o local) \o <<new>>) = {instr} \cup ItemsOf(local) \cup {new}
    BY <2>1, <2>2, <2>3, Joined, ZenonT(40)
  <2> QED
    BY <1>3, <2>4 DEF Local, instr
<1>8. \A x \in Local : x.id = 0
  BY <1>4, <1>6, <1>7 DEF instr
<1>9. ValidState(s) /\ HasRemoteState(s) => Held = Before
  <2>1. s.conversation \in Conversations \cup {NoConversation} /\ s.previous \in {0, 1}
    BY DEF StartStates
  <2>2. history = <<>> => ItemsOf(history) = {}
    BY DEF ItemsOf
  <2> QED
    BY <1>3, <2>1, <2>2 DEF Held, Stored, HasRemoteState, ResolvedMode, ValidState
<1>10. ~HasRemoteState(s) => Before \subseteq Local
  BY <1>3, <1>6, <1>7
<1> QED
  BY <1>3, <1>8, <1>9, <1>10
  DEF LeftInv, HistoryKept, HeldWasSaid, ReplyWasSaid, EndHeld, Reported

\* A step that adds to the messages what it adds to the result keeps the result whole.
LEMMA ReportedGrows ==
  ASSUME NEW items \in Seq(Item), messages \in Seq(Item), generated \in Seq(Item),
         messages' = messages \o items, Reported,
         generated' = generated \o items
         \/ /\ generated' = generated
            /\ \A x \in ItemsOf(items) : x.kind \notin {"call", "output"}
  PROVE  Reported' /\ Local' = Local \cup ItemsOf(items)
<1>1. Local' = Local \cup ItemsOf(items)
  BY Joined DEF Local
<1>2. generated' = generated \o items => ItemsOf(generated') = ItemsOf(generated) \cup ItemsOf(items)
  BY Joined
<1> QED
  BY <1>1, <1>2 DEF Reported

\* Steps that give nothing to the provider and take nothing from it.
LEMMA QuietLeft ==
  ASSUME LeftInv, UNCHANGED <<providerState, responses, conversations, messages, pending, generated>>,
         phase' # "replied", phase' \notin {"done", "handed_off"},
         phase' # "failed" => phase # "failed" /\ Ending \subseteq Ending' /\ (Unsure => Unsure')
  PROVE  LeftInv'
<1>1. Held' = Held /\ Local' = Local /\ Before' = Before
  BY HeldSame DEF Held, Local, Before
<1> QED
  BY <1>1 DEF LeftInv, HistoryKept, HeldWasSaid, ReplyWasSaid, EndHeld, Reported

\* The reply adds to what the provider holds what it was sent and what it produced.
LEMMA ProviderAnswersLeft ==
  ASSUME Inv, ContextInv, LeftInv,
         NEW names \in NameLists, NEW repeatsId \in BOOLEAN, NEW state \in ReplyStates,
         ProviderAnswers(Batch(names, repeatsId), state)
  PROVE  LeftInv'
<1>1. /\ phase = "model" /\ phase' = "replied" /\ reply'.state = state
      /\ UNCHANGED <<messages, pending, providerState, calls, generated, retryCount, lostReplies>>
  BY DEF ProviderAnswers, localVars
<1>2. PICK context \in SUBSET Item :
        /\ responses' = Append(responses, context)
        /\ conversations' = [c \in Conversations |->
             IF c \in {state.conversation, providerState.conversation}
             THEN conversations[c] \cup context ELSE conversations[c]]
        /\ context = Held \cup Spoken(request) \cup Produced'
        /\ Spoken(Local) \cup Held \subseteq context
  BY AnswerStored
<1>3. /\ Len(responses') = Len(responses) + 1 /\ Len(responses) \in Nat
      /\ \A r \in DOMAIN responses : r \in DOMAIN responses' /\ responses'[r] = responses[r]
      /\ responses'[Len(responses) + 1] = context
      /\ DOMAIN responses = 1..Len(responses)
  BY <1>2 DEF Inv, TypeOK
<1>4. Local' = Local /\ Before' = Before /\ 1 \in DOMAIN responses'
  BY <1>1, <1>3 DEF Local, Before, LeftInv, HistoryKept
<1>5. ValidState(providerState) /\ providerState \in ProviderState
      /\ providerState.previous <= Len(responses) /\ providerState.previous \in Nat
  BY <1>1 DEF Inv, StatesKnown, TypeOK, ProviderState
<1>6. /\ ResolvedMode(providerState) # "conversation" => Held' = Held
      /\ ResolvedMode(providerState) = "conversation" => Held' = Held \cup context
  <2>1. ResolvedMode(providerState) = "response_chain" /\ providerState.previous # 0 =>
          responses'[providerState.previous] = responses[providerState.previous]
    BY <1>3, <1>5
  <2>2. ResolvedMode(providerState) = "conversation" =>
          /\ providerState.conversation \in Conversations
          /\ conversations'[providerState.conversation]
               = conversations[providerState.conversation] \cup context
    BY <1>2, <1>5 DEF ValidState, ProviderState
  <2> QED
    BY <1>1, <2>1, <2>2 DEF Held, Stored
<1>7. HistoryKept'
  BY <1>1, <1>4, <1>6 DEF LeftInv, HistoryKept
<1>8. HeldWasSaid'
  <2>1. ~Unsure' => ~Unsure /\ Held' = Held
    BY <1>1, <1>6 DEF Unsure
  <2>2. Ending' = Ending
    BY <1>1 DEF Ending
  <2> QED
    BY <1>1, <1>4, <2>1, <2>2 DEF LeftInv, HeldWasSaid
<1>9. ~(ResolvedMode(providerState) = "conversation" /\ lostReplies > 0) =>
        context \subseteq Before \cup Local \cup Produced'
  <2>1. Spoken(request) \subseteq Local
    BY <1>1 DEF ContextInv, Requested, RequestItems, LeftInv, Spoken, Instructional, Local
  <2>2. ~HasRemoteState(providerState) => Held = {}
    BY <1>1, HeldIn DEF ContextInv
  <2>3. Ending = {}
    BY <1>1 DEF Ending
  <2>4. HasRemoteState(providerState) /\ ~(ResolvedMode(providerState) = "conversation" /\ lostReplies > 0)
          => Held \subseteq Before \cup Local
    BY <1>1, <2>3 DEF LeftInv, HeldWasSaid, Unsure
  <2> QED
    BY <1>2, <2>1, <2>2, <2>4
<1>10. ReplyWasSaid'
  <2> DEFINE next == NextState'
             held == Stored(NextState)'
  <2> SUFFICES ASSUME ~StateRejected', HasRemoteState(next),
                      lostReplies = 0 \/ ResolvedMode(next) # "conversation"
               PROVE  held \subseteq Before \cup Local \cup Produced'
    BY <1>1, <1>4 DEF ReplyWasSaid
  <2>1. lostReplies \in Nat
    BY DEF Inv, TypeOK
  <2>2. CASE ResolvedMode(providerState) = "conversation"
    <3>1. next = providerState /\ held = Held' /\ Held' = Held \cup context
      BY <1>1, <1>6, <2>2 DEF NextState, Held, Stored
    <3> QED
      BY <1>2, <1>9, <2>1, <2>2, <3>1
  <2>3. CASE ResolvedMode(providerState) # "conversation"
    <3>1. state # NoState
      BY <1>1, <2>3 DEF StateRejected, NextState, HasRemoteState
    <3>2. next = state /\ providerState.mode # "stateless"
      BY <1>1, <2>3, <3>1 DEF NextState, HasRemoteState, ResolvedMode
    <3>3. CASE ResolvedMode(state) = "response_chain"
      <4>1. held = context
        BY <1>3, <3>1, <3>2, <3>3, ConstantsAssumption DEF ReplyStates, Stored, ResolvedMode
      <4> QED
        BY <1>9, <2>3, <4>1
    <3>4. CASE ResolvedMode(state) # "response_chain"
      <4>1. /\ state.conversation \in Conversations /\ ResolvedMode(next) = "conversation"
            /\ state.conversation # NoConversation
        BY <3>1, <3>2, <3>4, ConstantsAssumption DEF ReplyStates, ResolvedMode
      <4>2. held = conversations[state.conversation] \cup context
        BY <1>2, <3>2, <4>1 DEF Stored
      <4>3. conversations[state.conversation] \subseteq
              (IF HasRemoteState(providerState) THEN Held ELSE Local)
        BY <1>1, <2>3, <3>2, <4>1 DEF ContextInv, CleanConversations, Unadopted
      <4> QED
        BY <1>2, <1>9, <2>3, <4>2, <4>3
    <3> QED
      BY <3>3, <3>4
  <2> QED
    BY <2>2, <2>3
<1> QED
  BY <1>1, <1>4, <1>7, <1>8, <1>10 DEF LeftInv, EndHeld, Reported

\* What is said when a reply is taken: the provider's copy and the run's own agree.
LEMMA TakenLeft ==
  ASSUME Inv, ContextInv, LeftInv, TakeReply
  PROVE  /\ Before' = Before /\ 1 \in DOMAIN responses'
         /\ Before \subseteq (IF HasRemoteState(providerState') THEN Held' ELSE Local)
         /\ HasRemoteState(providerState') =>
              /\ Spoken(Local) \cup Produced \subseteq Held'
              /\ lostReplies = 0 \/ ResolvedMode(providerState') # "conversation" =>
                   Held' \subseteq Before \cup Local \cup Produced
         /\ PendingAfterReply \subseteq Local
<1>1. Taken /\ ~StateRejected /\ UNCHANGED <<responses, conversations>>
  BY TakenFacts DEF Taken, TakeReply
<1>2. Before' = Before /\ 1 \in DOMAIN responses'
  BY <1>1 DEF Before, LeftInv, HistoryKept
<1>3. Held' = Stored(NextState) /\ providerState' = NextState /\ phase = "replied"
  BY <1>1, HeldSame DEF Taken
<1>4. Instructional(Before) = {}
  BY DEF Before, LeftInv, HistoryKept, ContextInv, Numbered
<1>5. HasRemoteState(providerState') => Before \subseteq Held'
  <2>1. HasRemoteState(providerState') => Held \subseteq Held' /\ Spoken(Local) \subseteq Held'
    BY <1>1, <1>3 DEF ContextInv, ReplyHeld
  <2>2. Before \subseteq Held \/ Before \subseteq Spoken(Local)
    BY <1>3, <1>4 DEF LeftInv, HistoryKept, Spoken, Instructional
  <2> QED
    BY <2>1, <2>2
<1>6. ~HasRemoteState(providerState') => Before \subseteq Local
  BY <1>1, <1>3 DEF Taken, LeftInv, HistoryKept
<1>7. HasRemoteState(providerState') =>
        /\ Spoken(Local) \cup Produced \subseteq Held'
        /\ lostReplies = 0 \/ ResolvedMode(providerState') # "conversation" =>
             Held' \subseteq Before \cup Local \cup Produced
  BY <1>1, <1>3 DEF Taken, LeftInv, ReplyWasSaid
<1>8. PendingAfterReply \subseteq Local
  BY DEF PendingAfterReply, LeftInv
<1> QED
  BY <1>2, <1>5, <1>6, <1>7, <1>8

\* A reply that starts a tool step, hands off or ends the run.
LEMMA AcceptedLeft ==
  ASSUME Inv, ContextInv, LeftInv, StartTools \/ HandOff \/ Finish
  PROVE  LeftInv'
<1>1. /\ TakeReply /\ messages' = messages /\ retryCount' = retryCount
      /\ pending' = PendingAfterReply /\ lostReplies' = lostReplies
      /\ \/ phase' \in {"tools", "handed_off"} /\ reply.calls # <<>> /\ calls' = reply.calls
         \/ phase' = "done" /\ reply.calls = <<>>
  BY DEF StartTools, HandOff, Finish, TakeReply
<1>2. Local' = Local /\ Ending' = Produced
  BY <1>1 DEF Local, Ending, Produced
<1>3. Reported'
  <2>1. ItemsOf(generated) \subseteq ItemsOf(generated')
    <3>1. CASE HandOff
      <4> DEFINE added == <<ItemOf("handoff_call", reply.calls[1].id),
                            ItemOf("handoff_output", reply.calls[1].id)>>
      <4>1. generated' = generated \o added /\ generated \in Seq(Item)
        BY <3>1 DEF HandOff, Inv, TypeOK
      <4>2. added \in Seq(Item)
        <5>1. 1 \in DOMAIN reply.calls /\ reply.calls \in Seq(Call)
          <6>1. reply.calls \in Seq(Call) /\ reply.calls # <<>>
            BY <3>1 DEF HandOff, Inv, TypeOK
          <6> QED
            BY <6>1
        <5>2. reply.calls[1].id \in Nat
          <6>1. reply.calls[1] \in Call
            BY <5>1, MembersType
          <6> QED
            BY <6>1 DEF Call
        <5>3. /\ ItemOf("handoff_call", reply.calls[1].id) \in Item
              /\ ItemOf("handoff_output", reply.calls[1].id) \in Item
          BY <5>2, ItemTypes DEF Kinds
        <5> QED
          BY <5>3
      <4> HIDE DEF added
      <4> QED
        BY <4>1, <4>2, Joined
    <3>2. CASE StartTools \/ Finish
      BY <3>2 DEF StartTools, Finish
    <3> QED
      BY <3>1, <3>2
  <2> QED
    BY <1>2, <2>1 DEF LeftInv, Reported
<1>4. HeldWasSaid'
  <2>1. lostReplies \in Nat
    BY DEF Inv, TypeOK
  <2>2. ~Unsure' => lostReplies = 0 \/ ResolvedMode(providerState') # "conversation"
    BY <1>1, <2>1 DEF Unsure
  <2> QED
    BY <1>1, <1>2, <2>2, TakenLeft DEF HeldWasSaid
<1>5. HistoryKept' /\ EndHeld' /\ ReplyWasSaid' /\ pending' \subseteq Local'
  BY <1>1, <1>2, TakenLeft DEF HistoryKept, EndHeld, ReplyWasSaid
<1> QED
  BY <1>3, <1>4, <1>5 DEF LeftInv

\* A rejected output joins the messages; the provider has it already.
LEMMA RetryOutputLeft ==
  ASSUME Inv, ContextInv, LeftInv, RetryOutput
  PROVE  LeftInv'
<1> DEFINE candidate == ItemOf("candidate", retryCount)
           correction == ItemOf("correction", retryCount)
           added == <<candidate, correction>>
<1>1. /\ TakeReply /\ reply.calls = <<>> /\ phase' = "request"
      /\ messages' = messages \o added /\ lostReplies' = lostReplies
      /\ pending' = PendingAfterReply \cup {correction} /\ generated' = generated
  BY DEF RetryOutput, TakeReply
<1>2. /\ candidate \in Item /\ correction \in Item
      /\ candidate.kind = "candidate" /\ correction.kind = "correction"
  BY ItemTypes DEF Inv, TypeOK, Kinds, ItemOf
<1>3. Produced = {candidate}
  BY <1>1 DEF Produced
<1> HIDE DEF candidate, correction
<1>4. added \in Seq(Item) /\ ItemsOf(added) = {candidate, correction}
  BY <1>2 DEF ItemsOf
<1> HIDE DEF added
<1>5. Reported' /\ Local' = Local \cup {candidate, correction}
  <2>1. messages \in Seq(Item) /\ generated \in Seq(Item) /\ Reported
    BY DEF Inv, TypeOK, LeftInv
  <2> QED
    BY <1>1, <1>2, <1>4, <2>1, ReportedGrows
<1>6. HeldWasSaid'
  <2>1. lostReplies \in Nat
    BY DEF Inv, TypeOK
  <2>2. ~Unsure' => lostReplies = 0 \/ ResolvedMode(providerState') # "conversation"
    BY <1>1, <2>1 DEF Unsure
  <2> QED
    BY <1>1, <1>3, <1>5, <2>2, TakenLeft DEF HeldWasSaid
<1>7. HistoryKept' /\ EndHeld' /\ ReplyWasSaid' /\ pending' \subseteq Local'
  BY <1>1, <1>5, TakenLeft DEF HistoryKept, EndHeld, ReplyWasSaid
<1> QED
  BY <1>5, <1>6, <1>7 DEF LeftInv

\* A tool step adds its calls and its outputs to the messages and to the result.
LEMMA ToolStepLeft ==
  ASSUME Inv, ContextInv, LeftInv, BeginToolCalls \/ AcceptToolResults
  PROVE  LeftInv'
<1>1. /\ UNCHANGED <<providerState, responses, conversations, lostReplies>>
      /\ phase \in {"tools", "executing"} /\ phase' \in {"request", "tools", "executing"}
  BY DEF BeginToolCalls, AcceptToolResults, providerVars
<1>2. /\ calls # <<>> /\ TypeOK /\ \A i, j \in DOMAIN calls : calls[i].id = calls[j].id => i = j
  BY <1>1 DEF Inv, ToolsDue, ContextInv, DueCalls
<1>3. /\ Begun \in Seq(Call) /\ CallItems(Begun) \cup CallItems(Remaining) = CallItems(calls)
  BY <1>2, BegunParts
<1>4. Held' = Held /\ Before' = Before /\ (Unsure' <=> Unsure) /\ Ending = CallItems(calls)
  BY <1>1, HeldSame DEF Held, Before, Unsure, Ending
<1>5. messages \in Seq(Item) /\ generated \in Seq(Item) /\ Reported
  BY DEF Inv, TypeOK, LeftInv
<1>6. ASSUME NEW items \in Seq(Item), messages' = messages \o items, generated' = generated \o items,
             Ending \subseteq Ending' \cup Local \cup ItemsOf(items),
             pending' \subseteq pending \cup ItemsOf(items)
      PROVE  LeftInv'
  <2>1. Reported' /\ Local' = Local \cup ItemsOf(items)
    BY <1>5, <1>6, ReportedGrows
  <2>2. HistoryKept' /\ HeldWasSaid'
    BY <1>1, <1>4, <1>6, <2>1 DEF LeftInv, HistoryKept, HeldWasSaid
  <2>3. pending' \subseteq Local'
    BY <1>6, <2>1 DEF LeftInv
  <2> QED
    BY <1>1, <2>1, <2>2, <2>3 DEF LeftInv, ReplyWasSaid, EndHeld
<1>7. CASE BeginToolCalls
  <2>1. /\ messages' = messages \o MapCalls(CallItem, Begun)
        /\ generated' = generated \o MapCalls(CallItem, Begun)
        /\ pending' = pending /\ calls' = calls /\ phase' = "executing"
    BY <1>7 DEF BeginToolCalls
  <2>2. Ending' = Ending
    BY <1>1, <2>1 DEF Ending
  <2>3. MapCalls(CallItem, Begun) \in Seq(Item)
    BY <1>3, BatchItems
  <2> QED
    BY <1>6, <2>1, <2>2, <2>3
<1>8. CASE AcceptToolResults
  <2> DEFINE outputs == MapCalls(OutputItem, Begun)
  <2>1. /\ messages' = messages \o outputs /\ generated' = generated \o outputs
        /\ pending' = pending \cup ItemsOf(outputs) /\ calls' = Remaining /\ phase = "executing"
        /\ phase' = IF Remaining = <<>> THEN "request" ELSE "tools"
    BY <1>8 DEF AcceptToolResults
  <2>2. outputs \in Seq(Item)
    BY <1>3, BatchItems
  <2>3. CallItems(Remaining) \subseteq Ending'
    BY <2>1 DEF Ending, CallItems
  <2>4. CallItems(Begun) \subseteq Local
    <3>1. /\ \A i \in DOMAIN Begun : Begun[i].id \in CallIds(Local)
          /\ \A x \in Local : x = [kind |-> x.kind, id |-> x.id]
      <4>1. CallIds(Local) \ OutputIds(Local) = BatchIds(Begun) /\ Local \subseteq Item
        BY <1>5, <2>1, ItemsOfType DEF ContextInv, LocalCalls, Local
      <4> QED
        BY <4>1 DEF BatchIds, Item
    <3> QED
      BY <3>1 DEF CallIds, CallItems, CallItem, ItemOf
  <2> HIDE DEF outputs
  <2> QED
    BY <1>3, <1>4, <1>6, <2>1, <2>2, <2>3, <2>4
<1> QED
  BY <1>7, <1>8

\* What a run leaves is known in every step: one case per action.
LEMMA LeftPreserved == Inv /\ ContextInv /\ LeftInv /\ [Next]_vars => LeftInv'
<1> SUFFICES ASSUME Inv, ContextInv, LeftInv, [Next]_vars PROVE LeftInv'
  OBVIOUS
<1>1. CASE UNCHANGED vars
  <2>1. /\ UNCHANGED <<phase, providerState, responses, conversations, messages, pending, generated,
                       calls, retryCount, lostReplies, reply>>
    BY <1>1 DEF vars, localVars, providerVars
  <2>2. Held' = Held /\ Local' = Local /\ Before' = Before /\ Ending' = Ending
    BY <2>1, HeldSame DEF Held, Local, Before, Ending
  <2>3. ReplyWasSaid'
    <3>1. NextState' = NextState /\ StateRejected' = StateRejected /\ Produced' = Produced
          /\ Stored(NextState)' = Stored(NextState)
      BY <2>1 DEF NextState, StateRejected, Produced, Stored
    <3> QED
      BY <2>1, <2>2, <3>1 DEF LeftInv, ReplyWasSaid
  <2> QED
    BY <2>1, <2>2, <2>3 DEF LeftInv, HistoryKept, HeldWasSaid, EndHeld, Reported, Unsure
<1>2. CASE NextRequest \/ ReplyLost
  <2>1. /\ UNCHANGED <<providerState, responses, conversations, messages, pending, generated>>
        /\ phase' = "model" /\ phase \in {"request", "replied"}
    BY <1>2 DEF NextRequest, ReplyLost, localVars, providerVars
  <2>2. lostReplies > 0 \/ phase = "replied" => lostReplies' > 0
    <3>1. lostReplies \in Nat
      BY DEF Inv, TypeOK
    <3>2. CASE NextRequest
      BY <3>2 DEF NextRequest
    <3>3. CASE ReplyLost
      BY <3>1, <3>3 DEF ReplyLost
    <3> QED
      BY <1>2, <3>2, <3>3
  <2>3. Ending = {} /\ (Unsure => Unsure')
    BY <2>1, <2>2 DEF Ending, Unsure
  <2> QED
    BY <2>1, <2>3, QuietLeft
<1>3. CASE Suspend
  <2>1. /\ UNCHANGED <<providerState, responses, conversations, messages, pending, generated, calls,
                       lostReplies>>
        /\ phase' = "suspended" /\ phase = "executing"
    BY <1>3 DEF Suspend, localVars, providerVars
  <2>2. Ending' = Ending /\ (Unsure => Unsure')
    BY <2>1 DEF Ending, Unsure
  <2> QED
    BY <2>1, <2>2, QuietLeft
<1>4. CASE Fail
  <2>1. /\ UNCHANGED <<providerState, responses, conversations, messages, pending, generated>>
        /\ phase' = "failed"
    BY <1>4 DEF Fail, localVars, providerVars
  <2> QED
    BY <2>1, QuietLeft
<1>5. ASSUME NEW names \in NameLists, NEW repeatsId \in BOOLEAN, NEW state \in ReplyStates,
             ProviderAnswers(Batch(names, repeatsId), state)
      PROVE  LeftInv'
  BY <1>5, ProviderAnswersLeft
<1> QED
  BY <1>1, <1>2, <1>3, <1>4, <1>5, AcceptedLeft, RetryOutputLeft, ToolStepLeft
  DEF Next, Step, Stop

\* Whoever takes up a run that is over, by the provider state or by the messages it
\* left, has the whole conversation and nothing else, and the result has every call.
THEOREM ContinuationIsWhole == Spec => []ContinuationWhole
<1>1. Inv /\ ContextInv /\ LeftInv => ContinuationWhole
  <2> SUFFICES ASSUME Inv, ContextInv, LeftInv, phase \in {"done", "handed_off", "suspended"}
               PROVE  /\ IF HasRemoteState(providerState)
                         THEN /\ Said \subseteq Held
                              /\ ~Ambiguous => Held \subseteq Said
                         ELSE Before \subseteq Local
                      /\ Reported
    BY DEF ContinuationWhole, Before, Held, Local, Reported
  <2>1. Said = Before \cup Spoken(Local) \cup Ending
    <3>1. ItemsOf(MapCalls(CallItem, calls)) = CallItems(calls)
      BY BatchParts DEF Inv, TypeOK
    <3> QED
      BY <3>1 DEF Said, Before, Spoken, Local, Ending
  <2>2. /\ HasRemoteState(providerState) => Before \subseteq Held
        /\ ~HasRemoteState(providerState) => Before \subseteq Local
        /\ Reported
    BY DEF LeftInv, HistoryKept
  <2>3. ASSUME HasRemoteState(providerState) PROVE Spoken(Local) \cup Ending \subseteq Held
    <3>1. CASE phase = "suspended"
      <4>1. /\ Spoken(Local) \subseteq Held \cup pending /\ CallItems(calls) \subseteq Held
            /\ pending = {}
        BY <2>3, <3>1 DEF ContextInv, Synced, DueCalls
      <4> QED
        BY <3>1, <4>1 DEF Ending
    <3> QED
      BY <2>3, <3>1 DEF LeftInv, EndHeld
  <2>4. ASSUME HasRemoteState(providerState), ~Ambiguous PROVE Held \subseteq Said
    <3>1. Held \subseteq Before \cup Local \cup Ending
      BY <2>4 DEF LeftInv, HeldWasSaid, Unsure, Ambiguous, Inv, TypeOK
    <3>2. Instructional(Held) = {}
      BY HeldIn DEF ContextInv
    <3> QED
      BY <2>1, <3>1, <3>2 DEF Spoken, Instructional
  <2> QED
    BY <2>1, <2>2, <2>3, <2>4
<1>2. Inv /\ ContextInv /\ LeftInv /\ [Next]_vars => LeftInv'
  BY LeftPreserved
<1>3. Spec => []LeftInv
  BY InitLeft, Invariance, ContextInvariance, <1>2, PTL DEF Spec
<1> QED
  BY Invariance, ContextInvariance, <1>1, <1>3, PTL

=============================================================================
