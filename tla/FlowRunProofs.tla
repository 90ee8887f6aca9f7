---------------------------- MODULE FlowRunProofs ----------------------------
(* Proofs about FlowRun, for every set of agents, every host and every       *)
(* number of turns: what a turn, a handoff and a resume are given is the     *)
(* conversation, and what the host keeps of it is enough to go on.           *)
EXTENDS FlowRun, SequenceTheorems, TLAPS

USE FlowAssumption

\* A host with a session keeps the items of the FlowResult after a resume.
ResultsKept == ~SaveCompletedState \/ Hosts \subseteq {"chain"}

-----------------------------------------------------------------------------
(* The inductive invariant.                                                 *)

\* Items that are sent once get numbers the conversation does not have yet.
SentOnce == {"input", "output", "handoff_output"}
Numbered(items) == \A x \in ItemsOf(items) : x.kind \in SentOnce => x.id <= Len(items)

\* A model that returns no response ids leaves no trace of one.
LocalOnly ==
  ~remote => /\ ~KeepState /\ ~cut /\ providerState = 0
             /\ continuation.state = 0 /\ persisted.state = 0 /\ ~persisted.chained

\* What the host keeps between turns is the conversation of the turns that ended well.
Committed ==
  /\ phase = "idle" => ledger = committed
  /\ ItemsOf(committed) \subseteq ItemsOf(ledger)
  /\ Numbered(committed)
  /\ UseSession /\ ~cut => session = committed
  /\ KeepState /\ continuation.state = 0 => committed = <<>> /\ session = <<>>
  /\ KeepState /\ continuation.state # 0 => Stored(continuation.state) = ItemsOf(committed)

\* What a run resumed from a snapshot without what the provider held adds to the
\* session is not the conversation.
RunWhole == UseSession /\ ~cut /\ ~(resumed /\ persisted.chained)

\* What the active agent and the flow know of the conversation while it runs.
RunSees ==
  phase = "running" =>
    /\ ~Lost /\ providerState = 0 => agentInput = ledger
    /\ ~Lost /\ providerState # 0 =>
         /\ Stored(providerState) \cup ItemsOf(agentInput) = ItemsOf(ledger)
         /\ Stored(providerState) \cap ItemsOf(agentInput) = {}
    /\ ~remote => conversation = ledger
    /\ RunWhole => inputItems \o generated = ledger
    /\ providerState = 0 => ItemsOf(session) \subseteq ItemsOf(agentInput)

\* The flow's own agent waits for its own tool, which has not run.
Waiting == phase = "suspended" /\ ~executed /\ persisted.owner = persisted.agent

\* What resume will be given is the conversation up to the call.
WaitingSees ==
  Waiting =>
    /\ persisted.call <= Len(ledger) + 1
    /\ ItemOf("output", persisted.call) \notin ItemsOf(ledger)
    /\ remote => persisted.state # 0
    /\ ~Lost /\ remote => Stored(persisted.state) = ItemsOf(ledger)
    /\ ~Lost /\ ~persisted.chained => persisted.snapshot = ledger

\* The snapshot outlives the resume that fails after the tool has run.
SnapshotHeld ==
  /\ ~persisted.chained /\ persisted.owner = persisted.agent
  /\ phase = "suspended" \/ (phase = "running" /\ resumed)
  => ItemsOf(session) \subseteq ItemsOf(persisted.snapshot)

\* A suspended call whose run has failed after it is not waiting any more.
ResumedOnce == phase = "running" /\ resumed => executed

FlowInv ==
  /\ TypeOK /\ Numbered(ledger) /\ LocalOnly /\ Committed
  /\ RunSees /\ WaitingSees /\ SnapshotHeld /\ ResumedOnce

-----------------------------------------------------------------------------
(* Types, items, sequences of them, and what the provider keeps.            *)

\* TypeOK in four parts.
ItemTypes ==
  /\ session \in Seq(Item) /\ inputItems \in Seq(Item) /\ conversation \in Seq(Item)
  /\ agentInput \in Seq(Item) /\ generated \in Seq(Item)
  /\ ledger \in Seq(Item) /\ committed \in Seq(Item)
ControlTypes ==
  /\ host \in Hosts /\ phase \in {"idle", "running", "suspended"}
  /\ agent \in Agents /\ handoffs \in 0..MaxHandoffs
  /\ decision \in {"none", "executed", "refused", "rejected"} /\ turns \in 0..MaxTurns
FlagTypes ==
  /\ executed \in BOOLEAN /\ resumed \in BOOLEAN /\ remote \in BOOLEAN /\ cut \in BOOLEAN
Continuations(n) == [agent: Agents, state: 0..n]
Suspensions(n) == [agent: Agents, owner: Agents, call: Nat, state: 0..n,
                   snapshot: Seq(Item), chained: BOOLEAN]
StateTypes ==
  /\ contexts \in Seq(SUBSET Item) /\ providerState \in 0..Len(contexts)
  /\ continuation \in Continuations(Len(contexts)) /\ persisted \in Suspensions(Len(contexts))

\* The four parts are TypeOK, before a step and after it.
LEMMA TypeParts ==
  /\ TypeOK <=> ItemTypes /\ ControlTypes /\ FlagTypes /\ StateTypes
  /\ TypeOK' <=> ItemTypes' /\ ControlTypes' /\ FlagTypes' /\ StateTypes'
<1>1. TypeOK <=> ItemTypes /\ ControlTypes /\ FlagTypes /\ StateTypes
  BY Zenon DEF TypeOK, ItemTypes, ControlTypes, FlagTypes, StateTypes, Continuations, Suspensions
<1>2. TypeOK' <=> ItemTypes' /\ ControlTypes' /\ FlagTypes' /\ StateTypes'
  BY Zenon DEF TypeOK, ItemTypes, ControlTypes, FlagTypes, StateTypes, Continuations, Suspensions
<1> QED
  BY <1>1, <1>2

\* A provider state stays one while the provider stores more.
LEMMA StatesGrow ==
  ASSUME NEW n \in Nat, NEW m \in Nat, n <= m
  PROVE  Continuations(n) \subseteq Continuations(m) /\ Suspensions(n) \subseteq Suspensions(m)
BY DEF Continuations, Suspensions

\* An item made of a kind and a number.
LEMMA ItemParts ==
  ASSUME NEW kind \in Kinds, NEW id \in Nat
  PROVE  /\ ItemOf(kind, id) \in Item /\ <<ItemOf(kind, id)>> \in Seq(Item)
         /\ ItemOf(kind, id).kind = kind /\ ItemOf(kind, id).id = id
         /\ ItemsOf(<<ItemOf(kind, id)>>) = {ItemOf(kind, id)}
         /\ Len(<<ItemOf(kind, id)>>) = 1
<1>1. ItemOf(kind, id) \in Item /\ ItemOf(kind, id).kind = kind /\ ItemOf(kind, id).id = id
  BY DEF ItemOf, Item
<1>2. \A x : ItemsOf(<<x>>) = {x} /\ Len(<<x>>) = 1 /\ (x \in Item => <<x>> \in Seq(Item))
  BY DEF ItemsOf
<1> QED
  BY <1>1, <1>2

\* A call and its output.
LEMMA CallParts ==
  ASSUME NEW id \in Nat
  PROVE  /\ ItemOf("call", id) \in Item /\ ItemOf("call", id).kind = "call"
         /\ ItemOf("output", id).kind = "output" /\ ItemOf("output", id).id = id
BY DEF ItemOf, Item, Kinds

\* Two sequences of items, one after the other.
LEMMA Joined ==
  ASSUME NEW s \in Seq(Item), NEW t \in Seq(Item)
  PROVE  /\ s \o t \in Seq(Item) /\ Len(s \o t) = Len(s) + Len(t)
         /\ Len(s) \in Nat /\ Len(t) \in Nat
         /\ ItemsOf(s \o t) = ItemsOf(s) \cup ItemsOf(t)
         /\ ItemsOf(s) \subseteq Item /\ ItemsOf(t) \subseteq Item
<1> DEFINE u == s \o t
<1>1. /\ Len(s) \in Nat /\ Len(t) \in Nat /\ DOMAIN s = 1..Len(s) /\ DOMAIN t = 1..Len(t)
      /\ u \in Seq(Item) /\ Len(u) = Len(s) + Len(t) /\ DOMAIN u = 1..(Len(s) + Len(t))
      /\ \A i \in 1..(Len(s) + Len(t)) : u[i] = IF i <= Len(s) THEN s[i] ELSE t[i - Len(s)]
  BY ConcatProperties, LenProperties
<1> HIDE DEF u
<1>2. \A i \in DOMAIN u : u[i] \in ItemsOf(s) \cup ItemsOf(t)
  <2>1. \A i \in 1..(Len(s) + Len(t)) : i \in 1..Len(s) \/ i - Len(s) \in 1..Len(t)
    BY <1>1
  <2> QED
    BY <1>1, <2>1, SMTT(30) DEF ItemsOf
<1>3. \A i \in DOMAIN s : i \in DOMAIN u /\ u[i] = s[i]
  BY <1>1
<1>4. \A i \in DOMAIN t : Len(s) + i \in DOMAIN u /\ u[Len(s) + i] = t[i]
  BY <1>1
<1>5. ItemsOf(u) = ItemsOf(s) \cup ItemsOf(t)
  BY <1>2, <1>3, <1>4 DEF ItemsOf
<1>6. ItemsOf(s) \subseteq Item /\ ItemsOf(t) \subseteq Item
  BY DEF ItemsOf
<1> QED
  BY <1>1, <1>5, <1>6 DEF u

\* Concatenation of three.
LEMMA Associates ==
  ASSUME NEW s \in Seq(Item), NEW t \in Seq(Item), NEW u \in Seq(Item)
  PROVE  (s \o t) \o u = s \o (t \o u)
BY ConcatAssociative

\* A pair of items is one after the other.
LEMMA PairJoined ==
  ASSUME NEW x \in Item, NEW y \in Item
  PROVE  <<x, y>> = <<x>> \o <<y>>
<1>1. <<x>> \in Seq(Item)
  OBVIOUS
<1>2. Append(<<x>>, y) = <<x, y>>
  <2> DEFINE s == Append(<<x>>, y)
             t == <<x, y>>
  <2>1. t \in Seq(Item) /\ Len(t) = 2 /\ t[1] = x /\ t[2] = y
    OBVIOUS
  <2>2. s \in Seq(Item) /\ Len(s) = 2 /\ s[1] = x /\ s[2] = y
    BY <1>1, AppendProperties
  <2> HIDE DEF s, t
  <2>3. \A i \in 1..Len(s) : s[i] = t[i]
    BY <2>1, <2>2
  <2>4. s = t
    BY <2>1, <2>2, <2>3, SeqEqual, Zenon
  <2> QED
    BY <2>4 DEF s, t
<1>3. Append(<<x>>, y) = <<x>> \o <<y>>
  BY <1>1, AppendIsConcat
<1> QED
  BY <1>2, <1>3

\* The conversation grows by items that are numbered past it.
LEMMA NumberedGrows ==
  ASSUME NEW s \in Seq(Item), NEW t \in Seq(Item), Numbered(s),
         \A x \in ItemsOf(t) : x.kind \in SentOnce => x.id <= Len(s) + Len(t)
  PROVE  Numbered(s \o t)
<1>1. /\ Len(s \o t) = Len(s) + Len(t) /\ Len(s) \in Nat /\ Len(t) \in Nat
      /\ ItemsOf(s \o t) = ItemsOf(s) \cup ItemsOf(t) /\ ItemsOf(s) \subseteq Item
  BY Joined
<1>2. \A x \in ItemsOf(s) : x.kind \in SentOnce => x.id <= Len(s) + Len(t)
  BY <1>1 DEF Numbered, Item
<1> QED
  BY <1>1, <1>2 DEF Numbered

\* The tool calls an agent makes and answers are new.
LEMMA WorkParts ==
  ASSUME TypeOK, NEW work \in Work
  PROVE  /\ work \in Seq(Item) /\ Len(work) \in {0, 2} /\ (Len(work) = 0 => ItemsOf(work) = {})
         /\ \A x \in ItemsOf(work) : x.kind \in {"call", "output"} /\ x.id = NextId
         /\ NextId = Len(ledger) + 1 /\ Len(ledger) \in Nat
<1>1. NextId \in Nat /\ Len(ledger) \in Nat /\ NextId = Len(ledger) + 1
  BY DEF TypeOK, NextId
<1> DEFINE c == ItemOf("call", NextId)
           o == ItemOf("output", NextId)
<1>2. /\ c \in Item /\ o \in Item /\ c.kind = "call" /\ o.kind = "output"
      /\ c.id = NextId /\ o.id = NextId
  BY <1>1, ItemParts DEF Kinds
<1>3. work = <<>> \/ work = <<c, o>>
  BY DEF Work
<1> HIDE DEF c, o
<1>4. /\ <<>> \in Seq(Item) /\ Len(<<>>) = 0 /\ ItemsOf(<<>>) = {}
      /\ <<c, o>> \in Seq(Item) /\ Len(<<c, o>>) = 2 /\ ItemsOf(<<c, o>>) = {c, o}
  BY <1>2 DEF ItemsOf
<1>5. CASE work = <<>>
  BY <1>1, <1>4, <1>5
<1>6. CASE work = <<c, o>>
  <2>1. ItemsOf(work) = {c, o} /\ work \in Seq(Item) /\ Len(work) = 2
    BY <1>4, <1>6
  <2> QED
    BY <1>1, <1>2, <2>1
<1> QED
  BY <1>3, <1>5, <1>6

\* What the provider holds after a response, and behind which id.
LEMMA ContextsKept ==
  ASSUME TypeOK, NEW items \in Seq(Item), ProviderKeeps(items)
  PROVE  /\ contexts' \in Seq(SUBSET Item) /\ Len(contexts) <= Len(contexts')
         /\ Len(contexts) \in Nat /\ Len(contexts') \in Nat
         /\ \A s \in 1..Len(contexts) : contexts'[s] = contexts[s]
         /\ StateAfter \in 0..Len(contexts')
         /\ StateAfter = 0 <=> providerState = 0 /\ ~remote
         /\ StateAfter # 0 =>
              contexts'[StateAfter] = Stored(providerState) \cup ItemsOf(agentInput) \cup ItemsOf(items)
<1> DEFINE held == Stored(providerState) \cup ItemsOf(agentInput) \cup ItemsOf(items)
<1>1. contexts \in Seq(SUBSET Item) /\ Len(contexts) \in Nat /\ providerState \in 0..Len(contexts)
  BY DEF TypeOK
<1>2. held \subseteq Item
  <2>1. Stored(providerState) \subseteq Item
    BY <1>1, ElementOfSeq DEF Stored
  <2>2. ItemsOf(agentInput) \subseteq Item /\ ItemsOf(items) \subseteq Item
    BY Joined DEF TypeOK
  <2> QED
    BY <2>1, <2>2
<1>3. CASE providerState = 0 /\ ~remote
  BY <1>1, <1>3 DEF ProviderKeeps, StateAfter
<1>4. CASE ~(providerState = 0 /\ ~remote)
  <2>1. contexts' = Append(contexts, held) /\ StateAfter = Len(contexts) + 1
    BY <1>4 DEF ProviderKeeps, StateAfter
  <2> HIDE DEF held
  <2>2. /\ contexts' \in Seq(SUBSET Item) /\ Len(contexts') = Len(contexts) + 1
        /\ contexts'[Len(contexts) + 1] = held
        /\ \A s \in 1..Len(contexts) : contexts'[s] = contexts[s]
    BY <1>1, <1>2, <2>1
  <2> QED
    BY <1>1, <1>4, <2>1, <2>2 DEF held
<1> QED
  BY <1>3, <1>4

\* What the provider has stored stays where it is.
ContextsGrow ==
  /\ contexts' \in Seq(SUBSET Item) /\ Len(contexts') \in Nat /\ Len(contexts) <= Len(contexts')
  /\ \A s \in 1..Len(contexts) : contexts'[s] = contexts[s]

\* A response id stands for the same items before and after.
LEMMA StoredKept ==
  ASSUME TypeOK, ContextsGrow
  PROVE  /\ Len(contexts) \in Nat /\ 0..Len(contexts) \subseteq 0..Len(contexts')
         /\ continuation \in Continuations(Len(contexts'))
         /\ persisted \in Suspensions(Len(contexts'))
         /\ continuation' = continuation =>
              Stored(continuation.state)' = Stored(continuation.state)
<1>1. StateTypes
  BY TypeParts
<1>2. Len(contexts) \in Nat /\ continuation.state \in 0..Len(contexts)
  BY <1>1 DEF StateTypes, Continuations
<1>3. /\ Continuations(Len(contexts)) \subseteq Continuations(Len(contexts'))
      /\ Suspensions(Len(contexts)) \subseteq Suspensions(Len(contexts'))
  BY <1>2, StatesGrow DEF ContextsGrow
<1>4. 0..Len(contexts) \subseteq 0..Len(contexts')
  BY <1>2 DEF ContextsGrow
<1>5. ASSUME continuation' = continuation
      PROVE  Stored(continuation.state)' = Stored(continuation.state)
  <2>1. CASE continuation.state = 0
    BY <1>5, <2>1 DEF Stored
  <2>2. CASE continuation.state # 0
    <3>1. continuation.state \in 1..Len(contexts)
      BY <1>2, <2>2
    <3> QED
      BY <1>5, <2>2, <3>1 DEF Stored, ContextsGrow
  <2> QED
    BY <2>1, <2>2
<1> QED
  BY <1>1, <1>2, <1>3, <1>4, <1>5 DEF StateTypes

\* What an agent says last, after the calls it made and answered.
LEMMA LastWords ==
  ASSUME TypeOK, NEW work \in Work, NEW kind \in Kinds \ SentOnce
  PROVE  LET item == ItemOf(kind, NextId + 1)
             said == work \o <<item>>
         IN  /\ said \in Seq(Item) /\ ItemsOf(said) = ItemsOf(work) \cup {item}
             /\ Len(said) = Len(work) + 1 /\ Len(work) \in {0, 2}
             /\ item \in Item /\ item.kind = kind /\ item.id = Len(ledger) + 2
             /\ \A x \in ItemsOf(said) : x.kind \in SentOnce => x.id <= Len(ledger) + Len(said)
             /\ \A s \in Seq(Item) : (s \o work) \o <<item>> = s \o said
<1> DEFINE item == ItemOf(kind, NextId + 1)
           said == work \o <<item>>
<1>1. /\ work \in Seq(Item) /\ Len(work) \in {0, 2} /\ (Len(work) = 0 => ItemsOf(work) = {})
      /\ \A x \in ItemsOf(work) : x.kind \in {"call", "output"} /\ x.id = NextId
      /\ NextId = Len(ledger) + 1 /\ Len(ledger) \in Nat
  BY WorkParts
<1>2. /\ item \in Item /\ <<item>> \in Seq(Item) /\ item.kind = kind /\ item.id = Len(ledger) + 2
      /\ ItemsOf(<<item>>) = {item} /\ Len(<<item>>) = 1
  <2>1. NextId + 1 \in Nat /\ NextId + 1 = Len(ledger) + 2
    BY <1>1
  <2> QED
    BY <2>1, ItemParts
<1> HIDE DEF item
<1>3. said \in Seq(Item) /\ ItemsOf(said) = ItemsOf(work) \cup {item} /\ Len(said) = Len(work) + 1
  BY <1>1, <1>2, Joined
<1>4. \A s \in Seq(Item) : (s \o work) \o <<item>> = s \o said
  BY <1>1, <1>2, Associates
<1>5. \A x \in ItemsOf(work) : x.kind \in SentOnce => x.id <= Len(ledger) + Len(said)
  <2>1. CASE Len(work) = 0
    BY <1>1, <2>1
  <2>2. CASE Len(work) = 2
    <3>1. Len(said) = 3
      BY <1>3, <2>2
    <3> QED
      BY <1>1, <3>1
  <2> QED
    BY <1>1, <2>1, <2>2
<1> HIDE DEF said
<1>6. \A x \in ItemsOf(said) : x.kind \in SentOnce => x.id <= Len(ledger) + Len(said)
  BY <1>2, <1>3, <1>5
<1>7. /\ said \in Seq(Item) /\ ItemsOf(said) = ItemsOf(work) \cup {item}
      /\ Len(said) = Len(work) + 1 /\ Len(work) \in {0, 2}
      /\ item \in Item /\ item.kind = kind /\ item.id = Len(ledger) + 2
  BY <1>1, <1>2, <1>3
<1> QED
  BY <1>4, <1>6, <1>7 DEF item, said

-----------------------------------------------------------------------------
(* Types, action by action.                                                 *)

\* A run starts with items and a state of the provider.
LEMMA StartRunTypes ==
  ASSUME TypeOK, NEW name \in Agents, NEW history \in Seq(Item), NEW item \in Item,
         NEW state \in 0..Len(contexts), StartRun(name, history, <<item>>, state),
         UNCHANGED <<hostVars, contexts, persisted, committed>>,
         decision' \in {"none", "executed"}, turns' \in 0..MaxTurns,
         executed' \in BOOLEAN, resumed' \in BOOLEAN
  PROVE  TypeOK'
<1>1. /\ agent' = name /\ handoffs' = 0 /\ providerState' = state
      /\ inputItems' = history \o <<item>> /\ conversation' = history \o <<item>>
      /\ agentInput' = IF state # 0 THEN <<item>> ELSE history \o <<item>>
      /\ generated' = <<>> /\ ledger' = ledger \o <<item>> /\ phase' = "running"
  BY DEF StartRun, InitialAgentInput
<1>2. ItemTypes /\ ControlTypes /\ StateTypes
  BY TypeParts
<1>3. <<>> \in Seq(Item) /\ <<item>> \in Seq(Item) /\ history \o <<item>> \in Seq(Item)
  OBVIOUS
<1>4. ledger \o <<item>> \in Seq(Item)
  BY <1>2, <1>3, Joined DEF ItemTypes
<1>5. ItemTypes'
  BY <1>1, <1>2, <1>3, <1>4 DEF ItemTypes, hostVars
<1>6. ControlTypes'
  BY <1>1, <1>2 DEF ControlTypes, hostVars
<1>7. FlagTypes'
  BY TypeParts, Zenon DEF FlagTypes, hostVars
<1>8. StateTypes'
  BY <1>1, <1>2 DEF StateTypes, hostVars
<1> QED
  BY <1>5, <1>6, <1>7, <1>8, TypeParts

\* A turn starts with what the host keeps.
LEMMA HostStartsTurnTypes == TypeOK /\ HostStartsTurn => TypeOK'
<1> SUFFICES ASSUME TypeOK, HostStartsTurn PROVE TypeOK'
  OBVIOUS
<1> DEFINE input == ItemOf("input", NextId)
           state == IF KeepState THEN continuation.state ELSE 0
<1>1. PICK name \in {Entrypoint, continuation.agent} : StartRun(name, session, <<input>>, state)
  BY DEF HostStartsTurn
<1>2. /\ turns < MaxTurns /\ turns' = turns + 1 /\ resumed' = FALSE /\ decision' = "none"
      /\ UNCHANGED <<hostVars, contexts, persisted, executed, committed>>
  BY DEF HostStartsTurn
<1>3. name \in Agents /\ state \in 0..Len(contexts) /\ session \in Seq(Item)
  BY DEF TypeOK
<1>4. input \in Item
  <2>1. NextId \in Nat
    BY DEF TypeOK, NextId
  <2> QED
    BY <2>1, ItemParts DEF Kinds
<1> HIDE DEF input, state
<1>5. turns' \in 0..MaxTurns
  BY <1>2, TypeParts DEF ControlTypes
<1>6. executed' \in BOOLEAN /\ resumed' \in BOOLEAN
  BY <1>2, TypeParts, Zenon DEF FlagTypes
<1> QED
  BY <1>1, <1>2, <1>3, <1>4, <1>5, <1>6, StartRunTypes

\* A resume starts with what was persisted.
LEMMA ResumeTypes == TypeOK /\ Resume => TypeOK'
<1> SUFFICES ASSUME TypeOK, Resume PROVE TypeOK'
  OBVIOUS
<1> DEFINE output == ItemOf("output", persisted.call)
<1>1. /\ executed' = TRUE /\ decision' = "executed" /\ resumed' = TRUE
      /\ StartRun(persisted.agent, persisted.snapshot, <<output>>, persisted.state)
      /\ UNCHANGED <<hostVars, contexts, persisted, committed, turns>>
  BY DEF Resume
<1>2. /\ persisted.agent \in Agents /\ persisted.state \in 0..Len(contexts)
      /\ persisted.snapshot \in Seq(Item) /\ persisted.call \in Nat
  BY DEF TypeOK
<1>3. output \in Item
  BY <1>2, ItemParts DEF Kinds
<1> HIDE DEF output
<1>4. turns' \in 0..MaxTurns
  BY <1>1, TypeParts DEF ControlTypes
<1> QED
  BY <1>1, <1>2, <1>3, <1>4, StartRunTypes

\* When an agent speaks the provider's states remain states.
LEMMA SpeakingTypes ==
  ASSUME TypeOK, NEW items \in Seq(Item), ProviderKeeps(items)
  PROVE  /\ ContextsGrow /\ StateAfter \in 0..Len(contexts')
         /\ providerState \in 0..Len(contexts')
         /\ continuation \in Continuations(Len(contexts'))
         /\ persisted \in Suspensions(Len(contexts'))
         /\ NotSuspended \in Suspensions(Len(contexts'))
         /\ \A name \in Agents : [agent |-> name, state |-> StateAfter] \in Continuations(Len(contexts'))
<1>1. ContextsGrow /\ StateAfter \in 0..Len(contexts')
  BY ContextsKept DEF ContextsGrow
<1>2. /\ 0..Len(contexts) \subseteq 0..Len(contexts')
      /\ continuation \in Continuations(Len(contexts'))
      /\ persisted \in Suspensions(Len(contexts'))
  BY <1>1, StoredKept
<1>3. providerState \in 0..Len(contexts) /\ Entrypoint \in Agents
  BY TypeParts DEF StateTypes, FlowAssumption
<1>4. 0 \in 0..Len(contexts')
  BY <1>1 DEF ContextsGrow
<1>5. NotSuspended \in Suspensions(Len(contexts'))
  BY <1>3, <1>4 DEF Suspensions, NotSuspended
<1>6. \A name \in Agents : [agent |-> name, state |-> StateAfter] \in Continuations(Len(contexts'))
  BY <1>1 DEF Continuations
<1> QED
  BY <1>1, <1>2, <1>3, <1>5, <1>6

\* A handoff.
LEMMA HandOffTypes ==
  ASSUME TypeOK, NEW work \in Work, NEW target \in Agents, HandOff(work, target)
  PROVE  TypeOK'
<1> DEFINE call == ItemOf("handoff_call", NextId + 1)
           ack == ItemOf("handoff_output", NextId + 1)
           items == work \o <<call, ack>>
<1>1. /\ phase = "running" /\ handoffs < MaxHandoffs /\ ProviderKeeps(work \o <<call>>)
      /\ providerState' = StateAfter /\ conversation' = conversation \o items
      /\ generated' = generated \o items /\ agent' = target /\ handoffs' = handoffs + 1
      /\ agentInput' = IF StateAfter # 0 THEN <<items[Len(items)]>> ELSE conversation \o items
      /\ ledger' = ledger \o items
      /\ UNCHANGED <<phase, hostVars, inputItems, persisted, executed, decision,
                     resumed, committed, turns>>
  BY DEF HandOff, HandoffLeft, HandoffInput
<1>2. ItemTypes /\ ControlTypes /\ FlagTypes /\ StateTypes
  BY TypeParts
<1>3. work \in Seq(Item) /\ Len(work) \in {0, 2} /\ NextId + 1 \in Nat
  <2>1. work \in Seq(Item) /\ Len(work) \in {0, 2} /\ NextId = Len(ledger) + 1 /\ Len(ledger) \in Nat
    BY WorkParts
  <2> QED
    BY <2>1
<1>4. call \in Item /\ ack \in Item
  BY <1>3, ItemParts DEF Kinds
<1> HIDE DEF call, ack
<1>5. /\ <<call, ack>> \in Seq(Item) /\ Len(<<call, ack>>) = 2
      /\ <<call>> \in Seq(Item)
  BY <1>4
<1>6. items \in Seq(Item) /\ Len(items) = Len(work) + 2 /\ work \o <<call>> \in Seq(Item)
  BY <1>3, <1>5, Joined
<1> HIDE DEF items
<1>7. items[Len(items)] \in Item
  <2>1. Len(items) \in 1..Len(items)
    BY <1>3, <1>6
  <2> QED
    BY <1>6, <2>1, ElementOfSeq
<1>8. /\ conversation \o items \in Seq(Item) /\ generated \o items \in Seq(Item)
      /\ ledger \o items \in Seq(Item) /\ <<items[Len(items)]>> \in Seq(Item)
  <2>1. <<items[Len(items)]>> \in Seq(Item)
    BY <1>7
  <2> QED
    BY <1>2, <1>6, <2>1, Joined DEF ItemTypes
<1>9. ItemTypes'
  BY <1>1, <1>2, <1>8 DEF ItemTypes, hostVars
<1>10. ControlTypes'
  <2>1. handoffs + 1 \in 0..MaxHandoffs
    BY <1>1, <1>2 DEF ControlTypes
  <2> QED
    BY <1>1, <1>2, <2>1 DEF ControlTypes, hostVars
<1>11. FlagTypes'
  BY <1>1, <1>2, Zenon DEF FlagTypes, hostVars
<1>12. StateTypes'
  <2>1. /\ ContextsGrow /\ StateAfter \in 0..Len(contexts')
        /\ continuation \in Continuations(Len(contexts'))
        /\ persisted \in Suspensions(Len(contexts'))
    BY <1>1, <1>6, SpeakingTypes
  <2> QED
    BY <1>1, <2>1 DEF StateTypes, ContextsGrow, hostVars
<1> QED
  BY <1>9, <1>10, <1>11, <1>12, TypeParts

\* A turn that ends well.
LEMMA FinishTypes ==
  ASSUME TypeOK, NEW work \in Work, Finish(work)
  PROVE  TypeOK'
<1> DEFINE answer == ItemOf("answer", NextId + 1)
           said == work \o <<answer>>
           output == (generated \o work) \o <<answer>>
<1>1. /\ ProviderKeeps(said)
      /\ session' = IF ~UseSession THEN <<>>
                    ELSE IF resumed /\ SaveCompletedState THEN persisted.snapshot \o output
                    ELSE inputItems \o output
      /\ continuation' = [agent |-> agent, state |-> StateAfter]
      /\ ledger' = (ledger \o work) \o <<answer>> /\ committed' = ledger'
      /\ host' = host /\ remote' = remote
      /\ cut' = (cut \/ (UseSession /\ resumed /\ persisted.chained))
      /\ persisted' = NotSuspended /\ phase' = "idle"
      /\ UNCHANGED <<runVars, executed, decision, resumed, turns>>
  BY DEF Finish, SavedItems, OutputItems
<1>2. ItemTypes /\ ControlTypes /\ FlagTypes /\ StateTypes
  BY TypeParts
<1>3. said \in Seq(Item) /\ \A s \in Seq(Item) : (s \o work) \o <<answer>> = s \o said
  BY LastWords DEF Kinds, SentOnce
<1> HIDE DEF answer, said
<1>4. ledger' = ledger \o said /\ output = generated \o said
  BY <1>1, <1>2, <1>3 DEF ItemTypes
<1>5. ledger' \in Seq(Item) /\ output \in Seq(Item)
  BY <1>2, <1>3, <1>4, Joined DEF ItemTypes
<1> HIDE DEF output
<1>6. session' \in Seq(Item)
  <2>1. inputItems \in Seq(Item) /\ persisted.snapshot \in Seq(Item)
    BY <1>2 DEF ItemTypes, StateTypes, Suspensions
  <2>2. inputItems \o output \in Seq(Item) /\ persisted.snapshot \o output \in Seq(Item)
    BY <1>5, <2>1, Joined
  <2>3. <<>> \in Seq(Item)
    OBVIOUS
  <2> QED
    BY <1>1, <2>2, <2>3
<1>7. ItemTypes'
  BY <1>1, <1>2, <1>5, <1>6 DEF ItemTypes, runVars
<1>8. ControlTypes'
  BY <1>1, <1>2 DEF ControlTypes, runVars
<1>9. FlagTypes'
  BY <1>1, <1>2, Zenon DEF FlagTypes, runVars
<1>10. StateTypes'
  <2>1. agent \in Agents
    BY <1>2 DEF ControlTypes
  <2>2. /\ ContextsGrow /\ providerState \in 0..Len(contexts')
        /\ NotSuspended \in Suspensions(Len(contexts'))
        /\ [agent |-> agent, state |-> StateAfter] \in Continuations(Len(contexts'))
    BY <1>1, <1>3, <2>1, SpeakingTypes
  <2> QED
    BY <1>1, <2>2 DEF StateTypes, ContextsGrow, runVars
<1> QED
  BY <1>7, <1>8, <1>9, <1>10, TypeParts

\* The approval request of the flow's active agent.
LEMMA SuspendTypes ==
  ASSUME TypeOK, NEW work \in Work, Suspend(work)
  PROVE  TypeOK'
<1> DEFINE call == ItemOf("call", NextId + 1)
           said == work \o <<call>>
<1>1. /\ ProviderKeeps(said)
      /\ persisted' = [agent |-> agent, owner |-> agent, call |-> call.id,
                       state |-> StateAfter, snapshot |-> (agentInput \o work) \o <<call>>,
                       chained |-> providerState # 0]
      /\ executed' = FALSE /\ ledger' = (ledger \o work) \o <<call>> /\ phase' = "suspended"
      /\ UNCHANGED <<hostVars, runVars, decision, resumed, committed, turns>>
  BY DEF Suspend, Snapshot
<1>2. ItemTypes /\ ControlTypes /\ FlagTypes /\ StateTypes
  BY TypeParts
<1>3. /\ said \in Seq(Item) /\ call \in Item
      /\ \A s \in Seq(Item) : (s \o work) \o <<call>> = s \o said
  BY LastWords DEF Kinds, SentOnce
<1> HIDE DEF call, said
<1>4. ledger' = ledger \o said /\ (agentInput \o work) \o <<call>> = agentInput \o said
  BY <1>1, <1>2, <1>3 DEF ItemTypes
<1>5. ledger' \in Seq(Item) /\ agentInput \o said \in Seq(Item)
  BY <1>2, <1>3, <1>4, Joined DEF ItemTypes
<1>6. ItemTypes'
  BY <1>1, <1>2, <1>5 DEF ItemTypes, hostVars, runVars
<1>7. ControlTypes'
  BY <1>1, <1>2 DEF ControlTypes, hostVars, runVars
<1>8. FlagTypes'
  BY <1>1, <1>2, Zenon DEF FlagTypes, hostVars
<1>9. StateTypes'
  <2>1. agent \in Agents /\ call.id \in Nat
    BY <1>2, <1>3 DEF ControlTypes, Item
  <2>2. /\ ContextsGrow /\ StateAfter \in 0..Len(contexts') /\ providerState \in 0..Len(contexts')
        /\ continuation \in Continuations(Len(contexts'))
    BY <1>1, <1>3, SpeakingTypes
  <2>3. persisted' \in Suspensions(Len(contexts'))
    BY <1>1, <1>4, <1>5, <2>1, <2>2 DEF Suspensions
  <2> QED
    BY <1>1, <2>2, <2>3 DEF StateTypes, ContextsGrow, hostVars, runVars
<1> QED
  BY <1>6, <1>7, <1>8, <1>9, TypeParts

\* The approval request of an agent that runs as a tool.
LEMMA SuspendNestedTypes ==
  ASSUME TypeOK, NEW inner \in NestedAgents, SuspendNested(inner)
  PROVE  TypeOK' /\ ContextsGrow
<1> DEFINE outerCall == ItemOf("call", NextId)
           prompt == ItemOf("input", NextId + 1)
           innerCall == ItemOf("call", NextId + 1)
           state == IF remote THEN Len(contexts) + 1 ELSE 0
           held == {prompt, innerCall}
<1>1. /\ contexts' = IF remote THEN Append(contexts, held) ELSE contexts
      /\ persisted' = [agent |-> agent, owner |-> inner, call |-> innerCall.id,
                       state |-> state, snapshot |-> <<prompt, innerCall>>, chained |-> FALSE]
      /\ executed' = FALSE /\ ledger' = ledger \o <<outerCall>> /\ phase' = "suspended"
      /\ UNCHANGED <<hostVars, runVars, decision, resumed, committed, turns>>
  BY DEF SuspendNested
<1>2. ItemTypes /\ ControlTypes /\ FlagTypes /\ StateTypes
  BY TypeParts
<1>3. NextId \in Nat /\ NextId + 1 \in Nat
  BY <1>2 DEF ItemTypes, NextId
<1>4. outerCall \in Item /\ prompt \in Item /\ innerCall \in Item
  BY <1>3, ItemParts, CallParts DEF Kinds
<1> HIDE DEF outerCall, prompt, innerCall
<1>5. /\ <<outerCall>> \in Seq(Item) /\ <<prompt, innerCall>> \in Seq(Item)
      /\ held \in SUBSET Item /\ innerCall.id \in Nat
  BY <1>4 DEF Item
<1> HIDE DEF held
<1>6. ContextsGrow /\ state \in 0..Len(contexts')
  <2>1. contexts \in Seq(SUBSET Item) /\ Len(contexts) \in Nat
    BY <1>2 DEF StateTypes
  <2>2. CASE remote
    <3>1. contexts' = Append(contexts, held) /\ state = Len(contexts) + 1
      BY <1>1, <2>2
    <3> HIDE DEF state
    <3>2. /\ contexts' \in Seq(SUBSET Item) /\ Len(contexts') = Len(contexts) + 1
          /\ \A s \in 1..Len(contexts) : contexts'[s] = contexts[s]
      BY <1>5, <2>1, <3>1
    <3> QED
      BY <2>1, <3>1, <3>2 DEF ContextsGrow
  <2>3. CASE ~remote
    BY <1>1, <2>1, <2>3 DEF ContextsGrow
  <2> QED
    BY <2>2, <2>3
<1> HIDE DEF state
<1>7. ledger \o <<outerCall>> \in Seq(Item)
  BY <1>2, <1>5, Joined DEF ItemTypes
<1>8. ItemTypes'
  BY <1>1, <1>2, <1>7 DEF ItemTypes, hostVars, runVars
<1>9. ControlTypes'
  BY <1>1, <1>2 DEF ControlTypes, hostVars, runVars
<1>10. FlagTypes'
  BY <1>1, <1>2, Zenon DEF FlagTypes, hostVars
<1>11. StateTypes'
  <2>1. 0..Len(contexts) \subseteq 0..Len(contexts') /\ continuation \in Continuations(Len(contexts'))
    BY <1>6, StoredKept
  <2>2. agent \in Agents /\ inner \in Agents
    BY <1>2 DEF ControlTypes, FlowAssumption
  <2>3. persisted' \in Suspensions(Len(contexts'))
    BY <1>1, <1>5, <1>6, <2>2 DEF Suspensions
  <2> QED
    BY <1>1, <1>2, <1>6, <2>1, <2>3 DEF StateTypes, ContextsGrow, hostVars, runVars
<1> QED
  BY <1>6, <1>8, <1>9, <1>10, <1>11, TypeParts

\* A failure, a resume that raises and a host that gives up.
LEMMA NothingSaidTypes ==
  ASSUME TypeOK, ledger' \in {ledger, committed}, phase' \in {"idle", "suspended"},
         persisted' \in {persisted, NotSuspended},
         decision' \in {"none", "executed", "refused", "rejected"},
         UNCHANGED <<hostVars, contexts, runVars, executed, resumed, committed, turns>>
  PROVE  TypeOK'
<1>1. ItemTypes /\ ControlTypes /\ FlagTypes /\ StateTypes
  BY TypeParts
<1>2. ItemTypes'
  BY <1>1 DEF ItemTypes, hostVars, runVars
<1>3. ControlTypes'
  BY <1>1 DEF ControlTypes, hostVars, runVars
<1>4. FlagTypes'
  BY <1>1, Zenon DEF FlagTypes, hostVars
<1>5. Len(contexts) \in Nat /\ Entrypoint \in Agents
  BY <1>1 DEF StateTypes, FlowAssumption
<1>6. NotSuspended \in Suspensions(Len(contexts))
  BY <1>5 DEF Suspensions, NotSuspended
<1>7. StateTypes'
  BY <1>1, <1>6 DEF StateTypes, hostVars, runVars
<1> QED
  BY <1>2, <1>3, <1>4, <1>7, TypeParts

\* Every step keeps the types.
LEMMA TypesPreserved == TypeOK /\ [Next]_vars => TypeOK'
<1> SUFFICES ASSUME TypeOK, [Next]_vars PROVE TypeOK'
  OBVIOUS
<1>1. ItemTypes /\ ControlTypes /\ FlagTypes /\ StateTypes
  BY TypeParts
<1>2. CASE HostStartsTurn
  BY <1>2, HostStartsTurnTypes
<1>3. CASE Resume
  BY <1>3, ResumeTypes
<1>4. ASSUME NEW work \in Work, NEW target \in Agents \ {agent}, HandOff(work, target)
      PROVE  TypeOK'
  BY <1>4, HandOffTypes
<1>5. ASSUME NEW work \in Work, Finish(work) PROVE TypeOK'
  BY <1>5, FinishTypes
<1>6. ASSUME NEW work \in Work, Suspend(work) PROVE TypeOK'
  BY <1>6, SuspendTypes
<1>7. ASSUME NEW inner \in NestedAgents, SuspendNested(inner) PROVE TypeOK'
  BY <1>7, SuspendNestedTypes
<1>8. CASE Fail
  BY <1>1, <1>8, NothingSaidTypes DEF Fail, ControlTypes
<1>9. CASE ResumeRefused \/ ResumeRejected
  BY <1>1, <1>9, NothingSaidTypes DEF ResumeRefused, ResumeRejected
<1>10. CASE HostAbandons
  BY <1>1, <1>10, NothingSaidTypes DEF HostAbandons, ControlTypes
<1>11. CASE Over \/ UNCHANGED vars
  <2>1. UNCHANGED <<hostVars, runVars, contexts, phase, persisted, executed, decision,
                    resumed, ledger, committed, turns>>
    BY <1>11 DEF Over, vars
  <2>2. ItemTypes' /\ ControlTypes'
    BY <1>1, <2>1 DEF ItemTypes, ControlTypes, hostVars, runVars
  <2>3. FlagTypes'
    BY <1>1, <2>1, Zenon DEF FlagTypes, hostVars
  <2>4. StateTypes'
    BY <1>1, <2>1 DEF StateTypes, hostVars, runVars
  <2> QED
    BY <2>2, <2>3, <2>4, TypeParts
<1> QED
  BY <1>2, <1>3, <1>4, <1>5, <1>6, <1>7, <1>8, <1>9, <1>10, <1>11 DEF Next

-----------------------------------------------------------------------------
(* The invariant, action by action.                                         *)

\* A host has not said anything before its first turn.
LEMMA InitFlow == Init => FlowInv
<1> SUFFICES ASSUME Init PROVE FlowInv
  OBVIOUS
<1>1. /\ ledger = <<>> /\ committed = <<>> /\ session = <<>> /\ contexts = <<>>
      /\ continuation = [agent |-> Entrypoint, state |-> 0] /\ persisted = NotSuspended
      /\ phase = "idle" /\ decision = "none" /\ turns = 0
  BY DEF Init
<1>2. <<>> \in Seq(Item) /\ ItemsOf(<<>>) = {} /\ Len(<<>>) = 0 /\ <<>> \in Seq(SUBSET Item)
  BY DEF ItemsOf
<1>3. TypeOK
  <2>1. ItemTypes
    BY <1>2 DEF Init, ItemTypes
  <2>2. ControlTypes
    BY DEF Init, ControlTypes
  <2>3. providerState = 0 /\ Len(contexts) = 0
    BY <1>1, <1>2 DEF Init
  <2>4. continuation \in Continuations(0) /\ persisted \in Suspensions(0)
    BY <1>1, <1>2 DEF Continuations, Suspensions, NotSuspended
  <2>5. StateTypes
    BY <1>1, <1>2, <2>3, <2>4 DEF StateTypes
  <2>6. FlagTypes
    BY Zenon DEF Init, FlagTypes
  <2> QED
    BY <2>1, <2>2, <2>5, <2>6, TypeParts
<1>4. Numbered(ledger) /\ Committed
  BY <1>1, <1>2 DEF Numbered, Committed
<1>5. LocalOnly
  BY <1>1 DEF Init, LocalOnly, NotSuspended
<1> QED
  BY <1>1, <1>3, <1>4, <1>5 DEF FlowInv, RunSees, WaitingSees, Waiting, SnapshotHeld, ResumedOnce

\* The conversation as it goes on keeps what the turns before it said.
LEMMA LedgerGrows ==
  ASSUME FlowInv, NEW items \in Seq(Item), ledger' = ledger \o items,
         \A x \in ItemsOf(items) : x.kind \in SentOnce => x.id <= Len(ledger) + Len(items)
  PROVE  /\ ledger' \in Seq(Item) /\ Numbered(ledger')
         /\ ItemsOf(ledger') = ItemsOf(ledger) \cup ItemsOf(items)
         /\ Len(ledger') = Len(ledger) + Len(items) /\ Len(ledger) \in Nat /\ Len(items) \in Nat
         /\ ItemsOf(committed) \subseteq ItemsOf(ledger')
<1>1. ledger \in Seq(Item) /\ Numbered(ledger) /\ ItemsOf(committed) \subseteq ItemsOf(ledger)
  BY DEF FlowInv, TypeOK, Committed
<1> QED
  BY <1>1, Joined, NumberedGrows

\* A run that starts with the conversation, or with a state that stands for it,
\* and one item more sees all of it.
LEMMA StartRunSees ==
  ASSUME FlowInv, NEW name \in Agents, NEW history \in Seq(Item), NEW item \in Item,
         NEW state \in 0..Len(contexts), StartRun(name, history, <<item>>, state),
         item \notin ItemsOf(ledger), item.id <= Len(ledger) + 1,
         ~Lost /\ state = 0 => history = ledger,
         ~Lost /\ state # 0 => Stored(state) = ItemsOf(ledger),
         ~remote => state = 0,
         RunWhole' => history = ledger,
         state = 0 => ItemsOf(session) \subseteq ItemsOf(history),
         UNCHANGED <<hostVars, contexts, persisted, committed>>
  PROVE  RunSees' /\ Committed' /\ LocalOnly' /\ Numbered(ledger)'
<1>1. /\ agent' = name /\ handoffs' = 0 /\ providerState' = state
      /\ inputItems' = history \o <<item>> /\ conversation' = history \o <<item>>
      /\ agentInput' = IF state # 0 THEN <<item>> ELSE history \o <<item>>
      /\ generated' = <<>> /\ ledger' = ledger \o <<item>> /\ phase' = "running"
      /\ UNCHANGED <<host, remote, cut, session, continuation, contexts, persisted, committed>>
  BY DEF StartRun, InitialAgentInput, hostVars
<1>2. <<item>> \in Seq(Item) /\ ItemsOf(<<item>>) = {item} /\ Len(<<item>>) = 1
  BY DEF ItemsOf
<1>3. /\ ledger' \in Seq(Item) /\ Numbered(ledger') /\ ItemsOf(ledger') = ItemsOf(ledger) \cup {item}
      /\ ItemsOf(committed) \subseteq ItemsOf(ledger')
  <2>1. \A x \in ItemsOf(<<item>>) : x.kind \in SentOnce => x.id <= Len(ledger) + Len(<<item>>)
    BY <1>2
  <2> QED
    BY <1>1, <1>2, <2>1, LedgerGrows
<1>4. /\ history \o <<item>> \in Seq(Item)
      /\ ItemsOf(history \o <<item>>) = ItemsOf(history) \cup {item}
  BY <1>2, Joined, ZenonT(40)
<1>5. <<>> \in Seq(Item) /\ (history \o <<item>>) \o <<>> = history \o <<item>>
  BY <1>4, ConcatEmptySeq
<1>6. Stored(state)' = Stored(state) /\ Lost' = Lost
  BY <1>1 DEF Stored, Lost, KeepState
<1>7. LocalOnly'
  BY <1>1 DEF FlowInv, LocalOnly, KeepState
<1>8. ~remote => history = ledger
  BY DEF FlowInv, LocalOnly, Lost
<1>9. RunSees'
  <2>1. RunWhole' => inputItems' \o generated' = ledger'
    BY <1>1, <1>5
  <2>2. ~remote' => conversation' = ledger'
    BY <1>1, <1>8
  <2>3. providerState' = 0 => ItemsOf(session') \subseteq ItemsOf(agentInput')
    BY <1>1, <1>4
  <2>4. ~Lost' /\ providerState' = 0 => agentInput' = ledger'
    BY <1>1, <1>6
  <2>5. ASSUME ~Lost', providerState' # 0
        PROVE  /\ Stored(providerState)' \cup ItemsOf(agentInput') = ItemsOf(ledger')
               /\ Stored(providerState)' \cap ItemsOf(agentInput') = {}
    <3>1. ItemsOf(agentInput') = {item} /\ Stored(providerState)' = ItemsOf(ledger)
      BY <1>1, <1>2, <1>6, <2>5 DEF Stored
    <3> QED
      BY <1>3, <3>1
  <2>6. /\ ItemsOf(agentInput)' = ItemsOf(agentInput') /\ ItemsOf(ledger)' = ItemsOf(ledger')
        /\ ItemsOf(session)' = ItemsOf(session')
    OBVIOUS
  <2> QED
    BY <2>1, <2>2, <2>3, <2>4, <2>5, <2>6 DEF RunSees
<1>10. Committed'
  BY <1>1, <1>3 DEF FlowInv, Committed, Stored, KeepState, UseSession
<1> QED
  BY <1>1, <1>3, <1>7, <1>9, <1>10 DEF Numbered

\* A turn starts with what the host has kept.
LEMMA HostStartsTurnKeeps == FlowInv /\ HostStartsTurn => FlowInv'
<1> SUFFICES ASSUME FlowInv, HostStartsTurn PROVE FlowInv'
  OBVIOUS
<1> DEFINE input == ItemOf("input", NextId)
           state == IF KeepState THEN continuation.state ELSE 0
<1>1. PICK name \in {Entrypoint, continuation.agent} : StartRun(name, session, <<input>>, state)
  BY DEF HostStartsTurn
<1>2. /\ phase = "idle" /\ turns < MaxTurns /\ turns' = turns + 1 /\ resumed' = FALSE
      /\ decision' = "none" /\ UNCHANGED <<hostVars, contexts, persisted, executed, committed>>
  BY DEF HostStartsTurn
<1>3. TypeOK /\ Committed /\ Numbered(ledger)
  BY DEF FlowInv
<1>4. name \in Agents /\ state \in 0..Len(contexts) /\ session \in Seq(Item)
  BY <1>3 DEF TypeOK
<1>5. /\ input \in Item /\ input.kind = "input" /\ input.id = Len(ledger) + 1
      /\ Len(ledger) \in Nat
  <2>1. NextId \in Nat /\ NextId = Len(ledger) + 1 /\ Len(ledger) \in Nat
    BY <1>3 DEF TypeOK, NextId
  <2> QED
    BY <2>1, ItemParts DEF Kinds
<1>6. input \notin ItemsOf(ledger)
  BY <1>3, <1>5 DEF Numbered, SentOnce
<1>7. /\ ~Lost /\ state = 0 => session = ledger
      /\ ~Lost /\ state # 0 => Stored(state) = ItemsOf(ledger)
      /\ ~remote => state = 0
      /\ RunWhole' => session = ledger
  <2>1. host \in {"session", "chain", "both"}
    BY <1>3, TypeParts DEF ControlTypes, FlowAssumption
  <2>2. ledger = committed
    BY <1>2, <1>3 DEF Committed
  <2>3. KeepState \/ (UseSession /\ (~Lost => ~cut))
    BY <2>1 DEF KeepState, UseSession, Lost
  <2>4. RunWhole' => UseSession /\ ~cut
    BY <1>2 DEF RunWhole, UseSession, hostVars
  <2>5. ~Lost /\ state = 0 => session = ledger
    BY <1>3, <2>2, <2>3 DEF Committed
  <2>6. state # 0 => Stored(state) = ItemsOf(ledger)
    BY <1>3, <2>2 DEF Committed
  <2>7. ~remote => state = 0
    BY DEF FlowInv, LocalOnly
  <2> QED
    BY <1>3, <2>2, <2>4, <2>5, <2>6, <2>7 DEF Committed
<1> HIDE DEF input, state
<1>8. RunSees' /\ Committed' /\ LocalOnly' /\ Numbered(ledger)'
  <2>1. input.id <= Len(ledger) + 1
    BY <1>5
  <2> QED
    BY <1>1, <1>2, <1>4, <1>5, <1>6, <1>7, <2>1, StartRunSees
<1>9. phase' = "running"
  BY <1>1 DEF StartRun
<1>10. TypeOK'
  BY <1>3, HostStartsTurnTypes
<1>11. WaitingSees' /\ SnapshotHeld' /\ ResumedOnce'
  BY <1>2, <1>9 DEF WaitingSees, Waiting, SnapshotHeld, ResumedOnce
<1> QED
  BY <1>8, <1>10, <1>11 DEF FlowInv

\* A resumed run starts with the conversation up to the call, and its output.
LEMMA ResumeKeeps == FlowInv /\ Resume => FlowInv'
<1> SUFFICES ASSUME FlowInv, Resume PROVE FlowInv'
  OBVIOUS
<1> DEFINE output == ItemOf("output", persisted.call)
<1>1. /\ phase = "suspended" /\ ~executed /\ executed' = TRUE /\ decision' = "executed"
      /\ resumed' = TRUE /\ persisted.owner = persisted.agent
      /\ StartRun(persisted.agent, persisted.snapshot, <<output>>, persisted.state)
      /\ UNCHANGED <<hostVars, contexts, persisted, committed, turns>>
  BY DEF Resume, Executable
<1>2. TypeOK /\ Waiting /\ WaitingSees /\ SnapshotHeld
  BY <1>1 DEF FlowInv, Waiting
<1>3. /\ persisted.agent \in Agents /\ persisted.state \in 0..Len(contexts)
      /\ persisted.snapshot \in Seq(Item) /\ persisted.call \in Nat
  BY <1>2 DEF TypeOK
<1>4. output \in Item /\ output.id = persisted.call
  BY <1>3, ItemParts DEF Kinds
<1>5. /\ persisted.call <= Len(ledger) + 1 /\ output \notin ItemsOf(ledger)
      /\ ~Lost /\ persisted.state = 0 => persisted.snapshot = ledger
      /\ ~Lost /\ persisted.state # 0 => Stored(persisted.state) = ItemsOf(ledger)
      /\ ~remote => persisted.state = 0
      /\ RunWhole' => persisted.snapshot = ledger
      /\ persisted.state = 0 => ItemsOf(session) \subseteq ItemsOf(persisted.snapshot)
  <2>1. persisted.state = 0 => ~remote /\ ~persisted.chained
    BY <1>2 DEF FlowInv, WaitingSees, LocalOnly
  <2>2. ~remote => persisted.state = 0
    BY DEF FlowInv, LocalOnly
  <2>3. RunWhole' => ~Lost /\ ~persisted.chained
    BY <1>1 DEF RunWhole, Lost, hostVars
  <2> QED
    BY <1>1, <1>2, <2>1, <2>2, <2>3 DEF WaitingSees, SnapshotHeld
<1> HIDE DEF output
<1>6. RunSees' /\ Committed' /\ LocalOnly' /\ Numbered(ledger)'
  BY <1>1, <1>3, <1>4, <1>5, StartRunSees
<1>7. phase' = "running"
  BY <1>1 DEF StartRun
<1>8. TypeOK'
  BY <1>2, ResumeTypes
<1>9. SnapshotHeld'
  BY <1>1, <1>2, <1>7 DEF SnapshotHeld, hostVars
<1>10. WaitingSees' /\ ResumedOnce'
  BY <1>1, <1>7 DEF WaitingSees, Waiting, ResumedOnce
<1> QED
  BY <1>6, <1>8, <1>9, <1>10 DEF FlowInv

-----------------------------------------------------------------------------
(* Steps in which an agent speaks.                                          *)

\* What the host keeps is not touched before the turn ends.
LEMMA CommittedKept ==
  ASSUME FlowInv, ContextsGrow, phase' # "idle", UNCHANGED <<hostVars, committed>>,
         ItemsOf(committed) \subseteq ItemsOf(ledger')
  PROVE  Committed'
<1>1. TypeOK /\ Committed
  BY DEF FlowInv
<1>2. /\ UNCHANGED <<host, session, continuation, committed>>
      /\ Stored(continuation.state)' = Stored(continuation.state)
  BY <1>1, StoredKept DEF hostVars
<1>3. /\ KeepState' = KeepState /\ UseSession' = UseSession /\ cut' = cut
      /\ Numbered(committed)' = Numbered(committed)
  BY <1>2 DEF KeepState, UseSession, Numbered, hostVars
<1>4. ItemsOf(committed)' = ItemsOf(committed) /\ ItemsOf(ledger)' = ItemsOf(ledger')
  BY <1>2
<1> QED
  BY <1>1, <1>2, <1>3, <1>4 DEF Committed

\* The active agent and the provider together have the conversation, and so has
\* the provider when the agent's run ends.
LEMMA ProviderSees ==
  ASSUME FlowInv, phase = "running", NEW items \in Seq(Item), ProviderKeeps(items)
  PROVE  /\ ContextsGrow /\ StateAfter \in 0..Len(contexts')
         /\ StateAfter = 0 <=> ~remote
         /\ ~Lost /\ StateAfter # 0 => contexts'[StateAfter] = ItemsOf(ledger) \cup ItemsOf(items)
<1>1. TypeOK /\ RunSees
  BY DEF FlowInv
<1>2. ~Lost => Stored(providerState) \cup ItemsOf(agentInput) = ItemsOf(ledger)
  BY <1>1 DEF RunSees, Stored
<1>3. ~remote => providerState = 0
  BY DEF FlowInv, LocalOnly
<1>4. /\ ContextsGrow /\ StateAfter \in 0..Len(contexts')
      /\ StateAfter = 0 <=> providerState = 0 /\ ~remote
      /\ StateAfter # 0 =>
           contexts'[StateAfter] = Stored(providerState) \cup ItemsOf(agentInput) \cup ItemsOf(items)
  BY <1>1, ContextsKept DEF ContextsGrow
<1> QED
  BY <1>2, <1>3, <1>4

\* The next agent is given the conversation, or the acknowledgement that the
\* provider lacks.
LEMMA HandOffKeeps ==
  ASSUME FlowInv, NEW work \in Work, NEW target \in Agents, HandOff(work, target)
  PROVE  FlowInv'
<1> DEFINE call == ItemOf("handoff_call", NextId + 1)
           ack == ItemOf("handoff_output", NextId + 1)
           said == work \o <<call>>
           items == work \o <<call, ack>>
<1>1. /\ phase = "running" /\ handoffs < MaxHandoffs /\ ProviderKeeps(said)
      /\ providerState' = StateAfter /\ conversation' = conversation \o items
      /\ generated' = generated \o items /\ agent' = target /\ handoffs' = handoffs + 1
      /\ agentInput' = IF StateAfter # 0 THEN <<items[Len(items)]>> ELSE conversation \o items
      /\ ledger' = ledger \o items
      /\ UNCHANGED <<phase, hostVars, inputItems, persisted, executed, decision,
                     resumed, committed, turns>>
  BY DEF HandOff, HandoffLeft, HandoffInput
<1>2. TypeOK /\ Numbered(ledger) /\ Committed /\ RunSees /\ SnapshotHeld /\ LocalOnly
  BY DEF FlowInv
<1>3. ItemTypes /\ ControlTypes /\ FlagTypes /\ StateTypes
  BY <1>2, TypeParts
<1>4. /\ work \in Seq(Item) /\ Len(ledger) \in Nat /\ NextId + 1 = Len(ledger) + 2
      /\ \A x \in ItemsOf(work) : x.kind \in {"call", "output"} /\ x.id = NextId
  BY <1>2, WorkParts
<1>5. /\ said \in Seq(Item) /\ ItemsOf(said) = ItemsOf(work) \cup {call}
      /\ Len(said) = Len(work) + 1 /\ Len(work) \in {0, 2}
      /\ call \in Item /\ call.kind = "handoff_call"
      /\ \A x \in ItemsOf(said) : x.kind \in SentOnce => x.id <= Len(ledger) + Len(said)
  BY <1>2, LastWords DEF Kinds, SentOnce
<1>6. /\ ack \in Item /\ ack.kind = "handoff_output" /\ ack.id = Len(ledger) + 2
      /\ <<ack>> \in Seq(Item) /\ ItemsOf(<<ack>>) = {ack} /\ Len(<<ack>>) = 1
  <2>1. NextId + 1 \in Nat
    BY <1>4
  <2> QED
    BY <1>4, <2>1, ItemParts DEF Kinds
<1> HIDE DEF call, ack, said
<1>7. items = said \o <<ack>>
  <2>1. <<call, ack>> = <<call>> \o <<ack>>
    BY <1>5, <1>6, PairJoined
  <2>2. <<call>> \in Seq(Item)
    BY <1>5
  <2>3. (work \o <<call>>) \o <<ack>> = work \o (<<call>> \o <<ack>>)
    BY <1>4, <1>6, <2>2, Associates
  <2> QED
    BY <2>1, <2>3 DEF said, items
<1> HIDE DEF items
<1>8. /\ items \in Seq(Item) /\ Len(items) = Len(said) + 1
      /\ ItemsOf(items) = ItemsOf(said) \cup {ack} /\ items[Len(items)] = ack
  <2>1. said \o <<ack>> = Append(said, ack)
    BY <1>5, <1>6, AppendIsConcat
  <2>2. items[Len(items)] = ack
    BY <1>5, <1>6, <1>7, <2>1
  <2> QED
    BY <1>5, <1>6, <1>7, <2>2, Joined
<1>9. /\ ledger' \in Seq(Item) /\ Numbered(ledger') /\ ItemsOf(committed) \subseteq ItemsOf(ledger')
      /\ ItemsOf(ledger') = ItemsOf(ledger) \cup ItemsOf(items)
  <2>1. \A x \in ItemsOf(said) : x.kind \in SentOnce => x.id <= Len(ledger) + Len(items)
    <3>1. Len(said) \in Nat /\ ItemsOf(said) \subseteq Item
      BY <1>5, Joined
    <3> QED
      BY <1>4, <1>5, <1>8, <3>1 DEF Item
  <2>2. ack.id <= Len(ledger) + Len(items)
    BY <1>4, <1>5, <1>6, <1>8
  <2>3. \A x \in ItemsOf(items) : x.kind \in SentOnce => x.id <= Len(ledger) + Len(items)
    BY <1>8, <2>1, <2>2
  <2> QED
    BY <1>1, <1>8, <2>3, LedgerGrows
<1>10. /\ ContextsGrow /\ StateAfter \in 0..Len(contexts')
       /\ StateAfter = 0 <=> ~remote
       /\ ~Lost /\ StateAfter # 0 => contexts'[StateAfter] = ItemsOf(ledger) \cup ItemsOf(said)
  BY <1>1, <1>5, ProviderSees
<1>11. ack \notin ItemsOf(ledger) \cup ItemsOf(said)
  <2>1. ack \notin ItemsOf(ledger)
    BY <1>2, <1>4, <1>6 DEF Numbered, SentOnce
  <2>2. ack \notin ItemsOf(work) /\ ack # call
    BY <1>4, <1>5, <1>6
  <2> QED
    BY <1>5, <2>1, <2>2
<1>12. conversation \o items \in Seq(Item) /\ generated \o items \in Seq(Item)
  BY <1>3, <1>8, Joined DEF ItemTypes
<1>13. agentInput' \in Seq(Item)
  BY <1>1, <1>6, <1>8, <1>12
<1>14. /\ UNCHANGED <<host, remote, cut, session>> /\ Lost' = Lost
       /\ RunWhole' = RunWhole
  BY <1>1 DEF Lost, KeepState, RunWhole, UseSession, hostVars
<1>15. RunSees'
  <2>1. (inputItems \o generated) \o items = inputItems \o (generated \o items)
    <3>1. inputItems \in Seq(Item) /\ generated \in Seq(Item) /\ items \in Seq(Item)
      BY <1>3, <1>8 DEF ItemTypes
    <3> QED
      BY <3>1, Associates
  <2>2. RunWhole' => inputItems' \o generated' = ledger'
    BY <1>1, <1>2, <1>14, <2>1 DEF RunSees
  <2>3. ~remote' => conversation' = ledger'
    BY <1>1, <1>2, <1>14 DEF RunSees
  <2>4. CASE StateAfter = 0
    <3>1. ~remote /\ ~cut /\ UseSession
      <4>1. ~remote /\ ~cut /\ ~KeepState
        BY <1>2, <1>10, <2>4 DEF LocalOnly
      <4>2. host \in {"session", "chain", "both"}
        BY <1>3 DEF ControlTypes, FlowAssumption
      <4> QED
        BY <4>1, <4>2 DEF KeepState, UseSession
    <3>2. conversation = ledger /\ agentInput' = ledger' /\ providerState' = 0
      BY <1>1, <1>2, <2>4, <3>1 DEF RunSees
    <3>3. ItemsOf(session') \subseteq ItemsOf(agentInput')
      BY <1>2, <1>9, <1>14, <3>1, <3>2 DEF Committed
    <3>4. ItemsOf(session)' = ItemsOf(session') /\ ItemsOf(agentInput)' = ItemsOf(agentInput')
      OBVIOUS
    <3> QED
      BY <2>2, <2>3, <3>2, <3>3, <3>4 DEF RunSees
  <2>5. CASE StateAfter # 0
    <3>1. providerState' # 0
      BY <1>1, <2>5
    <3>2. ItemsOf(agentInput') = {ack}
      BY <1>1, <1>6, <1>8, <2>5
    <3>3. ~Lost' => Stored(providerState)' = ItemsOf(ledger) \cup ItemsOf(said)
      BY <1>1, <1>10, <1>14, <2>5 DEF Stored
    <3>4. ItemsOf(agentInput)' = ItemsOf(agentInput') /\ ItemsOf(ledger)' = ItemsOf(ledger')
      OBVIOUS
    <3>5. ~Lost' => /\ Stored(providerState)' \cup ItemsOf(agentInput') = ItemsOf(ledger')
                    /\ Stored(providerState)' \cap ItemsOf(agentInput') = {}
      BY <1>8, <1>9, <1>11, <3>2, <3>3
    <3> QED
      BY <2>2, <2>3, <3>1, <3>4, <3>5 DEF RunSees
  <2> QED
    BY <2>4, <2>5
<1>16. TypeOK'
  BY <1>2, HandOffTypes
<1>17. Committed'
  <2>1. phase' # "idle"
    BY <1>1
  <2> QED
    BY <1>1, <1>9, <1>10, <2>1, CommittedKept
<1>18. SnapshotHeld' /\ WaitingSees' /\ ResumedOnce'
  BY <1>1, <1>2 DEF FlowInv, SnapshotHeld, WaitingSees, Waiting, ResumedOnce, hostVars
<1>19. Numbered(ledger)' /\ LocalOnly'
  BY <1>1, <1>2, <1>9, <1>10 DEF Numbered, LocalOnly, KeepState, hostVars
<1> QED
  BY <1>15, <1>16, <1>17, <1>18, <1>19 DEF FlowInv

\* The suspended state holds the conversation up to the call, whose output is new.
LEMMA SuspendKeeps ==
  ASSUME FlowInv, NEW work \in Work, Suspend(work)
  PROVE  FlowInv'
<1> DEFINE call == ItemOf("call", NextId + 1)
           said == work \o <<call>>
           output == ItemOf("output", call.id)
<1>1. /\ phase = "running" /\ ProviderKeeps(said)
      /\ persisted' = [agent |-> agent, owner |-> agent, call |-> call.id,
                       state |-> StateAfter, snapshot |-> (agentInput \o work) \o <<call>>,
                       chained |-> providerState # 0]
      /\ executed' = FALSE /\ ledger' = (ledger \o work) \o <<call>> /\ phase' = "suspended"
      /\ UNCHANGED <<hostVars, runVars, decision, resumed, committed, turns>>
  BY DEF Suspend, Snapshot
<1>2. TypeOK /\ Numbered(ledger) /\ Committed /\ RunSees /\ LocalOnly
  BY DEF FlowInv
<1>3. ItemTypes /\ ControlTypes /\ FlagTypes /\ StateTypes
  BY <1>2, TypeParts
<1>4. /\ work \in Seq(Item) /\ Len(ledger) \in Nat /\ NextId = Len(ledger) + 1
      /\ \A x \in ItemsOf(work) : x.kind \in {"call", "output"} /\ x.id = NextId
  BY <1>2, WorkParts
<1>5. /\ said \in Seq(Item) /\ ItemsOf(said) = ItemsOf(work) \cup {call}
      /\ Len(said) = Len(work) + 1 /\ Len(work) \in {0, 2}
      /\ call \in Item /\ call.kind = "call" /\ call.id = Len(ledger) + 2
      /\ \A x \in ItemsOf(said) : x.kind \in SentOnce => x.id <= Len(ledger) + Len(said)
      /\ \A s \in Seq(Item) : (s \o work) \o <<call>> = s \o said
  BY <1>2, LastWords DEF Kinds, SentOnce
<1>6. output.kind = "output" /\ output.id = Len(ledger) + 2
  <2>1. call.id \in Nat /\ call.id = Len(ledger) + 2
    BY <1>4, <1>5
  <2> HIDE DEF call
  <2> QED
    BY <2>1, CallParts
<1> HIDE DEF call, said
<1>7. /\ ledger' = ledger \o said /\ (agentInput \o work) \o <<call>> = agentInput \o said
      /\ agentInput \o said \in Seq(Item)
  BY <1>1, <1>3, <1>5, Joined DEF ItemTypes
<1>8. /\ ledger' \in Seq(Item) /\ Numbered(ledger') /\ ItemsOf(committed) \subseteq ItemsOf(ledger')
      /\ ItemsOf(ledger') = ItemsOf(ledger) \cup ItemsOf(said)
      /\ Len(ledger') = Len(ledger) + Len(said)
  BY <1>5, <1>7, LedgerGrows
<1>9. /\ ContextsGrow /\ StateAfter \in 0..Len(contexts')
      /\ StateAfter = 0 <=> ~remote
      /\ ~Lost /\ StateAfter # 0 => contexts'[StateAfter] = ItemsOf(ledger) \cup ItemsOf(said)
  BY <1>1, <1>5, ProviderSees
<1>10. /\ persisted'.agent = agent /\ persisted'.owner = agent /\ persisted'.call = call.id
       /\ persisted'.state = StateAfter /\ persisted'.snapshot = agentInput \o said
       /\ persisted'.chained <=> providerState # 0
  BY <1>1, <1>7
<1>11. /\ UNCHANGED <<host, remote, cut, session, continuation, providerState>>
       /\ Lost' = Lost /\ KeepState' = KeepState
  BY <1>1 DEF Lost, KeepState, hostVars, runVars
<1>12. WaitingSees'
  <2>1. persisted'.call <= Len(ledger') + 1
    BY <1>4, <1>5, <1>8, <1>10
  <2>2. output \notin ItemsOf(ledger')
    <3>1. output \notin ItemsOf(ledger)
      BY <1>2, <1>4, <1>6 DEF Numbered, SentOnce
    <3>2. output \notin ItemsOf(work) /\ output # call
      BY <1>4, <1>5, <1>6
    <3> QED
      BY <1>5, <1>8, <3>1, <3>2
  <2>3. ItemOf("output", persisted.call)' = output
    BY <1>10 DEF ItemOf
  <2>4. remote => persisted'.state # 0
    BY <1>9, <1>10
  <2>5. ~Lost /\ remote => Stored(persisted.state)' = ItemsOf(ledger')
    BY <1>8, <1>9, <1>10 DEF Stored
  <2>6. ~Lost /\ ~persisted'.chained => persisted'.snapshot = ledger'
    BY <1>1, <1>2, <1>7, <1>10 DEF RunSees
  <2>7. ItemsOf(ledger)' = ItemsOf(ledger')
    OBVIOUS
  <2> QED
    BY <1>11, <2>1, <2>2, <2>3, <2>4, <2>5, <2>6, <2>7 DEF WaitingSees
<1>13. SnapshotHeld'
  <2>1. ~persisted'.chained => ItemsOf(session') \subseteq ItemsOf(agentInput)
    BY <1>1, <1>2, <1>10, <1>11 DEF RunSees
  <2>2. agentInput \in Seq(Item)
    BY <1>3 DEF ItemTypes
  <2>3. ItemsOf(agentInput) \subseteq ItemsOf(persisted'.snapshot)
    BY <1>5, <1>10, <2>2, Joined
  <2>4. ItemsOf(session)' = ItemsOf(session') /\ ItemsOf(persisted.snapshot)' = ItemsOf(persisted'.snapshot)
    OBVIOUS
  <2> QED
    BY <2>1, <2>3, <2>4 DEF SnapshotHeld
<1>14. LocalOnly'
  BY <1>2, <1>9, <1>10, <1>11 DEF LocalOnly
<1>15. TypeOK'
  BY <1>2, SuspendTypes
<1>16. Committed'
  <2>1. phase' # "idle"
    BY <1>1
  <2> QED
    BY <1>1, <1>8, <1>9, <2>1, CommittedKept
<1>17. Numbered(ledger)' /\ RunSees' /\ ResumedOnce'
  BY <1>1, <1>8 DEF Numbered, RunSees, ResumedOnce
<1> QED
  BY <1>12, <1>13, <1>14, <1>15, <1>16, <1>17 DEF FlowInv

\* An agent that runs as a tool leaves a suspended state that is not the flow's.
LEMMA SuspendNestedKeeps ==
  ASSUME FlowInv, NEW inner \in NestedAgents, SuspendNested(inner)
  PROVE  FlowInv'
<1> DEFINE outerCall == ItemOf("call", NextId)
           prompt == ItemOf("input", NextId + 1)
           innerCall == ItemOf("call", NextId + 1)
           state == IF remote THEN Len(contexts) + 1 ELSE 0
<1>1. /\ phase = "running" /\ inner # agent
      /\ contexts' = IF remote THEN Append(contexts, {prompt, innerCall}) ELSE contexts
      /\ persisted' = [agent |-> agent, owner |-> inner, call |-> innerCall.id,
                       state |-> state, snapshot |-> <<prompt, innerCall>>, chained |-> FALSE]
      /\ executed' = FALSE /\ ledger' = ledger \o <<outerCall>> /\ phase' = "suspended"
      /\ UNCHANGED <<hostVars, runVars, decision, resumed, committed, turns>>
  BY DEF SuspendNested
<1>2. TypeOK /\ LocalOnly
  BY DEF FlowInv
<1>3. ItemTypes /\ ControlTypes /\ FlagTypes /\ StateTypes
  BY <1>2, TypeParts
<1>4. Len(ledger) \in Nat /\ NextId \in Nat /\ NextId + 1 \in Nat
  BY <1>3 DEF ItemTypes, NextId
<1>5. /\ outerCall \in Item /\ outerCall.kind = "call" /\ <<outerCall>> \in Seq(Item)
      /\ ItemsOf(<<outerCall>>) = {outerCall}
      /\ prompt \in Item /\ innerCall \in Item /\ innerCall.id \in Nat
  <2>1. /\ outerCall \in Item /\ outerCall.kind = "call" /\ innerCall \in Item
    BY <1>4, CallParts
  <2>2. prompt \in Item
    BY <1>4, ItemParts DEF Kinds
  <2> HIDE DEF outerCall, innerCall
  <2>3. innerCall.id \in Nat /\ <<outerCall>> \in Seq(Item) /\ ItemsOf(<<outerCall>>) = {outerCall}
    BY <2>1 DEF Item, ItemsOf
  <2> QED
    BY <2>1, <2>2, <2>3
<1> HIDE DEF outerCall, prompt, innerCall
<1>6. /\ ledger' \in Seq(Item) /\ Numbered(ledger') /\ ItemsOf(committed) \subseteq ItemsOf(ledger')
  <2>1. \A x \in ItemsOf(<<outerCall>>) : x.kind \in SentOnce => x.id <= Len(ledger) + Len(<<outerCall>>)
    BY <1>5 DEF SentOnce
  <2> QED
    BY <1>1, <1>5, <2>1, LedgerGrows
<1>7. ContextsGrow
  BY <1>2, SuspendNestedTypes
<1>8. /\ persisted'.agent = agent /\ persisted'.owner = inner /\ persisted'.owner # persisted'.agent
      /\ persisted'.state = state /\ ~persisted'.chained
      /\ UNCHANGED <<host, remote, cut, continuation, providerState>>
  BY <1>1 DEF hostVars, runVars
<1>9. TypeOK'
  BY <1>2, SuspendNestedTypes
<1>10. Committed'
  <2>1. phase' # "idle"
    BY <1>1
  <2> QED
    BY <1>1, <1>6, <1>7, <2>1, CommittedKept
<1>11. WaitingSees' /\ SnapshotHeld'
  BY <1>8 DEF WaitingSees, Waiting, SnapshotHeld
<1>12. LocalOnly'
  BY <1>2, <1>8 DEF LocalOnly, KeepState
<1>13. Numbered(ledger)' /\ RunSees' /\ ResumedOnce'
  BY <1>1, <1>6 DEF Numbered, RunSees, ResumedOnce
<1> QED
  BY <1>9, <1>10, <1>11, <1>12, <1>13 DEF FlowInv

\* A turn that ends well leaves the host with the conversation, or with a state
\* that stands for it.
LEMMA FinishKeeps ==
  ASSUME FlowInv, ResultsKept, NEW work \in Work, Finish(work)
  PROVE  FlowInv'
<1> DEFINE answer == ItemOf("answer", NextId + 1)
           said == work \o <<answer>>
           output == (generated \o work) \o <<answer>>
<1>1. /\ phase = "running" /\ ProviderKeeps(said)
      /\ session' = IF ~UseSession THEN <<>>
                    ELSE IF resumed /\ SaveCompletedState THEN persisted.snapshot \o output
                    ELSE inputItems \o output
      /\ continuation' = [agent |-> agent, state |-> StateAfter]
      /\ ledger' = (ledger \o work) \o <<answer>> /\ committed' = ledger'
      /\ host' = host /\ remote' = remote
      /\ cut' = (cut \/ (UseSession /\ resumed /\ persisted.chained))
      /\ persisted' = NotSuspended /\ phase' = "idle"
      /\ UNCHANGED <<runVars, executed, decision, resumed, turns>>
  BY DEF Finish, SavedItems, OutputItems
<1>2. TypeOK /\ RunSees /\ LocalOnly
  BY DEF FlowInv
<1>3. ItemTypes /\ ControlTypes /\ FlagTypes /\ StateTypes
  BY <1>2, TypeParts
<1>4. /\ said \in Seq(Item) /\ ItemsOf(said) = ItemsOf(work) \cup {answer}
      /\ \A x \in ItemsOf(said) : x.kind \in SentOnce => x.id <= Len(ledger) + Len(said)
      /\ \A s \in Seq(Item) : (s \o work) \o <<answer>> = s \o said
  BY <1>2, LastWords DEF Kinds, SentOnce
<1> HIDE DEF answer, said
<1>5. ledger' = ledger \o said /\ output = generated \o said
  BY <1>1, <1>3, <1>4 DEF ItemTypes
<1> HIDE DEF output
<1>6. /\ ledger' \in Seq(Item) /\ Numbered(ledger')
      /\ ItemsOf(ledger') = ItemsOf(ledger) \cup ItemsOf(said)
  BY <1>4, <1>5, LedgerGrows
<1>7. /\ ContextsGrow /\ StateAfter \in 0..Len(contexts')
      /\ StateAfter = 0 <=> ~remote
      /\ ~Lost /\ StateAfter # 0 => contexts'[StateAfter] = ItemsOf(ledger) \cup ItemsOf(said)
  BY <1>1, <1>4, ProviderSees
<1>8. output \in Seq(Item) /\ inputItems \o output = (inputItems \o generated) \o said
  <2>1. inputItems \in Seq(Item) /\ generated \in Seq(Item)
    BY <1>3 DEF ItemTypes
  <2>2. (inputItems \o generated) \o said = inputItems \o (generated \o said)
    BY <1>4, <2>1, Associates
  <2> QED
    BY <1>4, <1>5, <2>1, <2>2, Joined
<1>9. UseSession' = UseSession /\ KeepState' = KeepState /\ continuation'.state = StateAfter
  BY <1>1 DEF UseSession, KeepState
<1>10. UseSession /\ ~cut' => session' = ledger'
  <2> SUFFICES ASSUME UseSession, ~cut' PROVE session' = ledger'
    OBVIOUS
  <2>1. RunWhole
    BY <1>1 DEF RunWhole
  <2>2. ~SaveCompletedState
    BY <1>3 DEF ControlTypes, ResultsKept, UseSession
  <2>3. inputItems \o generated = ledger
    BY <1>1, <1>2, <2>1 DEF RunSees
  <2> QED
    BY <1>1, <1>5, <1>8, <2>2, <2>3
<1>11. LocalOnly'
  BY <1>1, <1>2, <1>7, <1>9 DEF LocalOnly, NotSuspended, runVars
<1>12. TypeOK'
  BY <1>2, FinishTypes
<1>13. Committed'
  <2>1. ItemsOf(committed)' = ItemsOf(ledger') /\ ItemsOf(ledger)' = ItemsOf(ledger')
    BY <1>1
  <2>2. Numbered(committed)'
    BY <1>1, <1>6 DEF Numbered
  <2>3. KeepState => continuation'.state # 0 /\ ~Lost
    BY <1>2, <1>7, <1>9 DEF LocalOnly, Lost
  <2>4. KeepState => Stored(continuation.state)' = ItemsOf(ledger')
    BY <1>6, <1>7, <1>9, <2>3 DEF Stored
  <2> QED
    BY <1>1, <1>9, <1>10, <2>1, <2>2, <2>3, <2>4 DEF Committed
<1>14. WaitingSees' /\ SnapshotHeld' /\ RunSees' /\ ResumedOnce'
  BY <1>1 DEF WaitingSees, Waiting, SnapshotHeld, RunSees, ResumedOnce
<1>15. Numbered(ledger)'
  BY <1>6 DEF Numbered
<1> QED
  BY <1>11, <1>12, <1>13, <1>14, <1>15 DEF FlowInv

\* A step that says nothing: what is stored and kept stays, the conversation is
\* what it was or what the host has kept of it.
LEMMA NothingSaid ==
  ASSUME FlowInv, ledger' \in {ledger, committed},
         phase' \in {"idle", "suspended"}, phase' = "idle" => ledger' = committed,
         persisted' \in {persisted, NotSuspended},
         decision' \in {"none", "executed", "refused", "rejected"},
         UNCHANGED <<hostVars, contexts, runVars, executed, resumed, committed, turns>>
  PROVE  TypeOK' /\ Numbered(ledger)' /\ LocalOnly' /\ Committed' /\ RunSees'
<1>1. TypeOK /\ Numbered(ledger) /\ LocalOnly /\ Committed
  BY DEF FlowInv
<1>2. ItemTypes /\ ControlTypes /\ FlagTypes /\ StateTypes
  BY <1>1, TypeParts
<1>3. Numbered(ledger)' /\ Numbered(committed)' /\ ItemsOf(committed)' \subseteq ItemsOf(ledger)'
  BY <1>1 DEF Numbered, Committed, ItemsOf
<1>4. /\ KeepState' = KeepState /\ UseSession' = UseSession
      /\ Stored(continuation.state)' = Stored(continuation.state)
  BY DEF KeepState, UseSession, Stored, hostVars
<1>5. TypeOK'
  BY <1>1, NothingSaidTypes
<1>6. Committed'
  <2>1. /\ UNCHANGED <<cut, session, continuation, committed>>
        /\ ItemsOf(committed)' = ItemsOf(committed)
    BY DEF hostVars
  <2> QED
    BY <1>1, <1>3, <1>4, <2>1 DEF Committed
<1>7. RunSees'
  BY DEF RunSees
<1>8. LocalOnly'
  BY <1>1, <1>4 DEF LocalOnly, NotSuspended, hostVars, runVars
<1> QED
  BY <1>3, <1>5, <1>6, <1>7, <1>8

\* An error in a run leaves the host with what it had: before the turn, or
\* suspended with the call already executed.
LEMMA FailKeeps == FlowInv /\ Fail => FlowInv'
<1> SUFFICES ASSUME FlowInv, Fail PROVE FlowInv'
  OBVIOUS
<1>1. /\ phase = "running" /\ phase' = IF resumed THEN "suspended" ELSE "idle"
      /\ ledger' = IF resumed THEN ledger ELSE committed
      /\ UNCHANGED <<hostVars, contexts, runVars, persisted, executed, decision,
                     resumed, committed, turns>>
  BY DEF Fail
<1>2. TypeOK /\ SnapshotHeld /\ ResumedOnce
  BY DEF FlowInv
<1>3. decision' \in {"none", "executed", "refused", "rejected"}
  BY <1>1, <1>2, TypeParts DEF ControlTypes
<1>4. TypeOK' /\ Numbered(ledger)' /\ LocalOnly' /\ Committed' /\ RunSees'
  BY <1>1, <1>3, NothingSaid
<1>5. ResumedOnce' /\ WaitingSees'
  BY <1>1, <1>2 DEF ResumedOnce, WaitingSees, Waiting
<1>6. SnapshotHeld'
  BY <1>1, <1>2 DEF SnapshotHeld, hostVars
<1> QED
  BY <1>4, <1>5, <1>6 DEF FlowInv

\* A resume that raises before the tool is called changes nothing but the answer.
LEMMA ResumeRaisesKeeps == FlowInv /\ (ResumeRefused \/ ResumeRejected) => FlowInv'
<1> SUFFICES ASSUME FlowInv, ResumeRefused \/ ResumeRejected PROVE FlowInv'
  OBVIOUS
<1>1. /\ phase = "suspended" /\ ~executed /\ decision' \in {"refused", "rejected"}
      /\ UNCHANGED <<phase, hostVars, contexts, runVars, persisted, executed, resumed,
                     ledger, committed, turns>>
  BY DEF ResumeRefused, ResumeRejected
<1>2. TypeOK /\ SnapshotHeld /\ WaitingSees
  BY DEF FlowInv
<1>3. TypeOK' /\ Numbered(ledger)' /\ LocalOnly' /\ Committed' /\ RunSees'
  BY <1>1, NothingSaid
<1>4. WaitingSees' /\ SnapshotHeld' /\ ResumedOnce'
  BY <1>1, <1>2 DEF WaitingSees, Waiting, SnapshotHeld, ResumedOnce, Stored, ItemsOf, ItemOf,
                    Lost, KeepState, hostVars
<1> QED
  BY <1>3, <1>4 DEF FlowInv

\* A host that gives up has the conversation of the turns that ended well.
LEMMA HostAbandonsKeeps == FlowInv /\ HostAbandons => FlowInv'
<1> SUFFICES ASSUME FlowInv, HostAbandons PROVE FlowInv'
  OBVIOUS
<1>1. /\ phase' = "idle" /\ persisted' = NotSuspended /\ ledger' = committed
      /\ UNCHANGED <<hostVars, contexts, runVars, executed, decision, resumed,
                     committed, turns>>
  BY DEF HostAbandons
<1>2. decision' \in {"none", "executed", "refused", "rejected"}
  BY <1>1, TypeParts DEF ControlTypes, FlowInv
<1>3. TypeOK' /\ Numbered(ledger)' /\ LocalOnly' /\ Committed' /\ RunSees'
  BY <1>1, <1>2, NothingSaid
<1>4. WaitingSees' /\ SnapshotHeld' /\ ResumedOnce'
  BY <1>1 DEF WaitingSees, Waiting, SnapshotHeld, ResumedOnce
<1> QED
  BY <1>3, <1>4 DEF FlowInv

\* Every step of the host, its agents and the provider keeps the invariant.
LEMMA FlowPreserved == FlowInv /\ ResultsKept /\ [Next]_vars => FlowInv'
<1> SUFFICES ASSUME FlowInv, ResultsKept, [Next]_vars PROVE FlowInv'
  OBVIOUS
<1>1. CASE HostStartsTurn
  BY <1>1, HostStartsTurnKeeps
<1>2. ASSUME NEW work \in Work, NEW target \in Agents \ {agent}, HandOff(work, target)
      PROVE  FlowInv'
  BY <1>2, HandOffKeeps
<1>3. ASSUME NEW work \in Work, Finish(work) PROVE FlowInv'
  BY <1>3, FinishKeeps
<1>4. ASSUME NEW work \in Work, Suspend(work) PROVE FlowInv'
  BY <1>4, SuspendKeeps
<1>5. ASSUME NEW inner \in NestedAgents, SuspendNested(inner) PROVE FlowInv'
  BY <1>5, SuspendNestedKeeps
<1>6. CASE Fail
  BY <1>6, FailKeeps
<1>7. CASE Resume
  BY <1>7, ResumeKeeps
<1>8. CASE ResumeRefused \/ ResumeRejected
  BY <1>8, ResumeRaisesKeeps
<1>9. CASE HostAbandons
  BY <1>9, HostAbandonsKeeps
<1>10. CASE Over \/ UNCHANGED vars
  <2>1. UNCHANGED <<host, remote, cut, session, continuation, agent, providerState, inputItems, conversation,
                    agentInput, generated, contexts, phase, persisted, executed, resumed,
                    ledger, committed>>
    BY <1>10 DEF Over, vars, hostVars, runVars
  <2>2. TypeOK'
    BY TypesPreserved DEF FlowInv
  <2>3. Numbered(ledger)' /\ Committed' /\ LocalOnly'
    BY <2>1 DEF FlowInv, Numbered, Committed, LocalOnly, Stored, KeepState, UseSession
  <2>4. RunSees'
    BY <2>1 DEF FlowInv, RunSees, RunWhole, Stored, Lost, KeepState, UseSession
  <2>5. WaitingSees' /\ SnapshotHeld' /\ ResumedOnce'
    BY <2>1 DEF FlowInv, WaitingSees, Waiting, SnapshotHeld, ResumedOnce, Stored, Lost, KeepState
  <2> QED
    BY <2>2, <2>3, <2>4, <2>5 DEF FlowInv
<1> QED
  BY <1>1, <1>2, <1>3, <1>4, <1>5, <1>6, <1>7, <1>8, <1>9, <1>10 DEF Next

-----------------------------------------------------------------------------
(* The theorems.                                                            *)

\* Every variable keeps its type, whatever the host keeps after a resume.
THEOREM FlowTypes == Spec => []TypeOK
<1>1. Init => TypeOK
  BY InitFlow DEF FlowInv
<1>2. TypeOK /\ [Next]_vars => TypeOK'
  BY TypesPreserved
<1> QED
  BY <1>1, <1>2, PTL DEF Spec

\* Flow.run, its handoffs and resume, with a host that keeps the items of the
\* FlowResult or the provider state: the invariant holds.
THEOREM FlowInvariance == ASSUME ResultsKept PROVE Spec => []FlowInv
<1>1. Init => FlowInv
  BY InitFlow
<1>2. FlowInv /\ [Next]_vars => FlowInv'
  BY FlowPreserved
<1> QED
  BY <1>1, <1>2, PTL DEF Spec

\* Whenever an agent starts, the model sees the conversation so far: all of it, in
\* order and once, after any number of turns, handoffs, suspensions and failures, for
\* hosts that keep the continuation and for hosts with a session only, until a session
\* that is all the host has was replaced after the resume of a chained snapshot.
THEOREM HistoryIsDelivered == ASSUME ResultsKept PROVE Spec => []HistoryDelivered
<1>1. FlowInv => HistoryDelivered
  BY DEF FlowInv, RunSees, HistoryDelivered
<1> QED
  BY <1>1, FlowInvariance, PTL

\* The session is, between turns, the conversation of the turns that ended well, with
\* and without remote state, until the resume of a chained snapshot replaces it.
THEOREM SessionKeepsLedger == ASSUME ResultsKept PROVE Spec => []SessionIsLedger
<1>1. FlowInv => SessionIsLedger
  BY DEF FlowInv, Committed, SessionIsLedger
<1> QED
  BY <1>1, FlowInvariance, PTL

\* A suspended flow's persisted state holds the history of the session its run was
\* given, unless the suspended agent started on remote state or an agent that runs as
\* a tool made the request.
THEOREM SnapshotKeeps == ASSUME ResultsKept PROVE Spec => []SnapshotKeepsHistory
<1>1. FlowInv => SnapshotKeepsHistory
  BY DEF FlowInv, SnapshotHeld, SnapshotKeepsHistory
<1> QED
  BY <1>1, FlowInvariance, PTL

=============================================================================
