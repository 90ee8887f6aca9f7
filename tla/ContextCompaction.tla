--------------------------- MODULE ContextCompaction ---------------------------
(***************************************************************************)
(* ContextCompactor (context.py) and the host around it: the host keeps    *)
(* the full history and the last snapshot it persisted, calls compact,     *)
(* and the history grows while the summary is being written.  A session    *)
(* may also lose items between calls (pop_item, clear_session).            *)
(*                                                                         *)
(* A message is named by its position in the history; a summary is the set *)
(* of positions whose contents it was made from (facts) and a size.  The   *)
(* digest of a prefix is the prefix.  The measure counts items and adds    *)
(* the summary's size.                                                     *)
(***************************************************************************)
EXTENDS Naturals, Sequences, FiniteSets

CONSTANTS
  CallIds,          \* tool call ids
  Threshold, KeepRecentTurns, MaxInputSize,   \* the compactor's parameters
  MaxSummarySize,   \* max_summary_bytes
  RequestOverhead,  \* size of the summariser's own instructions
  MaxItems,         \* bound: length of the history
  MaxForgotten      \* bound: how often the host removes items

ASSUME CompactionAssumption ==
  /\ Threshold \in Nat \ {0} /\ KeepRecentTurns \in Nat \ {0}
  /\ MaxInputSize \in Nat \ {0} /\ MaxSummarySize \in Nat \ {0}
  /\ RequestOverhead \in Nat /\ MaxItems \in Nat /\ MaxForgotten \in Nat

VARIABLES
  history,   \* the full history
  saved,     \* the snapshot the host persisted
  request,   \* the summary being written: its batch, and what compact knows
  forgotten, \* how often the host has removed items
  result     \* the last CompactionResult, until the history changes

vars == <<history, forgotten, saved, request, result>>

-----------------------------------------------------------------------------
Items == [kind: {"instruction", "user", "assistant"}, call: {0}]
           \cup [kind: {"call", "output"}, call: CallIds]

Instruction(item) == item.kind = "instruction"
NonInstructions(list, from, to) == {i \in from..to : ~Instruction(list[i])}

NoSnapshot == [prefix |-> <<>>, covered |-> 0, facts |-> {}, size |-> 0]
NoRequest == [batch |-> {}, end |-> 0, given |-> <<>>, before |-> 0]
NoMessages == [pinned |-> {}, facts |-> {}, tail |-> {}]
NoResult == [status |-> "none", length |-> 0, messages |-> NoMessages]

Init ==
  /\ history = <<>> /\ forgotten = 0
  /\ saved = NoSnapshot
  /\ request = NoRequest
  /\ result = NoResult

-----------------------------------------------------------------------------
(* What compact computes.                                                   *)

Pinned_None(list, snapshot) == {}

\* Instructions of the covered prefix stay.
Pinned(list, snapshot) == {i \in 1..snapshot.covered : Instruction(list[i])}

\* _messages: pinned instructions, the summary as one message, the rest.
Messages(list, snapshot) ==
  [pinned |-> Pinned(list, snapshot),
   facts  |-> snapshot.facts,
   tail   |-> (snapshot.covered + 1)..Len(list)]

\* measure(messages).
Size(messages, snapshot) ==
  Cardinality(messages.pinned) + snapshot.size + Cardinality(messages.tail)

Matches_Length(snapshot, list) == snapshot.covered <= Len(list)

\* The previous snapshot belongs to this history.
Matches(snapshot, list) ==
  /\ snapshot.covered <= Len(list)
  /\ SubSeq(list, 1, snapshot.covered) = snapshot.prefix

Of(kind, list, call) == {i \in DOMAIN list : list[i] = [kind |-> kind, call |-> call]}

\* _tool_spans does not raise.
WellFormed(list) ==
  \A call \in CallIds :
    LET calls == Of("call", list, call)  outputs == Of("output", list, call)
    IN  /\ Cardinality(calls) <= 1 /\ Cardinality(outputs) <= 1
        /\ \A o \in outputs : \E c \in calls : c < o

Spans_Answered(list) ==
  UNION {Of("call", list, call) \X Of("output", list, call) : call \in CallIds}

\* From a call to its output, or to the end when there is none yet.
Spans(list) ==
  UNION {LET outputs == Of("output", list, call)
         IN  Of("call", list, call)
               \X (IF outputs = {} THEN {Len(list) + 1} ELSE outputs) : call \in CallIds}

RecentKept_OffByOne(list, end) ==
  Cardinality({i \in DOMAIN list : list[i].kind = "user" /\ i > end})
    >= KeepRecentTurns - 1

RecentKept(list, end) ==
  Cardinality({i \in DOMAIN list : list[i].kind = "user" /\ i > end})
    >= KeepRecentTurns

\* Where a prefix may end: before a user message, behind it enough turns, and
\* across no tool call.
Boundaries(list, start) ==
  {end \in (start + 1)..(Len(list) - 1) :
     /\ list[end + 1].kind = "user"
     /\ RecentKept(list, end)
     /\ \A span \in Spans(list) : ~(span[1] <= end /\ end < span[2])}

\* history[start:end] without its instructions.
NewItems(list, previous, end) == NonInstructions(list, previous.covered + 1, end)

\* The ends of the batches the summariser's input has room for; the longest is
\* taken.
Batches(list, previous) ==
  {end \in Boundaries(list, previous.covered) :
     /\ NewItems(list, previous, end) # {}
     /\ RequestOverhead + previous.size
          + Cardinality(NewItems(list, previous, end)) <= MaxInputSize}

\* The CompactionResult.
Return(status, list, snapshot) ==
  result' = [status |-> status, length |-> Len(list),
             messages |-> Messages(list, snapshot)]

Acceptable == Matches(saved, history) /\ WellFormed(history)
CurrentSize == Size(Messages(history, saved), saved)

\* compact without a call of the model: the context is small, or no batch is
\* safe and fits.
CompactNothing ==
  /\ request = NoRequest
  /\ Acceptable
  /\ \/ CurrentSize <= Threshold /\ Return("unchanged", history, saved)
     \/ CurrentSize > Threshold /\ Batches(history, saved) = {}
          /\ Return("blocked", history, saved)
  /\ UNCHANGED <<history, forgotten, saved, request>>

\* compact up to its call of the model.
AskSummary ==
  /\ request = NoRequest
  /\ Acceptable
  /\ CurrentSize > Threshold
  /\ \E end \in Batches(history, saved) :
       /\ \A other \in Batches(history, saved) : other <= end
       /\ request' = [batch |-> NewItems(history, saved, end), end |-> end,
                      given |-> history, before |-> CurrentSize]
  /\ result' = NoResult
  /\ UNCHANGED <<history, forgotten, saved>>

\* ValueError: another history's snapshot, or tool items that do not pair.
CompactRefused ==
  /\ request = NoRequest
  /\ ~Acceptable
  /\ result' = [NoResult EXCEPT !.status = "refused"]
  /\ UNCHANGED <<history, forgotten, saved, request>>

SummaryValid(size) == size \in 1..MaxSummarySize

NewSnapshot(list, size) ==
  [prefix |-> SubSeq(list, 1, request.end), covered |-> request.end,
   facts |-> saved.facts \cup request.batch, size |-> size]

KeptAfterFailure == saved

\* _finish with a summary that is accepted.  It reads the list it was given,
\* which is the host's own, grown meanwhile, or a copy.  The host persists the
\* snapshot, or fails to.
SummaryAccepted(list, size) ==
  LET snapshot == NewSnapshot(list, size)
  IN  /\ SummaryValid(size)
      /\ Size(Messages(list, snapshot), snapshot) < request.before
      /\ Return("compacted", list, snapshot)
      /\ saved' \in {saved, snapshot}

\* _finish with a summary that is empty, too long or no gain, and _failed.
SummaryRefused(list, size) ==
  LET snapshot == NewSnapshot(list, size)
  IN  /\ \/ ~SummaryValid(size)
            /\ Return("failed", request.given, saved)
         \/ SummaryValid(size)
            /\ Size(Messages(list, snapshot), snapshot) >= request.before
            /\ Return("blocked", request.given, saved)
      /\ saved' = KeptAfterFailure

\* The model answers, with a summary of some size.
SummaryReturns ==
  /\ request # NoRequest
  /\ \E list \in {request.given, history}, size \in 0..(MaxSummarySize + 1) :
       SummaryAccepted(list, size) \/ SummaryRefused(list, size)
  /\ request' = NoRequest
  /\ UNCHANGED <<history, forgotten>>

\* The budget runs out or the host's task is cancelled: compact raises.
CompactAborted ==
  /\ request # NoRequest
  /\ request' = NoRequest
  /\ UNCHANGED <<history, forgotten, saved, result>>

-----------------------------------------------------------------------------
(* The host.                                                                *)

\* The conversation goes on, compaction or not.  (Bound: nothing is added to a
\* history compact would refuse.)
AppendItem(item) ==
  /\ Len(history) < MaxItems /\ WellFormed(history)
  /\ history' = Append(history, item)
  /\ result' = NoResult
  /\ UNCHANGED <<forgotten, saved, request>>

\* Session.pop_item and clear_session, never during a compaction.
HostForgets ==
  /\ request = NoRequest
  /\ history # <<>> /\ forgotten < MaxForgotten
  /\ forgotten' = forgotten + 1
  /\ history' \in {SubSeq(history, 1, Len(history) - 1), <<>>}
  /\ result' = NoResult
  /\ UNCHANGED <<saved, request>>

\* After a refusal "the host must reset/rebuild it explicitly".
ResetSnapshot ==
  /\ result.status = "refused"
  /\ saved' = NoSnapshot
  /\ result' = NoResult
  /\ UNCHANGED <<history, forgotten, request>>

Next ==
  \/ CompactNothing
  \/ AskSummary
  \/ CompactRefused
  \/ SummaryReturns
  \/ CompactAborted
  \/ \E item \in Items : AppendItem(item)
  \/ HostForgets
  \/ ResetSnapshot

Spec == Init /\ [][Next]_vars

-----------------------------------------------------------------------------
(* Properties.                                                              *)

Snapshots ==
  [prefix: Seq(Items), covered: Nat, facts: SUBSET Nat, size: 0..MaxSummarySize]
TypeOK ==
  /\ history \in Seq(Items) /\ forgotten \in 0..MaxForgotten
  /\ saved \in Snapshots /\ Len(saved.prefix) = saved.covered
  /\ request \in [batch: SUBSET Nat, end: Nat, given: Seq(Items), before: Nat]
  /\ result \in [status: {"none", "unchanged", "blocked", "failed", "compacted",
                          "refused"},
                 length: Nat,
                 messages: [pinned: SUBSET Nat, facts: SUBSET Nat, tail: SUBSET Nat]]

\* However often the summary is merged, and whatever fails on the way, the
\* snapshot stands for every message of its prefix that is no instruction, and
\* a request sends the messages after it once ("only new complete turns enter
\* the next incremental summary request", README.md).
SummaryIsPrefix ==
  /\ saved.facts = NonInstructions(saved.prefix, 1, saved.covered)
  /\ request # NoRequest =>
       /\ request.batch \cap saved.facts = {}
       /\ request.batch \cup saved.facts
            = NonInstructions(request.given, 1, request.end)

\* What compact returns is the whole history: each position is pinned, part of
\* the summary or verbatim, and no two of these; instructions are never in the
\* summary.
ContextComplete ==
  result.status \notin {"none", "refused"} =>
    LET m == result.messages
    IN  /\ m.pinned \cup m.facts \cup m.tail = 1..result.length
        /\ m.pinned \cap m.facts = {} /\ m.facts \cap m.tail = {}
        /\ \A i \in m.facts : ~Instruction(history[i])

\* "Pending calls and parallel tool-call blocks are never split" (README.md): a
\* call in the prefix of a snapshot has its output there too.
CallsNotSplit ==
  \A call \in CallIds :
    Of("call", saved.prefix, call) # {} => Of("output", saved.prefix, call) # {}

\* "Recent user turns are kept verbatim" (README.md).
RecentTurnsKept ==
  result.status = "compacted" =>
    Cardinality({i \in result.messages.tail : history[i].kind = "user"})
      >= KeepRecentTurns

\* A snapshot is replaced only by one that extends it; failures, refusals and
\* summaries that gain nothing leave it ("never replace the old snapshot",
\* README.md) unless the host resets it.
CoverageGrows ==
  [][\/ saved' = saved
     \/ result.status = "refused" /\ saved' = NoSnapshot
     \/ /\ saved'.covered > saved.covered
        /\ SubSeq(saved'.prefix, 1, saved.covered) = saved.prefix]_vars

=============================================================================
