------------------------ MODULE ContextCompactionProofs ------------------------
(***************************************************************************)
(* What ContextCompaction's runs check, for every value of its constants:  *)
(* any thresholds, any number of tool calls, histories of any length.      *)
(*                                                                         *)
(* The argument: a snapshot is a fact about its own prefix, so nothing the *)
(* host does to the history can falsify it; the comparison of prefixes     *)
(* carries it over to the history compact is given, and the history only   *)
(* grows until the summary returns.  The inductive invariant adds to the   *)
(* properties what a request remembers: it continues the saved snapshot,   *)
(* on a prefix of the present history, up to a boundary no call crosses.   *)
(***************************************************************************)
EXTENDS ContextCompaction, FiniteSetTheorems, SequenceTheorems, TLAPS

\* list begins with the items of short.
Begins(short, list) ==
  /\ short \in Seq(Items) /\ list \in Seq(Items)
  /\ Len(short) <= Len(list)
  /\ \A i \in 1..Len(short) : list[i] = short[i]

\* Every call among the first end items has its output among them.
Closed(list, end) ==
  \A i \in 1..end : list[i].kind = "call" =>
    \E j \in 1..end : list[j] = [kind |-> "output", call |-> list[i].call]

Sound(snapshot) ==
  /\ snapshot \in Snapshots
  /\ Len(snapshot.prefix) = snapshot.covered
  /\ snapshot.facts = NonInstructions(snapshot.prefix, 1, snapshot.covered)
  /\ Closed(snapshot.prefix, snapshot.covered)

Continues ==
  /\ Begins(request.given, history)
  /\ Begins(saved.prefix, request.given)
  /\ request.end \in (saved.covered + 1)..(Len(request.given) - 1)
  /\ request.batch = NonInstructions(request.given, saved.covered + 1, request.end)
  /\ Closed(request.given, request.end)
  /\ RecentKept(request.given, request.end)
  /\ result = NoResult

Requests == [batch: SUBSET Nat, end: Nat, given: Seq(Items), before: Nat]
Results ==
  [status: {"none", "unchanged", "blocked", "failed", "compacted", "refused"},
   length: Nat,
   messages: [pinned: SUBSET Nat, facts: SUBSET Nat, tail: SUBSET Nat]]

Inv ==
  /\ history \in Seq(Items) /\ forgotten \in 0..MaxForgotten
  /\ Sound(saved)
  /\ request \in Requests
  /\ request # NoRequest => Continues
  /\ result \in Results
  /\ result.length <= Len(history)
  /\ ContextComplete
  /\ RecentTurnsKept

-----------------------------------------------------------------------------
(* Lists and snapshots.                                                     *)

\* Nothing is covered before the first summary.
LEMMA NoSnapshotSound == Sound(NoSnapshot)
  BY CompactionAssumption
     DEF Sound, NoSnapshot, Snapshots, NonInstructions, Closed

\* A snapshot that matches a list is one of its beginning.
LEMMA MatchesBegins ==
  ASSUME NEW snapshot, Sound(snapshot), NEW list \in Seq(Items),
         Matches(snapshot, list)
  PROVE  Begins(snapshot.prefix, list)
<1>1. snapshot.prefix \in Seq(Items) /\ snapshot.covered \in Nat
      /\ Len(snapshot.prefix) = snapshot.covered
  BY DEF Sound, Snapshots
<1>2. snapshot.covered <= Len(list)
      /\ SubSeq(list, 1, snapshot.covered) = snapshot.prefix
  BY DEF Matches
<1>3. \A i \in 1..snapshot.covered : SubSeq(list, 1, snapshot.covered)[i] = list[i]
  BY <1>1, <1>2
<1> QED BY <1>1, <1>2, <1>3 DEF Begins

\* What _messages makes of a history and a snapshot of its beginning is the
\* whole history.
LEMMA MessagesComplete ==
  ASSUME NEW snapshot, Sound(snapshot), NEW list, Begins(snapshot.prefix, list),
         NEW m, m = Messages(list, snapshot)
  PROVE  /\ m.pinned \cup m.facts \cup m.tail = 1..Len(list)
         /\ m.pinned \cap m.facts = {} /\ m.facts \cap m.tail = {}
         /\ \A i \in m.facts : ~Instruction(list[i])
         /\ m \in [pinned: SUBSET Nat, facts: SUBSET Nat, tail: SUBSET Nat]
         /\ m.tail = (snapshot.covered + 1)..Len(list)
<1> DEFINE n == snapshot.covered
<1>1. n \in Nat /\ n <= Len(list) /\ Len(list) \in Nat
  BY DEF Sound, Snapshots, Begins
<1>2. \A i \in 1..n : list[i] = snapshot.prefix[i]
  BY DEF Sound, Begins
<1>3. /\ m.pinned = {i \in 1..n : Instruction(list[i])}
      /\ m.facts = snapshot.facts /\ m.tail = (n + 1)..Len(list)
  BY DEF Messages, Pinned
<1>4. m.facts = {i \in 1..n : ~Instruction(list[i])}
  BY <1>2, <1>3 DEF Sound, NonInstructions
<1>5. m.pinned \cup m.facts = 1..n /\ m.pinned \cap m.facts = {}
  BY <1>3, <1>4
<1>6. /\ (1..n) \cup ((n + 1)..Len(list)) = 1..Len(list)
      /\ (1..n) \cap ((n + 1)..Len(list)) = {}
  BY <1>1
<1>7. m \in [pinned: SUBSET Nat, facts: SUBSET Nat, tail: SUBSET Nat]
  BY <1>1, <1>3, <1>4 DEF Messages
<1> HIDE DEF n
<1> QED BY <1>3, <1>4, <1>5, <1>6, <1>7 DEF n

\* The size of what compact would return is a number.
LEMMA SizeType ==
  ASSUME NEW snapshot, Sound(snapshot), NEW list \in Seq(Items)
  PROVE  Size(Messages(list, snapshot), snapshot) \in Nat
<1> DEFINE n == snapshot.covered
           pinned == {i \in 1..n : Instruction(list[i])}
           tail == (n + 1)..Len(list)
<1>1. n \in Nat /\ Len(list) \in Nat /\ snapshot.size \in Nat
  BY CompactionAssumption DEF Sound, Snapshots
<1>2. IsFiniteSet(1..n) /\ IsFiniteSet(tail)
  <2>1. 1 \in Int /\ n \in Int /\ n + 1 \in Int /\ Len(list) \in Int
    BY <1>1
  <2> QED BY ONLY <2>1, FS_Interval
<1>3. pinned \in SUBSET (1..n)
  OBVIOUS
<1>4. IsFiniteSet(pinned)
  BY <1>2, <1>3, FS_Subset
<1>5. Cardinality(pinned) \in Nat /\ Cardinality(tail) \in Nat
  BY <1>2, <1>4, FS_CardinalityType
<1> QED BY <1>1, <1>5 DEF Size, Messages, Pinned

\* Lists that agree up to a boundary are closed there together.
LEMMA ClosedAgrees ==
  ASSUME NEW list, NEW other, NEW end, Closed(list, end),
         \A i \in 1..end : list[i] = other[i]
  PROVE  Closed(other, end)
  BY DEF Closed

\* A boundary that no span crosses closes every call before it.
LEMMA BoundaryCloses ==
  ASSUME NEW list \in Seq(Items), NEW start \in Nat, NEW end \in Boundaries(list, start)
  PROVE  Closed(list, end)
<1>1. end \in (start + 1)..(Len(list) - 1) /\ Len(list) \in Nat
      /\ \A span \in Spans(list) : ~(span[1] <= end /\ end < span[2])
  BY DEF Boundaries
<1> SUFFICES ASSUME NEW i \in 1..end, list[i].kind = "call"
             PROVE  \E j \in 1..end :
                      list[j] = [kind |-> "output", call |-> list[i].call]
  BY DEF Closed
<1> DEFINE call == list[i].call
           outputs == Of("output", list, call)
<1>2. i \in DOMAIN list /\ list[i] \in Items
  BY <1>1
<1>3. call \in CallIds /\ list[i] = [kind |-> "call", call |-> call]
  BY <1>2 DEF Items
<1>4. i \in Of("call", list, call)
  BY <1>2, <1>3 DEF Of
<1>5. outputs # {}
  <2> SUFFICES ASSUME outputs = {} PROVE FALSE
    OBVIOUS
  <2>1. <<i, Len(list) + 1>> \in Of("call", list, call)
          \X (IF outputs = {} THEN {Len(list) + 1} ELSE outputs)
    BY <1>4
  <2>2. <<i, Len(list) + 1>> \in Spans(list)
    BY <1>3, <2>1 DEF Spans
  <2> QED BY <1>1, <2>2
<1>6. PICK j \in outputs : TRUE
  BY <1>5
<1>7. <<i, j>> \in Of("call", list, call)
        \X (IF outputs = {} THEN {Len(list) + 1} ELSE outputs)
  BY <1>4, <1>6
<1>8. <<i, j>> \in Spans(list)
  BY <1>3, <1>7 DEF Spans
<1>9. j \in 1..Len(list) /\ list[j] = [kind |-> "output", call |-> call]
  BY <1>6 DEF Of
<1>10. j <= end
  BY <1>1, <1>8, <1>9
<1> QED BY <1>9, <1>10

\* Recent turns behind a boundary do not become fewer when the list grows.
LEMMA RecentGrows ==
  ASSUME NEW short, NEW list, Begins(short, list), NEW end \in Nat,
         RecentKept(short, end)
  PROVE  RecentKept(list, end)
<1> DEFINE few == {i \in DOMAIN short : short[i].kind = "user" /\ i > end}
           many == {i \in DOMAIN list : list[i].kind = "user" /\ i > end}
<1>1. DOMAIN list = 1..Len(list) /\ Len(list) \in Nat
      /\ DOMAIN short = 1..Len(short) /\ Len(short) \in Nat
  BY DEF Begins
<1>2. IsFiniteSet(1..Len(list))
  BY <1>1, FS_Interval
<1>3. many \in SUBSET (1..Len(list))
  BY <1>1
<1>4. IsFiniteSet(many)
  BY <1>2, <1>3, FS_Subset
<1>5. few \in SUBSET many
  BY <1>1 DEF Begins
<1>6. IsFiniteSet(few) /\ Cardinality(few) <= Cardinality(many)
  BY <1>4, <1>5, FS_Subset
<1>7. Cardinality(few) \in Nat /\ Cardinality(many) \in Nat
  BY <1>4, <1>6, FS_CardinalityType
<1> QED BY <1>6, <1>7, CompactionAssumption DEF RecentKept

-----------------------------------------------------------------------------
(* The snapshot a summary makes.                                            *)

\* It is sound, extends the saved one and is a snapshot of the list _finish
\* was given, the host's own or a copy.
LEMMA NewSnapshotSound ==
  ASSUME Inv, request # NoRequest, NEW list, Begins(request.given, list),
         NEW size \in 0..MaxSummarySize,
         NEW snapshot, snapshot = NewSnapshot(list, size)
  PROVE  /\ Sound(snapshot)
         /\ Begins(snapshot.prefix, list)
         /\ snapshot.covered > saved.covered
         /\ SubSeq(snapshot.prefix, 1, saved.covered) = saved.prefix
         /\ RecentKept(list, snapshot.covered)
<1> DEFINE n == request.end
           m == saved.covered
           prefix == SubSeq(list, 1, n)
<1>1. Continues /\ Sound(saved)
  BY DEF Inv
<1>2. /\ list \in Seq(Items) /\ request.given \in Seq(Items)
      /\ Len(request.given) <= Len(list)
      /\ \A i \in 1..Len(request.given) : list[i] = request.given[i]
  BY DEF Begins
<1>3. /\ m \in Nat /\ n \in Nat /\ m < n /\ n < Len(request.given)
      /\ Len(list) \in Nat /\ Len(request.given) \in Nat
  BY <1>1, <1>2 DEF Continues, Sound, Snapshots
<1>4. /\ prefix \in Seq(Items) /\ Len(prefix) = n
      /\ \A i \in 1..n : prefix[i] = list[i] /\ list[i] = request.given[i]
  BY <1>2, <1>3
<1>5. /\ saved.prefix \in Seq(Items) /\ Len(saved.prefix) = m
      /\ \A i \in 1..m : saved.prefix[i] = list[i]
  <2>1. Begins(saved.prefix, request.given) /\ Len(saved.prefix) = m
    BY <1>1 DEF Continues, Sound
  <2>2. /\ saved.prefix \in Seq(Items)
        /\ \A i \in 1..m : request.given[i] = saved.prefix[i]
    BY <2>1 DEF Begins
  <2>3. \A i \in 1..m : i \in 1..Len(request.given)
    BY <1>3
  <2> QED BY <1>2, <2>1, <2>2, <2>3
<1>6. /\ snapshot.prefix = prefix /\ snapshot.covered = n /\ snapshot.size = size
      /\ snapshot.facts = saved.facts \cup request.batch
  BY DEF NewSnapshot
<1>7. snapshot.facts = NonInstructions(prefix, 1, n)
  <2>1. saved.facts = {i \in 1..m : ~Instruction(list[i])}
    BY <1>1, <1>5 DEF Sound, NonInstructions
  <2>2. request.batch = {i \in (m + 1)..n : ~Instruction(list[i])}
    BY <1>1, <1>3, <1>4 DEF Continues, NonInstructions
  <2>3. 1..n = (1..m) \cup ((m + 1)..n)
    BY <1>3
  <2>4. NonInstructions(prefix, 1, n) = {i \in 1..n : ~Instruction(list[i])}
    BY <1>4 DEF NonInstructions
  <2> QED BY <1>6, <2>1, <2>2, <2>3, <2>4
<1>8. Closed(prefix, n)
  <2>1. Closed(request.given, n) /\ \A i \in 1..n : request.given[i] = prefix[i]
    BY <1>1, <1>4 DEF Continues
  <2> HIDE DEF prefix, n
  <2> QED BY <2>1, ClosedAgrees
<1>9. snapshot \in Snapshots
  <2>1. snapshot.facts \in SUBSET Nat
    BY <1>3, <1>7 DEF NonInstructions
  <2>2. snapshot = [prefix |-> prefix, covered |-> n,
                    facts |-> snapshot.facts, size |-> size]
    BY <1>6 DEF NewSnapshot
  <2> HIDE DEF prefix, n
  <2> QED BY <1>3, <1>4, <2>1, <2>2 DEF Snapshots
<1>10. Sound(snapshot)
  BY <1>4, <1>6, <1>7, <1>8, <1>9 DEF Sound
<1>11. Begins(prefix, list)
  BY <1>2, <1>3, <1>4 DEF Begins
<1>12. SubSeq(prefix, 1, m) = saved.prefix
  <2>1. /\ SubSeq(prefix, 1, m) \in Seq(Items) /\ Len(SubSeq(prefix, 1, m)) = m
        /\ \A i \in 1..m : SubSeq(prefix, 1, m)[i] = prefix[i]
    BY <1>3, <1>4
  <2>2. \A i \in 1..m : SubSeq(prefix, 1, m)[i] = saved.prefix[i]
    BY <1>3, <1>4, <1>5, <2>1
  <2> HIDE DEF prefix
  <2> QED BY <1>5, <2>1, <2>2, SeqEqual
<1>13. RecentKept(list, n)
  BY <1>1, <1>3, RecentGrows DEF Continues
<1> QED BY <1>3, <1>6, <1>10, <1>11, <1>12, <1>13

-----------------------------------------------------------------------------
(* The invariant.                                                           *)

\* Nothing is there at first.
LEMMA InitInv == Init => Inv
<1> SUFFICES ASSUME Init PROVE Inv
  OBVIOUS
<1>1. /\ history = <<>> /\ forgotten = 0 /\ saved = NoSnapshot
      /\ request = NoRequest /\ result = NoResult
  BY DEF Init
<1>2. NoRequest \in Requests
  BY DEF NoRequest, Requests
<1>3. NoResult \in Results /\ NoResult.length = 0
  BY DEF NoResult, NoMessages, Results
<1>4. ContextComplete /\ RecentTurnsKept
  BY <1>1 DEF ContextComplete, RecentTurnsKept, NoResult
<1> QED BY <1>1, <1>2, <1>3, <1>4, NoSnapshotSound, CompactionAssumption DEF Inv

\* A result returned for a beginning of the history tells the whole of it.
LEMMA ReturnInv ==
  ASSUME NEW snapshot, Sound(snapshot), NEW list, Begins(snapshot.prefix, list),
         Begins(list, history), history' = history,
         NEW status \in {"unchanged", "blocked", "failed", "compacted"},
         Return(status, list, snapshot),
         status = "compacted" => RecentKept(list, snapshot.covered)
  PROVE  /\ result' \in Results
         /\ result'.length <= Len(history')
         /\ ContextComplete'
         /\ RecentTurnsKept'
<1> DEFINE m == Messages(list, snapshot)
<1>1. /\ result'.status = status /\ result'.length = Len(list)
      /\ result'.messages = m
      /\ result' = [status |-> status, length |-> Len(list), messages |-> m]
  BY DEF Return
<1>2. /\ m.pinned \cup m.facts \cup m.tail = 1..Len(list)
      /\ m.pinned \cap m.facts = {} /\ m.facts \cap m.tail = {}
      /\ \A i \in m.facts : ~Instruction(list[i])
      /\ m \in [pinned: SUBSET Nat, facts: SUBSET Nat, tail: SUBSET Nat]
      /\ m.tail = (snapshot.covered + 1)..Len(list)
  BY MessagesComplete
<1> HIDE DEF m
<1>3. /\ Len(list) \in Nat /\ Len(list) <= Len(history)
      /\ DOMAIN list = 1..Len(list)
      /\ \A i \in 1..Len(list) : history[i] = list[i]
  BY DEF Begins
<1>4. ContextComplete'
  <2>1. \A i \in m.facts : i \in 1..Len(list)
    BY <1>2
  <2>2. \A i \in m.facts : ~Instruction(history'[i])
    BY <1>2, <1>3, <2>1
  <2> QED BY <1>1, <1>2, <2>2 DEF ContextComplete
<1>5. RecentTurnsKept'
  <2> SUFFICES ASSUME status = "compacted"
               PROVE  Cardinality({i \in m.tail : history'[i].kind = "user"})
                        >= KeepRecentTurns
    BY <1>1 DEF RecentTurnsKept
  <2>1. snapshot.covered \in Nat
    BY DEF Sound, Snapshots
  <2>2. {i \in m.tail : history'[i].kind = "user"}
          = {i \in DOMAIN list : list[i].kind = "user" /\ i > snapshot.covered}
    BY <1>2, <1>3, <2>1
  <2> QED BY <2>2 DEF RecentKept
<1> QED BY <1>1, <1>2, <1>3, <1>4, <1>5 DEF Results

\* A history begins with itself, and what it begins with it still does when an
\* item is added.
LEMMA BeginsGrows ==
  ASSUME NEW short, NEW list, Begins(short, list), NEW item \in Items
  PROVE  Begins(list, list) /\ Begins(short, Append(list, item))
<1>1. /\ Append(list, item) \in Seq(Items)
      /\ Len(Append(list, item)) = Len(list) + 1
      /\ \A i \in 1..Len(list) : Append(list, item)[i] = list[i]
  BY DEF Begins
<1> QED BY <1>1 DEF Begins

\* A list begins with itself.
LEMMA BeginsSelf == ASSUME NEW list \in Seq(Items) PROVE Begins(list, list)
  BY DEF Begins

\* Without a result there is nothing to keep.
LEMMA NoResultInv ==
  ASSUME history' \in Seq(Items),
         result' = NoResult \/ result' = [NoResult EXCEPT !.status = "refused"]
  PROVE  /\ result' \in Results
         /\ result'.length <= Len(history')
         /\ ContextComplete'
         /\ RecentTurnsKept'
<1>1. /\ result'.status \in {"none", "refused"} /\ result'.length = 0
      /\ result' \in Results
  BY DEF NoResult, NoMessages, Results
<1>2. Len(history') \in Nat
  OBVIOUS
<1> QED BY <1>1, <1>2 DEF ContextComplete, RecentTurnsKept

\* compact without a call of the model.
LEMMA CompactNothingInv == ASSUME Inv, CompactNothing PROVE Inv'
<1>1. /\ history' = history /\ forgotten' = forgotten
      /\ saved' = saved /\ request' = request /\ request = NoRequest
      /\ Acceptable
  BY DEF CompactNothing
<1>2. history \in Seq(Items) /\ Sound(saved)
  BY DEF Inv
<1>3. Begins(saved.prefix, history) /\ Begins(history, history)
  BY <1>1, <1>2, MatchesBegins, BeginsSelf DEF Acceptable
<1>4. PICK status \in {"unchanged", "blocked"} : Return(status, history, saved)
  BY DEF CompactNothing
<1>5. /\ result' \in Results /\ result'.length <= Len(history')
      /\ ContextComplete' /\ RecentTurnsKept'
  BY <1>1, <1>2, <1>3, <1>4, ReturnInv
<1>6. request' = NoRequest /\ request' \in Requests
  BY <1>1 DEF Inv
<1> QED BY <1>1, <1>2, <1>5, <1>6 DEF Inv, Sound

\* compact up to its call of the model: the request continues the snapshot.
LEMMA AskSummaryInv == ASSUME Inv, AskSummary PROVE Inv'
<1>1. /\ history' = history /\ forgotten' = forgotten /\ saved' = saved
      /\ result' = NoResult /\ Acceptable
  BY DEF AskSummary
<1>2. PICK end \in Batches(history, saved) :
        request' = [batch |-> NewItems(history, saved, end), end |-> end,
                    given |-> history, before |-> CurrentSize]
  BY DEF AskSummary
<1>3. history \in Seq(Items) /\ Sound(saved) /\ saved.covered \in Nat
  BY DEF Inv, Sound, Snapshots
<1>4. end \in Boundaries(history, saved.covered)
  BY <1>2 DEF Batches
<1>5. /\ end \in (saved.covered + 1)..(Len(history) - 1) /\ end \in Nat
      /\ RecentKept(history, end)
  BY <1>3, <1>4 DEF Boundaries
<1>6. Closed(history, end)
  BY <1>3, <1>4, BoundaryCloses
<1>7. Begins(saved.prefix, history) /\ Begins(history, history)
  BY <1>1, <1>3, MatchesBegins, BeginsSelf DEF Acceptable
<1>8. /\ request'.given = history /\ request'.end = end
      /\ request'.batch = NonInstructions(history, saved.covered + 1, end)
  BY <1>2 DEF NewItems
<1>9. Continues'
  BY <1>1, <1>5, <1>6, <1>7, <1>8 DEF Continues
<1>10. request' \in Requests
  <2>1. CurrentSize \in Nat
    BY <1>3, SizeType DEF CurrentSize
  <2>2. NewItems(history, saved, end) \in SUBSET Nat
    BY <1>3 DEF NewItems, NonInstructions
  <2> QED BY <1>2, <1>3, <1>5, <2>1, <2>2 DEF Requests
<1>11. /\ result' \in Results /\ result'.length <= Len(history')
       /\ ContextComplete' /\ RecentTurnsKept'
  BY <1>1, <1>3, NoResultInv
<1> QED BY <1>1, <1>3, <1>9, <1>10, <1>11 DEF Inv, Sound

\* The list _finish reads, the host's own or a copy, begins the history and is
\* begun by the one that was summarised.
LEMMA ListGiven ==
  ASSUME Inv, request # NoRequest, NEW list \in {request.given, history}
  PROVE  Begins(request.given, list) /\ Begins(list, history)
<1>1. Begins(request.given, history)
  BY DEF Inv, Continues
<1>2. Begins(request.given, request.given) /\ Begins(history, history)
  BY <1>1, BeginsSelf DEF Begins
<1> QED BY <1>1, <1>2

\* The summary comes back: it is accepted and perhaps persisted, or it is not
\* and the saved snapshot stays.
LEMMA SummaryReturnsInv ==
  ASSUME Inv, SummaryReturns
  PROVE  /\ Inv'
         /\ \/ saved' = saved
            \/ /\ saved'.covered > saved.covered
               /\ SubSeq(saved'.prefix, 1, saved.covered) = saved.prefix
<1>1. /\ request # NoRequest /\ request' = NoRequest
      /\ history' = history /\ forgotten' = forgotten
  BY DEF SummaryReturns
<1>2. PICK list \in {request.given, history}, size \in 0..(MaxSummarySize + 1) :
        SummaryAccepted(list, size) \/ SummaryRefused(list, size)
  BY DEF SummaryReturns
<1>3. Begins(request.given, list) /\ Begins(list, history)
  BY <1>1, ListGiven
<1>4. /\ Sound(saved) /\ Begins(saved.prefix, request.given)
      /\ Begins(request.given, history)
  BY <1>1 DEF Inv, Continues
<1>5. request' \in Requests
  BY <1>1 DEF NoRequest, Requests
<1>6. CASE SummaryAccepted(list, size)
  <2> DEFINE snapshot == NewSnapshot(list, size)
  <2>1. /\ size \in 0..MaxSummarySize
        /\ Return("compacted", list, snapshot) /\ saved' \in {saved, snapshot}
    BY <1>6 DEF SummaryAccepted, SummaryValid
  <2>2. /\ Sound(snapshot) /\ Begins(snapshot.prefix, list)
        /\ snapshot.covered > saved.covered
        /\ SubSeq(snapshot.prefix, 1, saved.covered) = saved.prefix
        /\ RecentKept(list, snapshot.covered)
    BY <1>1, <1>3, <2>1, NewSnapshotSound
  <2> HIDE DEF snapshot
  <2>3. /\ result' \in Results /\ result'.length <= Len(history')
        /\ ContextComplete' /\ RecentTurnsKept'
    BY <1>1, <1>3, <2>1, <2>2, ReturnInv
  <2>4. Sound(saved')
    BY <1>4, <2>1, <2>2
  <2> QED BY <1>1, <1>5, <2>1, <2>2, <2>3, <2>4 DEF Inv, Sound
<1>7. CASE SummaryRefused(list, size)
  <2>1. /\ saved' = saved
        /\ Return("failed", request.given, saved) \/ Return("blocked", request.given, saved)
    BY <1>7 DEF SummaryRefused, KeptAfterFailure
  <2>2. /\ result' \in Results /\ result'.length <= Len(history')
        /\ ContextComplete' /\ RecentTurnsKept'
    BY <1>1, <1>4, <2>1, ReturnInv
  <2> QED BY <1>1, <1>4, <1>5, <2>1, <2>2 DEF Inv, Sound
<1> QED BY <1>2, <1>6, <1>7

\* The conversation goes on while the summary is written, or not.
LEMMA AppendInv == ASSUME Inv, NEW item \in Items, AppendItem(item) PROVE Inv'
<1>1. /\ history' = Append(history, item) /\ forgotten' = forgotten
      /\ saved' = saved /\ request' = request /\ result' = NoResult
  BY DEF AppendItem
<1>2. history' \in Seq(Items)
  BY <1>1 DEF Inv
<1>3. /\ result' \in Results /\ result'.length <= Len(history')
      /\ ContextComplete' /\ RecentTurnsKept'
  BY <1>1, <1>2, NoResultInv
<1>4. ASSUME request' # NoRequest PROVE Continues'
  <2>1. Continues
    BY <1>1, <1>4 DEF Inv
  <2>2. Begins(request.given, history')
    BY <1>1, <2>1, BeginsGrows DEF Continues
  <2> QED BY <1>1, <2>1, <2>2 DEF Continues
<1>5. Sound(saved') /\ request' \in Requests /\ forgotten' \in 0..MaxForgotten
  BY <1>1 DEF Inv
<1> QED BY <1>2, <1>3, <1>4, <1>5 DEF Inv, Sound

\* A history that loses items, or a host that drops its snapshot or its result,
\* leaves nothing that could be wrong.
LEMMA ForgetInv ==
  ASSUME Inv, HostForgets \/ ResetSnapshot \/ CompactRefused PROVE Inv'
<1>1. /\ request' = request
      /\ result' = NoResult \/ result' = [NoResult EXCEPT !.status = "refused"]
  BY DEF HostForgets, ResetSnapshot, CompactRefused
<1>2. history' \in Seq(Items) /\ forgotten' \in 0..MaxForgotten
  <2>1. CASE HostForgets
    <3>1. history \in Seq(Items) /\ history # <<>>
      BY <2>1 DEF HostForgets, Inv
    <3>2. <<>> \in Seq(Items) /\ SubSeq(history, 1, Len(history) - 1) \in Seq(Items)
      BY <3>1
    <3>3. forgotten' \in 0..MaxForgotten
      BY <2>1, CompactionAssumption DEF HostForgets, Inv
    <3> QED BY <2>1, <3>2, <3>3 DEF HostForgets
  <2>2. CASE ResetSnapshot \/ CompactRefused
    BY <2>2 DEF ResetSnapshot, CompactRefused, Inv
  <2> QED BY <2>1, <2>2
<1>3. /\ result' \in Results /\ result'.length <= Len(history')
      /\ ContextComplete' /\ RecentTurnsKept'
  BY <1>1, <1>2, NoResultInv
<1>4. Sound(saved')
  <2>1. saved' = saved \/ saved' = NoSnapshot
    BY DEF HostForgets, ResetSnapshot, CompactRefused
  <2> QED BY <2>1, NoSnapshotSound DEF Inv
<1>5. request' # NoRequest => Continues'
  <2> SUFFICES ASSUME request # NoRequest PROVE Continues'
    BY <1>1
  <2>1. CASE HostForgets \/ CompactRefused
    BY <2>1 DEF HostForgets, CompactRefused
  <2>2. CASE ResetSnapshot
    <3>1. result.status = "refused" /\ result = NoResult
      BY <2>2 DEF ResetSnapshot, Inv, Continues
    <3> QED BY <3>1 DEF NoResult
  <2> QED BY <2>1, <2>2
<1> QED BY <1>1, <1>2, <1>3, <1>4, <1>5 DEF Inv, Sound

\* Every step keeps the invariant.
LEMMA StepInv == ASSUME Inv, [Next]_vars PROVE Inv'
<1>1. CASE UNCHANGED vars
  BY <1>1 DEF vars, Inv, Sound, Continues, ContextComplete, RecentTurnsKept
<1>2. CASE CompactNothing
  BY <1>2, CompactNothingInv
<1>3. CASE AskSummary
  BY <1>3, AskSummaryInv
<1>4. CASE SummaryReturns
  BY <1>4, SummaryReturnsInv
<1>5. CASE CompactAborted
  <2>1. /\ request' = NoRequest /\ UNCHANGED <<history, forgotten, saved, result>>
        /\ NoRequest \in Requests
    BY <1>5 DEF CompactAborted, NoRequest, Requests
  <2> QED BY <2>1 DEF Inv, Sound, ContextComplete, RecentTurnsKept
<1>6. ASSUME NEW item \in Items, AppendItem(item) PROVE Inv'
  BY <1>6, AppendInv
<1>7. CASE HostForgets \/ ResetSnapshot \/ CompactRefused
  BY <1>7, ForgetInv
<1> QED BY <1>1, <1>2, <1>3, <1>4, <1>5, <1>6, <1>7 DEF Next

\* The invariant holds throughout.
LEMMA Invariance == Spec => []Inv
  BY InitInv, StepInv, PTL DEF Spec

\* Type correctness: in particular every snapshot the host persists is within the
\* size the summariser is allowed.
THEOREM TypeCorrect == Spec => []TypeOK
<1>1. Inv => TypeOK
  BY DEF Inv, Sound, TypeOK, Requests, Results
<1> QED BY <1>1, Invariance, PTL

\* The snapshot stands for each message of its prefix once, however often
\* summaries are merged, refused, lost or late (ContextCompactor._finish).
THEOREM SummariesArePrefixes == Spec => []SummaryIsPrefix
<1>1. Inv => SummaryIsPrefix
  <2> SUFFICES ASSUME Inv PROVE SummaryIsPrefix
    OBVIOUS
  <2>1. saved.facts = NonInstructions(saved.prefix, 1, saved.covered)
    BY DEF Inv, Sound
  <2>2. ASSUME request # NoRequest
        PROVE  /\ request.batch \cap saved.facts = {}
               /\ request.batch \cup saved.facts
                    = NonInstructions(request.given, 1, request.end)
    <3> DEFINE m == saved.covered
               n == request.end
               given == request.given
    <3>1. Continues /\ Sound(saved)
      BY <2>2 DEF Inv
    <3>2. m \in Nat /\ n \in Nat /\ m < n
      BY <3>1 DEF Continues, Sound, Snapshots, Begins
    <3>3. \A i \in 1..m : given[i] = saved.prefix[i]
      BY <3>1 DEF Continues, Sound, Begins
    <3>4. saved.facts = {i \in 1..m : ~Instruction(given[i])}
      BY <3>1, <3>3 DEF Sound, NonInstructions
    <3>5. request.batch = {i \in (m + 1)..n : ~Instruction(given[i])}
      BY <3>1 DEF Continues, NonInstructions
    <3>6. 1..n = (1..m) \cup ((m + 1)..n) /\ (1..m) \cap ((m + 1)..n) = {}
      BY <3>2
    <3> HIDE DEF m, n, given
    <3>7. NonInstructions(given, 1, n) = {i \in 1..n : ~Instruction(given[i])}
      BY DEF NonInstructions
    <3> QED BY <3>4, <3>5, <3>6, <3>7 DEF m, n, given
  <2> QED BY <2>1, <2>2 DEF SummaryIsPrefix
<1> QED BY <1>1, Invariance, PTL

\* What compact returns is the whole history, each message once, instructions
\* verbatim (ContextCompactor._messages).
THEOREM ContextIsComplete == Spec => []ContextComplete
<1>1. Inv => ContextComplete
  BY DEF Inv
<1> QED BY <1>1, Invariance, PTL

\* No snapshot parts a call from its output (ContextCompactor._tool_spans).
THEOREM CallsStayWhole == Spec => []CallsNotSplit
<1>1. Inv => CallsNotSplit
  <2> SUFFICES ASSUME Inv, NEW call \in CallIds, Of("call", saved.prefix, call) # {}
               PROVE  Of("output", saved.prefix, call) # {}
    BY DEF CallsNotSplit
  <2>1. PICK i \in DOMAIN saved.prefix :
          saved.prefix[i] = [kind |-> "call", call |-> call]
    BY DEF Of
  <2>2. /\ saved.prefix \in Seq(Items) /\ Len(saved.prefix) = saved.covered
        /\ Closed(saved.prefix, saved.covered)
    BY DEF Inv, Sound, Snapshots
  <2>3. i \in 1..saved.covered /\ DOMAIN saved.prefix = 1..saved.covered
    BY <2>1, <2>2
  <2>4. PICK j \in 1..saved.covered :
          saved.prefix[j] = [kind |-> "output", call |-> call]
    BY <2>1, <2>2, <2>3 DEF Closed
  <2> QED BY <2>3, <2>4 DEF Of
<1> QED BY <1>1, Invariance, PTL

\* A context just compacted ends with the turns the host asked to keep
\* (keep_recent_turns), also when the history grew meanwhile.
THEOREM RecentTurnsAreKept == Spec => []RecentTurnsKept
<1>1. Inv => RecentTurnsKept
  BY DEF Inv
<1> QED BY <1>1, Invariance, PTL

\* A snapshot is replaced only by one that extends it, or reset by the host.
THEOREM CoverageOnlyGrows == Spec => CoverageGrows
<1> DEFINE Grows ==
      \/ saved' = saved
      \/ result.status = "refused" /\ saved' = NoSnapshot
      \/ /\ saved'.covered > saved.covered
         /\ SubSeq(saved'.prefix, 1, saved.covered) = saved.prefix
<1>1. ASSUME Inv, [Next]_vars PROVE Grows
  <2>1. CASE SummaryReturns
    BY <1>1, <2>1, SummaryReturnsInv
  <2>2. CASE ResetSnapshot
    BY <2>2 DEF ResetSnapshot
  <2>3. CASE CompactNothing \/ AskSummary \/ CompactRefused \/ CompactAborted
             \/ HostForgets \/ UNCHANGED vars
    BY <2>3 DEF CompactNothing, AskSummary, CompactRefused, CompactAborted,
                HostForgets, vars
  <2>4. ASSUME NEW item \in Items, AppendItem(item) PROVE Grows
    BY <2>4 DEF AppendItem
  <2> QED BY <1>1, <2>1, <2>2, <2>3, <2>4 DEF Next
<1>2. Inv /\ [Next]_vars => [Grows]_vars
  BY <1>1
<1> HIDE DEF Grows
<1>3. Spec => [][Grows]_vars
  BY <1>2, Invariance, PTL DEF Spec
<1> QED BY <1>3 DEF CoverageGrows, Grows

=============================================================================
