-------------------------- MODULE ModelCallProofs --------------------------
(***************************************************************************)
(* A call to a model over HTTP: the safety properties of HttpRequest for   *)
(* every retry configuration, any budgets and any timeouts, and those of   *)
(* StreamedReply for any number of calls and pieces.                       *)
(*                                                                         *)
(* The request: the innermost budget has the least time left, so a check   *)
(* of that one is a check of all; what has been delivered stays empty      *)
(* until an attempt emits, after which there is no other attempt; and a    *)
(* wait lasts at least as long as the server asked for.                    *)
(*                                                                         *)
(* The reply: the events that were sent and not mapped yet hold, of the    *)
(* text and of each call, the pieces the mapper does not have, each once   *)
(* and in order; and the bytes that were not read yet are the rest of the  *)
(* bytes of those events, wherever a chunk ends.                           *)
(***************************************************************************)
EXTENDS HttpRequest, StreamedReply, SequenceTheorems, TLAPS

-----------------------------------------------------------------------------
(* The request.                                                             *)

\* No budget has more time left than one opened before it.
Nested == \A i, j \in DOMAIN budgets : i <= j => budgets[j] <= budgets[i]

\* What the caller has been given, by phase.
Delivery ==
  /\ phase \in {"ready", "sending", "waiting"} => delivered = <<>>
  /\ phase = "sending" => position = 0
  /\ phase \in {"reading", "yielded"} =>
       IF mode.stream THEN Len(delivered) = position ELSE delivered = <<>>
  /\ phase \in {"reading", "yielded"} /\ ~emitted => delivered = <<>>
  /\ phase # "idle" => result = "none"

Patience ==
  /\ phase \in {"ready", "sending", "reading", "yielded"} => forbidden = 0
  /\ phase = "waiting" => forbidden <= due

Inv == TypeOK /\ Nested /\ OneBody /\ Delivery /\ Patience

\* The innermost budget is the tightest.
LEMMA InnermostTightest ==
  ASSUME TypeOK, Nested, NEW i \in DOMAIN budgets
  PROVE  Bounded /\ Remaining \in Nat /\ Remaining <= budgets[i]
<1>1. i \in 1..Len(budgets) /\ Len(budgets) \in Nat
  BY DEF TypeOK
<1>2. Len(budgets) \in DOMAIN budgets /\ budgets # <<>>
  BY <1>1 DEF TypeOK
<1> QED
  BY <1>1, <1>2 DEF TypeOK, Nested, Bounded, Remaining

LEMMA FailureType ==
  ASSUME NEW failure \in Refusals \cup {OtherFailure}
  PROVE  failure.after \in Nat
<1>1. CASE failure \in Refusals
  <2>1. failure.after \in RetryAfters
    BY <1>1 DEF Refusals
  <2> QED
    BY <2>1, HttpAssumption
<1>2. CASE failure = OtherFailure
  BY <1>2 DEF OtherFailure
<1> QED
  BY <1>1, <1>2

LEMMA DelayType ==
  ASSUME TypeOK, AttemptLeft,
         NEW failure \in Refusals \cup {OtherFailure}, NEW jitter \in 0..JitterSeconds
  PROVE  Delay(failure, jitter) \in Nat /\ failure.after <= Delay(failure, jitter)
<1>1. failure.after \in Nat
  BY FailureType
<1>2. BackoffSeconds * 2^attempt \in Nat
  BY HttpAssumption DEF TypeOK, AttemptLeft
<1>3. jitter \in Nat
  BY HttpAssumption
<1> QED
  BY <1>1, <1>2, <1>3 DEF Delay, Greater

\* The time left when a budget, or none, bounds the client's timeout.
LEMMA BoundedTimeoutType ==
  ASSUME TypeOK
  PROVE  BoundedTimeout \in 0..Timeout
<1>1. CASE Bounded
  <2>1. Len(budgets) \in DOMAIN budgets
    BY <1>1 DEF TypeOK, Bounded
  <2>2. Remaining \in Nat
    BY <2>1 DEF TypeOK, Remaining
  <2> QED
    BY <1>1, <2>2, HttpAssumption DEF BoundedTimeout, Lesser
<1>2. CASE ~Bounded
  BY <1>2, HttpAssumption DEF BoundedTimeout
<1> QED
  BY <1>1, <1>2

-----------------------------------------------------------------------------
LEMMA InitInv == Init => Inv
<1> SUFFICES ASSUME Init PROVE Inv
  OBVIOUS
<1>1. <<>> \in Seq(Nat) /\ <<>> \in Seq(Nat \X Nat) /\ Len(<<>>) = 0
  OBVIOUS
<1>2. budgets = <<>> /\ delivered = <<>> /\ outer = 0 /\ attempt = 0
      /\ timeout = 0 /\ limit = 0 /\ due = 0 /\ forbidden = 0 /\ position = 0
      /\ emitted = FALSE /\ mode \in Modes /\ phase = "idle" /\ result = "none"
  BY DEF Init
<1>3. 0 \in 0..Attempts /\ 0 \in 0..Timeout /\ 0 \in 0..MaxChunks /\ 0 <= MaxNesting
  BY HttpAssumption
<1>4. TypeOK
  BY <1>1, <1>2, <1>3 DEF TypeOK, Phases
<1>5. Nested /\ OneBody
  BY <1>2 DEF Nested, OneBody
<1> QED
  BY <1>2, <1>4, <1>5 DEF Inv, Delivery, Patience

LEMMA OpenInv ==
  ASSUME Inv, NEW seconds \in Limits, OpenBudget(seconds)
  PROVE  Inv'
<1> DEFINE left == NewDeadline(seconds)
<1>1. seconds \in Nat
  BY HttpAssumption
<1>2. left \in Nat /\ \A i \in DOMAIN budgets : left <= budgets[i]
  <2>1. CASE Bounded
    <3>1. Len(budgets) \in DOMAIN budgets
      BY <2>1 DEF Inv, TypeOK, Bounded
    <3>2. Remaining \in Nat /\ \A i \in DOMAIN budgets : Remaining <= budgets[i]
      BY <3>1, InnermostTightest DEF Inv
    <3>3. \A i \in DOMAIN budgets : budgets[i] \in Nat
      BY DEF Inv, TypeOK
    <3> QED
      BY <1>1, <2>1, <3>2, <3>3 DEF NewDeadline, Lesser
  <2>2. CASE ~Bounded
    BY <1>1, <2>2 DEF NewDeadline, Bounded, Inv, TypeOK
  <2> QED
    BY <2>1, <2>2
<1>3. budgets' = Append(budgets, left)
  BY DEF OpenBudget
<1> HIDE DEF left
<1>4. budgets' \in Seq(Nat) /\ Len(budgets') = Len(budgets) + 1
  BY <1>2, <1>3 DEF Inv, TypeOK
<1>5. TypeOK'
  BY <1>4, HttpAssumption DEF Inv, TypeOK, OpenBudget, requestVars
<1>6. Nested'
  BY <1>2, <1>3, <1>4 DEF Inv, TypeOK, Nested
<1> QED
  BY <1>5, <1>6 DEF Inv, OneBody, Delivery, Patience, OpenBudget, requestVars

LEMMA CloseInv == Inv /\ CloseBudget => Inv'
<1> SUFFICES ASSUME Inv, CloseBudget PROVE Inv'
  OBVIOUS
<1>1. budgets # <<>> /\ budgets \in Seq(Nat)
  BY DEF Inv, TypeOK, CloseBudget, Bounded
<1>2. /\ budgets' \in Seq(Nat) /\ Len(budgets') = Len(budgets) - 1
      /\ \A i \in DOMAIN budgets' : i \in DOMAIN budgets /\ budgets'[i] = budgets[i]
  <2>1. Len(budgets) \in Nat \ {0}
    BY <1>1
  <2>2. budgets' = SubSeq(budgets, 1, Len(budgets) - 1)
    BY DEF CloseBudget
  <2>3. /\ budgets' \in Seq(Nat) /\ Len(budgets') = Len(budgets) - 1
        /\ \A i \in 1..(Len(budgets) - 1) : budgets'[i] = budgets[i]
    <3> DEFINE m == Len(budgets) - 1
    <3>1. m \in Int /\ m \in Nat /\ \A i \in 1..m : budgets[i] \in Nat
      BY <1>1, <2>1
    <3> HIDE DEF m
    <3>2. /\ SubSeq(budgets, 1, m) \in Seq(Nat)
          /\ Len(SubSeq(budgets, 1, m)) = IF 1 <= m THEN m - 1 + 1 ELSE 0
          /\ \A i \in 1..(m - 1 + 1) : SubSeq(budgets, 1, m)[i] = budgets[1 + i - 1]
      BY <3>1, SubSeqProperties
    <3>3. /\ Len(SubSeq(budgets, 1, m)) = m
          /\ \A i \in 1..m : SubSeq(budgets, 1, m)[i] = budgets[i]
      BY <3>1, <3>2
    <3> QED
      BY <2>2, <3>2, <3>3 DEF m
  <2> QED
    BY <1>1, <2>1, <2>3
<1>3. TypeOK'
  BY <1>1, <1>2, HttpAssumption DEF Inv, TypeOK, CloseBudget, requestVars
<1>4. Nested'
  BY <1>2 DEF Inv, Nested
<1> QED
  BY <1>3, <1>4 DEF Inv, OneBody, Delivery, Patience, CloseBudget, requestVars

LEMMA EndInv ==
  ASSUME Inv, NEW how \in {"error", "expired", "cancelled", "closed"}, End(how)
  PROVE  Inv'
  BY DEF Inv, TypeOK, Nested, OneBody, Delivery, Patience, End, requestVars, Phases

LEMMA FailsInv ==
  ASSUME Inv, phase \in Socket,
         NEW failure \in Refusals \cup {OtherFailure}, Fails(failure)
  PROVE  Inv'
<1>1. CASE FailsForNow(failure)
  <2>1. AttemptLeft /\ ~emitted
    BY <1>1 DEF FailsForNow, Retryable, NotEmitted
  <2>2. due' \in Nat /\ forbidden' <= due' /\ forbidden' \in Nat
    <3>1. PICK jitter \in 0..JitterSeconds : due' = Delay(failure, jitter)
      BY <1>1 DEF FailsForNow
    <3>2. failure.after \in Nat
      BY FailureType
    <3> QED
      BY <1>1, <2>1, <3>1, <3>2, DelayType DEF FailsForNow, Inv
  <2>3. delivered = <<>>
    BY <2>1 DEF Inv, Delivery, Socket
  <2>4. TypeOK'
    BY <1>1, <2>1, <2>2, HttpAssumption
    DEF Inv, TypeOK, FailsForNow, NextAttempt, AttemptLeft, Phases
  <2>5. Nested'
    BY <1>1 DEF Inv, Nested, FailsForNow
  <2>6. OneBody' /\ Delivery'
    BY <1>1, <2>3 DEF Inv, OneBody, Delivery, FailsForNow, Socket
  <2>7. Patience'
    BY <1>1, <2>2 DEF Patience, FailsForNow
  <2> QED
    BY <2>4, <2>5, <2>6, <2>7 DEF Inv
<1>2. CASE FailsForGood(failure)
  BY <1>2, EndInv DEF FailsForGood
<1> QED
  BY <1>1, <1>2 DEF Fails

LEMMA ChunkInv == Inv /\ ChunkArrives => Inv'
<1> SUFFICES ASSUME Inv, ChunkArrives PROVE Inv'
  OBVIOUS
<1>1. TypeOK'
  <2>1. position' \in 0..MaxChunks /\ limit' \in 0..Timeout /\ attempt \in Nat
    BY HttpAssumption DEF Inv, TypeOK, ChunkArrives
  <2>2. CASE mode.stream
    <3> DEFINE chunk == <<attempt, position + 1>>
    <3>1. delivered \in Seq(Nat \X Nat) /\ delivered' = Append(delivered, chunk)
          /\ position \in Nat
      BY <2>2 DEF Inv, TypeOK, ChunkArrives
    <3>2. chunk \in Nat \X Nat
      BY <2>1, <3>1
    <3> HIDE DEF chunk
    <3>3. delivered' \in Seq(Nat \X Nat)
      BY <3>1, <3>2
    <3> QED
      BY <2>1, <2>2, <3>3 DEF Inv, TypeOK, ChunkArrives, Phases
  <2>3. CASE ~mode.stream
    BY <2>1, <2>3 DEF Inv, TypeOK, ChunkArrives
  <2> QED
    BY <2>2, <2>3
<1>2. Nested' /\ Patience'
  BY DEF Inv, Nested, Patience, ChunkArrives
<1>3. OneBody' /\ Delivery'
  <2>1. CASE mode.stream
    <3>1. Len(delivered) = position /\ delivered \in Seq(Nat \X Nat)
          /\ position \in Nat /\ attempt \in Nat
      BY <2>1 DEF Inv, TypeOK, Delivery, ChunkArrives
    <3>2. delivered' = Append(delivered, <<attempt, position + 1>>)
      BY <2>1 DEF ChunkArrives
    <3>3. Len(delivered') = position'
      BY <3>1, <3>2 DEF ChunkArrives
    <3>4. \A i \in DOMAIN delivered' : delivered'[i] = <<attempt', i>>
      <4> SUFFICES ASSUME NEW i \in DOMAIN delivered'
                   PROVE  delivered'[i] = <<attempt, i>>
        BY DEF ChunkArrives
      <4>1. CASE i \in DOMAIN delivered
        BY <3>1, <3>2, <4>1 DEF Inv, OneBody
      <4>2. CASE i = position + 1
        BY <3>1, <3>2, <4>2
      <4> QED
        BY <3>1, <3>2, <4>1, <4>2
    <3> QED
      BY <2>1, <3>3, <3>4 DEF Inv, OneBody, Delivery, ChunkArrives
  <2>2. CASE ~mode.stream
    BY <2>2 DEF Inv, OneBody, Delivery, ChunkArrives
  <2> QED
    BY <2>1, <2>2
<1> QED
  BY <1>1, <1>2, <1>3 DEF Inv

LEMMA BodyInv == Inv /\ BodyEnds => Inv'
<1> SUFFICES ASSUME Inv, BodyEnds PROVE Inv'
  OBVIOUS
<1>1. position \in Nat /\ attempt \in Nat
  BY DEF Inv, TypeOK
<1>2. delivered' \in Seq(Nat \X Nat) /\ Len(delivered') = position
      /\ \A i \in DOMAIN delivered' : delivered'[i] = <<attempt, i>>
  <2>1. CASE mode.stream
    BY <2>1 DEF Inv, TypeOK, OneBody, Delivery, BodyEnds
  <2>2. CASE ~mode.stream
    <3>1. delivered' = [i \in 1..position |-> <<attempt, i>>]
      BY <2>2 DEF BodyEnds
    <3>2. \A i \in 1..position : <<attempt, i>> \in Nat \X Nat
      BY <1>1
    <3> QED
      BY <1>1, <3>1, <3>2
  <2> QED
    BY <2>1, <2>2
<1>3. TypeOK'
  BY <1>2 DEF Inv, TypeOK, BodyEnds, Phases
<1> QED
  BY <1>2, <1>3 DEF Inv, Nested, OneBody, Delivery, Patience, BodyEnds

LEMMA TickInv == Inv /\ Tick => Inv'
<1> SUFFICES ASSUME Inv, Tick PROVE Inv'
  OBVIOUS
<1>1. \A n \in Nat : Less(n) \in Nat /\ Less(n) <= n
  BY DEF Less
<1>2. /\ budgets' \in Seq(Nat) /\ Len(budgets') = Len(budgets)
      /\ DOMAIN budgets' = DOMAIN budgets
      /\ \A i \in DOMAIN budgets : budgets'[i] = Less(budgets[i]) /\ budgets[i] \in Nat
  <2>1. budgets \in Seq(Nat)
    BY DEF Inv, TypeOK
  <2>2. budgets' = [i \in 1..Len(budgets) |-> Less(budgets[i])]
    BY <2>1 DEF Tick
  <2>3. \A i \in 1..Len(budgets) : budgets[i] \in Nat
    BY <2>1
  <2>4. \A i \in 1..Len(budgets) : Less(budgets[i]) \in Nat
    BY <1>1, <2>3
  <2>5. Len(budgets) \in Nat
    BY <2>1
  <2> HIDE DEF Less
  <2> QED
    BY <2>1, <2>2, <2>3, <2>4, <2>5
<1>3. TypeOK'
  <2>1. limit' \in 0..Timeout /\ due' \in Nat /\ forbidden' \in Nat
    BY <1>1, HttpAssumption DEF Inv, TypeOK, Tick
  <2>2. budgets' \in Seq(Nat) /\ Len(budgets') <= MaxNesting
    BY <1>2 DEF Inv, TypeOK
  <2>3. UNCHANGED <<mode, phase, outer, attempt, timeout, emitted, position, delivered, result>>
    BY DEF Tick
  <2> QED
    BY <2>1, <2>2, <2>3 DEF Inv, TypeOK
<1>4. Nested'
  <2>1. ASSUME NEW a \in Nat, NEW b \in Nat, a <= b PROVE Less(a) <= Less(b)
    BY <2>1 DEF Less
  <2> HIDE DEF Less
  <2> QED
    BY <1>2, <2>1 DEF Inv, Nested
<1>5. Patience'
  BY DEF Inv, TypeOK, Patience, Tick, Less
<1> QED
  BY <1>3, <1>4, <1>5 DEF Inv, OneBody, Delivery, Tick

LEMMA StepInv == Inv /\ [Next]_vars => Inv'
<1> SUFFICES ASSUME Inv, [Next]_vars PROVE Inv'
  OBVIOUS
<1>1. CASE \E seconds \in Limits : OpenBudget(seconds)
  BY <1>1, OpenInv
<1>2. CASE CloseBudget
  BY <1>2, CloseInv
<1>3. CASE \E how \in Modes : Start(how)
  <2>1. PICK how \in Modes : Start(how)
    BY <1>3
  <2>2. Len(budgets) \in Nat /\ <<>> \in Seq(Nat \X Nat)
        /\ 0 \in 0..Attempts /\ 0 \in 0..Timeout /\ 0 \in 0..MaxChunks
    BY HttpAssumption DEF Inv, TypeOK
  <2>3. TypeOK'
    BY <2>1, <2>2 DEF Inv, TypeOK, Start, Phases
  <2> QED
    BY <2>1, <2>3 DEF Inv, Nested, OneBody, Delivery, Patience, Start
<1>4. CASE Send
  <2>1. BoundedTimeout \in 0..Timeout
    BY BoundedTimeoutType DEF Inv
  <2> QED
    BY <1>4, <2>1, HttpAssumption
    DEF Inv, TypeOK, Nested, OneBody, Delivery, Patience, Send, Phases
<1>5. CASE OutOfBudget
  BY <1>5, EndInv DEF OutOfBudget
<1>6. CASE NextChunk
  BY <1>6 DEF Inv, TypeOK, Nested, OneBody, Delivery, Patience, NextChunk, Phases
<1>7. CASE TimesOut
  BY <1>7, FailsInv DEF TimesOut
<1>8. CASE WaitEnds
  BY <1>8 DEF Inv, TypeOK, Nested, OneBody, Delivery, Patience, WaitEnds, requestVars,
              Phases
<1>9. CASE HeadersArrive
  <2>1. emitted' \in BOOLEAN
    BY <1>9 DEF HeadersArrive
  <2>2. TypeOK'
    BY <1>9, <2>1 DEF Inv, TypeOK, HeadersArrive, Phases
  <2> QED
    BY <1>9, <2>2 DEF Inv, TypeOK, Nested, OneBody, Delivery, Patience, HeadersArrive
<1>10. CASE ChunkArrives
  BY <1>10, ChunkInv
<1>11. CASE CloseStream
  BY <1>11, EndInv DEF CloseStream
<1>12. CASE BodyEnds
  BY <1>12, BodyInv
<1>13. CASE ServerRefuses
  BY <1>13, FailsInv DEF ServerRefuses, Socket
<1>14. CASE Breaks
  BY <1>14, FailsInv DEF Breaks
<1>15. CASE Cancelled
  BY <1>15, EndInv DEF Cancelled
<1>16. CASE Tick
  BY <1>16, TickInv
<1>17. CASE UNCHANGED vars
  BY <1>17 DEF Inv, TypeOK, Nested, OneBody, Delivery, Patience, vars, requestVars
<1> QED
  BY <1>1, <1>2, <1>3, <1>4, <1>5, <1>6, <1>7, <1>8, <1>9, <1>10, <1>11, <1>12, <1>13,
     <1>14, <1>15, <1>16, <1>17 DEF Next, RequestStep

-----------------------------------------------------------------------------
LEMMA InvHolds == Spec => []Inv
<1>1. Init => Inv
  BY InitInv
<1>2. Inv /\ [Next]_vars => Inv'
  BY StepInv
<1> QED
  BY <1>1, <1>2, PTL DEF Spec

\* Every variable of the client and of the budgets keeps its type.
THEOREM TypeCorrect == Spec => []TypeOK
<1>1. Inv => TypeOK
  BY DEF Inv
<1> QED
  BY <1>1, InvHolds, PTL

\* However often a request is retried, the caller is given one response's chunks,
\* in order, without a gap, and all of them on success.
THEOREM OneBodyHolds == Spec => []OneBody
<1>1. Inv => OneBody
  BY DEF Inv
<1> QED
  BY <1>1, InvHolds, PTL

\* No attempt is sent before the time the server's Retry-After named.
THEOREM RetryAfterHolds == Spec => []RetryAfterHonoured
<1>1. Inv => RetryAfterHonoured
  BY DEF Inv, Patience, Socket, RetryAfterHonoured
<1> QED
  BY <1>1, InvHolds, PTL

\* Nothing is sent, and no retry is waited for, beyond any open budget's deadline.
THEOREM WithinBudgetsHolds == Spec => WithinBudgets
<1>1. Inv /\ [Next]_vars =>
        [/\ phase = "ready" /\ phase' = "sending" =>
              \A i \in DOMAIN budgets : 0 < budgets[i] /\ timeout' <= budgets[i]
         /\ phase # "waiting" /\ phase' = "waiting" =>
              \A i \in DOMAIN budgets : due' < budgets[i]]_vars
  <2> SUFFICES ASSUME Inv, Next
               PROVE  /\ phase = "ready" /\ phase' = "sending" =>
                           \A i \in DOMAIN budgets :
                             0 < budgets[i] /\ timeout' <= budgets[i]
                      /\ phase # "waiting" /\ phase' = "waiting" =>
                           \A i \in DOMAIN budgets : due' < budgets[i]
    OBVIOUS
  <2>1. \A i \in DOMAIN budgets :
          Bounded /\ Remaining \in Nat /\ Remaining <= budgets[i] /\ budgets[i] \in Nat
    BY InnermostTightest DEF Inv, TypeOK
  <2>2. ASSUME phase = "ready", phase' = "sending", NEW i \in DOMAIN budgets
        PROVE  0 < budgets[i] /\ timeout' <= budgets[i]
    <3>1. Send
      BY <2>2 DEF Next, RequestStep, OpenBudget, CloseBudget, Start, OutOfBudget,
                  NextChunk, TimesOut, WaitEnds, HeadersArrive, ChunkArrives, CloseStream,
                  BodyEnds, ServerRefuses, Breaks, Cancelled, Tick, End, Fails,
                  FailsForNow, FailsForGood, Socket, HostActs
    <3>2. ~Expired /\ timeout' = BoundedTimeout
      BY <3>1 DEF Send
    <3>3. Remaining # 0 /\ timeout' = Lesser(Timeout, Remaining)
      BY <2>1, <2>2, <3>2 DEF Expired, BoundedTimeout
    <3>4. Timeout \in Nat
      BY HttpAssumption
    <3> QED
      BY <2>1, <2>2, <3>3, <3>4 DEF Lesser
  <2>3. ASSUME phase # "waiting", phase' = "waiting", NEW i \in DOMAIN budgets
        PROVE  due' < budgets[i]
    <3>1. PICK failure \in Refusals \cup {OtherFailure} : FailsForNow(failure)
      BY <2>3 DEF Next, RequestStep, OpenBudget, CloseBudget, Start, Send, OutOfBudget,
                  NextChunk, TimesOut, WaitEnds, HeadersArrive, ChunkArrives, CloseStream,
                  BodyEnds, ServerRefuses, Breaks, Cancelled, Tick, End, Fails,
                  FailsForGood, Socket, HostActs
    <3>2. AttemptLeft
      BY <3>1 DEF FailsForNow, Retryable
    <3>3. PICK jitter \in 0..JitterSeconds :
            ~TooLate(Delay(failure, jitter)) /\ due' = Delay(failure, jitter)
      BY <3>1 DEF FailsForNow
    <3>4. Delay(failure, jitter) \in Nat
      BY <3>2, DelayType DEF Inv
    <3> QED
      BY <2>1, <2>3, <3>3, <3>4 DEF TooLate
  <2> QED
    BY <2>2, <2>3
<1> QED
  BY <1>1, InvHolds, PTL DEF Spec, WithinBudgets

-----------------------------------------------------------------------------
(* Sequences that are joined and cut.                                       *)

LEMMA JoinThree ==
  ASSUME NEW S, NEW a \in Seq(S), NEW b \in Seq(S), NEW c \in Seq(S)
  PROVE  /\ a \o (b \o c) = (a \o b) \o c
         /\ a \o (b \o c) \in Seq(S) /\ a \o b \in Seq(S) /\ b \o c \in Seq(S)
BY ConcatAssociative, ConcatProperties

LEMMA JoinTwo ==
  ASSUME NEW S, NEW a \in Seq(S), NEW b \in Seq(S)
  PROVE  /\ a \o b \in Seq(S) /\ Len(a \o b) = Len(a) + Len(b)
         /\ \A p \in 1..Len(a) : (a \o b)[p] = a[p]
         /\ \A p \in 1..Len(b) : (a \o b)[Len(a) + p] = b[p]
<1>1. /\ Len(a) \in Nat /\ Len(b) \in Nat
      /\ a \o b \in Seq(S) /\ Len(a \o b) = Len(a) + Len(b)
      /\ \A i \in 1..(Len(a) + Len(b)) : (a \o b)[i] = IF i <= Len(a) THEN a[i] ELSE b[i - Len(a)]
  BY ConcatProperties, LenProperties
<1>2. \A p \in 1..Len(a) : p \in 1..(Len(a) + Len(b)) /\ p <= Len(a)
  BY <1>1
<1>3. \A p \in 1..Len(b) : /\ Len(a) + p \in 1..(Len(a) + Len(b)) /\ ~(Len(a) + p <= Len(a))
                           /\ (Len(a) + p) - Len(a) = p
  BY <1>1
<1> QED
  BY <1>1, <1>2, <1>3

\* A sequence cut in two.
LEMMA CutInTwo ==
  ASSUME NEW S, NEW s \in Seq(S), NEW n \in 0..Len(s)
  PROVE  /\ SubSeq(s, 1, n) \in Seq(S) /\ Len(SubSeq(s, 1, n)) = n
         /\ \A p \in 1..n : SubSeq(s, 1, n)[p] = s[p]
         /\ SubSeq(s, n + 1, Len(s)) \in Seq(S) /\ Len(SubSeq(s, n + 1, Len(s))) = Len(s) - n
         /\ \A p \in 1..(Len(s) - n) : SubSeq(s, n + 1, Len(s))[p] = s[n + p]
         /\ SubSeq(s, 1, n) \o SubSeq(s, n + 1, Len(s)) = s
<1>1. Len(s) \in Nat /\ n \in Nat /\ n <= Len(s) /\ \A i \in 1..Len(s) : s[i] \in S
  BY LenProperties, ElementOfSeq
<1> DEFINE m == Len(s)
<1>2. /\ SubSeq(s, 1, n) \in Seq(S)
      /\ Len(SubSeq(s, 1, n)) = (IF 1 <= n THEN (n - 1) + 1 ELSE 0)
      /\ \A p \in 1..((n - 1) + 1) : SubSeq(s, 1, n)[p] = s[(1 + p) - 1]
  <2>1. \A i \in 1..n : s[i] \in S
    BY <1>1
  <2> QED
    BY <1>1, <2>1, SubSeqProperties
<1>3. /\ SubSeq(s, n + 1, m) \in Seq(S)
      /\ Len(SubSeq(s, n + 1, m)) = (IF n + 1 <= m THEN (m - (n + 1)) + 1 ELSE 0)
      /\ \A p \in 1..((m - (n + 1)) + 1) : SubSeq(s, n + 1, m)[p] = s[((n + 1) + p) - 1]
  <2>1. \A i \in (n + 1)..m : s[i] \in S
    BY <1>1
  <2> QED
    BY <1>1, <2>1, SubSeqProperties
<1>4. SubSeq(s, 1, n) \o SubSeq(s, n + 1, m) = s
  <2>1. SubSeq(s, 1, m) = s
    BY SubSeqFull
  <2>2. SubSeq(s, 1, n) \o SubSeq(s, n + 1, m) = SubSeq(s, 1, m)
    <3>1. 1 \in 1..(Len(s) + 1) /\ n \in (1 - 1)..Len(s) /\ Len(s) \in n..Len(s)
      BY <1>1
    <3> QED
      BY <3>1, ConcatAdjacentSubSeq
  <2> QED
    BY <2>1, <2>2
<1>5. (n - 1) + 1 = n /\ \A p \in 1..n : (1 + p) - 1 = p
  BY <1>1
<1>6. (m - (n + 1)) + 1 = m - n /\ \A p \in 1..(m - n) : ((n + 1) + p) - 1 = n + p
  BY <1>1
<1>7. (IF 1 <= n THEN n ELSE 0) = n /\ (IF n + 1 <= m THEN m - n ELSE 0) = m - n
  BY <1>1
<1> HIDE DEF m
<1>8. Len(SubSeq(s, 1, n)) = n /\ \A p \in 1..n : SubSeq(s, 1, n)[p] = s[p]
  BY <1>2, <1>5, <1>7
<1>9. Len(SubSeq(s, n + 1, m)) = m - n /\ \A p \in 1..(m - n) : SubSeq(s, n + 1, m)[p] = s[n + p]
  BY <1>3, <1>6, <1>7
<1> QED
  BY <1>2, <1>3, <1>4, <1>8, <1>9 DEF m

\* What is left of two joined sequences when the first has lost its first n.
LEMMA CutJoined ==
  ASSUME NEW S, NEW a \in Seq(S), NEW b \in Seq(S), NEW n \in 0..Len(a)
  PROVE  LET left == SubSeq(a, n + 1, Len(a))
         IN  /\ left \in Seq(S) /\ left \o b \in Seq(S) /\ Len(a \o b) = n + Len(left \o b)
             /\ \A p \in 1..Len(left \o b) : (left \o b)[p] = (a \o b)[n + p]
<1> DEFINE read == SubSeq(a, 1, n)
           left == SubSeq(a, n + 1, Len(a))
           new == left \o b
<1>1. Len(read) = n /\ read \o left = a
  BY CutInTwo
<1>2. read \in Seq(S) /\ left \in Seq(S)
  BY CutInTwo
<1> HIDE DEF read, left
<1>3. read \o (left \o b) = (read \o left) \o b /\ left \o b \in Seq(S)
  BY <1>2, JoinThree, SMTT(30)
<1>4. a \o b = read \o new /\ new \in Seq(S)
  BY <1>1, <1>3
<1> HIDE DEF new
<1>5. new \in Seq(S)
  BY <1>4
<1>6. /\ Len(read \o new) = Len(read) + Len(new)
      /\ \A p \in 1..Len(new) : (read \o new)[Len(read) + p] = new[p]
  BY <1>2, <1>5, JoinTwo
<1>7. Len(a \o b) = n + Len(new) /\ \A p \in 1..Len(new) : new[p] = (a \o b)[n + p]
  BY <1>1, <1>4, <1>6
<1> QED
  BY <1>2, <1>5, <1>7 DEF new, left

-----------------------------------------------------------------------------
(* The streamed reply.  Of the text, of the calls and of each call, what    *)
(* the mapper has and what the pending events hold make up what the server  *)
(* sent; and the bytes that were not read yet are those of the pending      *)
(* events, from where the parser is in the first of them.                   *)

\* The events that the server may have sent.
Calls == DOMAIN meant.calls
Deltas(n) == {Delta(n, k) : k \in 1..meant.calls[n]}
Ends == IF finish = "no" THEN {}
        ELSE IF dialect = "chat" THEN {Done}
        ELSE IF finish = "incomplete" THEN {Incomplete}
        ELSE {Completed(m) : m \in 1..(Len(meant.calls) + 1)}
ReplyEvents ==
  {Text(k) : k \in 1..meant.text} \cup (UNION {Deltas(n) : n \in Calls})
    \cup {ArgumentsDone(n) : n \in whole} \cup Ends

\* Which piece an event is of the text, of the calls (each begun once), or of call n;
\* 0 if it is none.
Nth(e, part, n) ==
  CASE part = "text" -> IF e.kind = "text" THEN e.piece ELSE 0
    [] part = "calls" -> IF e.kind = "delta" /\ e.piece = 1 THEN e.index ELSE 0
    [] part = "call" -> IF e.kind = "delta" /\ e.index = n THEN e.piece ELSE 0

\* The events of q hold the pieces after from up to the last, each once and in order.
Holds(q, part, n, from, last) ==
  /\ from <= last
  /\ \A i \in DOMAIN q : Nth(q[i], part, n) # 0 => Nth(q[i], part, n) \in (from + 1)..last
  /\ \A i, j \in DOMAIN q :
       i < j /\ Nth(q[i], part, n) # 0 /\ Nth(q[j], part, n) # 0
         => Nth(q[i], part, n) < Nth(q[j], part, n)
  /\ \A k \in (from + 1)..last : \E i \in DOMAIN q : Nth(q[i], part, n) = k

\* What the mapper has collected of calls of which it was given so many pieces each.
Entry(n, k) ==
  [key |-> IF dialect = "chat" THEN n ELSE Key(n), id |-> Key(n), arguments |-> Pieces(k)]
Entries(g) == [n \in DOMAIN g |-> Entry(n, g[n])]
Got == [n \in DOMAIN calls |-> Len(calls[n].arguments)]
At(g, n) == IF n \in DOMAIN g THEN g[n] ELSE 0

\* The server.
Sending ==
  /\ dialect \in {"chat", "responses", "items"}
  /\ meant.text \in Nat /\ meant.calls \in Seq(Nat \ {0}) /\ whole \subseteq Calls
  /\ meant = [text |-> meant.text, calls |-> meant.calls]
  /\ finish \in (IF dialect = "chat" THEN {"no", "[DONE]"} ELSE {"no", "completed", "incomplete"})
  /\ pending \in Seq(ReplyEvents)
  /\ \A i, j \in DOMAIN pending :
       i < j => /\ pending[i].kind \notin {"[DONE]", "completed", "incomplete"}
                /\ pending[i].kind = "done" /\ pending[j].kind = "delta"
                     => pending[i].index # pending[j].index
  /\ finish # "no" /\ pending # <<>> => pending[Len(pending)].kind = finish

\* The mapper.
Collecting ==
  /\ Got \in Seq(Nat \ {0}) /\ calls = Entries(Got)
  /\ text \in Seq(Nat) /\ text = Pieces(Len(text))
  /\ shown = [text |-> text, calls |-> calls]
  /\ Holds(pending, "text", 0, Len(text), meant.text)
  /\ Holds(pending, "calls", 0, Len(Got), Len(meant.calls))
  /\ \A n \in Calls : Holds(pending, "call", n, At(Got, n), meant.calls[n])
  /\ completed = IF finish = "completed" /\ pending = <<>> THEN <<Meant>> ELSE <<>>

\* The parser, which has read so many bytes of the first pending event.
ReplyBytes ==
  {FirstHalf(e) : e \in ReplyEvents} \cup {SecondHalf(e) : e \in ReplyEvents} \cup {Newline, Name}
Width == IF dialect = "chat" THEN 4 ELSE 6
Before(n) == IF dialect = "chat" THEN 4 * (n - 1) ELSE 6 * (n - 1)
Offsets == IF data # <<>> THEN {Width - 1} ELSE IF dialect = "chat" THEN {0} ELSE {0, 2}
Coming == buffer \o wire

Framing(read) ==
  /\ buffer \in Seq(ReplyBytes) /\ wire \in Seq(ReplyBytes)
  /\ data # <<>> => pending # <<>> /\ data = <<pending[1]>>
  /\ Len(Coming) + read <= Before(Len(pending) + 1)
  /\ \A n \in 1..Len(pending), j \in 1..Width :
       (Before(n) + j) - read \in 1..Len(Coming) => Coming[(Before(n) + j) - read] = Frame(pending[n])[j]

Stopping(read) ==
  /\ conn = "open" => Len(Coming) + read = Before(Len(pending) + 1)
  /\ conn = "ended" => finish # "no" /\ Len(Coming) + read >= Before(Len(pending) + 1) - 1
  /\ conn \in {"torn", "cut"} =>
       (conn = "torn" <=> Coming # <<>> /\ Coming[Len(Coming)].byte # "newline")

Parsing == \E read \in Offsets : Framing(read) /\ Stopping(read)

Judging ==
  /\ conn \in {"open", "ended", "cut", "torn"}
  /\ outcome \in {"reading", "accepted", "undecodable", "no json"}
  /\ outcome = "accepted" => conn # "torn"
  /\ outcome = "accepted" /\ conn # "cut" => pending = <<>> /\ finish # "no"
  /\ outcome = "no json" => conn = "torn"

ReplyInv == Sending /\ Collecting /\ Judging /\ (outcome = "reading" => Parsing)

-----------------------------------------------------------------------------
(* Pieces that are sent and mapped.                                         *)

\* One more event is sent.
LEMMA HoldsMore ==
  ASSUME NEW S, NEW q \in Seq(S), NEW e \in S, NEW part, NEW n, NEW from \in Nat, NEW last \in Nat,
         \A d \in S : Nth(d, part, n) \in Nat,
         Holds(q, part, n, from, last)
  PROVE  /\ Nth(e, part, n) = 0 => Holds(Append(q, e), part, n, from, last)
         /\ Nth(e, part, n) = last + 1 => Holds(Append(q, e), part, n, from, last + 1)
<1> DEFINE p == Append(q, e)
           f(d) == Nth(d, part, n)
<1>1. /\ Len(q) \in Nat /\ p[Len(q) + 1] = e /\ DOMAIN q = 1..Len(q) /\ DOMAIN p = 1..(Len(q) + 1)
      /\ \A i \in DOMAIN q : p[i] = q[i] /\ q[i] \in S
  BY AppendProperties, LenProperties, ElementOfSeq
<1>2. /\ \A i \in DOMAIN q : f(q[i]) \in Nat
      /\ f(e) \in Nat
  BY <1>1
<1>3. /\ from <= last
      /\ \A i \in DOMAIN q : f(q[i]) # 0 => f(q[i]) \in (from + 1)..last
      /\ \A i, j \in DOMAIN q : i < j /\ f(q[i]) # 0 /\ f(q[j]) # 0 => f(q[i]) < f(q[j])
      /\ \A k \in (from + 1)..last : \E i \in DOMAIN q : f(q[i]) = k
  BY DEF Holds
<1> HIDE DEF p, f
<1>4. ASSUME f(e) = 0 PROVE Holds(p, part, n, from, last)
  <2>1. \A i \in DOMAIN p : f(p[i]) # 0 => i \in DOMAIN q /\ p[i] = q[i]
    BY <1>1, <1>4
  <2>2. \A i \in DOMAIN q : i \in DOMAIN p /\ p[i] = q[i]
    BY <1>1
  <2>3. \A i \in DOMAIN p : f(p[i]) # 0 => f(p[i]) \in (from + 1)..last
    BY <1>3, <2>1
  <2>4. \A i, j \in DOMAIN p : i < j /\ f(p[i]) # 0 /\ f(p[j]) # 0 => f(p[i]) < f(p[j])
    BY <1>3, <2>1
  <2>5. \A k \in (from + 1)..last : \E i \in DOMAIN p : f(p[i]) = k
    BY <1>3, <2>2
  <2> QED
    BY <1>3, <2>3, <2>4, <2>5 DEF Holds, f
<1>5. ASSUME f(e) = last + 1 PROVE Holds(p, part, n, from, last + 1)
  <2>1. \A i \in DOMAIN p : (i \in DOMAIN q /\ p[i] = q[i]) \/ (i = Len(q) + 1 /\ p[i] = e)
    BY <1>1
  <2>2. \A i \in DOMAIN q : i \in DOMAIN p /\ p[i] = q[i]
    BY <1>1
  <2>3. \A i \in DOMAIN p : f(p[i]) # 0 => f(p[i]) \in (from + 1)..(last + 1)
    <3>1. TAKE i \in DOMAIN p
    <3>2. CASE i \in DOMAIN q /\ p[i] = q[i]
      <4>1. f(p[i]) # 0 => f(p[i]) \in (from + 1)..last
        BY <1>3, <3>2
      <4> QED
        BY <4>1
    <3>3. CASE p[i] = e
      <4>1. last + 1 \in (from + 1)..(last + 1)
        BY <1>3
      <4> QED
        BY <1>5, <3>3, <4>1
    <3> QED
      BY <2>1, <3>2, <3>3
  <2>4. \A i, j \in DOMAIN p : i < j /\ f(p[i]) # 0 /\ f(p[j]) # 0 => f(p[i]) < f(p[j])
    <3>1. TAKE i, j \in DOMAIN p
    <3>2. HAVE i < j /\ f(p[i]) # 0 /\ f(p[j]) # 0
    <3>3. i \in DOMAIN q /\ p[i] = q[i]
      BY <1>1, <3>2
    <3>4. CASE j \in DOMAIN q /\ p[j] = q[j]
      BY <1>3, <3>2, <3>3, <3>4
    <3>5. CASE p[j] = e
      <4>1. f(p[i]) \in (from + 1)..last
        BY <1>3, <3>2, <3>3
      <4>2. f(p[j]) = last + 1
        BY <1>5, <3>5
      <4> QED
        BY <4>1, <4>2
    <3> QED
      BY <2>1, <3>4, <3>5
  <2>5. \A k \in (from + 1)..(last + 1) : \E i \in DOMAIN p : f(p[i]) = k
    <3>1. TAKE k \in (from + 1)..(last + 1)
    <3>2. CASE k = last + 1
      <4>1. Len(q) + 1 \in DOMAIN p /\ f(p[Len(q) + 1]) = k
        BY <1>1, <1>5, <3>2
      <4> QED
        BY <4>1
    <3>3. CASE k # last + 1
      <4>1. k \in (from + 1)..last
        BY <3>3
      <4> QED
        BY <1>3, <2>2, <4>1
    <3> QED
      BY <3>2, <3>3
  <2>6. from <= last + 1
    BY <1>3
  <2> QED
    BY <2>3, <2>4, <2>5, <2>6 DEF Holds, f
<1> QED
  BY <1>4, <1>5 DEF p, f

\* The first event is mapped.
LEMMA HoldsLess ==
  ASSUME NEW S, NEW q \in Seq(S), q # <<>>, NEW part, NEW n, NEW from \in Nat, NEW last \in Nat,
         \A d \in S : Nth(d, part, n) \in Nat,
         Holds(q, part, n, from, last)
  PROVE  /\ Nth(q[1], part, n) = 0 => Holds(Tail(q), part, n, from, last)
         /\ Nth(q[1], part, n) # 0 => /\ Nth(q[1], part, n) = from + 1
                                      /\ Holds(Tail(q), part, n, from + 1, last)
<1> DEFINE p == Tail(q)
           f(d) == Nth(d, part, n)
<1>1. /\ Len(q) \in Nat /\ Len(q) > 0 /\ DOMAIN q = 1..Len(q) /\ DOMAIN p = 1..(Len(q) - 1)
      /\ \A i \in 1..(Len(q) - 1) : p[i] = q[i + 1]
      /\ \A i \in DOMAIN q : q[i] \in S
  BY HeadTailProperties, EmptySeq, LenProperties, ElementOfSeq
<1>2. \A i \in DOMAIN q : f(q[i]) \in Nat
  BY <1>1
<1>3. /\ from <= last
      /\ \A i \in DOMAIN q : f(q[i]) # 0 => f(q[i]) \in (from + 1)..last
      /\ \A i, j \in DOMAIN q : i < j /\ f(q[i]) # 0 /\ f(q[j]) # 0 => f(q[i]) < f(q[j])
      /\ \A k \in (from + 1)..last : \E i \in DOMAIN q : f(q[i]) = k
  BY DEF Holds
<1> HIDE DEF p, f
<1>4. /\ \A i \in DOMAIN p : i \in Nat /\ i + 1 \in DOMAIN q /\ p[i] = q[i + 1]
      /\ \A i \in DOMAIN q : i = 1 \/ (i - 1 \in DOMAIN p /\ p[i - 1] = q[i])
      /\ 1 \in DOMAIN q
  BY <1>1, SMTT(30)
<1>5. \A i \in DOMAIN p : f(p[i]) # 0 => f(p[i]) \in (from + 1)..last
  BY <1>3, <1>4
<1>6. \A i, j \in DOMAIN p : i < j /\ f(p[i]) # 0 /\ f(p[j]) # 0 => f(p[i]) < f(p[j])
  <2>1. TAKE i, j \in DOMAIN p
  <2>2. HAVE i < j /\ f(p[i]) # 0 /\ f(p[j]) # 0
  <2>3. i + 1 < j + 1 /\ i + 1 \in DOMAIN q /\ j + 1 \in DOMAIN q /\ p[i] = q[i + 1] /\ p[j] = q[j + 1]
    BY <1>4, <2>2
  <2> QED
    BY <1>3, <2>2, <2>3
<1>7. \A k \in (from + 1)..last : f(q[1]) = k \/ \E i \in DOMAIN p : f(p[i]) = k
  <2>1. TAKE k \in (from + 1)..last
  <2>2. PICK i \in DOMAIN q : f(q[i]) = k
    BY <1>3
  <2> QED
    BY <1>4, <2>2
<1>8. ASSUME f(q[1]) = 0 PROVE Holds(p, part, n, from, last)
  <2>1. \A k \in (from + 1)..last : \E i \in DOMAIN p : f(p[i]) = k
    <3>1. TAKE k \in (from + 1)..last
    <3>2. k # 0
      OBVIOUS
    <3> QED
      BY <1>7, <1>8, <3>2
  <2> QED
    BY <1>3, <1>5, <1>6, <2>1 DEF Holds, f
<1>9. ASSUME f(q[1]) # 0 PROVE f(q[1]) = from + 1 /\ Holds(p, part, n, from + 1, last)
  <2>1. f(q[1]) \in (from + 1)..last
    BY <1>3, <1>4, <1>9
  <2>2. \A i \in DOMAIN p : f(p[i]) # 0 => f(p[i]) > f(q[1])
    <3>1. TAKE i \in DOMAIN p
    <3>2. HAVE f(p[i]) # 0
    <3>3. 1 < i + 1 /\ i + 1 \in DOMAIN q /\ p[i] = q[i + 1] /\ 1 \in DOMAIN q
      BY <1>1, <1>4
    <3>4. f(q[1]) < f(q[i + 1])
      BY <1>3, <1>9, <3>2, <3>3
    <3>5. f(q[1]) \in Nat /\ f(q[i + 1]) \in Nat
      BY <1>2, <3>3
    <3> QED
      BY <3>3, <3>4, <3>5
  <2>3. f(q[1]) = from + 1
    <3>1. SUFFICES ASSUME f(q[1]) # from + 1 PROVE FALSE
      OBVIOUS
    <3>2. from + 1 \in (from + 1)..last /\ from + 1 # 0 /\ from + 1 < f(q[1])
      BY <2>1, <3>1
    <3>3. PICK i \in DOMAIN p : f(p[i]) = from + 1
      BY <1>7, <3>1, <3>2
    <3>4. from + 1 > f(q[1])
      BY <2>2, <3>2, <3>3
    <3> QED
      BY <2>1, <3>2, <3>4
  <2>4. \A i \in DOMAIN p : f(p[i]) # 0 => f(p[i]) \in ((from + 1) + 1)..last
    <3>1. TAKE i \in DOMAIN p
    <3>2. HAVE f(p[i]) # 0
    <3>3. f(p[i]) \in (from + 1)..last /\ f(p[i]) > from + 1
      BY <1>5, <2>2, <2>3, <3>2
    <3> QED
      BY <3>3
  <2>5. \A k \in ((from + 1) + 1)..last : \E i \in DOMAIN p : f(p[i]) = k
    <3>1. TAKE k \in ((from + 1) + 1)..last
    <3>2. k \in (from + 1)..last /\ k # f(q[1])
      BY <2>3
    <3> QED
      BY <1>7, <3>2
  <2>6. from + 1 <= last
    BY <2>1
  <2> QED
    BY <1>6, <2>3, <2>4, <2>5, <2>6 DEF Holds, f
<1> QED
  BY <1>8, <1>9 DEF p, f

\* No piece is on its way.
LEMMA HoldsNone ==
  ASSUME NEW q, NEW part, NEW n, NEW from \in Nat, NEW last \in Nat,
         \A i \in DOMAIN q : Nth(q[i], part, n) = 0,
         Holds(q, part, n, from, last)
  PROVE  from = last
<1>1. ASSUME from < last PROVE FALSE
  <2>1. last \in (from + 1)..last /\ last # 0
    BY <1>1
  <2>2. \E i \in DOMAIN q : Nth(q[i], part, n) = last
    BY <2>1 DEF Holds
  <2> QED
    BY <2>1, <2>2
<1>2. from <= last
  BY DEF Holds
<1> QED
  BY <1>1, <1>2

-----------------------------------------------------------------------------
(* The events of a reply.                                                   *)

LEMMA NthOf ==
  /\ \A k, n : /\ Nth(Text(k), "text", n) = k
               /\ Nth(Text(k), "calls", n) = 0 /\ Nth(Text(k), "call", n) = 0
  /\ \A m, k, n : /\ Nth(Delta(m, k), "text", n) = 0
                  /\ Nth(Delta(m, k), "calls", n) = IF k = 1 THEN m ELSE 0
                  /\ Nth(Delta(m, k), "call", n) = IF m = n THEN k ELSE 0
  /\ \A e, n : e.kind \notin {"text", "delta"} =>
       Nth(e, "text", n) = 0 /\ Nth(e, "calls", n) = 0 /\ Nth(e, "call", n) = 0
BY DEF Nth, Text, Delta

Terminal == {"[DONE]", "completed", "incomplete"}

LEMMA EventKinds ==
  ASSUME Sending, NEW e \in ReplyEvents
  PROVE  \/ \E k \in Nat \ {0} : e = Text(k)
         \/ \E n \in Calls, k \in Nat \ {0} : e = Delta(n, k)
         \/ \E n \in whole : e = ArgumentsDone(n) /\ e.kind = "done" /\ e.index = n
         \/ /\ e \in Ends /\ e.kind \in Terminal /\ e.kind = finish
<1>1. meant.text \in Nat /\ meant.calls \in Seq(Nat \ {0})
  BY DEF Sending
<1>2. CASE e \in {Text(k) : k \in 1..meant.text}
  BY <1>1, <1>2
<1>3. CASE e \in UNION {Deltas(n) : n \in Calls}
  <2>1. PICK n \in Calls : e \in Deltas(n)
    BY <1>3
  <2>2. meant.calls[n] \in Nat
    BY <1>1, ElementOfSeq, LenProperties DEF Calls
  <2>3. PICK k \in 1..meant.calls[n] : e = Delta(n, k)
    BY <2>1 DEF Deltas
  <2>4. k \in Nat \ {0}
    BY <2>2
  <2> QED
    BY <2>3, <2>4
<1>4. CASE e \in {ArgumentsDone(n) : n \in whole}
  BY <1>4 DEF ArgumentsDone
<1>5. CASE e \in Ends
  <2>1. finish # "no" /\ finish \in (IF dialect = "chat" THEN {"no", "[DONE]"}
                                     ELSE {"no", "completed", "incomplete"})
    BY <1>5 DEF Ends, Sending
  <2>2. CASE dialect = "chat"
    <3>1. e = Done /\ finish = "[DONE]"
      BY <1>5, <2>1, <2>2 DEF Ends
    <3> QED
      BY <1>5, <3>1 DEF Done, Terminal
  <2>3. CASE dialect # "chat" /\ finish = "incomplete"
    <3>1. e = Incomplete
      BY <1>5, <2>1, <2>3 DEF Ends
    <3> QED
      BY <1>5, <2>3, <3>1 DEF Incomplete, Terminal
  <2>4. CASE dialect # "chat" /\ finish = "completed"
    <3>1. PICK m \in 1..(Len(meant.calls) + 1) : e = Completed(m)
      BY <1>5, <2>1, <2>4 DEF Ends
    <3>2. e.kind = "completed"
      BY <3>1 DEF Completed
    <3> QED
      BY <1>5, <2>4, <3>2 DEF Terminal
  <2> QED
    BY <2>1, <2>2, <2>3, <2>4
<1>6. \/ e \in {Text(k) : k \in 1..meant.text}
      \/ e \in UNION {Deltas(n) : n \in Calls}
      \/ e \in {ArgumentsDone(n) : n \in whole}
      \/ e \in Ends
  BY DEF ReplyEvents
<1> QED
  BY <1>2, <1>3, <1>4, <1>5, <1>6

LEMMA NthIsNatural ==
  ASSUME Sending, NEW e \in ReplyEvents, NEW n, NEW part \in {"text", "calls", "call"}
  PROVE  Nth(e, part, n) \in Nat
<1>1. CASE \E k \in Nat \ {0} : e = Text(k)
  BY <1>1, NthOf
<1>2. CASE \E m \in Calls, k \in Nat \ {0} : e = Delta(m, k)
  <2>1. PICK m \in Calls, k \in Nat \ {0} : e = Delta(m, k)
    BY <1>2
  <2>2. m \in Nat
    BY LenProperties DEF Calls, Sending
  <2> QED
    BY <2>1, <2>2, NthOf
<1>3. CASE e.kind \notin {"text", "delta"}
  BY <1>3, NthOf
<1> QED
  BY <1>1, <1>2, <1>3, EventKinds DEF Terminal

\* One more event is sent: what the mapper has yet to be given grows by it.
LEMMA SentMore ==
  ASSUME Sending, NEW e, NEW n, NEW part \in {"text", "calls", "call"},
         Nth(e, part, n) \in Nat, NEW from \in Nat, NEW last \in Nat,
         Holds(pending, part, n, from, last)
  PROVE  /\ Nth(e, part, n) = 0 => Holds(Append(pending, e), part, n, from, last)
         /\ Nth(e, part, n) = last + 1 => Holds(Append(pending, e), part, n, from, last + 1)
<1> DEFINE S == ReplyEvents \cup {e}
<1>1. pending \in Seq(S) /\ e \in S
  <2>1. pending \in Seq(ReplyEvents)
    BY DEF Sending
  <2> QED
    BY <2>1, SeqMonotonic
<1>2. \A d \in S : Nth(d, part, n) \in Nat
  BY NthIsNatural
<1> HIDE DEF S
<1> QED
  BY <1>1, <1>2, HoldsMore

\* The first event is mapped.
LEMMA MappedOne ==
  ASSUME Sending, pending # <<>>, NEW n, NEW part \in {"text", "calls", "call"},
         NEW from \in Nat, NEW last \in Nat, Holds(pending, part, n, from, last)
  PROVE  /\ Nth(pending[1], part, n) = 0 => Holds(Tail(pending), part, n, from, last)
         /\ Nth(pending[1], part, n) # 0 =>
              Nth(pending[1], part, n) = from + 1 /\ Holds(Tail(pending), part, n, from + 1, last)
BY NthIsNatural, HoldsLess DEF Sending

-----------------------------------------------------------------------------
(* The bytes of the events.                                                 *)

\* A place among the bytes left, counted from before and from behind n bytes that were read.
LEMMA Shifted ==
  ASSUME NEW begin \in Nat, NEW j \in Int, NEW start \in Nat, NEW n \in Nat, NEW left \in Nat,
         (begin + j) - (start + n) \in 1..left
  PROVE  /\ (begin + j) - start \in 1..(n + left)
         /\ n + ((begin + j) - (start + n)) = (begin + j) - start
  OBVIOUS

LEMMA Widths == Width \in {4, 6} /\ Before(1) = 0 /\ (dialect = "chat" <=> Width = 4)
<1>1. CASE dialect = "chat"
  BY <1>1 DEF Width, Before
<1>2. CASE dialect # "chat"
  BY <1>2 DEF Width, Before
<1> QED
  BY <1>1, <1>2

LEMMA Begins ==
  ASSUME NEW m \in Nat \ {0}
  PROVE  Before(m) \in Nat /\ Before(m + 1) = Before(m) + Width /\ Width \in Nat
<1>1. CASE dialect = "chat"
  BY <1>1 DEF Width, Before
<1>2. CASE dialect # "chat"
  BY <1>2 DEF Width, Before
<1> QED
  BY <1>1, <1>2

LEMMA BeginsBefore ==
  ASSUME NEW m \in Nat \ {0}, NEW n \in Nat \ {0}, m < n
  PROVE  Before(m) + Width <= Before(n)
<1>1. CASE dialect = "chat"
  BY <1>1 DEF Width, Before
<1>2. CASE dialect # "chat"
  BY <1>2 DEF Width, Before
<1> QED
  BY <1>1, <1>2

LEMMA Frames ==
  ASSUME NEW e
  PROVE  /\ Len(Frame(e)) = Width
         /\ Frame(e)[Width] = Newline /\ Frame(e)[Width - 1] = Newline
         /\ Width = 4 => /\ Frame(e)[1] = FirstHalf(e) /\ Frame(e)[2] = SecondHalf(e)
                         /\ Frame(e)[3] = Newline
         /\ Width = 6 => /\ Frame(e)[1] = Name /\ Frame(e)[2] = Newline
                         /\ Frame(e)[3] = FirstHalf(e) /\ Frame(e)[4] = SecondHalf(e)
                         /\ Frame(e)[5] = Newline
<1>1. CASE dialect = "chat"
  BY <1>1 DEF Width, Frame
<1>2. CASE dialect # "chat"
  BY <1>2 DEF Width, Frame
<1> QED
  BY <1>1, <1>2

\* How much of an event was read is never all of it.
LEMMA ReadPart ==
  ASSUME NEW read \in Offsets
  PROVE  /\ read \in Nat /\ read <= Width - 1
         /\ data # <<>> => read = Width - 1
         /\ data = <<>> => (read = 0 \/ (read = 2 /\ Width = 6))
<1>1. CASE data # <<>>
  BY <1>1, Widths DEF Offsets
<1>2. CASE data = <<>>
  BY <1>2, Widths DEF Offsets
<1> QED
  BY <1>1, <1>2

-----------------------------------------------------------------------------
(* Steps of the server that keep the invariant.                             *)

LEMMA BytesGrow ==
  ASSUME ReplyEvents \subseteq ReplyEvents', NEW s \in Seq(ReplyBytes)
  PROVE  s \in Seq(ReplyBytes')
<1>1. ReplyBytes \subseteq ReplyBytes'
  BY DEF ReplyBytes
<1> QED
  BY <1>1, SeqMonotonic

LEMMA SendFrames ==
  ASSUME Sending, Parsing, ReplyEvents \subseteq ReplyEvents', NEW e \in ReplyEvents', Sends(e)
  PROVE  Parsing'
<1> DEFINE t == Frame(e)
           n == Len(pending)
           c == Len(Coming)
<1>1. PICK read \in Offsets : Framing(read) /\ Stopping(read)
  BY DEF Parsing
<1>2. /\ buffer' = buffer /\ wire' = wire \o t /\ pending' = Append(pending, e)
      /\ data' = data /\ conn = "open" /\ conn' = "open" /\ dialect' = dialect
  BY DEF Sends
<1>3. /\ Width' = Width /\ Offsets' = Offsets /\ \A x : Before(x)' = Before(x) /\ Frame(x)' = Frame(x)
  <2>1. Width' = Width
    BY <1>2 DEF Width
  <2>2. Offsets' = Offsets
    BY <1>2, <2>1 DEF Offsets
  <2>3. \A x : Before(x)' = Before(x) /\ Frame(x)' = Frame(x)
    BY <1>2 DEF Before, Frame
  <2> QED
    BY <2>1, <2>2, <2>3
<1>4. /\ buffer \in Seq(ReplyBytes') /\ wire \in Seq(ReplyBytes') /\ t \in Seq(ReplyBytes')
      /\ Len(t) = Width
  <2>1. buffer \in Seq(ReplyBytes') /\ wire \in Seq(ReplyBytes')
    BY <1>1, BytesGrow DEF Framing
  <2>2. /\ FirstHalf(e) \in ReplyBytes' /\ SecondHalf(e) \in ReplyBytes' /\ Newline \in ReplyBytes'
        /\ Name \in ReplyBytes'
    BY DEF ReplyBytes
  <2>3. t \in Seq(ReplyBytes')
    <3> DEFINE S == ReplyBytes'
    <3>1. FirstHalf(e) \in S /\ SecondHalf(e) \in S /\ Newline \in S /\ Name \in S
      BY <2>2
    <3> HIDE DEF S
    <3>2. Frame(e) \in Seq(S)
      BY <3>1 DEF Frame
    <3> QED
      BY <3>2 DEF S
  <2> QED
    BY <2>1, <2>3, Frames
<1> HIDE DEF t
<1>5. Coming' = Coming \o t /\ wire' \in Seq(ReplyBytes') /\ Coming \in Seq(ReplyBytes')
  <2> DEFINE S == ReplyBytes'
  <2>1. buffer \in Seq(S) /\ wire \in Seq(S) /\ t \in Seq(S)
    BY <1>4
  <2> HIDE DEF S
  <2>2. /\ buffer \o (wire \o t) = (buffer \o wire) \o t
        /\ wire \o t \in Seq(S) /\ buffer \o wire \in Seq(S)
    BY <2>1, JoinThree
  <2>3. wire' \in Seq(S) /\ Coming \in Seq(S)
    BY <1>2, <2>2 DEF Coming
  <2>4. Coming' = Coming \o t
    BY <1>2, <2>2 DEF Coming
  <2> QED
    BY <2>3, <2>4 DEF S
<1>6. /\ c \in Nat /\ n \in Nat /\ read \in Nat /\ c + read = Before(n + 1)
      /\ Width \in Nat /\ Before((n + 1) + 1) = Before(n + 1) + Width /\ Before(n + 1) \in Nat
  <2>1. c \in Nat /\ n \in Nat
    BY <1>5, LenProperties DEF Sending
  <2>2. n + 1 \in Nat \ {0}
    BY <2>1
  <2>3. c + read = Before(n + 1) /\ read \in Nat
    BY <1>1, <1>2, ReadPart DEF Stopping
  <2> HIDE DEF n
  <2> QED
    BY <2>1, <2>2, <2>3, Begins
<1>7. /\ Len(Coming') = c + Width
      /\ \A p \in 1..c : Coming'[p] = Coming[p]
      /\ \A j \in 1..Width : Coming'[c + j] = t[j]
  <2> DEFINE S == ReplyBytes'
  <2>1. Coming \in Seq(S) /\ t \in Seq(S)
    BY <1>4, <1>5
  <2> HIDE DEF S
  <2>2. /\ Len(Coming \o t) = Len(Coming) + Len(t)
        /\ \A p \in 1..Len(Coming) : (Coming \o t)[p] = Coming[p]
        /\ \A p \in 1..Len(t) : (Coming \o t)[Len(Coming) + p] = t[p]
    BY <2>1, JoinTwo
  <2> QED
    BY <1>4, <1>5, <2>2
<1>8. /\ pending' \in Seq(ReplyEvents') /\ Len(pending') = n + 1 /\ pending'[n + 1] = e
      /\ \A i \in 1..n : pending'[i] = pending[i]
      /\ pending # <<>> => pending' # <<>> /\ pending'[1] = pending[1]
  <2>1. pending \in Seq(ReplyEvents')
    BY SeqMonotonic DEF Sending
  <2>2. pending # <<>> => 1 \in 1..Len(pending)
    BY <2>1, EmptySeq, LenProperties
  <2> QED
    BY <1>2, <1>6, <2>1, <2>2, AppendProperties
<1>9. \A m \in 1..n, j \in 1..Width :
        (Before(m) + j) - read \in 1..c => Coming[(Before(m) + j) - read] = Frame(pending[m])[j]
  BY <1>1 DEF Framing
<1>10. \A m \in 1..n : Before(m) \in Nat /\ Before(m) + Width <= Before(n + 1)
  <2>1. TAKE m \in 1..n
  <2>2. m \in Nat \ {0} /\ n + 1 \in Nat \ {0} /\ m < n + 1
    BY <1>6
  <2> QED
    BY <2>2, Begins, BeginsBefore
<1>11. c + read = Before(n + 1)
  BY <1>6
<1> HIDE DEF c, n
<1>12. ASSUME NEW m \in 1..(n + 1), NEW j \in 1..Width,
              (Before(m) + j) - read \in 1..Len(Coming')
       PROVE  Coming'[(Before(m) + j) - read] = Frame(pending'[m])[j]
  <2>1. CASE m = n + 1
    <3>1. (Before(m) + j) - read = c + j
      BY <1>6, <2>1
    <3> QED
      BY <1>7, <1>8, <2>1, <3>1 DEF t
  <2>2. CASE m # n + 1
    <3>1. m \in 1..n
      BY <1>6, <2>2
    <3>2. (Before(m) + j) - read \in 1..c
      BY <1>6, <1>7, <1>10, <1>12, <3>1, SMTT(30)
    <3> QED
      BY <1>7, <1>8, <1>9, <3>1, <3>2
  <2> QED
    BY <2>1, <2>2
<1>13. Len(Coming') + read = Before((n + 1) + 1)
  BY <1>6, <1>7
<1>14. Framing(read)'
  <2>1. data' # <<>> => pending' # <<>> /\ data' = <<pending'[1]>>
    BY <1>1, <1>2, <1>8 DEF Framing
  <2>2. Len(Coming') + read <= Before(Len(pending') + 1)
    BY <1>6, <1>7, <1>8, <1>13
  <2>3. \A m \in 1..Len(pending'), j \in 1..Width :
          (Before(m) + j) - read \in 1..Len(Coming')
            => Coming'[(Before(m) + j) - read] = Frame(pending'[m])[j]
    BY <1>8, <1>12
  <2> QED
    BY <1>2, <1>3, <1>4, <1>5, <2>1, <2>2, <2>3 DEF Framing
<1>15. Stopping(read)'
  BY <1>2, <1>3, <1>8, <1>13 DEF Stopping
<1> QED
  BY <1>3, <1>14, <1>15 DEF Parsing

\* What the server may have sent only grows while it has not ended the reply.
LEMMA EventsGrow ==
  ASSUME Sending, finish = "no", dialect' = dialect, whole \subseteq whole',
         meant.text <= meant'.text, meant'.text \in Nat,
         Calls \subseteq Calls', \A n \in Calls : meant.calls[n] <= meant'.calls[n],
         \A n \in Calls : meant'.calls[n] \in Nat,
         \A n \in whole : meant'.calls[n] = meant.calls[n]
  PROVE  /\ ReplyEvents \subseteq ReplyEvents'
         /\ \A n, k : Delta(n, k)' = Delta(n, k)
<1>1. \A n, k : Delta(n, k)' = Delta(n, k)
  BY DEF Delta, Key
<1>2. meant.text \in Nat /\ meant.calls \in Seq(Nat \ {0}) /\ whole \subseteq Calls
  BY DEF Sending
<1>3. \A n \in Calls : meant.calls[n] \in Nat
  BY <1>2, ElementOfSeq, LenProperties DEF Calls
<1>4. {Text(k) : k \in 1..meant.text} \subseteq {Text(k) : k \in 1..meant'.text}
  <2>1. 1..meant.text \subseteq 1..meant'.text
    BY <1>2
  <2> QED
    BY <2>1
<1>5. \A n \in Calls : Deltas(n) \subseteq Deltas(n)'
  <2>1. TAKE n \in Calls
  <2>2. 1..meant.calls[n] \subseteq 1..meant'.calls[n]
    BY <1>3
  <2>3. Deltas(n)' = {Delta(n, k) : k \in 1..meant'.calls[n]}
    BY <1>1 DEF Deltas
  <2> QED
    BY <2>2, <2>3 DEF Deltas
<1>6. UNION {Deltas(n) : n \in Calls} \subseteq (UNION {Deltas(n) : n \in Calls})'
  <2>1. SUFFICES ASSUME NEW e \in UNION {Deltas(n) : n \in Calls}
                 PROVE  e \in (UNION {Deltas(n) : n \in Calls})'
    OBVIOUS
  <2>2. PICK n \in Calls : e \in Deltas(n)
    OBVIOUS
  <2>3. n \in Calls' /\ e \in Deltas(n)'
    BY <1>5, <2>2
  <2> QED
    BY <2>3
<1>7. {ArgumentsDone(n) : n \in whole} \subseteq {ArgumentsDone(n) : n \in whole}'
  <2>1. \A n \in whole : ArgumentsDone(n)' = ArgumentsDone(n)
    BY DEF ArgumentsDone, Key
  <2> QED
    BY <2>1
<1>8. Ends = {}
  BY DEF Ends
<1>9. ReplyEvents' = {Text(k) : k \in 1..meant'.text} \cup (UNION {Deltas(n) : n \in Calls})'
                       \cup {ArgumentsDone(n) : n \in whole}' \cup Ends'
  BY DEF ReplyEvents, Text
<1>10. ReplyEvents \subseteq ReplyEvents'
  BY <1>4, <1>6, <1>7, <1>8, <1>9 DEF ReplyEvents
<1> QED
  BY <1>1, <1>10

\* The events stay in an order a server may send them in.
LEMMA SentInOrder ==
  ASSUME Sending, finish = "no", NEW e, Sends(e), ReplyEvents \subseteq ReplyEvents',
         e \in ReplyEvents', e.kind = "delta" => e.index \notin whole
  PROVE  /\ pending' \in Seq(ReplyEvents') /\ pending' # <<>> /\ pending'[Len(pending')] = e
         /\ \A i, j \in DOMAIN pending' :
              i < j => /\ pending'[i].kind \notin {"[DONE]", "completed", "incomplete"}
                       /\ pending'[i].kind = "done" /\ pending'[j].kind = "delta"
                            => pending'[i].index # pending'[j].index
<1> DEFINE S == ReplyEvents'
<1>1. pending' = Append(pending, e) /\ pending \in Seq(ReplyEvents)
  BY DEF Sends, Sending
<1>2. pending \in Seq(S) /\ e \in S
  BY <1>1, SeqMonotonic
<1> HIDE DEF S
<1>3. /\ pending' \in Seq(S) /\ pending' # <<>> /\ Len(pending') = Len(pending) + 1
      /\ pending'[Len(pending) + 1] = e /\ \A i \in 1..Len(pending) : pending'[i] = pending[i]
      /\ Len(pending) \in Nat /\ DOMAIN pending' = 1..(Len(pending) + 1)
      /\ DOMAIN pending = 1..Len(pending)
  BY <1>1, <1>2, AppendProperties, LenProperties
<1>4. \A i \in DOMAIN pending : /\ pending[i].kind \notin {"[DONE]", "completed", "incomplete"}
                                /\ pending[i].kind = "done" => pending[i].index \in whole
  <2>1. TAKE i \in DOMAIN pending
  <2>2. pending[i] \in ReplyEvents
    BY <1>1, <1>3, ElementOfSeq
  <2>3. \/ \E k \in Nat \ {0} : pending[i] = Text(k)
        \/ \E n \in Calls, k \in Nat \ {0} : pending[i] = Delta(n, k)
        \/ \E n \in whole : pending[i].kind = "done" /\ pending[i].index = n
    BY <2>2, EventKinds DEF Ends
  <2> QED
    BY <2>3 DEF Text, Delta
<1>5. ASSUME NEW i \in DOMAIN pending', NEW j \in DOMAIN pending', i < j
      PROVE  /\ pending'[i].kind \notin {"[DONE]", "completed", "incomplete"}
             /\ pending'[i].kind = "done" /\ pending'[j].kind = "delta"
                  => pending'[i].index # pending'[j].index
  <2>1. i \in DOMAIN pending /\ pending'[i] = pending[i]
    BY <1>3, <1>5
  <2>2. CASE j \in DOMAIN pending
    <3>1. pending'[j] = pending[j]
      BY <1>3, <2>2
    <3>2. /\ pending[i].kind \notin {"[DONE]", "completed", "incomplete"}
          /\ pending[i].kind = "done" /\ pending[j].kind = "delta"
               => pending[i].index # pending[j].index
      BY <1>5, <2>1, <2>2 DEF Sending
    <3> QED
      BY <2>1, <3>1, <3>2
  <2>3. CASE j \notin DOMAIN pending
    <3>1. pending'[j] = e
      BY <1>3, <2>3
    <3> QED
      BY <1>4, <2>1, <3>1
  <2> QED
    BY <2>2, <2>3
<1> QED
  BY <1>3, <1>5 DEF S

\* Nothing of a call that was not begun is on its way.
LEMMA NotBegun ==
  ASSUME Sending, NEW n, n \notin Calls
  PROVE  Holds(pending, "call", n, 0, 0)
<1>1. \A i \in DOMAIN pending : Nth(pending[i], "call", n) = 0
  <2>1. TAKE i \in DOMAIN pending
  <2>2. pending[i] \in ReplyEvents
    BY ElementOfSeq, LenProperties DEF Sending
  <2>3. \/ \E k \in Nat \ {0} : pending[i] = Text(k)
        \/ \E m \in Calls, k \in Nat \ {0} : pending[i] = Delta(m, k)
        \/ pending[i].kind \notin {"text", "delta"}
    BY <2>2, EventKinds DEF Terminal
  <2> QED
    BY <2>3, NthOf
<1>2. \A k \in (0 + 1)..0 : FALSE
  OBVIOUS
<1> QED
  BY <1>1, <1>2 DEF Holds

LEMMA Counts ==
  ASSUME Sending, Collecting
  PROVE  /\ meant.text \in Nat /\ Len(text) \in Nat /\ Len(Got) \in Nat /\ Len(meant.calls) \in Nat
         /\ Calls = 1..Len(meant.calls) /\ DOMAIN Got = 1..Len(Got) /\ DOMAIN calls = DOMAIN Got
         /\ \A n \in Calls : meant.calls[n] \in Nat \ {0}
         /\ \A n : At(Got, n) \in Nat
         /\ Len(Got) <= Len(meant.calls) /\ Len(text) <= meant.text
         /\ Len(calls) = Len(Got)
<1>1. meant.text \in Nat /\ meant.calls \in Seq(Nat \ {0}) /\ Got \in Seq(Nat \ {0}) /\ text \in Seq(Nat)
  BY DEF Sending, Collecting
<1>2. \A n \in DOMAIN Got : Got[n] \in Nat
  BY <1>1, ElementOfSeq, LenProperties
<1>3. \A n \in Calls : meant.calls[n] \in Nat \ {0}
  BY <1>1, ElementOfSeq, LenProperties DEF Calls
<1>4. \A n : At(Got, n) \in Nat
  BY <1>2 DEF At
<1>5. Len(Got) <= Len(meant.calls) /\ Len(text) <= meant.text
  BY DEF Collecting, Holds
<1>6. DOMAIN calls = DOMAIN Got
  BY DEF Got
<1>7. Len(calls) = Len(Got)
  <2>1. DOMAIN calls = 1..Len(Got) /\ Len(Got) \in Nat
    BY <1>1, <1>6, LenProperties
  <2>2. calls = [i \in 1..Len(Got) |-> calls[i]]
    BY <2>1 DEF Collecting, Entries
  <2>3. calls \in Seq({calls[i] : i \in 1..Len(Got)})
    BY <2>1, <2>2, SeqDef
  <2>4. DOMAIN calls = 1..Len(calls) /\ Len(calls) \in Nat
    BY <2>3, LenProperties
  <2> QED
    BY <2>1, <2>4
<1> QED
  BY <1>1, <1>3, <1>4, <1>5, <1>6, <1>7, LenProperties DEF Calls

\* One more event is sent: of what it is no piece of, as much as before is to come, and
\* of what it is the next piece of, one more.
LEMMA SentParts ==
  ASSUME Sending, Collecting, NEW e,
         Nth(e, "text", 0) \in Nat, Nth(e, "calls", 0) \in Nat, \A n : Nth(e, "call", n) \in Nat
  PROVE  /\ Nth(e, "text", 0) = 0 => Holds(Append(pending, e), "text", 0, Len(text), meant.text)
         /\ Nth(e, "text", 0) = meant.text + 1
              => Holds(Append(pending, e), "text", 0, Len(text), meant.text + 1)
         /\ Nth(e, "calls", 0) = 0
              => Holds(Append(pending, e), "calls", 0, Len(Got), Len(meant.calls))
         /\ Nth(e, "calls", 0) = Len(meant.calls) + 1
              => Holds(Append(pending, e), "calls", 0, Len(Got), Len(meant.calls) + 1)
         /\ \A n \in Calls :
              /\ Nth(e, "call", n) = 0
                   => Holds(Append(pending, e), "call", n, At(Got, n), meant.calls[n])
              /\ Nth(e, "call", n) = meant.calls[n] + 1
                   => Holds(Append(pending, e), "call", n, At(Got, n), meant.calls[n] + 1)
         /\ \A n : n \notin Calls /\ Nth(e, "call", n) = 1
              => Holds(Append(pending, e), "call", n, 0, 1)
<1>1. Len(text) \in Nat /\ meant.text \in Nat /\ Holds(pending, "text", 0, Len(text), meant.text)
  BY Counts DEF Collecting
<1>2. /\ Len(Got) \in Nat /\ Len(meant.calls) \in Nat
      /\ Holds(pending, "calls", 0, Len(Got), Len(meant.calls))
  BY Counts DEF Collecting
<1>3. \A n \in Calls : /\ At(Got, n) \in Nat /\ meant.calls[n] \in Nat
                       /\ Holds(pending, "call", n, At(Got, n), meant.calls[n])
  BY Counts DEF Collecting
<1>4. /\ Nth(e, "text", 0) = 0 => Holds(Append(pending, e), "text", 0, Len(text), meant.text)
      /\ Nth(e, "text", 0) = meant.text + 1
           => Holds(Append(pending, e), "text", 0, Len(text), meant.text + 1)
  BY <1>1, SentMore
<1>5. /\ Nth(e, "calls", 0) = 0
           => Holds(Append(pending, e), "calls", 0, Len(Got), Len(meant.calls))
      /\ Nth(e, "calls", 0) = Len(meant.calls) + 1
           => Holds(Append(pending, e), "calls", 0, Len(Got), Len(meant.calls) + 1)
  BY <1>2, SentMore
<1>6. \A n \in Calls :
        /\ Nth(e, "call", n) = 0
             => Holds(Append(pending, e), "call", n, At(Got, n), meant.calls[n])
        /\ Nth(e, "call", n) = meant.calls[n] + 1
             => Holds(Append(pending, e), "call", n, At(Got, n), meant.calls[n] + 1)
  BY <1>3, SentMore
<1>7. ASSUME NEW n, n \notin Calls, Nth(e, "call", n) = 1
      PROVE  Holds(Append(pending, e), "call", n, 0, 1)
  <2>1. Holds(pending, "call", n, 0, 0)
    BY <1>7, NotBegun
  <2>2. Nth(e, "call", n) = 0 + 1 /\ 0 \in Nat
    BY <1>7
  <2>3. Holds(Append(pending, e), "call", n, 0, 0 + 1)
    BY <2>1, <2>2, SentMore
  <2> QED
    BY <2>3
<1> QED
  BY <1>4, <1>5, <1>6, <1>7

\* What is the same of every step of the server but the last.
LEMMA SendKeeps ==
  ASSUME ReplyInv, NEW e, Sends(e), ReplyEvents \subseteq ReplyEvents', e \in ReplyEvents',
         e.kind = "delta" => e.index \notin whole,
         meant'.text \in Nat, meant'.calls \in Seq(Nat \ {0}),
         meant' = [text |-> meant'.text, calls |-> meant'.calls],
         whole' \subseteq Calls', finish' \in {finish, e.kind},
         finish' \in (IF dialect = "chat" THEN {"no", "[DONE]"} ELSE {"no", "completed", "incomplete"}),
         Holds(Append(pending, e), "text", 0, Len(text), meant'.text),
         Holds(Append(pending, e), "calls", 0, Len(Got), Len(meant'.calls)),
         \A n \in Calls' : Holds(Append(pending, e), "call", n, At(Got, n), meant'.calls[n])
  PROVE  ReplyInv'
<1> USE DEF ReplyInv
<1>1. /\ finish = "no" /\ outcome = "reading" /\ outcome' = outcome /\ dialect' = dialect
      /\ conn' = conn /\ pending' = Append(pending, e) /\ text' = text /\ calls' = calls
      /\ shown' = shown /\ completed' = completed
  BY DEF Sends, mapperVars
<1>2. /\ pending' \in Seq(ReplyEvents') /\ pending' # <<>> /\ pending'[Len(pending')] = e
      /\ \A i, j \in DOMAIN pending' :
            i < j => /\ pending'[i].kind \notin {"[DONE]", "completed", "incomplete"}
                     /\ pending'[i].kind = "done" /\ pending'[j].kind = "delta"
                          => pending'[i].index # pending'[j].index
  BY <1>1, SentInOrder
<1>3. Sending'
  <2>1. finish' # "no" /\ pending' # <<>> => pending'[Len(pending')].kind = finish'
    BY <1>1, <1>2
  <2>2. dialect' \in {"chat", "responses", "items"}
    BY <1>1 DEF Sending
  <2> QED
    BY <1>1, <1>2, <2>1, <2>2 DEF Sending
<1>4. Got' = Got /\ \A n : At(Got, n)' = At(Got, n)
  BY <1>1 DEF Got, At
<1>5. Collecting'
  <2>1. Entries(Got)' = Entries(Got)
    BY <1>1, <1>4 DEF Entries, Entry, Key
  <2>2. completed' = IF finish' = "completed" /\ pending' = <<>> THEN <<Meant>>' ELSE <<>>
    BY <1>1, <1>2 DEF Collecting
  <2>3. \A n \in Calls' : Holds(pending', "call", n, At(Got, n)', meant'.calls[n])
    BY <1>1, <1>4
  <2> QED
    BY <1>1, <1>4, <2>1, <2>2, <2>3 DEF Collecting
<1>6. Parsing'
  BY <1>1, SendFrames
<1>7. Judging'
  BY <1>1 DEF Judging
<1> QED
  BY <1>1, <1>3, <1>5, <1>6, <1>7

LEMMA SendTextKeeps ==
  ASSUME ReplyInv, SendText
  PROVE  ReplyInv'
<1> USE DEF ReplyInv
<1> DEFINE e == Text(meant.text + 1)
<1>1. /\ Sends(e) /\ meant' = [meant EXCEPT !.text = @ + 1] /\ whole' = whole /\ finish' = finish
      /\ finish = "no" /\ outcome = "reading" /\ dialect' = dialect
  BY DEF SendText, Sends
<1>2. /\ meant.text \in Nat /\ meant.calls \in Seq(Nat \ {0})
      /\ meant = [text |-> meant.text, calls |-> meant.calls]
  BY DEF Sending
<1>3. meant'.text = meant.text + 1 /\ meant'.calls = meant.calls
      /\ meant' = [text |-> meant'.text, calls |-> meant'.calls]
  BY <1>1, <1>2
<1>4. Calls' = Calls /\ whole \subseteq Calls
  BY <1>3 DEF Calls, Sending
<1>5. ReplyEvents \subseteq ReplyEvents'
  <2>1. \A n \in Calls : meant.calls[n] \in Nat
    BY Counts
  <2> QED
    BY <1>1, <1>2, <1>3, <1>4, <2>1, EventsGrow
<1>6. e \in ReplyEvents' /\ e.kind = "text"
  <2>1. e \in {Text(k) : k \in 1..meant'.text} /\ e.kind = "text"
    <3>1. meant'.text \in 1..meant'.text
      BY <1>2, <1>3
    <3> QED
      BY <1>3, <3>1 DEF Text
  <2>2. ReplyEvents' = {Text(k) : k \in 1..meant'.text} \cup (UNION {Deltas(n) : n \in Calls})'
                       \cup {ArgumentsDone(n) : n \in whole}' \cup Ends'
    BY DEF ReplyEvents, Text
  <2> QED
    BY <2>1, <2>2
<1>7. /\ Nth(e, "text", 0) = meant.text + 1 /\ Nth(e, "calls", 0) = 0
      /\ \A n : Nth(e, "call", n) = 0
      /\ meant.text + 1 \in Nat /\ 0 \in Nat
  BY <1>2, NthOf DEF e
<1> HIDE DEF e
<1>8. /\ Holds(Append(pending, e), "text", 0, Len(text), meant'.text)
      /\ Holds(Append(pending, e), "calls", 0, Len(Got), Len(meant'.calls))
      /\ \A n \in Calls' : Holds(Append(pending, e), "call", n, At(Got, n), meant'.calls[n])
  BY <1>3, <1>4, <1>7, SentParts
<1>9. finish' \in (IF dialect = "chat" THEN {"no", "[DONE]"} ELSE {"no", "completed", "incomplete"})
  BY <1>1
<1>10. meant'.text \in Nat /\ meant'.calls \in Seq(Nat \ {0}) /\ whole' \subseteq Calls'
  BY <1>1, <1>2, <1>3, <1>4, <1>7
<1> QED
  BY <1>1, <1>3, <1>5, <1>6, <1>8, <1>9, <1>10, SendKeeps

LEMMA SendPieceKeeps ==
  ASSUME ReplyInv, SendPiece
  PROVE  ReplyInv'
<1> USE DEF ReplyInv
<1>1. PICK n \in (1..MaxCalls) \ whole :
        /\ \/ /\ n = Len(meant.calls) + 1
              /\ Sends(Delta(n, 1))
              /\ meant' = [meant EXCEPT !.calls = Append(@, 1)]
           \/ /\ n \in DOMAIN meant.calls
              /\ Sends(Delta(n, meant.calls[n] + 1))
              /\ meant' = [meant EXCEPT !.calls[n] = @ + 1]
        /\ whole' = whole /\ finish' = finish
  BY DEF SendPiece
<1>2. /\ meant.text \in Nat /\ meant.calls \in Seq(Nat \ {0}) /\ whole \subseteq Calls
      /\ meant = [text |-> meant.text, calls |-> meant.calls]
      /\ Calls = 1..Len(meant.calls) /\ Len(meant.calls) \in Nat
      /\ Len(Got) \in Nat /\ Len(Got) <= Len(meant.calls) /\ DOMAIN Got = 1..Len(Got)
      /\ \A m \in Calls : meant.calls[m] \in Nat \ {0}
  BY Counts DEF Sending
<1>3. finish = "no" /\ outcome = "reading" /\ dialect' = dialect
  BY <1>1 DEF Sends
<1>4. finish' \in (IF dialect = "chat" THEN {"no", "[DONE]"} ELSE {"no", "completed", "incomplete"})
  BY <1>1, <1>3
<1>5. ASSUME NEW k \in Nat \ {0}, Sends(Delta(n, k)),
             meant' = [text |-> meant.text, calls |-> meant'.calls],
             meant'.calls \in Seq(Nat \ {0}), Calls' = Calls \cup {n}, meant'.calls[n] = k,
             \A m \in Calls : m # n => meant'.calls[m] = meant.calls[m],
             \/ k = 1 /\ n = Len(meant.calls) + 1 /\ Len(meant'.calls) = Len(meant.calls) + 1
             \/ /\ n \in Calls /\ k = meant.calls[n] + 1 /\ Len(meant'.calls) = Len(meant.calls)
      PROVE  ReplyInv'
  <2> DEFINE e == Delta(n, k)
  <2>1. meant'.text = meant.text /\ meant' = [text |-> meant'.text, calls |-> meant'.calls]
    BY <1>5
  <2>2. \A m \in Calls : meant.calls[m] <= meant'.calls[m] /\ meant'.calls[m] \in Nat
    <3>1. TAKE m \in Calls
    <3>2. meant.calls[m] \in Nat /\ m # Len(meant.calls) + 1
      BY <1>2
    <3>3. meant'.calls[m] = meant.calls[m] \/ meant'.calls[m] = meant.calls[m] + 1
      BY <1>5, <3>2
    <3> QED
      BY <3>2, <3>3
  <2>3. \A m \in whole : meant'.calls[m] = meant.calls[m]
    BY <1>1, <1>2, <1>5
  <2>4. /\ ReplyEvents \subseteq ReplyEvents'
        /\ \A m, i : Delta(m, i)' = Delta(m, i)
    <3>1. meant.text <= meant'.text /\ meant'.text \in Nat /\ Calls \subseteq Calls' /\ whole \subseteq whole'
      BY <1>1, <1>2, <1>5, <2>1
    <3> QED
      BY <1>3, <2>2, <2>3, <3>1, EventsGrow
  <2>5. e \in ReplyEvents'
    <3>1. k \in 1..meant'.calls[n] /\ n \in Calls'
      BY <1>5
    <3>2. Deltas(n)' = {Delta(n, i) : i \in 1..meant'.calls[n]}
      BY <2>4 DEF Deltas
    <3>3. e \in Deltas(n)'
      BY <3>1, <3>2
    <3>4. e \in (UNION {Deltas(m) : m \in Calls})'
      BY <3>1, <3>3
    <3> QED
      BY <3>4 DEF ReplyEvents
  <2>6. e.kind = "delta" /\ e.index \notin whole
    BY DEF Delta
  <2>7. /\ Nth(e, "text", 0) = 0 /\ Nth(e, "calls", 0) = IF k = 1 THEN n ELSE 0
        /\ \A m : Nth(e, "call", m) = IF m = n THEN k ELSE 0
    BY NthOf
  <2>8. /\ Nth(e, "text", 0) \in Nat /\ Nth(e, "calls", 0) \in Nat
        /\ \A m : Nth(e, "call", m) \in Nat
    BY <2>7
  <2> HIDE DEF e
  <2>9. Holds(Append(pending, e), "text", 0, Len(text), meant'.text)
    BY <2>1, <2>7, <2>8, SentParts
  <2>10. Holds(Append(pending, e), "calls", 0, Len(Got), Len(meant'.calls))
    <3>1. CASE k = 1 /\ n = Len(meant.calls) + 1 /\ Len(meant'.calls) = Len(meant.calls) + 1
      BY <2>7, <2>8, <3>1, SentParts
    <3>2. CASE n \in Calls /\ k = meant.calls[n] + 1 /\ Len(meant'.calls) = Len(meant.calls)
      <4>1. k # 1
        BY <1>2, <3>2
      <4> QED
        BY <2>7, <2>8, <3>2, <4>1, SentParts
    <3> QED
      BY <1>5, <3>1, <3>2
  <2>11. ASSUME NEW m \in Calls'
         PROVE  Holds(Append(pending, e), "call", m, At(Got, m), meant'.calls[m])
    <3>1. CASE m # n
      <4>1. m \in Calls /\ meant'.calls[m] = meant.calls[m] /\ Nth(e, "call", m) = 0
        BY <1>5, <2>7, <2>11, <3>1
      <4> QED
        BY <2>8, <4>1, SentParts
    <3>2. CASE m = n /\ n \in Calls
      <4>1. k = meant.calls[n] + 1 /\ Nth(e, "call", n) = k
        BY <1>2, <1>5, <2>7, <3>2
      <4> QED
        BY <1>5, <2>8, <3>2, <4>1, SentParts
    <3>3. CASE m = n /\ n \notin Calls
      <4>1. k = 1 /\ n = Len(meant.calls) + 1 /\ Nth(e, "call", n) = 1 /\ meant'.calls[n] = 1
        BY <1>5, <2>7, <3>3
      <4>2. n \notin DOMAIN Got
        BY <1>2, <4>1
      <4>3. At(Got, n) = 0
        BY <4>2 DEF At
      <4> QED
        BY <2>8, <3>3, <4>1, <4>3, SentParts
    <3> QED
      BY <3>1, <3>2, <3>3
  <2>12. Sends(e) /\ meant'.text \in Nat /\ whole' \subseteq Calls' /\ finish' \in {finish, e.kind}
    BY <1>1, <1>2, <1>5, <2>1 DEF e
  <2> QED
    BY <1>4, <1>5, <2>1, <2>4, <2>5, <2>6, <2>9, <2>10, <2>11, <2>12, SendKeeps
<1>6. CASE /\ n = Len(meant.calls) + 1 /\ Sends(Delta(n, 1))
           /\ meant' = [meant EXCEPT !.calls = Append(@, 1)]
  <2>1. meant' = [text |-> meant.text, calls |-> Append(meant.calls, 1)]
    BY <1>2, <1>6
  <2>2. meant'.calls = Append(meant.calls, 1) /\ 1 \in Nat \ {0}
    BY <2>1
  <2>3. /\ meant'.calls \in Seq(Nat \ {0}) /\ Len(meant'.calls) = Len(meant.calls) + 1
        /\ meant'.calls[Len(meant.calls) + 1] = 1
        /\ \A m \in 1..Len(meant.calls) : meant'.calls[m] = meant.calls[m]
    BY <1>2, <2>2, AppendProperties
  <2>4. Calls' = Calls \cup {n}
    <3>1. Calls' = 1..Len(meant'.calls)
      BY <2>3, LenProperties DEF Calls
    <3>2. 1..(Len(meant.calls) + 1) = (1..Len(meant.calls)) \cup {Len(meant.calls) + 1}
      BY <1>2
    <3> QED
      BY <1>2, <1>6, <2>3, <3>1, <3>2
  <2> QED
    BY <1>2, <1>5, <1>6, <2>1, <2>2, <2>3, <2>4
<1>7. CASE /\ n \in DOMAIN meant.calls /\ Sends(Delta(n, meant.calls[n] + 1))
           /\ meant' = [meant EXCEPT !.calls[n] = @ + 1]
  <2>1. n \in Calls /\ n \in 1..Len(meant.calls) /\ meant.calls[n] \in Nat \ {0}
        /\ meant.calls[n] + 1 \in Nat \ {0}
    BY <1>2, <1>7 DEF Calls
  <2>2. meant' = [text |-> meant.text, calls |-> [meant.calls EXCEPT ![n] = meant.calls[n] + 1]]
    BY <1>2, <1>7
  <2>3. meant'.calls = [meant.calls EXCEPT ![n] = meant.calls[n] + 1]
    BY <2>2
  <2>4. /\ meant'.calls \in Seq(Nat \ {0}) /\ Len(meant'.calls) = Len(meant.calls)
        /\ \A m \in 1..Len(meant.calls) :
             meant'.calls[m] = IF m = n THEN meant.calls[n] + 1 ELSE meant.calls[m]
    BY <1>2, <2>1, <2>3, ExceptSeq
  <2>5. Calls' = Calls \cup {n}
    BY <1>2, <2>1, <2>4, LenProperties DEF Calls
  <2> QED
    BY <1>2, <1>5, <1>7, <2>1, <2>2, <2>3, <2>4, <2>5
<1> QED
  BY <1>1, <1>6, <1>7

LEMMA SendArgumentsDoneKeeps ==
  ASSUME ReplyInv, SendArgumentsDone
  PROVE  ReplyInv'
<1> USE DEF ReplyInv
<1>1. PICK n \in DOMAIN meant.calls \ whole :
        /\ dialect # "chat" /\ Sends(ArgumentsDone(n))
        /\ whole' = whole \cup {n} /\ meant' = meant /\ finish' = finish
  BY DEF SendArgumentsDone
<1> DEFINE e == ArgumentsDone(n)
<1>2. /\ meant.text \in Nat /\ meant.calls \in Seq(Nat \ {0}) /\ whole \subseteq Calls
      /\ meant = [text |-> meant.text, calls |-> meant.calls]
      /\ \A m \in Calls : meant.calls[m] \in Nat
  BY Counts DEF Sending
<1>3. finish = "no" /\ outcome = "reading" /\ dialect' = dialect /\ Calls' = Calls /\ n \in Calls
  BY <1>1 DEF Sends, Calls
<1>4. ReplyEvents \subseteq ReplyEvents'
  <2>1. meant.text <= meant'.text /\ meant'.text \in Nat /\ whole \subseteq whole'
    BY <1>1, <1>2
  <2>2. \A m \in Calls : meant.calls[m] <= meant'.calls[m]
    BY <1>1, <1>2
  <2> QED
    BY <1>1, <1>2, <1>3, <2>1, <2>2, EventsGrow
<1>5. e \in ReplyEvents' /\ e.kind = "done"
  <2>1. e = ArgumentsDone(n)' /\ e.kind = "done"
    BY <1>1, <1>3 DEF ArgumentsDone, Key
  <2>2. n \in whole'
    BY <1>1
  <2>3. e \in {ArgumentsDone(m) : m \in whole}'
    BY <2>1, <2>2
  <2> QED
    BY <2>1, <2>3 DEF ReplyEvents
<1>6. /\ Nth(e, "text", 0) = 0 /\ Nth(e, "calls", 0) = 0 /\ \A m : Nth(e, "call", m) = 0
      /\ 0 \in Nat
  BY <1>5, NthOf
<1>7. Sends(e)
  BY <1>1
<1> HIDE DEF e
<1>8. /\ Holds(Append(pending, e), "text", 0, Len(text), meant'.text)
      /\ Holds(Append(pending, e), "calls", 0, Len(Got), Len(meant'.calls))
      /\ \A m \in Calls' : Holds(Append(pending, e), "call", m, At(Got, m), meant'.calls[m])
  BY <1>1, <1>3, <1>6, SentParts
<1>9. finish' \in (IF dialect = "chat" THEN {"no", "[DONE]"} ELSE {"no", "completed", "incomplete"})
  BY <1>1, <1>3
<1>10. /\ meant'.text \in Nat /\ meant'.calls \in Seq(Nat \ {0}) /\ whole' \subseteq Calls'
       /\ meant' = [text |-> meant'.text, calls |-> meant'.calls]
  BY <1>1, <1>2, <1>3
<1> QED
  BY <1>1, <1>4, <1>5, <1>7, <1>8, <1>9, <1>10, SendKeeps

LEMMA SendFinishKeeps ==
  ASSUME ReplyInv, SendFinish
  PROVE  ReplyInv'
<1> USE DEF ReplyInv
<1>1. PICK e \in IF dialect = "chat" THEN {Done}
                 ELSE {Completed(m) : m \in 1..(Len(meant.calls) + 1)} \cup {Incomplete} :
        Sends(e) /\ finish' = e.kind /\ meant' = meant /\ whole' = whole
  BY DEF SendFinish
<1>2. /\ meant.text \in Nat /\ meant.calls \in Seq(Nat \ {0}) /\ whole \subseteq Calls
      /\ meant = [text |-> meant.text, calls |-> meant.calls]
      /\ \A m \in Calls : meant.calls[m] \in Nat
  BY Counts DEF Sending
<1>3. finish = "no" /\ outcome = "reading" /\ dialect' = dialect /\ Calls' = Calls
  BY <1>1 DEF Sends, Calls
<1>4. ReplyEvents \subseteq ReplyEvents'
  <2>1. meant.text <= meant'.text /\ meant'.text \in Nat /\ whole \subseteq whole'
    BY <1>1, <1>2
  <2>2. \A m \in Calls : meant.calls[m] <= meant'.calls[m]
    BY <1>1, <1>2
  <2> QED
    BY <1>1, <1>2, <1>3, <2>1, <2>2, EventsGrow
<1>5. /\ e \in ReplyEvents' /\ e.kind \in Terminal
      /\ finish' \in (IF dialect = "chat" THEN {"no", "[DONE]"} ELSE {"no", "completed", "incomplete"})
  <2>1. Ends' \subseteq ReplyEvents'
    BY DEF ReplyEvents
  <2>2. CASE dialect = "chat"
    <3>1. e = Done /\ e.kind = "[DONE]" /\ finish' = "[DONE]"
      BY <1>1, <2>2 DEF Done
    <3>2. e \in Ends'
      BY <1>3, <2>2, <3>1 DEF Ends
    <3> QED
      BY <2>1, <2>2, <3>1, <3>2 DEF Terminal
  <2>3. CASE dialect # "chat" /\ e = Incomplete
    <3>1. e.kind = "incomplete" /\ finish' = "incomplete"
      BY <1>1, <2>3 DEF Incomplete
    <3>2. e \in Ends'
      BY <1>3, <2>3, <3>1 DEF Ends
    <3> QED
      BY <2>1, <2>3, <3>1, <3>2 DEF Terminal
  <2>4. CASE dialect # "chat" /\ e # Incomplete
    <3>1. PICK m \in 1..(Len(meant.calls) + 1) : e = Completed(m)
      BY <1>1, <2>4
    <3>2. e.kind = "completed" /\ finish' = "completed"
      BY <1>1, <3>1 DEF Completed
    <3>3. e = Completed(m)' /\ m \in 1..(Len(meant'.calls) + 1)
      BY <1>1, <3>1 DEF Completed, Message, FunctionCalls, Meant
    <3>4. Ends' = {Completed(i) : i \in 1..(Len(meant.calls) + 1)}'
      BY <1>3, <2>4, <3>2 DEF Ends
    <3>5. e \in {Completed(i) : i \in 1..(Len(meant.calls) + 1)}'
      BY <3>3
    <3> QED
      BY <2>1, <2>4, <3>2, <3>4, <3>5 DEF Terminal
  <2> QED
    BY <2>2, <2>3, <2>4
<1>6. /\ Nth(e, "text", 0) = 0 /\ Nth(e, "calls", 0) = 0 /\ \A m : Nth(e, "call", m) = 0
      /\ 0 \in Nat /\ e.kind # "delta"
  BY <1>5, NthOf DEF Terminal
<1>7. /\ Holds(Append(pending, e), "text", 0, Len(text), meant'.text)
      /\ Holds(Append(pending, e), "calls", 0, Len(Got), Len(meant'.calls))
      /\ \A m \in Calls' : Holds(Append(pending, e), "call", m, At(Got, m), meant'.calls[m])
  BY <1>1, <1>3, <1>6, SentParts
<1>8. /\ meant'.text \in Nat /\ meant'.calls \in Seq(Nat \ {0}) /\ whole' \subseteq Calls'
      /\ meant' = [text |-> meant'.text, calls |-> meant'.calls] /\ finish' \in {finish, e.kind}
  BY <1>1, <1>2, <1>3
<1> QED
  BY <1>1, <1>4, <1>5, <1>6, <1>7, <1>8, SendKeeps

-----------------------------------------------------------------------------
(* Steps of the parser.                                                     *)

LEMMA ServerSame ==
  ASSUME UNCHANGED serverVars
  PROVE  /\ ReplyEvents' = ReplyEvents /\ ReplyBytes' = ReplyBytes /\ Calls' = Calls
         /\ Meant' = Meant /\ dialect' = dialect /\ meant' = meant /\ whole' = whole
         /\ finish' = finish /\ \A g : Entries(g)' = Entries(g)
         /\ Width' = Width /\ \A x : Before(x)' = Before(x) /\ Frame(x)' = Frame(x)
<1>1. dialect' = dialect /\ meant' = meant /\ whole' = whole /\ finish' = finish
  BY DEF serverVars
<1>2. Calls' = Calls /\ Meant' = Meant /\ \A g : Entries(g)' = Entries(g)
  BY <1>1 DEF Calls, Meant, Entries, Entry, Key
<1>3. Ends' = Ends
  BY <1>1, <1>2 DEF Ends, Completed, Message, FunctionCalls
<1>4. (UNION {Deltas(n) : n \in Calls})' = UNION {Deltas(n) : n \in Calls}
  BY <1>1, <1>2 DEF Deltas, Delta, Key
<1>5. {ArgumentsDone(n) : n \in whole}' = {ArgumentsDone(n) : n \in whole}
  BY <1>1 DEF ArgumentsDone, Key
<1>6. ReplyEvents' = ReplyEvents
  BY <1>1, <1>3, <1>4, <1>5 DEF ReplyEvents, Text
<1>7. ReplyBytes' = ReplyBytes
  BY <1>6 DEF ReplyBytes
<1>8. Width' = Width /\ \A x : Before(x)' = Before(x) /\ Frame(x)' = Frame(x)
  BY <1>1 DEF Width, Before, Frame
<1> QED
  BY <1>1, <1>2, <1>6, <1>7, <1>8

LEMMA NothingMapped ==
  ASSUME Sending, Collecting, UNCHANGED <<serverVars, mapperVars, pending>>
  PROVE  Sending' /\ Collecting'
<1>1. /\ text' = text /\ calls' = calls /\ completed' = completed /\ shown' = shown
      /\ pending' = pending /\ UNCHANGED serverVars
  BY DEF mapperVars
<1>2. Got' = Got /\ \A n : At(Got, n)' = At(Got, n)
  BY <1>1 DEF Got, At
<1>3. /\ ReplyEvents' = ReplyEvents /\ Calls' = Calls /\ Meant' = Meant /\ dialect' = dialect
      /\ meant' = meant /\ whole' = whole /\ finish' = finish /\ Entries(Got)' = Entries(Got)
  <2>1. dialect' = dialect
    BY <1>1, ServerSame
  <2>2. Entries(Got)' = Entries(Got)
    BY <1>2, <2>1 DEF Entries, Entry, Key
  <2> QED
    BY <1>1, <2>2, ServerSame
<1>4. Sending'
  BY <1>1, <1>3 DEF Sending
<1>5. Collecting'
  BY <1>1, <1>2, <1>3 DEF Collecting
<1> QED
  BY <1>4, <1>5

\* The bytes of a reply, and where the parser is in them.
LEMMA Bytes ==
  ASSUME Sending, NEW read \in Offsets, Framing(read)
  PROVE  /\ Coming \in Seq(ReplyBytes) /\ Len(Coming) = Len(buffer) + Len(wire) /\ Len(Coming) \in Nat
         /\ Len(buffer) \in Nat /\ Len(wire) \in Nat /\ Len(pending) \in Nat
         /\ DOMAIN buffer = 1..Len(buffer) /\ Before(Len(pending) + 1) \in Nat
         /\ \A p \in 1..Len(buffer) : buffer[p] = Coming[p]
<1>1. buffer \in Seq(ReplyBytes) /\ wire \in Seq(ReplyBytes) /\ pending \in Seq(ReplyEvents)
  BY DEF Framing, Sending
<1>2. Len(pending) \in Nat /\ Len(pending) + 1 \in Nat \ {0}
  BY <1>1, LenProperties
<1>3. Before(Len(pending) + 1) \in Nat
  BY <1>2, Begins
<1> QED
  BY <1>1, <1>2, <1>3, JoinTwo, LenProperties DEF Coming

\* What was read of the bytes to come, they still end the same way.
LEMMA SameEnd ==
  ASSUME NEW S, NEW old \in Seq(S), NEW new \in Seq(S), NEW n \in Nat \ {0},
         Len(old) = n + Len(new), \A p \in 1..Len(new) : new[p] = old[n + p],
         old[n].byte = "newline"
  PROVE  old # <<>> /\ old[Len(old)].byte # "newline" <=> new # <<>> /\ new[Len(new)].byte # "newline"
<1>1. Len(old) \in Nat /\ Len(new) \in Nat /\ Len(old) # 0 /\ (new = <<>> <=> Len(new) = 0)
  BY LenProperties, EmptySeq
<1>2. old # <<>>
  BY <1>1, EmptySeq
<1>3. CASE Len(new) = 0
  <2>1. Len(old) = n
    BY <1>1, <1>3
  <2> QED
    BY <1>1, <1>3, <2>1
<1>4. CASE Len(new) # 0
  <2>1. Len(new) \in 1..Len(new)
    BY <1>1, <1>4
  <2> QED
    BY <1>1, <1>2, <1>4, <2>1
<1> QED
  BY <1>3, <1>4

LEMMA BodyStopsKeeps ==
  ASSUME ReplyInv, BodyStops
  PROVE  ReplyInv'
<1> USE DEF ReplyInv
<1>1. PICK n \in 0..Len(wire) :
        /\ wire' = SubSeq(wire, 1, n)
        /\ conn' = IF finish # "no" /\ n + 1 >= Len(wire) THEN "ended"
                   ELSE LET left == buffer \o SubSeq(wire, 1, n)
                        IN  IF left # <<>> /\ left[Len(left)].byte # "newline" THEN "torn"
                            ELSE "cut"
  BY DEF BodyStops
<1>2. /\ conn = "open" /\ outcome = "reading" /\ outcome' = outcome /\ buffer' = buffer
      /\ data' = data /\ UNCHANGED <<serverVars, mapperVars, pending>>
      /\ pending' = pending /\ finish' = finish
  BY DEF BodyStops, serverVars
<1>3. Sending' /\ Collecting'
  BY <1>2, NothingMapped
<1> PICK read \in Offsets : Framing(read) /\ Stopping(read)
  BY <1>2 DEF Parsing
<1>4. buffer \in Seq(ReplyBytes) /\ wire \in Seq(ReplyBytes) /\ Len(wire) \in Nat
  BY LenProperties DEF Framing
<1>5. /\ wire' \in Seq(ReplyBytes) /\ wire = wire' \o SubSeq(wire, n + 1, Len(wire))
      /\ SubSeq(wire, n + 1, Len(wire)) \in Seq(ReplyBytes)
      /\ Len(SubSeq(wire, n + 1, Len(wire))) = Len(wire) - n
  BY <1>1, <1>4, CutInTwo
<1> DEFINE rest == SubSeq(wire, n + 1, Len(wire))
<1>6. Coming' = buffer \o wire' /\ Coming = (buffer \o wire') \o rest
      /\ buffer \o wire' \in Seq(ReplyBytes)
  <2>1. rest \in Seq(ReplyBytes) /\ wire = wire' \o rest
    BY <1>5
  <2> HIDE DEF rest
  <2>2. /\ buffer \o (wire' \o rest) = (buffer \o wire') \o rest
        /\ buffer \o wire' \in Seq(ReplyBytes)
    <3> DEFINE S == ReplyBytes
               kept == wire'
    <3>1. buffer \in Seq(S) /\ kept \in Seq(S) /\ rest \in Seq(S)
      BY <1>4, <1>5, <2>1
    <3> HIDE DEF S, kept
    <3>2. buffer \o (kept \o rest) = (buffer \o kept) \o rest /\ buffer \o kept \in Seq(S)
      BY <3>1, JoinThree
    <3> QED
      BY <3>2 DEF S, kept
  <2>3. Coming' = buffer \o wire'
    BY <1>2 DEF Coming
  <2>4. Coming = buffer \o (wire' \o rest)
    BY <2>1 DEF Coming
  <2> QED
    BY <2>2, <2>3, <2>4
<1> HIDE DEF rest
<1>7. /\ Coming' \in Seq(ReplyBytes) /\ Len(Coming') \in Nat
      /\ Len(Coming) = Len(Coming') + (Len(wire) - n)
      /\ \A p \in 1..Len(Coming') : Coming'[p] = Coming[p]
  <2>1. rest \in Seq(ReplyBytes) /\ Len(rest) = Len(wire) - n
    BY <1>5 DEF rest
  <2>2. /\ Len(Coming) = Len(Coming') + Len(rest)
        /\ \A p \in 1..Len(Coming') : Coming[p] = Coming'[p]
    BY <1>6, <2>1, JoinTwo
  <2> QED
    BY <1>6, <2>1, <2>2, LenProperties
<1>8. /\ Len(Coming) + read <= Before(Len(pending) + 1) /\ Len(Coming) \in Nat
      /\ Len(Coming) + read = Before(Len(pending) + 1) /\ read \in Nat
      /\ Before(Len(pending) + 1) \in Nat
  BY <1>2, Bytes, ReadPart DEF Framing, Stopping
<1>9. /\ ReplyBytes' = ReplyBytes /\ Width' = Width /\ Offsets' = Offsets
      /\ \A x : Before(x)' = Before(x) /\ Frame(x)' = Frame(x)
  <2>1. /\ ReplyBytes' = ReplyBytes /\ Width' = Width /\ dialect' = dialect
        /\ \A x : Before(x)' = Before(x) /\ Frame(x)' = Frame(x)
    BY <1>2, ServerSame
  <2> QED
    BY <1>2, <2>1 DEF Offsets
<1>10. Framing(read)'
  <2>1. Len(Coming') + read <= Before(Len(pending) + 1)
    BY <1>1, <1>4, <1>7, <1>8
  <2>2. ASSUME NEW m \in 1..Len(pending), NEW j \in 1..Width,
               (Before(m) + j) - read \in 1..Len(Coming')
        PROVE  Coming'[(Before(m) + j) - read] = Frame(pending[m])[j]
    <3>1. (Before(m) + j) - read \in 1..Len(Coming)
      BY <1>1, <1>4, <1>7, <1>8, <2>2
    <3> QED
      BY <1>7, <2>2, <3>1 DEF Framing
  <2>3. data' # <<>> => pending' # <<>> /\ data' = <<pending'[1]>>
    BY <1>2 DEF Framing
  <2>4. buffer' \in Seq(ReplyBytes') /\ wire' \in Seq(ReplyBytes')
    BY <1>2, <1>4, <1>5, <1>9
  <2> QED
    BY <1>2, <1>9, <2>1, <2>2, <2>3, <2>4 DEF Framing
<1>11. Stopping(read)'
  <2>1. CASE finish # "no" /\ n + 1 >= Len(wire)
    <3>1. Len(Coming') + read >= Before(Len(pending) + 1) - 1
      BY <1>1, <1>4, <1>7, <1>8, <2>1
    <3> QED
      BY <1>1, <1>2, <1>9, <2>1, <3>1 DEF Stopping
  <2>2. CASE ~(finish # "no" /\ n + 1 >= Len(wire))
    <3>1. conn' = IF Coming' # <<>> /\ Coming'[Len(Coming')].byte # "newline" THEN "torn" ELSE "cut"
      BY <1>1, <1>6, <2>2
    <3> QED
      BY <3>1 DEF Stopping
  <2> QED
    BY <2>1, <2>2
<1>12. Parsing'
  BY <1>9, <1>10, <1>11 DEF Parsing
<1>13. Judging'
  BY <1>1, <1>2 DEF Judging
<1> QED
  BY <1>2, <1>3, <1>12, <1>13

LEMMA ReadChunkKeeps ==
  ASSUME ReplyInv, ReadChunk
  PROVE  ReplyInv'
<1> USE DEF ReplyInv
<1>1. PICK n \in 1..Len(wire) :
        /\ wire' = SubSeq(wire, n + 1, Len(wire))
        /\ \/ outcome' = "undecodable"
           \/ buffer' = Kept(buffer) \o SubSeq(wire, 1, n) /\ outcome' = outcome
  BY DEF ReadChunk
<1>2. /\ outcome = "reading" /\ conn' = conn /\ data' = data
      /\ UNCHANGED <<serverVars, mapperVars, pending>> /\ pending' = pending /\ finish' = finish
  BY DEF ReadChunk, serverVars
<1>3. Sending' /\ Collecting'
  BY <1>2, NothingMapped
<1>4. CASE outcome' = "undecodable"
  BY <1>2, <1>3, <1>4 DEF Judging
<1>5. CASE buffer' = Kept(buffer) \o SubSeq(wire, 1, n) /\ outcome' = outcome
  <2> PICK read \in Offsets : Framing(read) /\ Stopping(read)
    BY <1>2 DEF Parsing
  <2>1. buffer \in Seq(ReplyBytes) /\ wire \in Seq(ReplyBytes)
    BY DEF Framing
  <2>2. n \in 0..Len(wire)
    BY <1>1
  <2>3. /\ wire' \in Seq(ReplyBytes) /\ SubSeq(wire, 1, n) \in Seq(ReplyBytes)
        /\ wire = SubSeq(wire, 1, n) \o wire'
    BY <1>1, <2>1, <2>2, CutInTwo
  <2>4. buffer' \in Seq(ReplyBytes) /\ Coming' = Coming
    <3> DEFINE chunk == SubSeq(wire, 1, n)
    <3>1. chunk \in Seq(ReplyBytes) /\ wire = chunk \o wire' /\ buffer' = buffer \o chunk
      BY <1>5, <2>3 DEF Kept
    <3> HIDE DEF chunk
    <3>2. /\ buffer \o (chunk \o wire') = (buffer \o chunk) \o wire'
          /\ buffer \o chunk \in Seq(ReplyBytes)
      BY <2>1, <2>3, <3>1, JoinThree, SMTT(30)
    <3>3. Coming' = (buffer \o chunk) \o wire'
      BY <3>1 DEF Coming
    <3>4. Coming = buffer \o (chunk \o wire')
      BY <3>1 DEF Coming
    <3> QED
      BY <3>1, <3>2, <3>3, <3>4
  <2>5. /\ ReplyBytes' = ReplyBytes /\ Width' = Width /\ Offsets' = Offsets
        /\ \A x : Before(x)' = Before(x) /\ Frame(x)' = Frame(x)
    <3>1. /\ ReplyBytes' = ReplyBytes /\ Width' = Width /\ dialect' = dialect
          /\ \A x : Before(x)' = Before(x) /\ Frame(x)' = Frame(x)
      BY <1>2, ServerSame
    <3> QED
      BY <1>2, <3>1 DEF Offsets
  <2>6. Framing(read)'
    BY <1>2, <2>1, <2>3, <2>4, <2>5 DEF Framing
  <2>7. Stopping(read)'
    BY <1>2, <2>4, <2>5 DEF Stopping
  <2>8. Judging' /\ Parsing'
    BY <1>2, <1>5, <2>5, <2>6, <2>7 DEF Judging, Parsing
  <2> QED
    BY <1>3, <2>8
<1> QED
  BY <1>1, <1>4, <1>5

\* Which byte comes next says what the parser has of the first pending event.
LEMMA FirstComing ==
  ASSUME Sending, NEW read \in Offsets, Framing(read), Len(Coming) > 0
  PROVE  /\ pending # <<>> /\ Len(pending) \in Nat \ {0}
         /\ data # <<>> => data = <<pending[1]>> /\ Coming[1].byte = "newline"
         /\ \A j \in 1..Width : j > read /\ j - read <= Len(Coming)
                                  => Coming[j - read] = Frame(pending[1])[j]
<1>1. /\ Len(Coming) \in Nat /\ Len(pending) \in Nat /\ read \in Nat /\ Width \in Nat
      /\ Len(Coming) + read <= Before(Len(pending) + 1) /\ Before(1) = 0
  BY Bytes, ReadPart, Widths DEF Framing
<1>2. Len(pending) # 0
  <2>1. SUFFICES ASSUME Len(pending) = 0 PROVE FALSE
    OBVIOUS
  <2>2. Len(pending) + 1 = 1
    BY <2>1
  <2>3. Len(Coming) + read <= 0
    BY <1>1, <2>2
  <2> QED
    BY <1>1, <2>3
<1>3. pending # <<>> /\ 1 \in 1..Len(pending)
  BY <1>1, <1>2, EmptySeq DEF Sending
<1>4. ASSUME NEW j \in 1..Width, j > read, j - read <= Len(Coming)
      PROVE  Coming[j - read] = Frame(pending[1])[j]
  <2>1. (Before(1) + j) - read = j - read /\ j - read \in 1..Len(Coming)
    BY <1>1, <1>4
  <2>2. (Before(1) + j) - read \in 1..Len(Coming)
          => Coming[(Before(1) + j) - read] = Frame(pending[1])[j]
    BY <1>3 DEF Framing
  <2> QED
    BY <2>1, <2>2
<1>5. ASSUME data # <<>> PROVE data = <<pending[1]>> /\ Coming[1].byte = "newline"
  <2>1. read = Width - 1 /\ Width \in {4, 6}
    BY <1>5, ReadPart, Widths
  <2>2. Width \in 1..Width /\ Width > read /\ Width - read = 1
    BY <2>1
  <2>3. Coming[1] = Frame(pending[1])[Width]
    BY <1>1, <1>4, <2>2
  <2>4. Frame(pending[1])[Width] = Newline
    BY Frames
  <2>5. data = <<pending[1]>>
    BY <1>5 DEF Framing
  <2> QED
    BY <2>3, <2>4, <2>5 DEF Newline
<1> QED
  BY <1>1, <1>2, <1>3, <1>4, <1>5

\* The bytes to come when n bytes of the buffer are read.
LEMMA ComingCut ==
  ASSUME NEW S, buffer \in Seq(S), wire \in Seq(S), NEW n \in 0..Len(buffer)
  PROVE  LET left == SubSeq(buffer, n + 1, Len(buffer))
         IN  /\ left \in Seq(S) /\ left \o wire \in Seq(S)
             /\ Len(Coming) = n + Len(left \o wire)
             /\ \A p \in 1..Len(left \o wire) : (left \o wire)[p] = Coming[n + p]
BY CutJoined DEF Coming

\* The parser goes on by n bytes of its buffer, which end in a newline.
LEMMA ComingShrinks ==
  ASSUME Sending, NEW read \in Offsets, Framing(read), NEW n \in 1..Len(buffer),
         UNCHANGED <<serverVars, wire>>, buffer' = SubSeq(buffer, n + 1, Len(buffer)),
         buffer[n].byte = "newline"
  PROVE  /\ buffer' \in Seq(ReplyBytes') /\ wire' \in Seq(ReplyBytes')
         /\ n \in Nat \ {0} /\ Len(Coming') \in Nat /\ Len(Coming) = n + Len(Coming')
         /\ \A p \in 1..Len(Coming') : Coming'[p] = Coming[n + p]
         /\ Coming # <<>> /\ Coming[Len(Coming)].byte # "newline"
              <=> Coming' # <<>> /\ Coming'[Len(Coming')].byte # "newline"
<1>1. /\ buffer \in Seq(ReplyBytes) /\ wire' = wire /\ wire \in Seq(ReplyBytes)
      /\ ReplyBytes' = ReplyBytes /\ Len(buffer) \in Nat
  BY ServerSame, LenProperties DEF Framing
<1>2. /\ buffer' \in Seq(ReplyBytes) /\ buffer' \o wire \in Seq(ReplyBytes)
      /\ Len(Coming) = n + Len(buffer' \o wire)
      /\ \A p \in 1..Len(buffer' \o wire) : (buffer' \o wire)[p] = Coming[n + p]
  <2>1. n \in 0..Len(buffer)
    BY <1>1
  <2> QED
    BY <1>1, <2>1, ComingCut
<1>3. Coming' = buffer' \o wire
  BY <1>1 DEF Coming
<1>4. n \in Nat \ {0} /\ Coming[n] = buffer[n] /\ Coming \in Seq(ReplyBytes)
  BY <1>1, Bytes
<1>5. buffer' \in Seq(ReplyBytes') /\ wire' \in Seq(ReplyBytes')
  BY <1>1, <1>2
<1>6. Coming # <<>> /\ Coming[Len(Coming)].byte # "newline"
        <=> Coming' # <<>> /\ Coming'[Len(Coming')].byte # "newline"
  <2> DEFINE S == ReplyBytes
             old == Coming
             new == Coming'
  <2>1. old \in Seq(S) /\ new \in Seq(S) /\ old[n].byte = "newline" /\ n \in Nat \ {0}
    BY <1>2, <1>3, <1>4
  <2>2. Len(old) = n + Len(new) /\ \A p \in 1..Len(new) : new[p] = old[n + p]
    BY <1>2, <1>3
  <2> HIDE DEF S, old, new
  <2>3. old # <<>> /\ old[Len(old)].byte # "newline" <=> new # <<>> /\ new[Len(new)].byte # "newline"
    BY <2>1, <2>2, SameEnd
  <2> QED
    BY <2>3 DEF old, new
<1>7. Len(Coming') \in Nat
  BY <1>2, <1>3, LenProperties
<1> QED
  BY <1>2, <1>3, <1>4, <1>5, <1>6, <1>7

LEMMA ReadLineKeeps ==
  ASSUME ReplyInv, ReadLine
  PROVE  ReplyInv'
<1> USE DEF ReplyInv
<1>1. PICK n \in DOMAIN buffer :
        /\ LineEnds(n) /\ n > 1
        /\ buffer' = SubSeq(buffer, n + 1, Len(buffer))
        /\ data' = IF buffer[1].byte = "head" THEN Append(data, buffer[1].event) ELSE data
  BY DEF ReadLine
<1>2. /\ outcome = "reading" /\ outcome' = outcome /\ conn' = conn
      /\ UNCHANGED <<serverVars, wire, mapperVars, pending>> /\ pending' = pending /\ finish' = finish
  BY DEF ReadLine, serverVars
<1>3. Sending' /\ Collecting'
  BY <1>2, NothingMapped
<1> PICK read \in Offsets : Framing(read) /\ Stopping(read)
  BY <1>2 DEF Parsing
<1>4. /\ Len(Coming) \in Nat /\ Len(Coming) = Len(buffer) + Len(wire)
      /\ Len(buffer) \in Nat /\ Len(wire) \in Nat /\ DOMAIN buffer = 1..Len(buffer)
      /\ \A p \in 1..Len(buffer) : buffer[p] = Coming[p]
  BY Bytes
<1>5. /\ n \in 1..Len(buffer) /\ Len(Coming) > 1 /\ buffer[n].byte = "newline"
      /\ \A p \in 1..(n - 1) : buffer[p].byte # "newline"
  BY <1>1, <1>4 DEF LineEnds
<1>6. /\ pending # <<>> /\ data = <<>> /\ Width \in {4, 6}
      /\ (read = 0 \/ (read = 2 /\ Width = 6))
      /\ \A j \in 1..Width : j > read /\ j - read <= Len(buffer)
                               => buffer[j - read] = Frame(pending[1])[j]
  <2>1. buffer[1].byte # "newline" /\ buffer[1] = Coming[1]
    BY <1>1, <1>4, <1>5
  <2>2. Len(Coming) > 0 /\ pending # <<>> /\ data = <<>>
    BY <1>4, <1>5, <2>1, FirstComing
  <2>3. \A j \in 1..Width : j > read /\ j - read <= Len(Coming)
                              => Coming[j - read] = Frame(pending[1])[j]
    BY <2>2, FirstComing
  <2>4. Width \in {4, 6} /\ (read = 0 \/ (read = 2 /\ Width = 6))
    BY <2>2, ReadPart, Widths
  <2>5. ASSUME NEW j \in 1..Width, j > read, j - read <= Len(buffer)
        PROVE  buffer[j - read] = Frame(pending[1])[j]
    <3>1. j - read \in 1..Len(buffer) /\ j - read <= Len(Coming)
      BY <1>4, <2>4, <2>5
    <3> QED
      BY <1>4, <2>3, <2>5, <3>1
  <2> QED
    BY <2>2, <2>4, <2>5
\* The line is the name of the event, or its data.
<1>7. /\ read + n \in Offsets' /\ data' \in {<<>>, <<pending[1]>>}
      /\ read + n <= Width
  <2>1. CASE read = 0 /\ Width = 6
    <3>1. buffer[1] = Name /\ buffer[2] = Newline
      <4>1. /\ 1 \in 1..Width /\ 1 > read /\ 1 - read = 1 /\ 1 <= Len(buffer)
            /\ 2 \in 1..Width /\ 2 > read /\ 2 - read = 2 /\ 2 <= Len(buffer)
        BY <1>1, <1>5, <2>1
      <4>2. buffer[1] = Frame(pending[1])[1] /\ buffer[2] = Frame(pending[1])[2]
        BY <1>6, <4>1
      <4> QED
        BY <2>1, <4>2, Frames
    <3>2. n = 2
      BY <1>1, <1>5, <3>1 DEF Newline
    <3>3. data' = <<>> /\ dialect' # "chat"
      BY <1>1, <1>2, <1>6, <2>1, <3>1, Widths, ServerSame DEF Name
    <3> QED
      BY <2>1, <3>2, <3>3 DEF Offsets
  <2>2. CASE ~(read = 0 /\ Width = 6)
    <3>1. read = Width - 4
      BY <1>6, <2>2
    <3>2. /\ buffer[1] = FirstHalf(pending[1]) /\ buffer[2] = SecondHalf(pending[1])
          /\ Len(buffer) > 2 => buffer[3] = Newline
      <4> DEFINE k == Width - 4
      <4>1. /\ k + 1 \in 1..Width /\ k + 1 > read /\ (k + 1) - read = 1 /\ 1 <= Len(buffer)
            /\ k + 2 \in 1..Width /\ k + 2 > read /\ (k + 2) - read = 2 /\ 2 <= Len(buffer)
            /\ k + 3 \in 1..Width /\ k + 3 > read /\ (k + 3) - read = 3
        <5>1. Width \in {4, 6} /\ read = k /\ 2 <= Len(buffer)
          BY <1>1, <1>4, <1>5, <1>6, <3>1
        <5> QED
          BY <5>1
      <4>2. /\ buffer[1] = Frame(pending[1])[k + 1] /\ buffer[2] = Frame(pending[1])[k + 2]
            /\ Len(buffer) > 2 => buffer[3] = Frame(pending[1])[k + 3]
        <5>1. Len(buffer) > 2 => 3 <= Len(buffer)
          BY <1>4
        <5> HIDE DEF k
        <5> QED
          BY <1>6, <4>1, <5>1
      <4>3. /\ Frame(pending[1])[k + 1] = FirstHalf(pending[1])
            /\ Frame(pending[1])[k + 2] = SecondHalf(pending[1])
            /\ Frame(pending[1])[k + 3] = Newline
        <5>1. CASE Width = 4
          <6>1. k + 1 = 1 /\ k + 2 = 2 /\ k + 3 = 3
            BY <5>1
          <6> QED
            BY <5>1, <6>1, Frames
        <5>2. CASE Width = 6
          <6>1. k + 1 = 3 /\ k + 2 = 4 /\ k + 3 = 5
            BY <5>2
          <6> QED
            BY <5>2, <6>1, Frames
        <5> QED
          BY <1>6, <5>1, <5>2
      <4> QED
        BY <4>2, <4>3
    <3>3. n = 3
      <4>1. n # 2
        BY <1>5, <3>2 DEF SecondHalf
      <4>2. ~(n > 3)
        <5>1. SUFFICES ASSUME n > 3 PROVE FALSE
          OBVIOUS
        <5>2. 3 \in 1..(n - 1) /\ Len(buffer) > 2
          BY <1>4, <1>5, <5>1
        <5> QED
          BY <1>5, <3>2, <5>2 DEF Newline
      <4> QED
        BY <1>1, <1>5, <4>1, <4>2
    <3>4. data' = <<pending[1]>> /\ data' # <<>>
      BY <1>1, <1>6, <3>2 DEF FirstHalf
    <3>5. Width' = Width
      BY <1>2, ServerSame
    <3>6. read + n = Width - 1 /\ read + n <= Width
      BY <1>6, <3>1, <3>3
    <3> QED
      BY <3>4, <3>5, <3>6 DEF Offsets
  <2> QED
    BY <2>1, <2>2
<1>8. /\ buffer' \in Seq(ReplyBytes') /\ wire' \in Seq(ReplyBytes')
      /\ n \in Nat \ {0} /\ Len(Coming') \in Nat /\ Len(Coming) = n + Len(Coming')
      /\ \A p \in 1..Len(Coming') : Coming'[p] = Coming[n + p]
      /\ Coming # <<>> /\ Coming[Len(Coming)].byte # "newline"
           <=> Coming' # <<>> /\ Coming'[Len(Coming')].byte # "newline"
  BY <1>1, <1>2, <1>5, ComingShrinks
<1>9. /\ Width' = Width /\ \A x : Before(x)' = Before(x) /\ Frame(x)' = Frame(x)
  BY <1>2, ServerSame
<1>10. /\ Len(pending) \in Nat /\ read \in Nat /\ Before(Len(pending) + 1) \in Nat
       /\ \A m \in 1..Len(pending) : Before(m) \in Nat
  <2>1. Len(pending) \in Nat /\ read \in Nat /\ Before(Len(pending) + 1) \in Nat
    BY Bytes, ReadPart
  <2>2. ASSUME NEW m \in 1..Len(pending) PROVE Before(m) \in Nat
    <3>1. m \in Nat \ {0}
      BY <2>1
    <3> QED
      BY <3>1, Begins
  <2> QED
    BY <2>1, <2>2
<1>11. Framing(read + n)'
  <2>1. Len(Coming') + (read + n) <= Before(Len(pending) + 1)
    BY <1>8, <1>10 DEF Framing
  <2>2. ASSUME NEW m \in 1..Len(pending), NEW j \in 1..Width,
               (Before(m) + j) - (read + n) \in 1..Len(Coming')
        PROVE  Coming'[(Before(m) + j) - (read + n)] = Frame(pending[m])[j]
    <3>1. /\ (Before(m) + j) - read \in 1..Len(Coming)
          /\ n + ((Before(m) + j) - (read + n)) = (Before(m) + j) - read
      <4>1. Before(m) \in Nat /\ read \in Nat /\ n \in Nat /\ Len(Coming') \in Nat
        BY <1>8, <1>10
      <4>2. Len(Coming) = n + Len(Coming')
        BY <1>8
      <4> QED
        BY <2>2, <4>1, <4>2, Shifted
    <3> QED
      BY <1>8, <2>2, <3>1 DEF Framing
  <2>3. data' # <<>> => pending' # <<>> /\ data' = <<pending'[1]>>
    BY <1>2, <1>6, <1>7
  <2> DEFINE new == read + n
  <2>4. /\ Len(Coming') + new <= Before(Len(pending) + 1)
        /\ \A m \in 1..Len(pending), j \in 1..Width :
             (Before(m) + j) - new \in 1..Len(Coming')
               => Coming'[(Before(m) + j) - new] = Frame(pending[m])[j]
    BY <2>1, <2>2
  <2> HIDE DEF new
  <2>5. Framing(new)'
    BY <1>2, <1>8, <1>9, <2>3, <2>4 DEF Framing
  <2> QED
    BY <2>5 DEF new
<1>12. Stopping(read + n)'
  <2>1. Len(Coming') + (read + n) = Len(Coming) + read
    BY <1>8, <1>10
  <2> QED
    BY <1>2, <1>8, <1>9, <2>1 DEF Stopping
<1>13. Parsing'
  BY <1>7, <1>11, <1>12 DEF Parsing
<1>14. Judging'
  BY <1>2 DEF Judging
<1> QED
  BY <1>2, <1>3, <1>13, <1>14

-----------------------------------------------------------------------------
(* What the mapper makes of one event.                                      *)

LEMMA PiecesOf ==
  ASSUME NEW n \in Nat
  PROVE  /\ Pieces(n) \in Seq(Nat) /\ Len(Pieces(n)) = n
         /\ Append(Pieces(n), n + 1) = Pieces(n + 1) /\ Pieces(0) = <<>>
<1>1. \A k \in Nat : Pieces(k) \in Seq(Nat) /\ Len(Pieces(k)) = k /\ \A i \in 1..k : Pieces(k)[i] = i
  <2>1. TAKE k \in Nat
  <2>2. Pieces(k) \in [1..k -> Nat]
    BY DEF Pieces
  <2>3. Pieces(k) \in Seq(Nat)
    BY <2>2, SeqDef
  <2>4. DOMAIN Pieces(k) = 1..k /\ DOMAIN Pieces(k) = 1..Len(Pieces(k)) /\ Len(Pieces(k)) \in Nat
    BY <2>3, LenProperties DEF Pieces
  <2>5. Len(Pieces(k)) = k
    BY <2>4
  <2> QED
    BY <2>3, <2>5 DEF Pieces
<1>2. Append(Pieces(n), n + 1) = Pieces(n + 1)
  <2> DEFINE a == Append(Pieces(n), n + 1)
             b == Pieces(n + 1)
  <2>1. n + 1 \in Nat /\ Pieces(n) \in Seq(Nat) /\ Len(Pieces(n)) = n
    BY <1>1
  <2>2. /\ a \in Seq(Nat) /\ Len(a) = n + 1 /\ a[n + 1] = n + 1
        /\ \A i \in 1..n : a[i] = Pieces(n)[i]
    BY <2>1, AppendProperties
  <2>3. b \in Seq(Nat) /\ Len(b) = n + 1 /\ \A i \in 1..(n + 1) : b[i] = i
    BY <1>1, <2>1
  <2> HIDE DEF a, b
  <2>4. \A i \in 1..(n + 1) : a[i] = b[i]
    <3>1. TAKE i \in 1..(n + 1)
    <3>2. CASE i = n + 1
      BY <2>2, <2>3, <3>2
    <3>3. CASE i # n + 1
      <4>1. i \in 1..n
        BY <3>3
      <4> QED
        BY <1>1, <2>2, <2>3, <4>1
    <3> QED
      BY <3>2, <3>3
  <2>5. a = b
    BY <2>2, <2>3, <2>4, SeqEqual
  <2> QED
    BY <2>5 DEF a, b
<1>3. Pieces(0) = <<>>
  <2>1. Pieces(0) \in Seq(Nat) /\ Len(Pieces(0)) = 0
    BY <1>1
  <2> QED
    BY <2>1, EmptySeq
<1> QED
  BY <1>1, <1>2, <1>3

LEMMA EntriesOf ==
  ASSUME NEW g \in Seq(Nat \ {0})
  PROVE  /\ DOMAIN Entries(g) = 1..Len(g) /\ Len(g) \in Nat /\ DOMAIN g = 1..Len(g)
         /\ \A n \in 1..Len(g) : g[n] \in Nat \ {0} /\ Entries(g)[n] = Entry(n, g[n])
         /\ [n \in DOMAIN Entries(g) |-> Len(Entries(g)[n].arguments)] = g
<1>1. Len(g) \in Nat /\ DOMAIN g = 1..Len(g) /\ \A n \in 1..Len(g) : g[n] \in Nat \ {0}
  BY LenProperties, ElementOfSeq
<1>2. DOMAIN Entries(g) = 1..Len(g) /\ \A n \in 1..Len(g) : Entries(g)[n] = Entry(n, g[n])
  BY <1>1 DEF Entries
<1>3. \A n \in 1..Len(g) : Len(Entries(g)[n].arguments) = g[n]
  <2>1. TAKE n \in 1..Len(g)
  <2>2. Len(Pieces(g[n])) = g[n]
    BY <1>1, PiecesOf
  <2> QED
    BY <1>2, <2>2 DEF Entry
<1>4. g = [n \in 1..Len(g) |-> g[n]]
  BY LenProperties
<1> QED
  BY <1>1, <1>2, <1>3, <1>4

LEMMA KeysDiffer ==
  ASSUME NEW n, NEW m, NEW j, NEW k, Entry(n, j).key = Entry(m, k).key
  PROVE  n = m
<1>1. CASE dialect = "chat"
  BY <1>1 DEF Entry
<1>2. CASE dialect # "chat"
  <2>1. Key(n) = Key(m)
    BY <1>2 DEF Entry
  <2> QED
    BY <2>1 DEF Key, CallId
<1> QED
  BY <1>1, <1>2

\* A piece of a call that was begun.
LEMMA AddPieceTo ==
  ASSUME NEW g \in Seq(Nat \ {0}), NEW n \in 1..Len(g), NEW id \in {<<>>, Key(n)}
  PROVE  AddPiece(Entries(g), Entry(n, 0).key, id, g[n] + 1) = Entries([g EXCEPT ![n] = g[n] + 1])
<1> DEFINE h == [g EXCEPT ![n] = g[n] + 1]
           cs == Entries(g)
           key == Entry(n, 0).key
<1>1. /\ DOMAIN cs = 1..Len(g) /\ Len(g) \in Nat
      /\ \A i \in 1..Len(g) : g[i] \in Nat \ {0} /\ cs[i] = Entry(i, g[i])
  BY EntriesOf
<1>2. g[n] + 1 \in Nat \ {0}
  BY <1>1
<1>3. /\ h \in Seq(Nat \ {0}) /\ Len(h) = Len(g)
      /\ \A i \in 1..Len(g) : h[i] = IF i = n THEN g[n] + 1 ELSE g[i]
  BY <1>2, ExceptSeq
<1>4. DOMAIN Entries(h) = 1..Len(g) /\ \A i \in 1..Len(g) : Entries(h)[i] = Entry(i, h[i])
  BY <1>3, EntriesOf
<1>5. \A i \in 1..Len(g) : cs[i].key = key <=> i = n
  <2>1. \A i, k : Entry(i, k).key = Entry(i, 0).key
    BY DEF Entry
  <2> QED
    BY <1>1, <2>1, KeysDiffer
<1>6. SetDefault(cs, key, id) = cs
  BY <1>1, <1>5 DEF SetDefault
<1>7. \A i \in 1..Len(g) :
        (IF cs[i].key # key THEN cs[i]
         ELSE [key |-> key, id |-> IF id = <<>> THEN cs[i].id ELSE id,
               arguments |-> Append(cs[i].arguments, g[n] + 1)])
        = Entries(h)[i]
  <2>1. TAKE i \in 1..Len(g)
  <2>2. CASE i # n
    <3>1. cs[i] = Entry(i, g[i]) /\ h[i] = g[i] /\ Entries(h)[i] = Entry(i, h[i])
      BY <1>1, <1>3, <1>4, <2>2
    <3>2. cs[i].key # key
      BY <1>5, <2>2
    <3> HIDE DEF cs, h, key
    <3> QED
      BY <3>1, <3>2
  <2>3. CASE i = n
    <3>1. cs[i] = [key |-> key, id |-> Key(n), arguments |-> Pieces(g[n])]
      BY <1>1, <2>3 DEF Entry
    <3>2. Entries(h)[i] = [key |-> key, id |-> Key(n), arguments |-> Pieces(g[n] + 1)]
      BY <1>3, <1>4, <2>3 DEF Entry
    <3>3. Append(Pieces(g[n]), g[n] + 1) = Pieces(g[n] + 1)
      BY <1>1, PiecesOf
    <3>4. cs[i].id = Key(n) /\ cs[i].arguments = Pieces(g[n])
      BY <3>1
    <3>5. (IF id = <<>> THEN cs[i].id ELSE id) = Key(n)
      BY <3>4
    <3> HIDE DEF cs, key, h
    <3> QED
      BY <1>5, <2>3, <3>2, <3>3, <3>4, <3>5
  <2> QED
    BY <2>2, <2>3
<1>8. Entries(h) = [i \in 1..Len(g) |-> Entries(h)[i]]
  BY <1>4 DEF Entries
<1> HIDE DEF h, cs, key
<1>9. AddPiece(cs, key, id, g[n] + 1) = [i \in 1..Len(g) |-> Entries(h)[i]]
  BY <1>1, <1>6, <1>7 DEF AddPiece
<1> QED
  BY <1>8, <1>9 DEF h, cs, key

\* The first piece of a call begins it.
LEMMA AddPieceNew ==
  ASSUME NEW g \in Seq(Nat \ {0}), NEW n, n = Len(g) + 1
  PROVE  AddPiece(Entries(g), Entry(n, 0).key, Key(n), 1) = Entries(Append(g, 1))
<1> DEFINE h == Append(g, 1)
           cs == Entries(g)
           key == Entry(n, 0).key
           new == [key |-> key, id |-> Key(n), arguments |-> <<>>]
           all == Append(cs, new)
<1>1. /\ DOMAIN cs = 1..Len(g) /\ Len(g) \in Nat
      /\ \A i \in 1..Len(g) : g[i] \in Nat \ {0} /\ cs[i] = Entry(i, g[i])
  BY EntriesOf
<1>2. /\ h \in Seq(Nat \ {0}) /\ Len(h) = n /\ h[n] = 1
      /\ \A i \in 1..Len(g) : h[i] = g[i]
  BY AppendProperties
<1>3. DOMAIN Entries(h) = 1..n /\ \A i \in 1..n : Entries(h)[i] = Entry(i, h[i])
  BY <1>2, EntriesOf
<1>4. \A i \in 1..Len(g) : cs[i].key # key
  <2>1. \A i \in 1..Len(g) : i # n
    BY <1>1
  <2> QED
    BY <1>1, <2>1, KeysDiffer
<1>5. SetDefault(cs, key, Key(n)) = all
  BY <1>1, <1>4 DEF SetDefault
<1>6. DOMAIN all = 1..n /\ all[n] = new /\ \A i \in 1..Len(g) : all[i] = cs[i]
  <2> DEFINE S == {cs[i] : i \in 1..Len(g)} \cup {new}
  <2>1. cs = [i \in 1..Len(g) |-> cs[i]]
    BY <1>1 DEF Entries
  <2>2. cs \in [1..Len(g) -> S]
    BY <2>1
  <2>3. cs \in Seq(S) /\ new \in S
    <3>1. new \in S
      OBVIOUS
    <3> HIDE DEF S, cs, new
    <3>2. cs \in Seq(S)
      BY <1>1, <2>2, SeqDef
    <3> QED
      BY <3>1, <3>2
  <2>4. DOMAIN cs = 1..Len(cs) /\ Len(cs) \in Nat
    BY <2>3, LenProperties
  <2> HIDE DEF S, cs, new
  <2>5. Len(cs) = Len(g)
    BY <1>1, <2>4
  <2>6. /\ all \in Seq(S) /\ Len(all) = Len(cs) + 1 /\ all[Len(cs) + 1] = new
        /\ \A i \in 1..Len(cs) : all[i] = cs[i]
    BY <2>3, AppendProperties
  <2>7. DOMAIN all = 1..Len(all)
    BY <2>6, LenProperties
  <2> QED
    BY <2>5, <2>6, <2>7
<1>7. \A i \in 1..n :
        (IF all[i].key # key THEN all[i]
         ELSE [key |-> key, id |-> IF Key(n) = <<>> THEN all[i].id ELSE Key(n),
               arguments |-> Append(all[i].arguments, 1)])
        = Entries(h)[i]
  <2>1. TAKE i \in 1..n
  <2>2. CASE i # n
    <3>1. i \in 1..Len(g)
      BY <1>1, <2>2
    <3> QED
      BY <1>1, <1>2, <1>3, <1>4, <1>6, <3>1
  <2>3. CASE i = n
    <3>1. all[i] = [key |-> key, id |-> Key(n), arguments |-> <<>>]
      BY <1>6, <2>3
    <3>2. Entries(h)[i] = [key |-> key, id |-> Key(n), arguments |-> Pieces(1)]
      BY <1>2, <1>3, <2>3 DEF Entry
    <3>3. Append(<<>>, 1) = Pieces(1)
      <4>1. 0 \in Nat /\ 0 + 1 = 1
        OBVIOUS
      <4>2. Append(Pieces(0), 0 + 1) = Pieces(0 + 1) /\ Pieces(0) = <<>>
        BY <4>1, PiecesOf
      <4> QED
        BY <4>1, <4>2
    <3> HIDE DEF all, key, h
    <3>4. all[i].key = key /\ all[i].id = Key(n) /\ all[i].arguments = <<>>
      BY <3>1
    <3>5. (IF Key(n) = <<>> THEN all[i].id ELSE Key(n)) = Key(n)
      BY <3>4
    <3> QED
      BY <3>2, <3>3, <3>4, <3>5
  <2> QED
    BY <2>2, <2>3
<1>8. Entries(h) = [i \in 1..n |-> Entries(h)[i]]
  BY <1>3 DEF Entries
<1> HIDE DEF h, cs, key, all
<1>9. AddPiece(cs, key, Key(n), 1) = [i \in 1..n |-> Entries(h)[i]]
  BY <1>5, <1>6, <1>7 DEF AddPiece
<1> QED
  BY <1>8, <1>9 DEF h, cs, key

\* What is announced of a call is what there is of it already.
LEMMA FinalizeSame ==
  ASSUME NEW g \in Seq(Nat \ {0}), NEW n \in 1..Len(g)
  PROVE  Finalize(Entries(g), Entry(n, 0).key, Pieces(g[n])) = Entries(g)
<1> DEFINE cs == Entries(g)
           key == Entry(n, 0).key
<1>1. /\ DOMAIN cs = 1..Len(g) /\ Len(g) \in Nat
      /\ \A i \in 1..Len(g) : g[i] \in Nat \ {0} /\ cs[i] = Entry(i, g[i])
  BY EntriesOf
<1>2. \A i \in 1..Len(g) : cs[i].key = key <=> i = n
  <2>1. \A i, k : Entry(i, k).key = Entry(i, 0).key
    BY DEF Entry
  <2> QED
    BY <1>1, <2>1, KeysDiffer
<1>3. SetDefault(cs, key, key) = cs
  BY <1>1, <1>2 DEF SetDefault
<1>4. \A i \in 1..Len(g) :
        (IF cs[i].key # key THEN cs[i]
         ELSE [cs[i] EXCEPT !.arguments = Final(@, Pieces(g[n]))]) = cs[i]
  <2>1. TAKE i \in 1..Len(g)
  <2>2. CASE i # n
    BY <1>2, <2>2
  <2>3. CASE i = n
    <3>1. cs[i] = [key |-> key, id |-> Key(n), arguments |-> Pieces(g[n])]
      BY <1>1, <2>3 DEF Entry
    <3>2. [cs[i] EXCEPT !.arguments = Final(@, Pieces(g[n]))] = cs[i]
      <4> HIDE DEF cs, key
      <4> QED
        BY <3>1 DEF Final
    <3> QED
      BY <3>2
  <2> QED
    BY <2>2, <2>3
<1>5. cs = [i \in 1..Len(g) |-> cs[i]]
  BY <1>1 DEF Entries
<1> HIDE DEF cs, key
<1>6. Finalize(cs, key, Pieces(g[n])) = [i \in 1..Len(g) |-> cs[i]]
  BY <1>1, <1>3, <1>4 DEF Finalize
<1> QED
  BY <1>5, <1>6 DEF cs, key

\* The payload of the last event says what the model meant.
LEMMA PayloadIsMeant ==
  ASSUME Sending, NEW m \in 1..(Len(meant.calls) + 1)
  PROVE  FromPayload(Completed(m).output) = Meant
<1> DEFINE out == Completed(m).output
           n == Len(meant.calls)
<1>1. meant.calls \in Seq(Nat \ {0}) /\ meant.text \in Nat /\ n \in Nat /\ DOMAIN meant.calls = 1..n
  BY LenProperties DEF Sending
<1>2. /\ DOMAIN FunctionCalls = 1..n
      /\ \A i \in 1..n : FunctionCalls[i].type = "function_call" /\ FunctionCalls[i].call = Meant.calls[i]
  BY <1>1 DEF FunctionCalls
<1>3. Meant = [text |-> Pieces(meant.text), calls |-> [i \in 1..n |-> Meant.calls[i]]]
  BY <1>1 DEF Meant
<1>4. CASE meant.text = 0
  <2>1. out = FunctionCalls
    BY <1>4 DEF Completed
  <2>2. ~\E i \in DOMAIN out : out[i].type = "message"
    BY <1>2, <2>1
  <2>3. FromPayload(out) = [text |-> <<>>, calls |-> [i \in 1..n |-> out[i].call]]
    BY <1>2, <2>1, <2>2 DEF FromPayload
  <2>4. <<>> = Pieces(meant.text)
    BY <1>4, PiecesOf
  <2>5. [i \in 1..n |-> out[i].call] = [i \in 1..n |-> Meant.calls[i]]
    BY <1>2, <2>1
  <2> QED
    BY <1>3, <2>3, <2>4, <2>5
<1>5. CASE meant.text # 0
  <2>1. out = [i \in 1..(n + 1) |->
                 IF i = m THEN Message ELSE FunctionCalls[IF i < m THEN i ELSE i - 1]]
    BY <1>5 DEF Completed
  <2>2. DOMAIN out = 1..(n + 1) /\ Len(out) = n + 1
    <3> DEFINE S == {out[i] : i \in 1..(n + 1)}
    <3>1. out \in [1..(n + 1) -> S] /\ n + 1 \in Nat
      BY <1>1, <2>1
    <3>2. DOMAIN out = 1..(n + 1)
      BY <2>1
    <3> HIDE DEF out, S
    <3>3. out \in Seq(S)
      BY <3>1, SeqDef
    <3>4. DOMAIN out = 1..Len(out) /\ Len(out) \in Nat
      BY <3>3, LenProperties
    <3> QED
      BY <1>1, <3>2, <3>4
  <2>3. m \in 1..(n + 1) /\ out[m] = Message
    BY <2>1
  <2>4. \A i \in 1..(n + 1) : i # m =>
          /\ (IF i < m THEN i ELSE i - 1) \in 1..n
          /\ out[i] = FunctionCalls[IF i < m THEN i ELSE i - 1]
    BY <1>1, <2>1
  <2> HIDE DEF out
  <2>5. \A i \in DOMAIN out : out[i].type = "message" <=> i = m
    <3>1. TAKE i \in DOMAIN out
    <3>2. CASE i = m
      BY <2>3, <3>2 DEF Message
    <3>3. CASE i # m
      <4>1. out[i].type = "function_call"
        BY <1>2, <2>2, <2>4, <3>3
      <4> QED
        BY <3>3, <4>1
    <3> QED
      BY <3>2, <3>3
  <2>6. (CHOOSE i \in DOMAIN out : out[i].type = "message") = m
    BY <2>2, <2>3, <2>5
  <2>7. FromPayload(out) = [text |-> out[m].text,
                            calls |-> [i \in 1..(Len(out) - 1) |-> out[IF i < m THEN i ELSE i + 1].call]]
    BY <2>2, <2>3, <2>5, <2>6 DEF FromPayload
  <2>8. out[m].text = Pieces(meant.text)
    BY <1>3, <2>3 DEF Message
  <2>9. Len(out) - 1 = n
    BY <1>1, <2>2
  <2>10. \A i \in 1..n : out[IF i < m THEN i ELSE i + 1].call = Meant.calls[i]
    <3>1. TAKE i \in 1..n
    <3>2. CASE i < m
      <4>1. i \in 1..(n + 1) /\ i # m /\ i < m
        BY <1>1, <3>2
      <4> QED
        BY <1>2, <2>4, <4>1
    <3>3. CASE ~(i < m)
      <4>1. i + 1 \in 1..(n + 1) /\ i + 1 # m /\ ~(i + 1 < m) /\ (i + 1) - 1 = i
        BY <1>1, <3>3
      <4> QED
        BY <1>2, <2>4, <3>3, <4>1
    <3> QED
      BY <3>2, <3>3
  <2> QED
    BY <1>3, <2>7, <2>8, <2>9, <2>10 DEF out
<1> QED
  BY <1>4, <1>5

\* The events after the first one are in order too, and the one that ends the reply is last.
LEMMA TailSent ==
  ASSUME Sending, pending # <<>>, UNCHANGED serverVars, pending' = Tail(pending)
  PROVE  /\ Sending'
         /\ pending[1] \in ReplyEvents
         /\ pending[1].kind \in Terminal => pending' = <<>> /\ pending[1].kind = finish
         /\ pending' = <<>> /\ finish # "no" => pending[1].kind = finish
         /\ pending[1].kind = "done" =>
              \A i \in DOMAIN pending : pending[i].kind = "delta" => pending[i].index # pending[1].index
<1>1. /\ pending \in Seq(ReplyEvents) /\ Len(pending) \in Nat /\ Len(pending) # 0
      /\ DOMAIN pending = 1..Len(pending)
  BY EmptySeq, LenProperties DEF Sending
<1>2. /\ pending' \in Seq(ReplyEvents) /\ Len(pending') = Len(pending) - 1
      /\ \A i \in 1..(Len(pending) - 1) : pending'[i] = pending[i + 1]
  BY <1>1, HeadTailProperties
<1>3. DOMAIN pending' = 1..(Len(pending) - 1) /\ (pending' = <<>> <=> Len(pending) = 1)
  <2>1. Len(pending') \in Nat /\ DOMAIN pending' = 1..Len(pending') /\ (pending' = <<>> <=> Len(pending') = 0)
    BY <1>2, LenProperties, EmptySeq
  <2> QED
    BY <1>1, <1>2, <2>1
<1>4. \A i, j \in DOMAIN pending :
        i < j => /\ pending[i].kind \notin {"[DONE]", "completed", "incomplete"}
                 /\ pending[i].kind = "done" /\ pending[j].kind = "delta"
                      => pending[i].index # pending[j].index
  BY DEF Sending
<1>5. \A i, j \in DOMAIN pending' :
        i < j => /\ pending'[i].kind \notin {"[DONE]", "completed", "incomplete"}
                 /\ pending'[i].kind = "done" /\ pending'[j].kind = "delta"
                      => pending'[i].index # pending'[j].index
  <2>1. TAKE i, j \in DOMAIN pending'
  <2>2. HAVE i < j
  <2>3. /\ i + 1 \in DOMAIN pending /\ j + 1 \in DOMAIN pending /\ i + 1 < j + 1
        /\ pending'[i] = pending[i + 1] /\ pending'[j] = pending[j + 1]
    BY <1>1, <1>2, <1>3, <2>2
  <2> QED
    BY <1>4, <2>3
<1>6. finish # "no" => pending[Len(pending)].kind = finish
  BY DEF Sending
<1>7. finish # "no" /\ pending' # <<>> => pending'[Len(pending')].kind = finish
  <2>1. HAVE finish # "no" /\ pending' # <<>>
  <2>2. Len(pending) - 1 \in 1..(Len(pending) - 1) /\ (Len(pending) - 1) + 1 = Len(pending)
    BY <1>1, <1>3, <2>1
  <2>3. pending'[Len(pending')] = pending[Len(pending)]
    BY <1>2, <2>2
  <2> QED
    BY <1>6, <2>1, <2>3
<1>8. Sending'
  <2>1. /\ ReplyEvents' = ReplyEvents /\ Calls' = Calls /\ dialect' = dialect
        /\ meant' = meant /\ whole' = whole /\ finish' = finish
    BY ServerSame
  <2> QED
    BY <1>2, <1>5, <1>7, <2>1 DEF Sending
<1>9. pending[1] \in ReplyEvents
  BY <1>1, ElementOfSeq
<1>10. ASSUME pending[1].kind \in Terminal PROVE pending' = <<>> /\ pending[1].kind = finish
  <2>1. Len(pending) = 1
    <3>1. SUFFICES ASSUME Len(pending) # 1 PROVE FALSE
      OBVIOUS
    <3>2. 1 \in DOMAIN pending /\ 2 \in DOMAIN pending /\ 1 < 2
      BY <1>1, <3>1
    <3>3. pending[1].kind \notin {"[DONE]", "completed", "incomplete"}
      BY <1>4, <3>2
    <3> QED
      BY <1>10, <3>3 DEF Terminal
  <2>2. pending[1].kind = finish
    BY <1>9, <1>10, EventKinds DEF Terminal, Text, Delta
  <2> QED
    BY <1>3, <2>1, <2>2
<1>11. ASSUME pending[1].kind = "done", NEW i \in DOMAIN pending, pending[i].kind = "delta"
       PROVE  pending[i].index # pending[1].index
  <2>1. i # 1 /\ i \in 1..Len(pending)
    BY <1>1, <1>11
  <2>2. 1 \in DOMAIN pending /\ 1 < i
    BY <1>1, <2>1
  <2> QED
    BY <1>4, <1>11, <2>2
<1>12. pending' = <<>> /\ finish # "no" => pending[1].kind = finish
  BY <1>3, <1>6
<1> QED
  BY <1>8, <1>9, <1>10, <1>11, <1>12

\* An event is mapped: the pieces it holds move from what is to come to what there is.
LEMMA Mapped ==
  ASSUME Sending, Collecting, pending # <<>>, UNCHANGED serverVars, pending' = Tail(pending),
         Map(pending[1])
  PROVE  Sending' /\ Collecting'
<1> DEFINE e == pending[1]
<1>1. /\ Sending' /\ e \in ReplyEvents
      /\ e.kind \in Terminal => pending' = <<>> /\ e.kind = finish
      /\ pending' = <<>> /\ finish # "no" => e.kind = finish
  BY TailSent
<1>2. /\ Calls' = Calls /\ Meant' = Meant /\ dialect' = dialect /\ meant' = meant /\ finish' = finish
  BY ServerSame
<1>3. completed = <<>>
  BY DEF Collecting
<1>4. e.kind \notin Terminal => ~(finish' = "completed" /\ pending' = <<>>)
  BY <1>1, <1>2 DEF Terminal
<1>5. /\ Got \in Seq(Nat \ {0}) /\ calls = Entries(Got) /\ text \in Seq(Nat) /\ text = Pieces(Len(text))
      /\ shown = [text |-> text, calls |-> calls] /\ Len(text) \in Nat /\ Len(Got) \in Nat
      /\ meant.text \in Nat /\ Len(meant.calls) \in Nat /\ DOMAIN Got = 1..Len(Got)
      /\ Calls = 1..Len(meant.calls)
      /\ \A n \in Calls : meant.calls[n] \in Nat \ {0} /\ At(Got, n) \in Nat
  BY Counts DEF Collecting
<1>6. /\ Nth(e, "text", 0) = 0 => Holds(pending', "text", 0, Len(text), meant.text)
      /\ Nth(e, "text", 0) # 0 => /\ Nth(e, "text", 0) = Len(text) + 1
                                  /\ Holds(pending', "text", 0, Len(text) + 1, meant.text)
  <2>1. Holds(pending, "text", 0, Len(text), meant.text)
    BY DEF Collecting
  <2> QED
    BY <1>5, <2>1, MappedOne
<1>7. /\ Nth(e, "calls", 0) = 0 => Holds(pending', "calls", 0, Len(Got), Len(meant.calls))
      /\ Nth(e, "calls", 0) # 0 => /\ Nth(e, "calls", 0) = Len(Got) + 1
                                   /\ Holds(pending', "calls", 0, Len(Got) + 1, Len(meant.calls))
  <2>1. Holds(pending, "calls", 0, Len(Got), Len(meant.calls))
    BY DEF Collecting
  <2> QED
    BY <1>5, <2>1, MappedOne
<1>8. \A n \in Calls :
        /\ Nth(e, "call", n) = 0 => Holds(pending', "call", n, At(Got, n), meant.calls[n])
        /\ Nth(e, "call", n) # 0 =>
             /\ Nth(e, "call", n) = At(Got, n) + 1
             /\ Holds(pending', "call", n, At(Got, n) + 1, meant.calls[n])
  <2>1. \A n \in Calls : Holds(pending, "call", n, At(Got, n), meant.calls[n])
    BY DEF Collecting
  <2> QED
    BY <1>5, <2>1, MappedOne
<1> HIDE DEF e
\* The mapper's calls are those of g.
<1>9. ASSUME NEW g, g \in Seq(Nat \ {0}), calls' = Entries(g), text' \in Seq(Nat),
             text' = Pieces(Len(text')), shown' = [text |-> text', calls |-> calls'],
             Holds(pending', "text", 0, Len(text'), meant.text),
             Holds(pending', "calls", 0, Len(g), Len(meant.calls)),
             \A n \in Calls : Holds(pending', "call", n, At(g, n), meant.calls[n]),
             completed' = IF finish = "completed" /\ pending' = <<>> THEN <<Meant>> ELSE <<>>
      PROVE  Collecting'
  <2>1. Got' = g
    <3>1. [n \in DOMAIN Entries(g) |-> Len(Entries(g)[n].arguments)] = g
      BY <1>9, EntriesOf
    <3> QED
      BY <1>9, <3>1 DEF Got
  <2>2. \A n : At(Got, n)' = At(g, n)
    BY <2>1 DEF At
  <2>3. Entries(Got)' = Entries(g)
    BY <1>2, <2>1 DEF Entries, Entry, Key
  <2> QED
    BY <1>2, <1>9, <2>1, <2>2, <2>3 DEF Collecting
<1>10. CASE \E k \in Nat \ {0} : e = Text(k)
  <2>1. PICK k \in Nat \ {0} : e = Text(k)
    BY <1>10
  <2>2. e.kind = "text" /\ e.piece = k /\ e.kind \notin Terminal
    BY <2>1 DEF Text, Terminal
  <2>3. /\ text' = Append(text, k) /\ shown' = [shown EXCEPT !.text = Append(@, k)]
        /\ calls' = calls /\ completed' = completed
    BY <2>2 DEF Map, MapChunk, MapEvent, MapText, MapDelta, PassText, e
  <2>4. Nth(e, "text", 0) = k /\ Nth(e, "calls", 0) = 0 /\ \A n : Nth(e, "call", n) = 0
    BY <2>1, NthOf
  <2>5. k = Len(text) + 1
    BY <1>6, <2>4
  <2>6. text' = Pieces(Len(text) + 1) /\ Len(text') = Len(text) + 1 /\ text' \in Seq(Nat)
    <3>1. /\ Append(Pieces(Len(text)), Len(text) + 1) = Pieces(Len(text) + 1)
          /\ Pieces(Len(text) + 1) \in Seq(Nat) /\ Len(Pieces(Len(text) + 1)) = Len(text) + 1
      <4>1. Len(text) \in Nat /\ Len(text) + 1 \in Nat
        BY <1>5
      <4> QED
        BY <4>1, PiecesOf
    <3> QED
      BY <1>5, <2>3, <2>5, <3>1
  <2>7. shown' = [text |-> text', calls |-> calls']
    BY <1>5, <2>3
  <2>8. Holds(pending', "text", 0, Len(text'), meant.text)
    BY <1>6, <2>4, <2>6
  <2>9. completed' = IF finish = "completed" /\ pending' = <<>> THEN <<Meant>> ELSE <<>>
    BY <1>2, <1>3, <1>4, <2>2, <2>3
  <2>10. text' = Pieces(Len(text'))
    BY <2>6
  <2> QED
    BY <1>1, <1>5, <1>7, <1>8, <1>9, <2>3, <2>4, <2>6, <2>7, <2>8, <2>9, <2>10
<1>11. CASE \E n \in Calls, k \in Nat \ {0} : e = Delta(n, k)
  <2>1. PICK n \in Calls, k \in Nat \ {0} : e = Delta(n, k)
    BY <1>11
  <2> DEFINE key == Entry(n, 0).key
             g == IF k = 1 THEN Append(Got, 1) ELSE [Got EXCEPT ![n] = k]
  <2>2. /\ e.kind = "delta" /\ e.piece = k /\ e.index = n /\ e.kind \notin Terminal
        /\ e.id = IF dialect = "chat" /\ k > 1 THEN <<>> ELSE Key(n)
    BY <2>1 DEF Delta, Terminal
  <2>3. /\ calls' = AddPiece(calls, key, e.id, k)
        /\ shown' = [shown EXCEPT !.calls = AddPiece(@, key, e.id, k)]
        /\ text' = text /\ completed' = completed
    <3>1. key = IF dialect = "chat" THEN e.index ELSE e.id
      BY <2>2 DEF Entry
    <3>2. MapDelta(e, key)
      <4>1. CASE dialect = "chat"
        BY <2>2, <3>1, <4>1 DEF Map, MapChunk, MapText, e
      <4>2. CASE dialect # "chat"
        BY <2>2, <3>1, <4>2 DEF Map, MapEvent, MapText, e
      <4> QED
        BY <4>1, <4>2
    <3> HIDE DEF key
    <3> QED
      BY <2>2, <3>2 DEF MapDelta, PassPiece
  <2>4. /\ Nth(e, "text", 0) = 0 /\ Nth(e, "calls", 0) = IF k = 1 THEN n ELSE 0
        /\ \A m : Nth(e, "call", m) = IF m = n THEN k ELSE 0
    BY <2>1, NthOf
  <2>5. n \in Nat /\ n # 0 /\ k = At(Got, n) + 1
    BY <1>5, <1>8, <2>1, <2>4
  <2>6. /\ g \in Seq(Nat \ {0}) /\ calls' = Entries(g)
        /\ Holds(pending', "calls", 0, Len(g), Len(meant.calls))
        /\ At(g, n) = k /\ \A m : m # n => At(g, m) = At(Got, m)
    <3>1. CASE k = 1
      <4>1. n = Len(Got) + 1 /\ Holds(pending', "calls", 0, Len(Got) + 1, Len(meant.calls))
        BY <1>7, <2>4, <2>5, <3>1
      <4>2. e.id = Key(n) /\ g = Append(Got, 1) /\ 1 \in Nat \ {0}
        BY <2>2, <3>1
      <4>3. /\ g \in Seq(Nat \ {0}) /\ Len(g) = Len(Got) + 1 /\ g[Len(Got) + 1] = 1
            /\ \A i \in 1..Len(Got) : g[i] = Got[i]
        <5>1. Got \in Seq(Nat \ {0}) /\ 1 \in Nat \ {0}
          BY <1>5
        <5> HIDE DEF g
        <5> QED
          BY <4>2, <5>1, AppendProperties
      <4>4. calls' = Entries(g)
        BY <1>5, <2>3, <3>1, <4>1, <4>2, AddPieceNew
      <4> HIDE DEF g
      <4>5. DOMAIN g = 1..(Len(Got) + 1)
        BY <4>3, LenProperties
      <4>6. /\ n \in 1..(Len(Got) + 1)
            /\ \A m : m # n => (m \in 1..(Len(Got) + 1) <=> m \in 1..Len(Got))
        BY <1>5, <4>1
      <4> QED
        BY <1>5, <3>1, <4>1, <4>3, <4>4, <4>5, <4>6 DEF At
    <3>2. CASE k # 1
      <4>1. n \in DOMAIN Got /\ k = Got[n] + 1
        BY <2>5, <3>2 DEF At
      <4>2. e.id \in {<<>>, Key(n)} /\ g = [Got EXCEPT ![n] = Got[n] + 1]
        BY <2>2, <3>2, <4>1
      <4>3. /\ g \in Seq(Nat \ {0}) /\ Len(g) = Len(Got)
            /\ \A i \in 1..Len(Got) : g[i] = IF i = n THEN k ELSE Got[i]
        <5>1. Got \in Seq(Nat \ {0}) /\ n \in 1..Len(Got) /\ k \in Nat \ {0}
          BY <1>5, <4>1
        <5>2. g = [Got EXCEPT ![n] = k]
          BY <4>1, <4>2
        <5> HIDE DEF g
        <5> QED
          BY <5>1, <5>2, ExceptSeq
      <4>4. calls' = Entries(g)
        <5>1. Got \in Seq(Nat \ {0}) /\ n \in 1..Len(Got) /\ e.id \in {<<>>, Key(n)}
          BY <1>5, <4>1, <4>2
        <5>2. AddPiece(Entries(Got), key, e.id, Got[n] + 1) = Entries([Got EXCEPT ![n] = Got[n] + 1])
          BY <5>1, AddPieceTo
        <5> HIDE DEF g, key
        <5> QED
          BY <1>5, <2>3, <4>1, <4>2, <5>2
      <4> HIDE DEF g
      <4>5. DOMAIN g = 1..Len(Got)
        BY <4>3, LenProperties
      <4>6. Holds(pending', "calls", 0, Len(g), Len(meant.calls))
        BY <1>7, <2>4, <3>2, <4>3
      <4> QED
        BY <1>5, <4>1, <4>3, <4>4, <4>5, <4>6 DEF At
    <3> QED
      BY <3>1, <3>2
  <2> HIDE DEF g
  <2>7. \A m \in Calls : Holds(pending', "call", m, At(g, m), meant.calls[m])
    <3>1. TAKE m \in Calls
    <3>2. CASE m = n
      BY <1>8, <2>4, <2>5, <2>6, <3>2
    <3>3. CASE m # n
      BY <1>8, <2>4, <2>6, <3>3
    <3> QED
      BY <3>2, <3>3
  <2>8. Holds(pending', "text", 0, Len(text'), meant.text) /\ text' \in Seq(Nat) /\ text' = Pieces(Len(text'))
    BY <1>5, <1>6, <2>3, <2>4
  <2>9. shown' = [text |-> text', calls |-> calls']
    <3> HIDE DEF key
    <3> QED
      BY <1>5, <2>3
  <2>10. completed' = IF finish = "completed" /\ pending' = <<>> THEN <<Meant>> ELSE <<>>
    BY <1>2, <1>3, <1>4, <2>2, <2>3
  <2> QED
    BY <1>1, <1>9, <2>6, <2>7, <2>8, <2>9, <2>10
\* What the other events say changes nothing the mapper has collected.
<1>12. ASSUME e.kind \notin {"text", "delta"}, text' = text, calls' = calls, shown' = shown,
              completed' = IF finish = "completed" /\ pending' = <<>> THEN <<Meant>> ELSE <<>>
       PROVE  Collecting'
  <2>1. Nth(e, "text", 0) = 0 /\ Nth(e, "calls", 0) = 0 /\ \A n : Nth(e, "call", n) = 0
    BY <1>12, NthOf
  <2>2. /\ Holds(pending', "text", 0, Len(text'), meant.text)
        /\ Holds(pending', "calls", 0, Len(Got), Len(meant.calls))
        /\ \A n \in Calls : Holds(pending', "call", n, At(Got, n), meant.calls[n])
    BY <1>6, <1>7, <1>8, <1>12, <2>1
  <2> QED
    BY <1>5, <1>9, <1>12, <2>2
<1>13. CASE \E n \in whole : e = ArgumentsDone(n) /\ e.kind = "done" /\ e.index = n
  <2>1. PICK n \in whole : e = ArgumentsDone(n) /\ e.kind = "done" /\ e.index = n
    BY <1>13
  <2>2. n \in Calls /\ e.id = Key(n) /\ e.arguments = Pieces(meant.calls[n]) /\ e.kind \notin Terminal
    BY <2>1 DEF ArgumentsDone, Sending, Terminal
  <2>3. /\ calls' = Finalize(calls, Key(n), Pieces(meant.calls[n]))
        /\ text' = text /\ completed' = completed /\ shown' = shown /\ dialect # "chat"
    BY <2>1, <2>2 DEF Map, MapChunk, MapEvent, MapText, MapDelta, e
  <2>4. At(Got, n) = meant.calls[n]
    <3>1. \A i \in DOMAIN pending : Nth(pending[i], "call", n) = 0
      BY <2>1, TailSent DEF Nth, e
    <3>2. Holds(pending, "call", n, At(Got, n), meant.calls[n])
      BY <2>2 DEF Collecting
    <3> QED
      BY <1>5, <2>2, <3>1, <3>2, HoldsNone
  <2>5. n \in 1..Len(Got) /\ Got[n] = meant.calls[n]
    BY <1>5, <2>2, <2>4 DEF At
  <2>6. Key(n) = Entry(n, 0).key
    BY <2>3 DEF Entry
  <2>7. calls' = calls
    BY <1>5, <2>3, <2>5, <2>6, FinalizeSame
  <2>8. completed' = IF finish = "completed" /\ pending' = <<>> THEN <<Meant>> ELSE <<>>
    BY <1>2, <1>3, <1>4, <2>2, <2>3
  <2> QED
    BY <1>1, <1>12, <2>1, <2>3, <2>7, <2>8
<1>14. CASE e \in Ends /\ e.kind \in Terminal /\ e.kind = finish
  <2>1. pending' = <<>>
    BY <1>1, <1>14
  <2>2. CASE e.kind = "completed"
    <3>1. PICK m \in 1..(Len(meant.calls) + 1) : e = Completed(m)
      BY <1>14, <2>2 DEF Ends, Done
    <3>2. completed' = <<FromPayload(e.output)>> /\ text' = text /\ calls' = calls /\ shown' = shown
      BY <2>2 DEF Map, MapChunk, MapEvent, MapText, MapDelta, e
    <3>3. FromPayload(e.output) = Meant
      BY <3>1, PayloadIsMeant
    <3> QED
      BY <1>1, <1>12, <1>14, <2>1, <2>2, <3>2, <3>3
  <2>3. CASE e.kind = "incomplete"
    <3>1. text' = text /\ calls' = calls /\ shown' = shown /\ completed' = completed
      BY <2>3 DEF Map, MapChunk, MapEvent, MapText, MapDelta, mapperVars, e
    <3> QED
      BY <1>1, <1>3, <1>12, <1>14, <2>3, <3>1
  <2>4. CASE e.kind = "[DONE]"
    BY <2>4 DEF Map, MapChunk, MapEvent, MapText, MapDelta, e
  <2> QED
    BY <1>14, <2>2, <2>3, <2>4 DEF Terminal
<1> QED
  BY <1>1, <1>10, <1>11, <1>13, <1>14, EventKinds

\* The end of a chat is no event of the mapper's.
LEMMA DoneMapped ==
  ASSUME Sending, Collecting, pending # <<>>, pending[1] = Done, pending' = Tail(pending),
         UNCHANGED <<serverVars, mapperVars>>
  PROVE  Sending' /\ Collecting' /\ pending' = <<>> /\ finish' # "no"
<1>1. /\ Sending' /\ pending' = <<>> /\ finish = "[DONE]" /\ UNCHANGED serverVars
  BY TailSent DEF Done, Terminal
<1>2. /\ Calls' = Calls /\ dialect' = dialect /\ meant' = meant /\ finish' = finish
  BY <1>1, ServerSame
<1>3. text' = text /\ calls' = calls /\ shown' = shown /\ completed' = completed /\ completed = <<>>
  BY DEF mapperVars, Collecting
<1>4. Got' = Got /\ \A n : At(Got, n)' = At(Got, n)
  BY <1>3 DEF Got, At
<1>5. Entries(Got)' = Entries(Got)
  BY <1>2, <1>4 DEF Entries, Entry, Key
<1>6. Nth(pending[1], "text", 0) = 0 /\ Nth(pending[1], "calls", 0) = 0
      /\ \A n : Nth(pending[1], "call", n) = 0
  BY NthOf DEF Done
<1>7. Holds(pending', "text", 0, Len(text), meant.text)
  BY <1>6, Counts, MappedOne DEF Collecting
<1>8. Holds(pending', "calls", 0, Len(Got), Len(meant.calls))
  BY <1>6, Counts, MappedOne DEF Collecting
<1>9. \A n \in Calls : Holds(pending', "call", n, At(Got, n), meant.calls[n])
  BY <1>6, Counts, MappedOne DEF Collecting
<1>10. Collecting'
  BY <1>1, <1>2, <1>3, <1>4, <1>5, <1>7, <1>8, <1>9 DEF Collecting
<1> QED
  BY <1>1, <1>2, <1>10

LEMMA ReadBlankKeeps ==
  ASSUME ReplyInv, ReadBlank
  PROVE  ReplyInv'
<1> USE DEF ReplyInv
<1>1. /\ outcome = "reading" /\ conn' = conn /\ UNCHANGED <<serverVars, wire>> /\ finish' = finish
      /\ 1 \in DOMAIN buffer /\ buffer[1].byte = "newline" /\ buffer' = Tail(buffer) /\ data' = <<>>
  BY DEF ReadBlank, LineEnds, serverVars
<1> PICK read \in Offsets : Framing(read) /\ Stopping(read)
  BY <1>1 DEF Parsing
<1>2. /\ Len(Coming) \in Nat /\ Len(Coming) = Len(buffer) + Len(wire)
      /\ Len(buffer) \in Nat /\ Len(wire) \in Nat /\ DOMAIN buffer = 1..Len(buffer)
      /\ buffer[1] = Coming[1] /\ Coming \in Seq(ReplyBytes) /\ read \in Nat
      /\ Before(Len(pending) + 1) \in Nat
  BY <1>1, Bytes, ReadPart
<1>3. Len(Coming) > 0 /\ 1 \in 1..Len(buffer)
  BY <1>1, <1>2
<1>4. /\ data = <<pending[1]>> /\ data # <<>> /\ read = Width - 1 /\ pending # <<>>
      /\ Len(pending) \in Nat \ {0} /\ data[1] = pending[1] /\ Width \in {4, 6}
  <2>1. data # <<>>
    <3>1. SUFFICES ASSUME data = <<>> PROVE FALSE
      OBVIOUS
    <3>2. Width \in {4, 6} /\ (read = 0 \/ (read = 2 /\ Width = 6))
      BY <3>1, ReadPart, Widths
    <3>3. read + 1 \in 1..Width /\ read + 1 > read /\ (read + 1) - read = 1 /\ 1 <= Len(Coming)
      BY <1>2, <1>3, <3>2
    <3>4. Coming[1] = Frame(pending[1])[read + 1]
      BY <1>3, <3>3, FirstComing
    <3>5. Frame(pending[1])[read + 1] \in {Name, FirstHalf(pending[1])}
      <4>1. CASE read = 0
        <5>1. read + 1 = 1
          BY <4>1
        <5> QED
          BY <3>2, <5>1, Frames
      <4>2. CASE read = 2 /\ Width = 6
        <5>1. read + 1 = 3
          BY <4>2
        <5> QED
          BY <4>2, <5>1, Frames
      <4> QED
        BY <3>2, <4>1, <4>2
    <3> QED
      BY <1>1, <1>2, <3>4, <3>5 DEF Name, FirstHalf
  <2> QED
    <3>1. /\ pending # <<>> /\ Len(pending) \in Nat \ {0} /\ data = <<pending[1]>>
      BY <1>3, <2>1, FirstComing
    <3> QED
      BY <2>1, <3>1, ReadPart, Widths
<1>5. buffer' = SubSeq(buffer, 1 + 1, Len(buffer))
  <2>1. buffer \in Seq(ReplyBytes) /\ buffer # <<>> /\ 1 + 1 = 2
    BY <1>1, <1>2, <1>3, EmptySeq DEF Framing
  <2>2. Tail(buffer) = SubSeq(buffer, 2, Len(buffer))
    BY <2>1, TailIsSubSeq
  <2> QED
    BY <1>1, <2>1, <2>2
<1>6. /\ buffer' \in Seq(ReplyBytes') /\ wire' \in Seq(ReplyBytes')
      /\ Len(Coming') \in Nat /\ Len(Coming) = 1 + Len(Coming')
      /\ \A p \in 1..Len(Coming') : Coming'[p] = Coming[1 + p]
      /\ Coming # <<>> /\ Coming[Len(Coming)].byte # "newline"
           <=> Coming' # <<>> /\ Coming'[Len(Coming')].byte # "newline"
  BY <1>1, <1>3, <1>5, ComingShrinks
<1>7. 0 \in Offsets'
  BY <1>1 DEF Offsets
<1>8. pending' = Tail(pending)
  BY <1>4 DEF ReadBlank
<1>9. /\ Len(pending') = Len(pending) - 1 /\ pending \in Seq(ReplyEvents)
      /\ Len(pending') + 1 = Len(pending)
      /\ \A m \in 1..Len(pending') : pending'[m] = pending[m + 1] /\ m + 1 \in 1..Len(pending)
  <2>1. /\ Len(pending') = Len(pending) - 1 /\ pending \in Seq(ReplyEvents)
        /\ \A m \in 1..(Len(pending) - 1) : pending'[m] = pending[m + 1]
    BY <1>4, <1>8, HeadTailProperties DEF Sending
  <2> QED
    BY <1>4, <2>1
<1>10. /\ Width' = Width /\ \A x : Before(x)' = Before(x) /\ Frame(x)' = Frame(x)
       /\ Before(Len(pending) + 1) = Before(Len(pending)) + Width
       /\ \A m \in 1..Len(pending') : Before(m) \in Nat /\ Before(m + 1) = Before(m) + Width
  <2>1. /\ Width' = Width /\ \A x : Before(x)' = Before(x) /\ Frame(x)' = Frame(x)
    BY <1>1, ServerSame
  <2>2. Before(Len(pending) + 1) = Before(Len(pending)) + Width
    BY <1>4, Begins
  <2>3. ASSUME NEW m \in 1..Len(pending')
        PROVE  Before(m) \in Nat /\ Before(m + 1) = Before(m) + Width
    <3>1. m \in Nat \ {0}
      BY <1>4, <1>9
    <3> QED
      BY <3>1, Begins
  <2> QED
    BY <2>1, <2>2, <2>3
<1>11. Framing(0)'
  <2>1. Before(Len(pending)) \in Nat
    BY <1>4, Begins
  <2>2. Len(Coming') + 0 <= Before(Len(pending') + 1)
    <3>1. Len(Coming) + read <= Before(Len(pending)) + Width
      BY <1>10 DEF Framing
    <3> QED
      BY <1>4, <1>6, <1>9, <2>1, <3>1
  <2>3. ASSUME NEW m \in 1..Len(pending'), NEW j \in 1..Width,
               (Before(m) + j) - 0 \in 1..Len(Coming')
        PROVE  Coming'[(Before(m) + j) - 0] = Frame(pending'[m])[j]
    <3>1. /\ (Before(m + 1) + j) - read \in 1..Len(Coming)
          /\ 1 + ((Before(m) + j) - 0) = (Before(m + 1) + j) - read
      <4>1. Before(m) \in Nat /\ Before(m + 1) = Before(m) + Width /\ read = Width - 1
        BY <1>4, <1>10
      <4> QED
        BY <1>4, <1>6, <2>3, <4>1, SMTT(30)
    <3>2. m + 1 \in 1..Len(pending) /\ pending'[m] = pending[m + 1]
      BY <1>9
    <3> QED
      BY <1>6, <2>3, <3>1, <3>2 DEF Framing
  <2> QED
    BY <1>1, <1>6, <1>10, <2>2, <2>3 DEF Framing
<1>12. Parsing' /\ Len(Coming') + 0 <= Before(Len(pending') + 1)
  <2>1. Before(Len(pending)) \in Nat
    BY <1>4, Begins
  <2>2. /\ Len(Coming) + read = Before(Len(pending) + 1)
             => Len(Coming') + 0 = Before(Len(pending') + 1)
        /\ Len(Coming) + read >= Before(Len(pending) + 1) - 1
             => Len(Coming') + 0 >= Before(Len(pending') + 1) - 1
    BY <1>4, <1>6, <1>9, <1>10, <2>1
  <2>3. Stopping(0)'
    BY <1>1, <1>6, <1>10, <2>2 DEF Stopping
  <2> QED
    BY <1>7, <1>11, <2>3, <1>10 DEF Parsing, Framing
<1>13. CASE data = <<Done>> /\ outcome' = "accepted" /\ UNCHANGED mapperVars
  <2>1. pending[1] = Done
    BY <1>4, <1>13
  <2>2. Sending' /\ Collecting' /\ pending' = <<>> /\ finish' # "no"
    BY <1>1, <1>4, <1>8, <1>13, <2>1, DoneMapped
  <2>3. conn # "torn"
    <3>1. Len(pending') = 0 /\ Before(Len(pending') + 1) = 0
      <4>1. Len(pending') = 0 /\ 0 + 1 = 1
        BY <2>2, EmptySeq
      <4> QED
        BY <4>1, Widths
    <3>2. Len(Coming') = 0
      BY <1>6, <1>12, <3>1
    <3>3. Len(Coming) = 1
      BY <1>6, <3>2
    <3> QED
      BY <1>1, <1>2, <3>3 DEF Stopping
  <2>4. Judging'
    BY <1>1, <1>13, <2>2, <2>3 DEF Judging
  <2> QED
    BY <1>13, <2>2, <2>4
<1>14. CASE data \notin {<<>>, <<Done>>} /\ Map(data[1]) /\ outcome' = outcome
  <2>1. Sending' /\ Collecting'
    BY <1>1, <1>4, <1>8, <1>14, Mapped
  <2>2. Judging'
    BY <1>1, <1>14 DEF Judging
  <2> QED
    BY <1>12, <2>1, <2>2
<1> QED
  BY <1>4, <1>13, <1>14 DEF ReadBlank

LEMMA ReadEndKeeps ==
  ASSUME ReplyInv, ReadEnd
  PROVE  ReplyInv'
<1> USE DEF ReplyInv
<1>1. /\ outcome = "reading" /\ conn' = conn /\ UNCHANGED serverVars /\ finish' = finish
      /\ ~HasLine /\ conn # "open" /\ wire = <<>>
  BY DEF ReadEnd, serverVars
<1> PICK read \in Offsets : Framing(read) /\ Stopping(read)
  BY <1>1 DEF Parsing
<1>2. /\ Len(buffer) \in Nat /\ Len(wire) = 0 /\ Len(Coming) = Len(buffer) /\ Len(pending) \in Nat
      /\ \A p \in 1..Len(buffer) : buffer[p] = Coming[p]
      /\ \A p \in 1..Len(buffer) : buffer[p].byte # "newline"
      /\ (Coming = <<>> <=> Len(buffer) = 0)
  <2>1. Len(wire) = 0
    BY <1>1, EmptySeq
  <2>2. /\ Len(buffer) \in Nat /\ DOMAIN buffer = 1..Len(buffer) /\ Len(Coming) = Len(buffer) + Len(wire)
        /\ Coming \in Seq(ReplyBytes) /\ Len(pending) \in Nat
        /\ \A p \in 1..Len(buffer) : buffer[p] = Coming[p]
    BY Bytes
  <2>3. Len(Coming) = Len(buffer)
    BY <2>1, <2>2
  <2>4. Coming = <<>> <=> Len(buffer) = 0
    BY <2>2, <2>3, EmptySeq
  <2>5. \A p \in 1..Len(buffer) : buffer[p].byte # "newline"
    BY <1>1, <2>2 DEF HasLine
  <2> QED
    BY <2>1, <2>2, <2>3, <2>4, <2>5
\* An event whose line was read left nothing behind.
<1>3. data # <<>> => Len(buffer) = 0 /\ read = Width - 1
  <2>1. HAVE data # <<>>
  <2>2. ASSUME Len(buffer) # 0 PROVE FALSE
    <3>1. Len(Coming) > 0 /\ 1 \in 1..Len(buffer)
      BY <1>2, <2>2
    <3>2. Coming[1].byte = "newline"
      BY <2>1, <3>1, FirstComing
    <3> QED
      BY <1>2, <3>1, <3>2
  <2> QED
    BY <2>1, <2>2, ReadPart
<1>4. /\ Width \in {4, 6} /\ read \in Nat /\ Before(1) = 0
      /\ Len(pending) # 0 => /\ Before(Len(pending)) \in Nat
                             /\ Before(Len(pending) + 1) = Before(Len(pending)) + Width
      /\ Len(pending) > 1 => Before(Len(pending)) >= Width
      /\ Len(Coming) + read <= Before(Len(pending) + 1)
  <2>1. ASSUME Len(pending) > 1 PROVE Before(Len(pending)) >= Width
    <3>1. Len(pending) \in Nat \ {0} /\ 1 \in Nat \ {0}
      BY <1>2, <2>1
    <3>2. Before(1) + Width <= Before(Len(pending)) /\ Before(Len(pending)) \in Nat
      BY <2>1, <3>1, Begins, BeginsBefore
    <3> QED
      BY <3>2, Widths
  <2>2. ASSUME Len(pending) # 0
        PROVE  /\ Before(Len(pending)) \in Nat
               /\ Before(Len(pending) + 1) = Before(Len(pending)) + Width
    <3>1. Len(pending) \in Nat \ {0}
      BY <1>2, <2>2
    <3> QED
      BY <3>1, Begins
  <2> QED
    BY <2>1, <2>2, Widths, ReadPart DEF Framing
<1>5. CASE LeftOver /\ outcome' = "no json" /\ UNCHANGED <<mapperVars, pending>>
  <2>1. Sending' /\ Collecting'
    BY <1>1, <1>5, NothingMapped
  <2>2. Len(buffer) # 0
    <3>1. buffer # <<>> /\ buffer \in Seq(ReplyBytes)
      BY <1>5 DEF LeftOver, Framing
    <3> QED
      BY <3>1, EmptySeq
  <2>3. Len(buffer) \in 1..Len(buffer) /\ Coming # <<>>
    BY <1>2, <2>2
  <2>4. Coming[Len(Coming)].byte # "newline"
    BY <1>2, <2>3
  <2>5. conn # "ended"
    <3>1. SUFFICES ASSUME conn = "ended" PROVE FALSE
      OBVIOUS
    <3>2. /\ Len(Coming) + read >= Before(Len(pending) + 1) - 1
          /\ pending # <<>> /\ Len(pending) \in Nat \ {0}
      <4>1. Len(Coming) > 0
        BY <1>2, <2>2
      <4> QED
        BY <3>1, <4>1, FirstComing DEF Stopping
    <3>3. PICK j \in {Width - 1, Width} : Len(Coming) + read = Before(Len(pending)) + j
      <4>1. /\ Len(Coming) + read <= Before(Len(pending)) + Width
            /\ Len(Coming) + read >= (Before(Len(pending)) + Width) - 1
        BY <1>4, <3>2
      <4>2. \/ Len(Coming) + read = Before(Len(pending)) + Width
            \/ Len(Coming) + read = Before(Len(pending)) + (Width - 1)
        BY <1>2, <1>4, <3>2, <4>1
      <4> QED
        BY <4>2
    <3>4. /\ (Before(Len(pending)) + j) - read = Len(Coming) /\ j \in 1..Width
          /\ Len(Coming) \in 1..Len(Coming) /\ Len(pending) \in 1..Len(pending)
      BY <1>2, <1>4, <2>3, <3>2, <3>3
    <3>5. Coming[Len(Coming)] = Frame(pending[Len(pending)])[j]
      <4>1. (Before(Len(pending)) + j) - read \in 1..Len(Coming)
              => Coming[(Before(Len(pending)) + j) - read] = Frame(pending[Len(pending)])[j]
        BY <3>4 DEF Framing
      <4> QED
        BY <3>4, <4>1
    <3>6. Frame(pending[Len(pending)])[j] = Newline
      BY <3>3, Frames
    <3> QED
      BY <2>4, <3>5, <3>6 DEF Newline
  <2>6. conn = "torn"
    BY <1>1, <2>3, <2>4, <2>5 DEF Stopping, Judging
  <2>7. Judging'
    BY <1>1, <1>5, <2>6 DEF Judging
  <2> QED
    BY <1>5, <2>1, <2>7
\* A body that ended with its reply has at most the last blank line left of it.
<1>6. ASSUME Len(buffer) = 0
      PROVE  /\ conn # "torn"
             /\ conn = "ended" => finish # "no" /\ Len(pending) = IF data = <<>> THEN 0 ELSE 1
  <2>1. conn # "torn"
    BY <1>1, <1>2, <1>6 DEF Stopping
  <2>2. ASSUME conn = "ended"
        PROVE  finish # "no" /\ Len(pending) = IF data = <<>> THEN 0 ELSE 1
    <3>1. finish # "no" /\ 0 + read >= Before(Len(pending) + 1) - 1
      BY <1>2, <1>6, <2>2 DEF Stopping
    <3>2. CASE data = <<>>
      <4>1. (read = 0 \/ (read = 2 /\ Width = 6))
        BY <3>2, ReadPart
      <4>2. Len(pending) = 0
        BY <1>2, <1>4, <3>1, <4>1
      <4> QED
        BY <3>1, <3>2, <4>2
    <3>3. CASE data # <<>>
      <4>1. read = Width - 1 /\ pending # <<>>
        BY <3>3, ReadPart DEF Framing
      <4>2. Len(pending) # 0
        BY <4>1, EmptySeq DEF Sending
      <4>3. ~(Len(pending) > 1)
        BY <1>2, <1>4, <3>1, <4>1, <4>2
      <4>4. Len(pending) = 1
        <5>1. Len(pending) \in Nat /\ Len(pending) # 0 /\ ~(Len(pending) > 1)
          BY <1>2, <4>2, <4>3
        <5>2. \A k \in Nat : k # 0 /\ ~(k > 1) => k = 1
          OBVIOUS
        <5> QED
          BY <5>1, <5>2
      <4> QED
        BY <3>1, <3>3, <4>4
    <3> QED
      BY <3>2, <3>3
  <2> QED
    BY <2>1, <2>2
<1>7. CASE /\ ~LeftOver /\ data = <<>>
           /\ outcome' = "accepted" /\ UNCHANGED <<mapperVars, pending>>
  <2>1. Sending' /\ Collecting'
    BY <1>1, <1>7, NothingMapped
  <2>2. Len(buffer) = 0
    BY <1>7, EmptySeq DEF LeftOver
  <2>3. conn = "ended" => pending = <<>>
    BY <1>6, <1>7, <2>2, EmptySeq DEF Sending
  <2>4. Judging'
    BY <1>1, <1>6, <1>7, <2>2, <2>3 DEF Judging
  <2> QED
    BY <1>7, <2>1, <2>4
<1>8. CASE /\ data # <<>> /\ pending' = Tail(pending) /\ outcome' = "accepted"
           /\ (data = <<Done>> /\ UNCHANGED mapperVars) \/ (data # <<Done>> /\ Map(data[1]))
  <2>1. pending # <<>> /\ data = <<pending[1]>> /\ data[1] = pending[1]
    BY <1>8 DEF Framing
  <2>2. Sending' /\ Collecting'
    <3>1. CASE data = <<Done>> /\ UNCHANGED mapperVars
      <4>1. pending[1] = Done
        BY <2>1, <3>1
      <4> QED
        BY <1>1, <1>8, <2>1, <3>1, <4>1, DoneMapped
    <3>2. CASE data # <<Done>> /\ Map(data[1])
      BY <1>1, <1>8, <2>1, <3>2, Mapped
    <3> QED
      BY <1>8, <3>1, <3>2
  <2>3. conn # "torn" /\ (conn = "ended" => finish # "no" /\ Len(pending) = 1)
    BY <1>3, <1>6, <1>8
  <2>4. Len(pending) = 1 => pending' = <<>>
    <3>1. HAVE Len(pending) = 1
    <3>2. pending' \in Seq(ReplyEvents) /\ Len(pending') = 1 - 1
      BY <1>8, <2>1, <3>1, HeadTailProperties DEF Sending
    <3> QED
      BY <3>2, EmptySeq
  <2>5. Judging'
    BY <1>1, <1>8, <2>3, <2>4 DEF Judging
  <2> QED
    BY <1>8, <2>2, <2>5
<1> QED
  BY <1>5, <1>7, <1>8 DEF ReadEnd

-----------------------------------------------------------------------------
(* The invariant, and what it says of the replies.                          *)

LEMMA ReplyStarts ==
  ASSUME ReplyInit
  PROVE  ReplyInv
<1> USE DEF ReplyInit
<1>1. DOMAIN meant.calls = {} /\ Len(meant.calls) = 0 /\ meant.text = 0 /\ Calls = {}
      /\ DOMAIN pending = {} /\ DOMAIN calls = {} /\ Len(text) = 0
  BY DEF Calls
<1>2. Sending
  BY <1>1, EmptySeq DEF Sending
<1>3. Got = <<>> /\ Got \in Seq(Nat \ {0}) /\ Len(Got) = 0
  BY <1>1, EmptySeq DEF Got
<1>4. Entries(Got) = <<>>
  BY <1>3 DEF Entries
<1>5. /\ \A part, n : Holds(pending, part, n, 0, 0)
  BY <1>1 DEF Holds
<1>6. Collecting
  <2>1. text = Pieces(Len(text)) /\ text \in Seq(Nat)
    BY <1>1, PiecesOf, EmptySeq
  <2> QED
    BY <1>1, <1>3, <1>4, <1>5, <2>1 DEF Collecting
<1>7. Coming = <<>> /\ Len(Coming) = 0 /\ Len(pending) = 0 /\ 0 \in Offsets /\ Before(0 + 1) = 0
  <2>1. buffer \o wire = <<>>
    BY ConcatEmptySeq, EmptySeq
  <2>2. Before(0 + 1) = 0
    <3>1. 0 + 1 = 1
      OBVIOUS
    <3> QED
      BY <3>1, Widths
  <2>3. 0 \in Offsets
    BY DEF Offsets
  <2>4. Len(pending) = 0
    OBVIOUS
  <2> QED
    BY <2>1, <2>2, <2>3, <2>4, EmptySeq DEF Coming
<1>8. Framing(0)
  BY <1>7, EmptySeq DEF Framing
<1>9. Stopping(0)
  BY <1>7 DEF Stopping
<1>10. Judging
  BY DEF Judging
<1> QED
  BY <1>2, <1>6, <1>7, <1>8, <1>9, <1>10 DEF ReplyInv, Parsing

LEMMA ReplyStutters ==
  ASSUME ReplyInv, UNCHANGED replyVars
  PROVE  ReplyInv'
<1>1. /\ UNCHANGED <<serverVars, mapperVars, pending>> /\ wire' = wire /\ conn' = conn
      /\ buffer' = buffer /\ data' = data /\ outcome' = outcome /\ pending' = pending /\ finish' = finish
  BY DEF replyVars, serverVars
<1>2. Sending' /\ Collecting'
  BY <1>1, NothingMapped DEF ReplyInv
<1>3. /\ Coming' = Coming /\ ReplyBytes' = ReplyBytes /\ Width' = Width /\ Offsets' = Offsets
      /\ \A x : Before(x)' = Before(x) /\ Frame(x)' = Frame(x)
  <2>1. /\ ReplyBytes' = ReplyBytes /\ Width' = Width /\ dialect' = dialect
        /\ \A x : Before(x)' = Before(x) /\ Frame(x)' = Frame(x)
    BY <1>1, ServerSame
  <2> QED
    BY <1>1, <2>1 DEF Coming, Offsets
<1>4. Judging'
  BY <1>1 DEF ReplyInv, Judging
<1>5. ASSUME outcome = "reading" PROVE Parsing'
  <2>1. PICK read \in Offsets : Framing(read) /\ Stopping(read)
    BY <1>5 DEF ReplyInv, Parsing
  <2>2. Framing(read)' /\ Stopping(read)'
    BY <1>1, <1>3, <2>1 DEF Framing, Stopping
  <2> QED
    BY <1>3, <2>2 DEF Parsing
<1> QED
  BY <1>1, <1>2, <1>4, <1>5 DEF ReplyInv

LEMMA ReplyInvariant == ReplySpec => []ReplyInv
<1>1. ReplyInv /\ [ReplyNext]_replyVars => ReplyInv'
  BY SendTextKeeps, SendPieceKeeps, SendArgumentsDoneKeeps, SendFinishKeeps, BodyStopsKeeps,
     ReadChunkKeeps, ReadLineKeeps, ReadBlankKeeps, ReadEndKeeps, ReplyStutters DEF ReplyNext
<1> QED
  BY <1>1, ReplyStarts, PTL DEF ReplySpec

\* The calls and the text of which nothing is pending are what the server sent.
LEMMA AllMapped ==
  ASSUME Sending, Collecting, pending = <<>>
  PROVE  [text |-> text, calls |-> calls] = [text |-> Pieces(meant.text), calls |-> Entries(meant.calls)]
<1>1. \A i \in DOMAIN pending : FALSE
  OBVIOUS
<1>2. Len(text) = meant.text
  BY <1>1, Counts, HoldsNone DEF Collecting
<1>3. Len(Got) = Len(meant.calls)
  BY <1>1, Counts, HoldsNone DEF Collecting
<1>4. \A n \in Calls : At(Got, n) = meant.calls[n]
  BY <1>1, Counts, HoldsNone DEF Collecting
<1>5. Got = meant.calls
  <2>1. DOMAIN Got = 1..Len(Got) /\ Calls = 1..Len(meant.calls)
    BY Counts
  <2>2. \A n \in 1..Len(Got) : Got[n] = meant.calls[n]
    BY <1>3, <1>4, <2>1 DEF At
  <2>3. Got \in Seq(Nat \ {0}) /\ meant.calls \in Seq(Nat \ {0})
    BY DEF Sending, Collecting
  <2> QED
    BY <1>3, <2>2, <2>3, SeqEqual
<1> QED
  BY <1>2, <1>5 DEF Collecting

LEMMA WholeIsMeant ==
  ASSUME ReplyInv
  PROVE  ReplyWhole
<1> USE DEF ReplyInv
<1>1. SUFFICES ASSUME outcome = "accepted", conn \in {"open", "ended"}, finish # "incomplete"
               PROVE  Reply = Meant
  BY DEF ReplyWhole
<1>2. pending = <<>> /\ finish # "no"
  BY <1>1 DEF Judging
<1>3. CASE finish = "completed"
  BY <1>2, <1>3 DEF Collecting, Reply
<1>4. CASE finish # "completed"
  <2>1. dialect = "chat" /\ completed = <<>>
    BY <1>1, <1>2, <1>4 DEF Sending, Collecting
  <2>2. text = Pieces(meant.text) /\ calls = Entries(meant.calls)
    BY <1>2, AllMapped
  <2>3. meant.calls \in Seq(Nat \ {0})
    BY DEF Sending
  <2>4. /\ DOMAIN calls = DOMAIN meant.calls
        /\ \A n \in DOMAIN meant.calls :
             calls[n].id = CallId(n) /\ calls[n].arguments = Pieces(meant.calls[n])
    BY <2>1, <2>2 DEF Entries, Entry, Key
  <2>5. ToolCalls(calls) = [n \in DOMAIN meant.calls |->
                              [id |-> CallId(n), arguments |-> Pieces(meant.calls[n])]]
    BY <2>4 DEF ToolCalls
  <2> QED
    BY <2>1, <2>2, <2>5 DEF Reply, Meant
<1> QED
  BY <1>3, <1>4

LEMMA ShownIsAccepted ==
  ASSUME ReplyInv
  PROVE  ShownIsReply
<1> USE DEF ReplyInv
<1>1. SUFFICES ASSUME outcome = "accepted"
               PROVE  /\ shown.text = Reply.text
                      /\ Len(shown.calls) = Len(Reply.calls)
                      /\ \A i \in DOMAIN shown.calls :
                           /\ shown.calls[i].arguments = Reply.calls[i].arguments
                           /\ dialect # "items" => shown.calls[i].id = Reply.calls[i].id
  BY DEF ShownIsReply
<1>2. shown.text = text /\ shown.calls = calls
  BY DEF Collecting
<1>3. CASE completed = <<>>
  <2>1. Reply = [text |-> text, calls |-> ToolCalls(calls)]
    BY <1>3 DEF Reply
  <2>2. /\ DOMAIN ToolCalls(calls) = DOMAIN calls
        /\ \A i \in DOMAIN calls : /\ ToolCalls(calls)[i].arguments = calls[i].arguments
                                   /\ ToolCalls(calls)[i].id = calls[i].id
    BY DEF ToolCalls
  <2>3. Len(ToolCalls(calls)) = Len(calls)
    <3> DEFINE tcs == ToolCalls(calls)
               S == {tcs[i] : i \in 1..Len(Got)}
    <3>1. DOMAIN calls = 1..Len(Got) /\ Len(Got) \in Nat /\ Len(calls) = Len(Got)
      BY Counts
    <3>2. tcs \in [1..Len(Got) -> S] /\ DOMAIN tcs = 1..Len(Got)
      BY <3>1 DEF ToolCalls
    <3> HIDE DEF tcs, S
    <3>3. tcs \in Seq(S)
      BY <3>1, <3>2, SeqDef
    <3>4. DOMAIN tcs = 1..Len(tcs) /\ Len(tcs) \in Nat
      BY <3>3, LenProperties
    <3>5. Len(tcs) = Len(Got)
      BY <3>1, <3>2, <3>4
    <3> QED
      BY <3>1, <3>5 DEF tcs
  <2> QED
    BY <1>2, <2>1, <2>2, <2>3
<1>4. CASE completed # <<>>
  <2>1. completed = <<Meant>> /\ pending = <<>> /\ finish = "completed"
    BY <1>4 DEF Collecting
  <2>2. Reply = Meant
    BY <1>4, <2>1 DEF Reply
  <2>3. text = Pieces(meant.text) /\ calls = Entries(meant.calls)
    BY <2>1, AllMapped
  <2>4. dialect # "chat"
    BY <2>1 DEF Sending
  <2>5. /\ DOMAIN calls = DOMAIN meant.calls /\ DOMAIN Meant.calls = DOMAIN meant.calls
        /\ Meant.text = Pieces(meant.text)
        /\ \A n \in DOMAIN calls : /\ calls[n].arguments = Pieces(meant.calls[n])
                                   /\ calls[n].id = Key(n)
                                   /\ Meant.calls[n].arguments = Pieces(meant.calls[n])
                                   /\ Meant.calls[n].id = CallId(n)
    BY <2>3 DEF Entries, Entry, Meant
  <2>6. dialect # "items" => \A n : Key(n) = CallId(n)
    BY DEF Key
  <2>7. Len(calls) = Len(Meant.calls)
    <3> DEFINE mcs == Meant.calls
               S == {mcs[i] : i \in 1..Len(Got)}
    <3>1. DOMAIN calls = 1..Len(Got) /\ Len(Got) \in Nat /\ Len(calls) = Len(Got)
      BY Counts
    <3>2. mcs \in [1..Len(Got) -> S] /\ DOMAIN mcs = 1..Len(Got)
      BY <2>5, <3>1 DEF Meant
    <3> HIDE DEF mcs, S
    <3>3. mcs \in Seq(S)
      BY <3>1, <3>2, SeqDef
    <3>4. DOMAIN mcs = 1..Len(mcs) /\ Len(mcs) \in Nat
      BY <3>3, LenProperties
    <3>5. Len(mcs) = Len(Got)
      BY <3>1, <3>2, <3>4
    <3> QED
      BY <3>1, <3>5 DEF mcs
  <2> QED
    BY <1>2, <2>2, <2>3, <2>5, <2>6, <2>7
<1> QED
  BY <1>3, <1>4

\* For any number of calls, pieces and bytes: a reply that arrived whole is what the model
\* meant, whatever order its pieces came in and wherever the chunks of its body ended
\* (sse.py:36-60, mapper.py:157-413).
THEOREM ReplyIsWhole == ReplySpec => []ReplyWhole
BY ReplyInvariant, WholeIsMeant, PTL

\* The deltas the agent has passed on make up the reply it goes on with, call by call,
\* also when the body was cut off between two lines (agent.py:263-282).
THEOREM ShownMakesUpReply == ReplySpec => []ShownIsReply
BY ReplyInvariant, ShownIsAccepted, PTL

\* A body that ends inside a line, of data or not, never makes a reply, and no other body is
\* refused as no JSON, wherever the chunks it came in ended (sse.py:41-60).
THEOREM TornIsRefused == ReplySpec => []TornRefused
<1>1. ReplyInv => TornRefused
  BY DEF ReplyInv, Judging, TornRefused
<1> QED
  BY <1>1, ReplyInvariant, PTL
=============================================================================
