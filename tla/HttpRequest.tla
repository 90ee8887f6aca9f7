----------------------------- MODULE HttpRequest -----------------------------
(***************************************************************************)
(* HTTP requests with retries inside execution budgets: HttpClient and     *)
(* AsyncHttpClient (http/), RetryConfig.delay, and the nested deadlines of *)
(* budget.py that bound them.  One task opens and closes budgets and makes *)
(* one request after the other, buffered or streamed.                      *)
(*                                                                         *)
(* All times are seconds left: a budget's until its deadline, a socket     *)
(* operation's until its timeout, a wait's until it is over.  Tick counts  *)
(* all of them down.  The server and the network are external.             *)
(***************************************************************************)
EXTENDS Naturals, Sequences

CONSTANTS
  Attempts, BackoffSeconds, JitterSeconds,   \* RetryConfig
  Timeout,       \* the client's timeout
  Limits,        \* seconds a budget may be opened with
  RetryAfters,   \* seconds a server may ask to wait; 0 is no Retry-After
  MaxChunks,     \* bound: chunks of a body
  MaxNesting     \* bound: budgets open at once

ASSUME HttpAssumption ==
  /\ Attempts \in Nat /\ JitterSeconds \in Nat
  /\ \A n \in 0..Attempts : BackoffSeconds * 2^n \in Nat
  /\ Timeout \in Nat \ {0} /\ Limits \subseteq Nat \ {0}
  /\ RetryAfters \subseteq Nat
  /\ MaxChunks \in Nat \ {0} /\ MaxNesting \in Nat

VARIABLES
  budgets,   \* seconds left of each open budget, innermost last
  mode,      \* how the request is made
  phase,     \* where it stands
  outer,     \* the budgets that were open when it started
  attempt,
  timeout,   \* of each socket operation of this attempt
  limit,     \* seconds left of the current one
  due,       \* seconds left of the wait before the next attempt
  emitted,
  position,  \* chunks of this attempt's body that have arrived
  delivered, \* history: the chunks the caller was given
  forbidden, \* history: seconds left of the server's Retry-After
  result     \* how the last request ended

requestVars == <<mode, outer, attempt, timeout, limit, due, emitted, position,
                 delivered, forbidden>>
vars == <<budgets, phase, requestVars, result>>

-----------------------------------------------------------------------------
Modes == [async: BOOLEAN, stream: BOOLEAN]
Socket == {"sending", "reading"}
HostActs == phase \in {"idle", "yielded"}

Lesser(a, b) == IF a <= b THEN a ELSE b
Greater(a, b) == IF a >= b THEN a ELSE b

\* _deadline: the innermost budget's.
Bounded == budgets # <<>>
Remaining == budgets[Len(budgets)]
Expired == Bounded /\ Remaining = 0

\* bounded_timeout.
BoundedTimeout == IF Bounded THEN Lesser(Timeout, Remaining) ELSE Timeout

Init ==
  /\ budgets = <<>>
  /\ mode \in Modes
  /\ phase = "idle" /\ result = "none"
  /\ outer = 0 /\ attempt = 0 /\ timeout = 0 /\ limit = 0 /\ due = 0
  /\ emitted = FALSE /\ position = 0 /\ delivered = <<>> /\ forbidden = 0

-----------------------------------------------------------------------------
(* execution_budget.                                                        *)

NewDeadline_Own(seconds) == seconds

\* min(parent, deadline)
NewDeadline(seconds) == IF Bounded THEN Lesser(seconds, Remaining) ELSE seconds

OpenBudget(seconds) ==
  /\ HostActs /\ ~Expired
  /\ Len(budgets) < MaxNesting
  /\ budgets' = Append(budgets, NewDeadline(seconds))
  /\ UNCHANGED <<phase, requestVars, result>>

\* Budgets are closed in the reverse order of their opening: a stream is closed
\* before the budgets it was started in ("Closing a stream early is still the
\* caller's responsibility", README.md).
CloseBudget ==
  /\ HostActs /\ Bounded
  /\ phase = "yielded" => Len(budgets) > outer
  /\ budgets' = SubSeq(budgets, 1, Len(budgets) - 1)
  /\ UNCHANGED <<phase, requestVars, result>>

-----------------------------------------------------------------------------
(* post_json, post_json_stream.                                             *)

Start(how) ==
  /\ phase = "idle"
  /\ phase' = "ready"
  /\ mode' = how
  /\ outer' = Len(budgets)
  /\ attempt' = 0 /\ emitted' = FALSE
  /\ position' = 0 /\ delivered' = <<>> /\ forbidden' = 0
  /\ timeout' = 0 /\ limit' = 0 /\ due' = 0
  /\ result' = "none"
  /\ UNCHANGED budgets

\* An attempt begins, unless the budget is spent.
Send ==
  /\ phase = "ready" /\ ~Expired
  /\ phase' = "sending"
  /\ timeout' = BoundedTimeout /\ limit' = BoundedTimeout
  /\ position' = 0
  /\ UNCHANGED <<budgets, mode, outer, attempt, due, emitted, delivered,
                 forbidden, result>>

End(how) ==
  /\ phase' = "idle"
  /\ result' = how
  /\ UNCHANGED <<budgets, requestVars>>

\* RunTimeoutError: before an attempt, or while an async wait is bounded.
OutOfBudget ==
  /\ \/ phase = "ready"
     \/ phase = "waiting" /\ mode.async
  /\ Expired
  /\ End("expired")

\* The request is out and the headers are in: one socket operation here.
HeadersArrive ==
  /\ phase = "sending"
  /\ phase' = "reading"
  /\ limit' = timeout
  /\ emitted' = (mode.async /\ mode.stream)
  /\ UNCHANGED <<budgets, mode, outer, attempt, timeout, due, position, delivered,
                 forbidden, result>>

\* A chunk of the body arrives.  A stream yields it to the caller.
ChunkArrives ==
  /\ phase = "reading" /\ position < MaxChunks
  /\ position' = position + 1
  /\ limit' = timeout
  /\ IF mode.stream
     THEN /\ phase' = "yielded" /\ emitted' = TRUE
          /\ delivered' = Append(delivered, <<attempt, position + 1>>)
     ELSE UNCHANGED <<phase, emitted, delivered>>
  /\ UNCHANGED <<budgets, mode, outer, attempt, timeout, due, forbidden, result>>

\* The caller asks the stream for more, or closes it.
NextChunk ==
  /\ phase = "yielded"
  /\ phase' = "reading"
  /\ limit' = timeout
  /\ UNCHANGED <<budgets, mode, outer, attempt, timeout, due, emitted, position,
                 delivered, forbidden, result>>

CloseStream == phase = "yielded" /\ Len(budgets) = outer /\ End("closed")

\* The body is complete; a buffered response is returned as one.
BodyEnds ==
  /\ phase = "reading"
  /\ phase' = "idle" /\ result' = "ok"
  /\ delivered' = IF mode.stream THEN delivered
                  ELSE [i \in 1..position |-> <<attempt, i>>]
  /\ UNCHANGED <<budgets, mode, outer, attempt, timeout, limit, due, emitted,
                 position, forbidden>>

-----------------------------------------------------------------------------
(* Failures.  The server refuses with a status the client retries, with or  *)
(* without an exhausted quota and a Retry-After; anything else, timeouts    *)
(* included, carries no such status.                                        *)

Refusals == [retried: {TRUE}, quota: BOOLEAN, after: RetryAfters]
OtherFailure == [retried |-> FALSE, quota |-> FALSE, after |-> 0]

AttemptLeft == attempt < Attempts

NextAttempt_Same == attempt
NextAttempt == attempt + 1

NotEmitted_Unchecked == TRUE
NotEmitted == ~emitted

Delay_IgnoresServer(failure, jitter) == BackoffSeconds * 2^attempt + jitter

\* RetryConfig.delay
Delay(failure, jitter) ==
  Greater(BackoffSeconds * 2^attempt, failure.after) + jitter

Retryable(failure) ==
  NotEmitted /\ failure.retried /\ ~failure.quota /\ AttemptLeft

TooLate(delay) == Bounded /\ delay >= Remaining

\* The attempt fails; delay says to try again.
FailsForNow(failure) ==
  /\ Retryable(failure) /\ ~Expired
  /\ \E jitter \in 0..JitterSeconds :
       /\ ~TooLate(Delay(failure, jitter))
       /\ due' = Delay(failure, jitter)
  /\ phase' = "waiting"
  /\ attempt' = NextAttempt
  /\ forbidden' = failure.after
  /\ UNCHANGED <<budgets, mode, outer, timeout, limit, emitted, position,
                 delivered, result>>

\* The error is raised; RunTimeoutError if the budget is spent when delay asks.
FailsForGood(failure) ==
  \/ ~Retryable(failure) /\ End("error")
  \/ /\ Retryable(failure) /\ ~Expired
     /\ \E jitter \in 0..JitterSeconds : TooLate(Delay(failure, jitter))
     /\ End("error")
  \/ Retryable(failure) /\ Expired /\ End("expired")

Fails(failure) == FailsForNow(failure) \/ FailsForGood(failure)

\* HTTPError, raise_for_status; a sync stream may meet one at any chunk.
ServerRefuses ==
  /\ phase = "sending" \/ (phase = "reading" /\ ~mode.async)
  /\ \E failure \in Refusals : Fails(failure)

\* The network fails or the answer is no JSON.
Breaks == phase \in Socket /\ Fails(OtherFailure)

TimesOut == phase \in Socket /\ limit = 0 /\ Fails(OtherFailure)

\* An await is cancelled: by the host, or by a budget that is spent.
Cancelled ==
  /\ mode.async /\ phase \in Socket \cup {"waiting"}
  /\ End("cancelled")

WaitEnds ==
  /\ phase = "waiting" /\ due = 0
  /\ phase' = "ready"
  /\ UNCHANGED <<budgets, requestVars, result>>

-----------------------------------------------------------------------------
Less(n) == IF n = 0 THEN 0 ELSE n - 1

Tick ==
  /\ budgets' = [i \in DOMAIN budgets |-> Less(budgets[i])]
  /\ limit' = Less(limit) /\ due' = Less(due) /\ forbidden' = Less(forbidden)
  /\ UNCHANGED <<mode, phase, outer, attempt, timeout, emitted, position,
                 delivered, result>>

RequestStep ==
  \/ Send
  \/ OutOfBudget
  \/ NextChunk
  \/ TimesOut
  \/ WaitEnds

Next ==
  \/ \E seconds \in Limits : OpenBudget(seconds)
  \/ CloseBudget
  \/ \E how \in Modes : Start(how)
  \/ RequestStep
  \/ HeadersArrive
  \/ ChunkArrives
  \/ CloseStream
  \/ BodyEnds
  \/ ServerRefuses
  \/ Breaks
  \/ Cancelled
  \/ Tick

\* Sockets time out, sleeps end, the caller of a stream asks on, and time passes;
\* no server answers unless it wants to.
Spec == Init /\ [][Next]_vars /\ WF_vars(RequestStep) /\ WF_vars(Tick)

-----------------------------------------------------------------------------
(* Properties.                                                              *)

Phases == {"idle", "ready", "sending", "reading", "yielded", "waiting"}

TypeOK ==
  /\ budgets \in Seq(Nat) /\ Len(budgets) <= MaxNesting
  /\ mode \in Modes /\ phase \in Phases
  /\ outer \in Nat /\ attempt \in 0..Attempts
  /\ timeout \in 0..Timeout /\ limit \in 0..Timeout
  /\ due \in Nat /\ forbidden \in Nat
  /\ emitted \in BOOLEAN /\ position \in 0..MaxChunks
  /\ delivered \in Seq(Nat \X Nat)
  /\ result \in {"none", "ok", "error", "expired", "cancelled", "closed"}

\* Whatever is retried, the caller is given the chunks of one response, in order
\* and without a gap ("Streams are never replayed after output starts",
\* README.md), and all of them if the request succeeds.
OneBody ==
  /\ \A i \in DOMAIN delivered : delivered[i] = <<attempt, i>>
  /\ result = "ok" => Len(delivered) = position

\* Nothing is sent when any of the open budgets is spent, nor with a timeout that
\* outlasts one, and no retry is waited for that would come after a deadline
\* ("Execution deadlines are ... shared with nested agents and HTTP retries").
WithinBudgets ==
  [][/\ phase = "ready" /\ phase' = "sending" =>
          \A i \in DOMAIN budgets : 0 < budgets[i] /\ timeout' <= budgets[i]
     /\ phase # "waiting" /\ phase' = "waiting" =>
          \A i \in DOMAIN budgets : due' < budgets[i]]_vars

\* A server that said when to come back is not asked before ("HTTP retries honor
\* Retry-After").
RetryAfterHonoured == phase \in Socket => forbidden = 0

\* A request ends, by its answer, its errors or its timeouts, however the server
\* behaves, if the body it sends is finite (timeouts are per chunk): retries end.
RequestEnds == phase # "idle" ~> phase = "idle"

=============================================================================
