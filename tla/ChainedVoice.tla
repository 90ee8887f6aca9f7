----------------------------- MODULE ChainedVoice -----------------------------
(***************************************************************************)
(* ChainedVoiceSession (voice/chained.py): bounded turns of speech to      *)
(* text, flow and text to speech on one Session, with provider retries,    *)
(* cooperative cancellation, a timeout, the host cancelling the task, and  *)
(* close while a turn runs.  The host makes one turn at a time; it asks    *)
(* for cancellation and closes from other tasks.                           *)
(*                                                                         *)
(* A step is what the event loop runs between two awaits that suspend:     *)
(* reporting an event on the unbounded queue of voice_events is not one,   *)
(* and is left out.  A flow whose model has no acomplete runs in a worker  *)
(* thread, which a timeout or a cancelled task leaves behind.              *)
(***************************************************************************)
EXTENDS Naturals, Sequences

CONSTANTS
  MaxRetries,    \* VoiceTurnOptions.max_provider_retries
  MaxTurns,      \* bound: turns the host makes
  MaxCancels     \* bound: calls of cancel_current_turn

ASSUME VoiceAssumption ==
  MaxRetries \in Nat /\ MaxTurns \in Nat /\ MaxCancels \in Nat

VARIABLES
  threaded,      \* the model has no acomplete: Flow.run in a worker thread
  stage,         \* _turn_stage of the turn in progress, or "idle"
  turn,          \* the turn in progress or the last one
  attempt,       \* attempt of _with_provider_retry
  pausing,       \* the retry loop sleeps before the next attempt
  cancelled,     \* _turn_cancelled is set
  closed,        \* _closed
  lastTurn,      \* reason of last_turn, "none" for None
  run,           \* the flow run of the turn in progress
  abandoned,     \* flow runs left behind in threads
  session,       \* turns of the Session, and the turns each was run upon
  continuation,  \* the turn the continuation comes from
  requested,     \* history: turn and stage at the last cancel_current_turn
  cancels        \* history: calls of cancel_current_turn

turnVars == <<stage, turn, attempt, pausing, lastTurn>>
flowVars == <<run, abandoned, session, continuation>>
hostVars == <<requested, cancels>>
vars == <<threaded, turnVars, cancelled, closed, flowVars, hostVars>>

NoRun == [turn |-> 0, step |-> "none", saw |-> <<>>]
TurnsOf(log) == [i \in DOMAIN log |-> log[i].turn]

Init ==
  /\ threaded \in BOOLEAN
  /\ stage = "idle" /\ turn = 0 /\ attempt = 0 /\ pausing = FALSE
  /\ cancelled = FALSE /\ closed = FALSE
  /\ lastTurn = "none"
  /\ run = NoRun /\ abandoned = {}
  /\ session = <<>> /\ continuation = 0
  /\ requested = [turn |-> 0, stage |-> "idle"] /\ cancels = 0

-----------------------------------------------------------------------------
(* The turn.                                                                *)

FinishTurn(reason) ==
  /\ stage' = "idle" /\ attempt' = 0 /\ pausing' = FALSE
  /\ lastTurn' = reason

CancelSeen_Never == FALSE
CancelSeen == cancelled

\* _raise_if_turn_cancelled: the turn is cancelled, or goes on at a stage.
CheckCancelled(next, count) ==
  \/ /\ CancelSeen
     /\ cancelled' = FALSE
     /\ FinishTurn("cancelled")
  \/ /\ ~CancelSeen
     /\ stage' = next /\ attempt' = count /\ pausing' = FALSE
     /\ lastTurn' = "none"
     /\ UNCHANGED cancelled

\* process_audio up to the first await: a closed session fails the turn.
BeginTurn ==
  /\ stage = "idle" /\ turn < MaxTurns
  /\ turn' = turn + 1
  /\ \/ closed /\ FinishTurn("agent_failed") /\ UNCHANGED cancelled
     \/ ~closed /\ CheckCancelled("stt", 0)
  /\ UNCHANGED <<threaded, closed, flowVars, hostVars>>

\* The flow begins: a native one reads the session at once, a threaded one is
\* handed to the executor.
StartedRun ==
  IF threaded THEN [turn |-> turn, step |-> "queued", saw |-> <<>>]
  ELSE [turn |-> turn, step |-> "working", saw |-> TurnsOf(session)]

Transcribed ==
  /\ stage = "stt" /\ ~pausing
  /\ CheckCancelled("agent", 0)
  /\ run' = IF stage' = "agent" THEN StartedRun ELSE NoRun
  /\ UNCHANGED <<threaded, turn, closed, abandoned, session, continuation, hostVars>>

RetryLeft == attempt < MaxRetries

NextAttempt_Same == attempt
NextAttempt == attempt + 1

\* An exception ends the turn by its stage, a TimeoutError as a timeout.
Failures == {"timed_out"} \cup (CASE stage = "stt" -> {"stt_failed"}
                                  [] stage = "tts" -> {"tts_failed"}
                                  [] OTHER -> {"agent_failed"})

ProviderFails ==
  /\ stage \in {"stt", "tts"} /\ ~pausing
  /\ \/ /\ RetryLeft
        /\ attempt' = NextAttempt /\ pausing' = TRUE
        /\ UNCHANGED <<stage, lastTurn>>
     \/ ~RetryLeft /\ \E reason \in Failures : FinishTurn(reason)
  /\ UNCHANGED <<threaded, turn, cancelled, closed, flowVars, hostVars>>

TryAgain ==
  /\ pausing
  /\ CheckCancelled(stage, attempt)
  /\ UNCHANGED <<threaded, turn, closed, flowVars, hostVars>>

Synthesized ==
  /\ stage = "tts" /\ ~pausing
  /\ FinishTurn("completed")
  /\ UNCHANGED <<threaded, turn, cancelled, closed, flowVars, hostVars>>

-----------------------------------------------------------------------------
(* The flow run of a turn, in the event loop or in its thread.              *)

Read(r) == [r EXCEPT !.step = "working", !.saw = TurnsOf(session)]
Saved(r) == Append(session, [turn |-> r.turn, saw |-> r.saw])

ThreadReads ==
  /\ run.step = "queued"
  /\ run' = Read(run)
  /\ UNCHANGED <<threaded, turnVars, cancelled, closed, abandoned, session,
                 continuation, hostVars>>

\* Flow.run adds its items and returns in the thread; the loop learns of it later.
ThreadSaves ==
  /\ threaded /\ run.step = "working"
  /\ session' = Saved(run)
  /\ run' = [run EXCEPT !.step = "saved"]
  /\ UNCHANGED <<threaded, turnVars, cancelled, closed, abandoned, continuation,
                 hostVars>>

ContinuationAfter_Kept == continuation
ContinuationAfter == turn

\* run_async returns: the continuation is taken, and the answer goes to speech
\* unless the turn was cancelled.
FlowReturns ==
  /\ stage = "agent"
  /\ run.step = IF threaded THEN "saved" ELSE "working"
  /\ session' = IF threaded THEN session ELSE Saved(run)
  /\ continuation' = ContinuationAfter
  /\ run' = NoRun
  /\ CheckCancelled("tts", 0)
  /\ UNCHANGED <<threaded, turn, closed, abandoned, hostVars>>

FlowFails ==
  /\ stage = "agent" /\ run.step \in {"queued", "working"}
  /\ run' = NoRun
  /\ \E reason \in Failures : FinishTurn(reason)
  /\ UNCHANGED <<threaded, turn, cancelled, closed, abandoned, session, continuation,
                 hostVars>>

LeavesThread_Always == TRUE
\* A cancelled coroutine takes a native flow with it, but not a thread.
LeavesThread == threaded

\* What is left of the run of a turn that is interrupted: a thread that the
\* executor has not started yet is dropped with it.
Abandon ==
  /\ run' = NoRun
  /\ IF run.step \in {"queued", "working"} /\ LeavesThread
     THEN abandoned' \in {abandoned \cup {run}}
                           \cup (IF run.step = "queued" THEN {abandoned} ELSE {})
     ELSE UNCHANGED abandoned
  /\ UNCHANGED <<session, continuation>>

AbandonedReads(r) ==
  /\ r.step = "queued"
  /\ abandoned' = (abandoned \ {r}) \cup {Read(r)}
  /\ UNCHANGED <<threaded, turnVars, cancelled, closed, run, session, continuation,
                 hostVars>>

\* The thread of a turn given up long ago adds the turn to the session, or fails.
AbandonedEnds(r) ==
  /\ r.step = "working"
  /\ abandoned' = abandoned \ {r}
  /\ session' \in {session, Saved(r)}
  /\ UNCHANGED <<threaded, turnVars, cancelled, closed, run, continuation, hostVars>>

-----------------------------------------------------------------------------
(* The host.                                                                *)

\* timeout_seconds have passed at an await of the turn.
TimeOut ==
  /\ stage # "idle"
  /\ FinishTurn("timed_out")
  /\ Abandon
  /\ UNCHANGED <<threaded, turn, cancelled, closed, hostVars>>

\* The host cancels the task that awaits the turn: no clause of process_audio
\* catches CancelledError.
CancelTask ==
  /\ stage # "idle"
  /\ stage' = "idle" /\ attempt' = 0 /\ pausing' = FALSE
  /\ Abandon
  /\ UNCHANGED <<threaded, turn, lastTurn, cancelled, closed, hostVars>>

\* cancel_current_turn sets the flag at any time: between turns it is for the next.
CancelCurrentTurn ==
  /\ cancels < MaxCancels
  /\ cancelled' = TRUE
  /\ requested' = [turn |-> turn, stage |-> stage]
  /\ cancels' = cancels + 1
  /\ UNCHANGED <<threaded, turnVars, closed, flowVars>>

Close ==
  /\ ~closed
  /\ closed' = TRUE
  /\ UNCHANGED <<threaded, turnVars, cancelled, flowVars, hostVars>>

Over == stage = "idle" /\ turn = MaxTurns /\ UNCHANGED vars

TurnStep ==
  \/ Transcribed
  \/ ProviderFails
  \/ TryAgain
  \/ Synthesized
  \/ ThreadReads
  \/ ThreadSaves
  \/ FlowReturns
  \/ FlowFails

\* What goes on beside the turn: threads left behind, and the host's other tasks.
Beside ==
  \/ \E r \in abandoned : AbandonedReads(r) \/ AbandonedEnds(r)
  \/ CancelCurrentTurn
  \/ Close

Next ==
  \/ BeginTurn
  \/ TurnStep
  \/ TimeOut
  \/ CancelTask
  \/ Beside
  \/ Over

Spec == Init /\ [][Next]_vars

\* Providers and flows return or raise.  Nothing makes the timeout, a cancellation
\* or a close happen.
FairSpec == Spec /\ WF_vars(TurnStep)

-----------------------------------------------------------------------------
(* Properties.                                                              *)

\* A turn whose cancellation was asked for before its speech began is not
\* completed: whatever runs meanwhile, one of the checks sees the request.
CancelStops ==
  lastTurn = "completed" /\ requested.turn = turn => requested.stage \in {"tts", "idle"}

\* A completed turn is in the session once and the conversation continues from
\* it, even when threads of earlier turns still write to the session.
CompletedTurnKept ==
  lastTurn = "completed" =>
    /\ continuation = turn
    /\ \E i \in DOMAIN session :
         session[i].turn = turn /\ \A j \in DOMAIN session \ {i} : session[j].turn # turn

\* With a native model, timeouts, cancellations and failures leave a session in
\* which every turn was run upon exactly the turns before it, and continue from
\* the last of them.
TurnsBuildOnEachOther ==
  ~threaded =>
    /\ \A i \in DOMAIN session : session[i].saw = TurnsOf(SubSeq(session, 1, i - 1))
    /\ continuation = IF session = <<>> THEN 0 ELSE session[Len(session)].turn

\* Retries are bounded: if providers and the flow always answer or fail, every
\* turn ends, whether or not it has a timeout.
TurnEnds == stage # "idle" ~> stage = "idle"

\* Only the turn the host asked to cancel ends as cancelled, or the one after a
\* request made between turns.  (VoiceTurnCancelled: "The host requested cancellation
\* of the active chained voice turn.")
CancelHitsItsTurn ==
  lastTurn = "cancelled" => requested.turn = turn \/ requested.stage = "idle"

=============================================================================
