------------------------------ MODULE LiveVoice ------------------------------
(***************************************************************************)
(* A live conversation on a ChainedVoiceSession: process_live_audio        *)
(* (voice/chained.py) with its two tasks.  The feeder passes what the      *)
(* caller says to one transcription session; the consumer, a generator the *)
(* host iterates, answers each final transcript with a turn of             *)
(* ChainedVoice and yields its speech.  Both look at one cancellation      *)
(* flag.  The host may also make bounded turns, before and after.          *)
(*                                                                         *)
(* Audio passed on without incident changes nothing here.  Not modelled:   *)
(* a live conversation and a bounded turn at the same time.                *)
(***************************************************************************)
EXTENDS ChainedVoice

VARIABLES
  consumer,     \* where process_live_audio is
  feeder,       \* the task _feed_live_audio
  transcripts,  \* transcriptions that have arrived and are not taken
  connection,   \* the transcription session
  leaving,      \* why the generator is in its finally clause
  outcome,      \* what the host got when the generator ended
  intercepted   \* history: the turn of the request the feeder took

liveVars == <<consumer, feeder, transcripts, connection, leaving, outcome,
              intercepted>>
allVars == <<vars, liveVars>>

LiveInit ==
  /\ Init
  /\ consumer = "off" /\ feeder = "none"
  /\ transcripts = <<>> /\ connection = "none"
  /\ leaving = "none" /\ outcome = "none"
  /\ intercepted = 0

Leave(reason) == consumer' = "closing" /\ leaving' = reason

\* process_live_audio as far as the first wait for a transcription.
Converse ==
  /\ consumer = "off" /\ stage = "idle" /\ ~closed /\ turn < MaxTurns
  /\ consumer' = "listening" /\ feeder' = "feeding"
  /\ transcripts' = <<>> /\ connection' = "open"
  /\ leaving' = "none" /\ outcome' = "none"
  /\ UNCHANGED <<vars, intercepted>>

-----------------------------------------------------------------------------
(* The feeder.  A cancelled task does not run on: nothing is fed while the  *)
(* generator is leaving.                                                    *)

Feeding == feeder = "feeding" /\ consumer # "closing"

\* The next input event finds the flag set, whoever it was meant for.
FeederIsCancelled ==
  /\ Feeding /\ CancelSeen
  /\ cancelled' = FALSE
  /\ feeder' = "cancelled"
  /\ intercepted' = requested.turn
  /\ UNCHANGED <<threaded, turnVars, closed, flowVars, hostVars, consumer,
                 transcripts, connection, leaving, outcome>>

TurnsToCome == Len(SelectSeq(transcripts, LAMBDA t : t = "final"))

\* commit_turn: the server transcribes the turn, with or without a partial text.
FeederCommits ==
  /\ Feeding /\ ~CancelSeen /\ connection = "open"
  /\ turn + TurnsToCome < MaxTurns
  /\ \E texts \in {<<"final">>, <<"delta", "final">>} :
       transcripts' = transcripts \o texts
  /\ UNCHANGED <<vars, consumer, feeder, connection, leaving, outcome, intercepted>>

\* An input that raises, an audio event without bytes, a send on a lost connection.
FeederFails ==
  /\ Feeding
  /\ feeder' = "failed"
  /\ UNCHANGED <<vars, consumer, transcripts, connection, leaving, outcome,
                 intercepted>>

\* The caller's input is over; the transcription session stays open.
FeederEnds ==
  /\ Feeding
  /\ feeder' = "done"
  /\ UNCHANGED <<vars, consumer, transcripts, connection, leaving, outcome,
                 intercepted>>

\* The server or the network ends the connection; what has arrived is still read.
HangUp ==
  /\ connection = "open" /\ consumer # "off"
  /\ connection' = "lost"
  /\ UNCHANGED <<vars, consumer, feeder, transcripts, leaving, outcome, intercepted>>

-----------------------------------------------------------------------------
(* The consumer.                                                            *)

\* _raise_if_turn_cancelled in the loop over transcriptions.
ListenerIsCancelled ==
  /\ consumer = "listening" /\ transcripts # <<>> /\ CancelSeen
  /\ cancelled' = FALSE
  /\ transcripts' = Tail(transcripts)
  /\ Leave("cancelled")
  /\ UNCHANGED <<threaded, turnVars, closed, flowVars, hostVars, feeder, connection,
                 outcome, intercepted>>

TakeDelta ==
  /\ consumer = "listening" /\ transcripts # <<>> /\ ~CancelSeen
  /\ Head(transcripts) = "delta"
  /\ transcripts' = Tail(transcripts)
  /\ UNCHANGED <<vars, consumer, feeder, connection, leaving, outcome, intercepted>>

\* A final transcript: _process_transcript_turn begins a turn, which goes to the
\* flow without an await.
TakeFinal ==
  /\ consumer = "listening" /\ transcripts # <<>> /\ ~CancelSeen
  /\ Head(transcripts) = "final"
  /\ transcripts' = Tail(transcripts)
  /\ turn' = turn + 1
  /\ stage' = "agent" /\ attempt' = 0 /\ pausing' = FALSE /\ lastTurn' = "none"
  /\ run' = [StartedRun EXCEPT !.turn = turn + 1]
  /\ consumer' = "answering"
  /\ UNCHANGED <<threaded, cancelled, closed, abandoned, session, continuation,
                 hostVars, feeder, connection, leaving, outcome, intercepted>>

TranscriptionsEnd ==
  /\ consumer = "listening" /\ transcripts = <<>> /\ connection = "lost"
  /\ \E reason \in {"finished", "failed"} : Leave(reason)
  /\ UNCHANGED <<vars, feeder, transcripts, connection, outcome, intercepted>>

\* The answer is yielded; a turn that ended otherwise ends the conversation.
AfterTurn ==
  \/ stage' # "idle" /\ UNCHANGED <<consumer, leaving>>
  \/ /\ stage' = "idle" /\ lastTurn' = "completed"
     /\ consumer' = "yielded" /\ UNCHANGED leaving
  \/ stage' = "idle" /\ lastTurn' # "completed" /\ Leave(lastTurn')

Answer ==
  /\ consumer = "answering"
  /\ TurnStep
  /\ AfterTurn
  /\ UNCHANGED <<feeder, transcripts, connection, outcome, intercepted>>

AnswerTimesOut ==
  /\ consumer = "answering"
  /\ TimeOut
  /\ AfterTurn
  /\ UNCHANGED <<feeder, transcripts, connection, outcome, intercepted>>

HostAsksOn ==
  /\ consumer = "yielded"
  /\ consumer' = "listening"
  /\ UNCHANGED <<vars, feeder, transcripts, connection, leaving, outcome, intercepted>>

-----------------------------------------------------------------------------
(* The end: aclose, a cancelled task, and the finally clause.               *)

HostClosesGenerator ==
  /\ consumer = "yielded"
  /\ Leave("closed")
  /\ UNCHANGED <<vars, feeder, transcripts, connection, outcome, intercepted>>

HostCancelsTask ==
  /\ \/ consumer = "answering" /\ CancelTask
     \/ consumer = "listening" /\ UNCHANGED vars
  /\ Leave("task_cancelled")
  /\ UNCHANGED <<feeder, transcripts, connection, outcome, intercepted>>

StopFeeder_OnlyAwait == FALSE
\* producer.cancel(), unless it is done.
StopFeeder == feeder = "feeding"

FeederStops ==
  /\ consumer = "closing" /\ StopFeeder
  /\ feeder' = "stopped"
  /\ UNCHANGED <<vars, consumer, transcripts, connection, leaving, outcome,
                 intercepted>>

Raised_Original == leaving
\* An exception of the feeder replaces whatever the generator ends with.
Raised == IF feeder \in {"cancelled", "failed"} THEN feeder ELSE leaving

\* The feeder is gathered and the transcription session closed.
FinallyEnds ==
  /\ consumer = "closing" /\ feeder # "feeding"
  /\ consumer' = "off"
  /\ connection' = "closed"
  /\ outcome' = Raised
  /\ UNCHANGED <<vars, feeder, transcripts, leaving, intercepted>>

\* Or its close raises: on a dead socket, or before anything was closed.  That is what
\* the host gets; the feeder's exception is not looked at any more.
CloseFails ==
  /\ consumer = "closing" /\ feeder # "feeding"
  /\ consumer' = "off"
  /\ connection' \in {connection, "closed"}
  /\ outcome' = "close_failed"
  /\ UNCHANGED <<vars, feeder, transcripts, leaving, intercepted>>

\* A task cancelled while it gathers the feeder does not come to close.
HostCancelsCleanup ==
  /\ consumer = "closing"
  /\ consumer' = "off"
  /\ feeder' = IF feeder = "feeding" THEN "stopped" ELSE feeder
  /\ outcome' = "cleanup_cancelled"
  /\ UNCHANGED <<vars, transcripts, connection, leaving, intercepted>>

Feeder == FeederIsCancelled \/ FeederCommits \/ FeederFails \/ FeederEnds
Listen == ListenerIsCancelled \/ TakeDelta \/ TakeFinal \/ TranscriptionsEnd

LiveNext ==
  \/ consumer = "off" /\ Next /\ UNCHANGED liveVars
  \/ consumer # "off" /\ Beside /\ UNCHANGED liveVars
  \/ Converse
  \/ Feeder
  \/ HangUp
  \/ Listen
  \/ Answer
  \/ AnswerTimesOut
  \/ HostAsksOn
  \/ HostClosesGenerator
  \/ HostCancelsTask
  \/ FeederStops
  \/ FinallyEnds
  \/ CloseFails
  \/ HostCancelsCleanup

LiveSpec == LiveInit /\ [][LiveNext]_allVars

\* As in ChainedVoice; the loop runs ready tasks, what has arrived is read, and the
\* host iterates the generator.  Nothing makes the caller speak or the server answer.
LiveFairSpec ==
  /\ LiveSpec
  /\ WF_allVars(consumer = "off" /\ TurnStep /\ UNCHANGED liveVars)
  /\ WF_allVars(Answer)
  /\ WF_allVars(Listen)
  /\ WF_allVars(HostAsksOn)
  /\ WF_allVars(FeederStops \/ FinallyEnds \/ CloseFails)

-----------------------------------------------------------------------------
(* Properties.                                                              *)

\* A turn whose cancellation was asked for before its speech began is completed
\* only if the feeder took the request and died of it.
CancelStopsOrIntercepted == CancelStops \/ intercepted = turn

\* Whatever ends a live conversation, its feeder is gone; and its connection is closed
\* and a fault of the feeder raised, unless the connection's close itself raises or the
\* task is cancelled once more in the middle of that.
ConversationCleanedUp ==
  consumer = "off" =>
    /\ feeder # "feeding"
    /\ outcome \notin {"cleanup_cancelled", "close_failed"} =>
         /\ connection \in {"none", "closed"}
         /\ feeder \in {"cancelled", "failed"} => outcome = feeder

\* Once the connection is lost the conversation ends, whatever the caller, the
\* feeder and the turn in progress are doing.
ConversationEnds == connection = "lost" ~> consumer = "off"

=============================================================================
