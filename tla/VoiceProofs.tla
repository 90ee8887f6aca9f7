----------------------------- MODULE VoiceProofs -----------------------------
(***************************************************************************)
(* The safety properties of the two kinds of voice session: of LiveVoice,  *)
(* its bounded turns included, for any number of retries, turns and        *)
(* cancellations, and of Realtime, for any agents, handoffs and number of  *)
(* calls.  The two share no definition.                                    *)
(*                                                                         *)
(* The argument for LiveVoice: a turn's run has read exactly the session   *)
(* it will be added to, unless a thread may add to it meanwhile; a turn is *)
(* in the session, in a run or in an abandoned thread, and in one of them  *)
(* once; and a cancellation that came in time stays set until the turn or  *)
(* the feeder takes it.                                                    *)
(*                                                                         *)
(* The argument for Realtime is over what its server has yet to read:      *)
(* reading it through, whatever is at its two ends, leaves the server in   *)
(* step with the active agent and with one output for each executed call.  *)
(***************************************************************************)
EXTENDS LiveVoice, Realtime, SequenceTheorems, TLAPS

Entries == [turn: Nat, saw: Seq(Nat)]
FlowRuns == [turn: Nat, step: {"none", "queued", "working", "saved"}, saw: Seq(Nat)]
Stages == {"idle", "stt", "agent", "tts"}

Types ==
  /\ threaded \in BOOLEAN /\ cancelled \in BOOLEAN
  /\ stage \in Stages /\ turn \in Nat
  /\ run \in FlowRuns /\ abandoned \in SUBSET FlowRuns
  /\ session \in Seq(Entries) /\ continuation \in Nat
  /\ requested \in [turn: Nat, stage: Stages]

InSession(t) == \E i \in DOMAIN session : session[i].turn = t
InThread(t) == \E r \in abandoned : r.turn = t

\* A native run works on the session as it read it.
Native ==
  ~threaded => /\ abandoned = {} /\ run.step \in {"none", "working"}
               /\ run.step = "working" => run.saw = TurnsOf(session)

\* Where a turn is, by the stage of the turn in progress.
Placed ==
  /\ \A i, j \in DOMAIN session : session[i].turn = session[j].turn => i = j
  /\ \A i \in DOMAIN session : session[i].turn <= turn
  /\ \A r \in abandoned : /\ r.turn <= turn /\ r.step \in {"queued", "working"}
                          /\ ~InSession(r.turn)
                          /\ \A s \in abandoned : s.turn = r.turn => s = r
  /\ run.step = "none" <=> stage # "agent"
  /\ stage = "agent" => run.turn = turn /\ ~InThread(turn)
  /\ run.step \in {"queued", "working"} => ~InSession(turn)
  /\ run.step = "saved" => InSession(turn)
  /\ stage = "stt" => ~InSession(turn) /\ ~InThread(turn)
  /\ stage = "tts" \/ lastTurn = "completed" =>
       continuation = turn /\ InSession(turn) /\ ~InThread(turn)
  /\ stage # "idle" => lastTurn = "none"
  /\ pausing => stage \in {"stt", "tts"}

\* A request that came before speech began is still set, or the feeder took it.
Heeded ==
  /\ requested.turn <= turn
  /\ requested.turn = turn /\ intercepted # turn =>
       /\ stage \in {"stt", "agent"} => cancelled
       /\ stage = "tts" \/ lastTurn = "completed" => requested.stage \in {"tts", "idle"}

Talking ==
  /\ consumer \in {"off", "listening", "answering", "yielded", "closing"}
  /\ consumer = "answering" => stage # "idle"
  /\ consumer \in {"listening", "yielded", "closing"} => stage = "idle"
  /\ consumer = "off" => feeder # "feeding"

TurnInv == Types /\ Native /\ Placed /\ TurnsBuildOnEachOther
Inv == TurnInv /\ Heeded /\ Talking /\ ConversationCleanedUp

-----------------------------------------------------------------------------
(* A session that grows by one turn.                                        *)

LEMMA TurnsOfType ==
  ASSUME NEW s \in Seq(Entries)
  PROVE  TurnsOf(s) \in Seq(Nat)
<1>1. DOMAIN s = 1..Len(s) /\ Len(s) \in Nat /\ \A i \in 1..Len(s) : s[i].turn \in Nat
  <2>1. \A i \in 1..Len(s) : s[i] \in Entries
    BY ElementOfSeq
  <2> QED
    BY <2>1, LenProperties DEF Entries
<1>2. TurnsOf(s) \in [1..Len(s) -> Nat]
  BY <1>1 DEF TurnsOf
<1> QED
  BY <1>1, <1>2, IsASeq

LEMMA Grown ==
  ASSUME NEW s \in Seq(Entries), NEW e \in Entries
  PROVE  /\ Append(s, e) \in Seq(Entries) /\ Append(s, e) # <<>>
         /\ Len(Append(s, e)) = Len(s) + 1 /\ Len(s) \in Nat
         /\ DOMAIN Append(s, e) = 1..(Len(s) + 1) /\ DOMAIN s = 1..Len(s)
         /\ \A i \in 1..Len(s) : Append(s, e)[i] = s[i]
         /\ Append(s, e)[Len(s) + 1] = e
<1>1. /\ Append(s, e) \in Seq(Entries) /\ Append(s, e) # <<>>
      /\ Len(Append(s, e)) = Len(s) + 1
      /\ \A i \in 1..Len(s) : Append(s, e)[i] = s[i]
      /\ Append(s, e)[Len(s) + 1] = e
  BY AppendProperties
<1>2. DOMAIN Append(s, e) = 1..(Len(s) + 1) /\ DOMAIN s = 1..Len(s) /\ Len(s) \in Nat
  BY <1>1, LenProperties
<1> QED
  BY <1>1, <1>2

\* What was there before a turn of a session is there when another turn is added.
LEMMA SameBefore ==
  ASSUME NEW s \in Seq(Entries), NEW e \in Entries, NEW i \in 1..(Len(s) + 1)
  PROVE  SubSeq(Append(s, e), 1, i - 1) = SubSeq(s, 1, i - 1)
<1> DEFINE t == Append(s, e)
<1>1. /\ t \in Seq(Entries) /\ Len(t) = Len(s) + 1 /\ Len(s) \in Nat
      /\ \A k \in 1..Len(s) : t[k] = s[k]
  BY Grown
<1> HIDE DEF t
<1>2. /\ SubSeq(t, 1, i - 1) \in Seq(Entries) /\ SubSeq(s, 1, i - 1) \in Seq(Entries)
      /\ Len(SubSeq(t, 1, i - 1)) = i - 1 /\ Len(SubSeq(s, 1, i - 1)) = i - 1
      /\ \A k \in 1..(i - 1) : SubSeq(t, 1, i - 1)[k] = t[k] /\ SubSeq(s, 1, i - 1)[k] = s[k]
  BY <1>1
<1>3. SubSeq(t, 1, i - 1) = SubSeq(s, 1, i - 1)
  BY <1>1, <1>2, SeqEqual
<1> QED
  BY <1>3 DEF t

LEMMA RunTypes ==
  ASSUME Types
  PROVE  /\ NoRun \in FlowRuns /\ StartedRun \in FlowRuns
         /\ \A r \in FlowRuns : /\ Read(r) \in FlowRuns
                                /\ [r EXCEPT !.step = "saved"] \in FlowRuns
                                /\ [turn |-> r.turn, saw |-> r.saw] \in Entries
<1>1. TurnsOf(session) \in Seq(Nat)
  BY TurnsOfType DEF Types
<1>2. <<>> \in Seq(Nat)
  BY EmptySeq
<1> QED
  BY <1>1, <1>2 DEF Types, NoRun, StartedRun, Read, FlowRuns, Entries

LEMMA Elements ==
  ASSUME Types
  PROVE  /\ \A i \in DOMAIN session : session[i] \in Entries /\ session[i].turn \in Nat
         /\ \A r \in abandoned : r \in FlowRuns /\ r.turn \in Nat
         /\ run.turn \in Nat
<1>1. \A i \in DOMAIN session : session[i] \in Entries
  BY ElementOfSeq, LenProperties DEF Types
<1> QED
  BY <1>1 DEF Types, Entries, FlowRuns

-----------------------------------------------------------------------------
(* The actions of a turn.                                                   *)

\* Steps that leave the session, the threads and the run alone.
LEMMA QuietSteps ==
  ASSUME TurnInv, BeginTurn \/ ProviderFails \/ TryAgain \/ Synthesized
  PROVE  TurnInv'
<1> USE DEF TurnInv
<1>1. UNCHANGED <<session, abandoned, continuation, threaded, run, requested>>
  BY DEF BeginTurn, ProviderFails, TryAgain, Synthesized, flowVars, hostVars
<1>2. TurnsBuildOnEachOther' /\ Native'
  BY <1>1 DEF TurnsBuildOnEachOther, TurnsOf, Native
<1>3. \A t : InSession(t)' = InSession(t) /\ InThread(t)' = InThread(t)
  BY <1>1 DEF InSession, InThread
<1>4. CASE BeginTurn
  <2>1. stage = "idle" /\ turn' = turn + 1 /\ stage' \in {"idle", "stt"} /\ cancelled' \in BOOLEAN
        /\ lastTurn' # "completed" /\ (stage' # "idle" => lastTurn' = "none") /\ pausing' = FALSE
    BY <1>4 DEF BeginTurn, CheckCancelled, FinishTurn, Types
  <2>2. Types'
    BY <1>1, <2>1 DEF Types, Stages
  <2>3. Placed'
    <3>1. /\ \A i \in DOMAIN session : session[i].turn < turn'
          /\ \A r \in abandoned : r.turn < turn'
      BY <2>1, Elements DEF Placed, Types
    <3>2. ~InSession(turn') /\ ~InThread(turn')
      <4> DEFINE next == turn'
      <4>1. next \in Nat /\ \A i \in DOMAIN session : session[i].turn \in Nat /\ session[i].turn < next
        BY <2>1, <3>1, Elements DEF Types
      <4>2. \A r \in abandoned : r.turn \in Nat /\ r.turn < next
        BY <3>1, Elements
      <4> HIDE DEF next
      <4>3. ~InSession(next) /\ ~InThread(next)
        BY <4>1, <4>2 DEF InSession, InThread
      <4> QED
        BY <4>3 DEF next
    <3> QED
      BY <1>1, <1>3, <2>1, <3>1, <3>2, Elements DEF Placed, Types
  <2> QED
    BY <1>2, <2>2, <2>3
<1>5. CASE ProviderFails \/ TryAgain \/ Synthesized
  <2>1. turn' = turn /\ stage' \in {"idle", stage} /\ cancelled' \in BOOLEAN
        /\ (lastTurn' = "completed" => stage = "tts" \/ lastTurn = "completed")
        /\ (stage' # "idle" => lastTurn' = "none") /\ (pausing' => stage' # "idle")
    BY <1>5 DEF ProviderFails, TryAgain, Synthesized, CheckCancelled, FinishTurn, Types, Failures, Placed
  <2>2. stage # "agent"
    BY <1>5 DEF ProviderFails, TryAgain, Synthesized, Placed
  <2>3. Types'
    BY <1>1, <2>1 DEF Types, Stages
  <2>4. Placed'
    BY <1>1, <1>3, <2>1, <2>2 DEF Placed, Types, Stages
  <2> QED
    BY <1>2, <2>3, <2>4
<1> QED
  BY <1>4, <1>5

LEMMA TranscribedKeeps ==
  ASSUME TurnInv, Transcribed
  PROVE  TurnInv'
<1> USE DEF TurnInv
<1>1. /\ UNCHANGED <<session, abandoned, continuation, threaded, requested, turn>>
      /\ stage = "stt" /\ run.step = "none" /\ cancelled' \in BOOLEAN
      /\ pausing' = FALSE /\ lastTurn' # "completed"
      /\ \/ stage' = "idle" /\ run' = NoRun
         \/ stage' = "agent" /\ run' = StartedRun /\ lastTurn' = "none"
  BY DEF Transcribed, CheckCancelled, FinishTurn, Types, Placed, flowVars, hostVars
<1>2. TurnsBuildOnEachOther'
  BY <1>1 DEF TurnsBuildOnEachOther, TurnsOf
<1>3. \A t : InSession(t)' = InSession(t) /\ InThread(t)' = InThread(t)
  BY <1>1 DEF InSession, InThread
<1>4. Types'
  BY <1>1, RunTypes DEF Types, Stages
<1>5. Native'
  BY <1>1 DEF Native, NoRun, StartedRun, TurnsOf
<1>6. Placed'
  BY <1>1, <1>3, Elements DEF Placed, NoRun, StartedRun
<1> QED
  BY <1>2, <1>4, <1>5, <1>6

LEMMA ThreadReadsKeeps ==
  ASSUME TurnInv, ThreadReads
  PROVE  TurnInv'
<1> USE DEF TurnInv
<1>1. /\ UNCHANGED <<session, abandoned, continuation, threaded, requested, turnVars, cancelled>>
      /\ run.step = "queued" /\ run' = Read(run)
  BY DEF ThreadReads, hostVars
<1>2. TurnsBuildOnEachOther'
  BY <1>1 DEF TurnsBuildOnEachOther, TurnsOf
<1>3. \A t : InSession(t)' = InSession(t) /\ InThread(t)' = InThread(t)
  BY <1>1 DEF InSession, InThread
<1>4. run'.step = "working" /\ run'.turn = run.turn /\ run' \in FlowRuns
  BY <1>1, RunTypes DEF Read, FlowRuns, Types
<1>5. Types'
  BY <1>1, <1>4 DEF Types, turnVars
<1>6. Native'
  BY <1>1 DEF Native
<1>7. Placed'
  BY <1>1, <1>3, <1>4 DEF Placed, turnVars
<1> QED
  BY <1>2, <1>5, <1>6, <1>7

\* A run that ends otherwise than by its own return, and what it leaves behind.
LEMMA Interrupted ==
  ASSUME TurnInv,
         UNCHANGED <<session, continuation, threaded, requested, turn>>,
         cancelled' \in BOOLEAN, run' = NoRun, stage' = "idle", pausing' = FALSE,
         lastTurn' # "completed",
         \/ abandoned' = abandoned
         \/ threaded /\ run.step \in {"queued", "working"} /\ abandoned' = abandoned \cup {run}
  PROVE  TurnInv'
<1> USE DEF TurnInv
<1>1. TurnsBuildOnEachOther'
  BY DEF TurnsBuildOnEachOther, TurnsOf
<1>2. \A t : InSession(t)' = InSession(t)
  BY DEF InSession
<1>3. NoRun \in FlowRuns /\ NoRun.step = "none"
  BY RunTypes DEF NoRun
<1>4. Types'
  BY <1>3 DEF Types, Stages
<1>5. Native'
  BY <1>3 DEF Native
<1>6. Placed'
  <2>1. CASE abandoned' = abandoned
    BY <1>2, <1>3, <2>1 DEF Placed, InThread
  <2>2. CASE run.step \in {"queued", "working"} /\ abandoned' = abandoned \cup {run}
    <3>1. run.turn = turn /\ ~InSession(turn) /\ \A r \in abandoned : r.turn # turn
      BY <2>2 DEF Placed, InThread
    <3>2. \A r \in abandoned' :
            /\ r.turn <= turn /\ r.step \in {"queued", "working"} /\ ~InSession(r.turn)
            /\ \A s \in abandoned' : s.turn = r.turn => s = r
      BY <2>2, <3>1, Elements DEF Placed, Types
    <3> QED
      BY <1>2, <1>3, <3>2 DEF Placed
  <2> QED
    BY <2>1, <2>2
<1> QED
  BY <1>1, <1>4, <1>5, <1>6

LEMMA InterruptionsKeep ==
  ASSUME TurnInv, FlowFails \/ TimeOut \/ CancelTask
  PROVE  TurnInv'
<1>1. /\ UNCHANGED <<session, continuation, threaded, requested, turn, cancelled>>
      /\ run' = NoRun /\ stage' = "idle" /\ pausing' = FALSE
      /\ \/ abandoned' = abandoned
         \/ threaded /\ run.step \in {"queued", "working"} /\ abandoned' = abandoned \cup {run}
  BY DEF FlowFails, TimeOut, CancelTask, FinishTurn, Abandon, LeavesThread, flowVars, hostVars
<1>2. lastTurn' # "completed"
  BY DEF FlowFails, TimeOut, CancelTask, FinishTurn, Failures, TurnInv, Placed
<1>3. cancelled' \in BOOLEAN
  BY <1>1 DEF TurnInv, Types
<1> QED
  BY <1>1, <1>2, <1>3, Interrupted

\* A session that grows by a turn keeps what Placed says of it.
LEMMA SavedEntry ==
  ASSUME Types, Placed, NEW r \in FlowRuns, ~InSession(r.turn), r.turn <= turn,
         session' = Saved(r)
  PROVE  /\ session' \in Seq(Entries)
         /\ \A i, j \in DOMAIN session' : session'[i].turn = session'[j].turn => i = j
         /\ \A i \in DOMAIN session' : session'[i].turn <= turn
         /\ \A t : InSession(t)' <=> InSession(t) \/ t = r.turn
<1> DEFINE e == [turn |-> r.turn, saw |-> r.saw]
<1>1. e \in Entries /\ e.turn = r.turn /\ session \in Seq(Entries) /\ session' = Append(session, e)
  BY RunTypes DEF Saved, Types
<1> HIDE DEF e
<1>2. /\ session' \in Seq(Entries) /\ Len(session) \in Nat
      /\ DOMAIN session' = 1..(Len(session) + 1) /\ DOMAIN session = 1..Len(session)
      /\ \A i \in 1..Len(session) : session'[i] = session[i]
      /\ session'[Len(session) + 1] = e
  BY <1>1, Grown
<1>3. \A i \in DOMAIN session : session[i].turn # r.turn
  BY DEF InSession
<1>4. \A t : InSession(t)' <=> InSession(t) \/ t = r.turn
  BY <1>1, <1>2 DEF InSession
<1>5. ASSUME NEW i \in DOMAIN session', NEW j \in DOMAIN session',
             session'[i].turn = session'[j].turn
      PROVE  i = j
  <2>1. CASE i \in DOMAIN session /\ j \in DOMAIN session
    BY <1>2, <1>5, <2>1 DEF Placed
  <2>2. CASE i \notin DOMAIN session \/ j \notin DOMAIN session
    BY <1>1, <1>2, <1>3, <1>5, <2>2
  <2> QED
    BY <2>1, <2>2
<1>6. \A i \in DOMAIN session' : session'[i].turn <= turn
  BY <1>1, <1>2 DEF Placed
<1> QED
  BY <1>2, <1>4, <1>5, <1>6

LEMMA ThreadSavesKeeps ==
  ASSUME TurnInv, ThreadSaves
  PROVE  TurnInv'
<1> USE DEF TurnInv
<1>1. /\ UNCHANGED <<abandoned, continuation, threaded, requested, turnVars, cancelled>>
      /\ threaded /\ run.step = "working" /\ session' = Saved(run)
      /\ run' = [run EXCEPT !.step = "saved"]
  BY DEF ThreadSaves, hostVars
<1>2. run \in FlowRuns /\ stage = "agent" /\ run.turn = turn /\ ~InSession(turn) /\ turn \in Nat
  BY <1>1 DEF Placed, Types
<1>3. /\ session' \in Seq(Entries)
      /\ \A i, j \in DOMAIN session' : session'[i].turn = session'[j].turn => i = j
      /\ \A i \in DOMAIN session' : session'[i].turn <= turn
      /\ \A t : InSession(t)' <=> InSession(t) \/ t = turn
  BY <1>1, <1>2, SavedEntry
<1>4. run' \in FlowRuns /\ run'.step = "saved" /\ run'.turn = turn
  BY <1>1, <1>2, RunTypes DEF FlowRuns
<1>5. Types'
  BY <1>1, <1>3, <1>4 DEF Types, turnVars
<1>6. Native' /\ TurnsBuildOnEachOther'
  BY <1>1 DEF Native, TurnsBuildOnEachOther
<1>7. \A t : InThread(t)' = InThread(t)
  BY <1>1 DEF InThread
<1>8. \A r \in abandoned : r.turn # turn
  BY <1>2 DEF Placed, InThread
<1>9. Placed'
  BY <1>1, <1>2, <1>3, <1>4, <1>7, <1>8 DEF Placed, turnVars
<1> QED
  BY <1>5, <1>6, <1>9

LEMMA FlowReturnsKeeps ==
  ASSUME TurnInv, FlowReturns
  PROVE  TurnInv'
<1> USE DEF TurnInv
<1>1. /\ UNCHANGED <<abandoned, threaded, requested, turn>>
      /\ stage = "agent" /\ continuation' = turn /\ run' = NoRun
      /\ cancelled' \in BOOLEAN /\ pausing' = FALSE
      /\ \/ stage' = "idle" /\ lastTurn' = "cancelled"
         \/ stage' = "tts" /\ lastTurn' = "none"
      /\ \/ threaded /\ run.step = "saved" /\ session' = session
         \/ ~threaded /\ run.step = "working" /\ session' = Saved(run)
  BY DEF FlowReturns, CheckCancelled, FinishTurn, ContinuationAfter, Types, hostVars
<1>2. run \in FlowRuns /\ run.turn = turn /\ turn \in Nat /\ ~InThread(turn)
      /\ NoRun \in FlowRuns /\ NoRun.step = "none"
  BY <1>1, RunTypes DEF Placed, Types, NoRun
<1>3. \A t : InThread(t)' = InThread(t)
  BY <1>1 DEF InThread
<1>4. CASE threaded /\ run.step = "saved" /\ session' = session
  <2>1. \A t : InSession(t)' = InSession(t)
    BY <1>4 DEF InSession
  <2>2. Types'
    BY <1>1, <1>2, <1>4 DEF Types, Stages
  <2>3. Native' /\ TurnsBuildOnEachOther'
    BY <1>1, <1>4 DEF Native, TurnsBuildOnEachOther
  <2>4. Placed'
    BY <1>1, <1>2, <1>3, <1>4, <2>1 DEF Placed
  <2> QED
    BY <2>2, <2>3, <2>4
<1>5. CASE ~threaded /\ run.step = "working" /\ session' = Saved(run)
  <2> DEFINE e == [turn |-> run.turn, saw |-> run.saw]
  <2>1. /\ e \in Entries /\ e.turn = turn /\ e.saw = TurnsOf(session)
        /\ session \in Seq(Entries) /\ session' = Append(session, e)
    BY <1>2, <1>5, RunTypes DEF Saved, Types, Native
  <2> HIDE DEF e
  <2>2. /\ session' # <<>> /\ Len(session') = Len(session) + 1 /\ Len(session) \in Nat
        /\ DOMAIN session' = 1..(Len(session) + 1) /\ DOMAIN session = 1..Len(session)
        /\ \A i \in 1..Len(session) : session'[i] = session[i]
        /\ session'[Len(session) + 1] = e
    BY <2>1, Grown
  <2>3. ~InSession(turn)
    BY <1>5 DEF Placed
  <2>4. /\ session' \in Seq(Entries)
        /\ \A i, j \in DOMAIN session' : session'[i].turn = session'[j].turn => i = j
        /\ \A i \in DOMAIN session' : session'[i].turn <= turn
        /\ \A t : InSession(t)' <=> InSession(t) \/ t = turn
    BY <1>2, <1>5, <2>3, SavedEntry
  <2>5. Types'
    BY <1>1, <1>2, <2>4 DEF Types, Stages
  <2>6. Native'
    BY <1>1, <1>2, <1>5 DEF Native
  <2>7. Placed'
    <3>1. abandoned = {}
      BY <1>5 DEF Native
    <3> QED
      BY <1>1, <1>2, <1>3, <2>4, <3>1 DEF Placed
  <2>8. ASSUME NEW i \in DOMAIN session'
        PROVE  session'[i].saw = TurnsOf(SubSeq(session', 1, i - 1))
    <3>1. SubSeq(session', 1, i - 1) = SubSeq(session, 1, i - 1)
      BY <2>1, <2>2, <2>8, SameBefore
    <3>2. CASE i \in 1..Len(session)
      BY <1>5, <2>2, <3>1, <3>2 DEF TurnsBuildOnEachOther
    <3>3. CASE i = Len(session) + 1
      <4>1. SubSeq(session, 1, i - 1) = session
        BY <2>1, <2>2, <3>3, SubSeqFull
      <4> QED
        BY <2>1, <2>2, <3>1, <3>3, <4>1
    <3> QED
      BY <2>2, <3>2, <3>3
  <2>9. continuation' = session'[Len(session')].turn
    BY <1>1, <2>1, <2>2
  <2>10. TurnsBuildOnEachOther'
    BY <2>2, <2>8, <2>9 DEF TurnsBuildOnEachOther
  <2> QED
    BY <2>5, <2>6, <2>7, <2>10
<1> QED
  BY <1>1, <1>4, <1>5

LEMMA AbandonedReadsKeeps ==
  ASSUME TurnInv, NEW r \in abandoned, AbandonedReads(r)
  PROVE  TurnInv'
<1> USE DEF TurnInv
<1>1. /\ UNCHANGED <<session, run, continuation, threaded, requested, turnVars, cancelled>>
      /\ abandoned' = (abandoned \ {r}) \cup {Read(r)}
  BY DEF AbandonedReads, hostVars
<1>2. r \in FlowRuns /\ Read(r) \in FlowRuns /\ Read(r).turn = r.turn /\ Read(r).step = "working"
  BY RunTypes DEF Types, Read, FlowRuns
<1>3. TurnsBuildOnEachOther'
  BY <1>1 DEF TurnsBuildOnEachOther, TurnsOf
<1>4. \A t : InSession(t)' = InSession(t)
  BY <1>1 DEF InSession
<1>5. \A t : InThread(t)' <=> InThread(t)
  BY <1>1, <1>2 DEF InThread
<1>6. Types'
  BY <1>1, <1>2 DEF Types, turnVars
<1>7. Native'
  BY <1>1 DEF Native
<1>8. \A p \in abandoned' : /\ p.turn <= turn /\ p.step \in {"queued", "working"}
                            /\ ~InSession(p.turn)
                            /\ \A q \in abandoned' : q.turn = p.turn => q = p
  BY <1>1, <1>2 DEF Placed
<1>9. Placed'
  BY <1>1, <1>4, <1>5, <1>8 DEF Placed, turnVars
<1> QED
  BY <1>3, <1>6, <1>7, <1>9

LEMMA AbandonedEndsKeeps ==
  ASSUME TurnInv, NEW r \in abandoned, AbandonedEnds(r)
  PROVE  TurnInv'
<1> USE DEF TurnInv
<1>1. /\ UNCHANGED <<run, continuation, threaded, requested, turnVars, cancelled>>
      /\ abandoned' = abandoned \ {r} /\ threaded
      /\ session' = session \/ session' = Saved(r)
  BY DEF AbandonedEnds, hostVars, Native
<1>2. r \in FlowRuns /\ ~InSession(r.turn) /\ r.turn <= turn
  BY DEF Placed, Types
<1>3. Native' /\ TurnsBuildOnEachOther'
  BY <1>1 DEF Native, TurnsBuildOnEachOther
<1>4. \A t : InThread(t)' => InThread(t) /\ t # r.turn
  BY <1>1 DEF InThread, Placed
<1>5. InThread(r.turn)
  BY DEF InThread
<1>6. /\ session' \in Seq(Entries)
      /\ \A i, j \in DOMAIN session' : session'[i].turn = session'[j].turn => i = j
      /\ \A i \in DOMAIN session' : session'[i].turn <= turn
      /\ \A t : InSession(t) => InSession(t)'
      /\ \A t : InSession(t)' => InSession(t) \/ t = r.turn
  <2>1. CASE session' = session
    BY <2>1 DEF Types, Placed, InSession
  <2>2. CASE session' = Saved(r)
    BY <1>2, <2>2, SavedEntry
  <2> QED
    BY <1>1, <2>1, <2>2
<1>7. Types'
  BY <1>1, <1>6 DEF Types, turnVars
<1>8. \A p \in abandoned' : p \in abandoned /\ p.turn # r.turn
  BY <1>1 DEF Placed
<1>9. Placed'
  BY <1>1, <1>4, <1>5, <1>6, <1>8 DEF Placed, turnVars
<1> QED
  BY <1>3, <1>7, <1>9

\* Steps that change none of this, or the cancellation flag alone.
LEMMA OthersKeep ==
  ASSUME TurnInv, UNCHANGED <<threaded, turnVars, flowVars>>, cancelled' \in BOOLEAN,
         requested' \in [turn: Nat, stage: Stages]
  PROVE  TurnInv'
<1> USE DEF TurnInv, flowVars, turnVars
<1>1. Types' /\ Native' /\ TurnsBuildOnEachOther'
  BY DEF Types, Native, TurnsBuildOnEachOther, TurnsOf
<1>2. \A t : InSession(t)' = InSession(t) /\ InThread(t)' = InThread(t)
  BY DEF InSession, InThread
<1>3. Placed'
  BY <1>2 DEF Placed
<1> QED
  BY <1>1, <1>3

LEMMA BesideKeeps ==
  ASSUME TurnInv, Beside
  PROVE  TurnInv'
<1>1. ASSUME NEW r \in abandoned, AbandonedReads(r) \/ AbandonedEnds(r)
      PROVE  TurnInv'
  BY <1>1, AbandonedReadsKeeps, AbandonedEndsKeeps
<1>2. CASE CancelCurrentTurn \/ Close
  <2>1. UNCHANGED <<threaded, turnVars, flowVars>>
    BY <1>2 DEF CancelCurrentTurn, Close
  <2>2. cancelled' \in BOOLEAN /\ requested' \in [turn: Nat, stage: Stages]
    <3>1. CASE CancelCurrentTurn
      BY <3>1 DEF CancelCurrentTurn, TurnInv, Types
    <3>2. CASE Close
      BY <3>2 DEF Close, TurnInv, Types, hostVars
    <3> QED
      BY <1>2, <3>1, <3>2
  <2> QED
    BY <2>1, <2>2, OthersKeep
<1> QED
  BY <1>1, <1>2 DEF Beside

LEMMA TurnStepKeeps ==
  ASSUME TurnInv, TurnStep
  PROVE  TurnInv'
  BY QuietSteps, TranscribedKeeps, ThreadReadsKeeps, ThreadSavesKeeps, FlowReturnsKeeps,
     InterruptionsKeep DEF TurnStep

LEMMA TakeFinalKeeps ==
  ASSUME TurnInv, Talking, TakeFinal
  PROVE  TurnInv'
<1> USE DEF TurnInv
<1>1. /\ UNCHANGED <<session, abandoned, continuation, threaded, requested, cancelled>>
      /\ stage = "idle" /\ turn' = turn + 1 /\ stage' = "agent" /\ pausing' = FALSE
      /\ lastTurn' = "none" /\ run' = [StartedRun EXCEPT !.turn = turn + 1]
  BY DEF TakeFinal, Talking, hostVars
<1>2. /\ run' \in FlowRuns /\ run'.turn = turn + 1 /\ run'.step \in {"queued", "working"}
      /\ ~threaded => run'.step = "working" /\ run'.saw = TurnsOf(session)
  <2>1. StartedRun \in FlowRuns /\ turn + 1 \in Nat
    BY RunTypes DEF Types
  <2>2. /\ StartedRun.step \in {"queued", "working"}
        /\ ~threaded => StartedRun.step = "working" /\ StartedRun.saw = TurnsOf(session)
    BY DEF StartedRun
  <2> HIDE DEF StartedRun
  <2> QED
    BY <1>1, <2>1, <2>2 DEF FlowRuns
<1>3. TurnsBuildOnEachOther'
  BY <1>1 DEF TurnsBuildOnEachOther, TurnsOf
<1>4. \A t : InSession(t)' = InSession(t) /\ InThread(t)' = InThread(t)
  BY <1>1 DEF InSession, InThread
<1>5. Types'
  BY <1>1, <1>2 DEF Types, Stages
<1>6. Native'
  BY <1>1, <1>2 DEF Native, TurnsOf
<1>7. \A i \in DOMAIN session : session[i].turn < turn + 1 /\ session[i].turn \in Nat
  BY Elements DEF Placed, Types
<1>8. \A r \in abandoned : r.turn < turn + 1 /\ r.turn \in Nat
  BY Elements DEF Placed, Types
<1>9. ~InSession(turn + 1) /\ ~InThread(turn + 1)
  BY <1>7, <1>8 DEF InSession, InThread, Types
<1>10. Placed'
  BY <1>1, <1>2, <1>4, <1>7, <1>8, <1>9 DEF Placed, Types
<1> QED
  BY <1>3, <1>5, <1>6, <1>10

-----------------------------------------------------------------------------
(* The live conversation.                                                   *)

LEMMA LiveStepKeepsTurns ==
  ASSUME Inv, [LiveNext]_allVars
  PROVE  TurnInv'
<1> USE DEF Inv
<1>1. CASE Next
  <2>1. CASE BeginTurn \/ TurnStep \/ TimeOut \/ CancelTask \/ Beside
    BY <2>1, QuietSteps, TurnStepKeeps, InterruptionsKeep, BesideKeeps
  <2>2. CASE Over
    BY <2>2, OthersKeep DEF Over, vars, TurnInv, Types, hostVars
  <2> QED
    BY <1>1, <2>1, <2>2 DEF Next
<1>2. CASE Beside
  BY <1>2, BesideKeeps
<1>3. CASE UNCHANGED vars
  BY <1>3, OthersKeep DEF vars, TurnInv, Types, hostVars
<1>4. CASE Answer \/ AnswerTimesOut \/ HostCancelsTask
  BY <1>3, <1>4, TurnStepKeeps, InterruptionsKeep DEF Answer, AnswerTimesOut, HostCancelsTask
<1>5. CASE TakeFinal
  BY <1>5, TakeFinalKeeps
<1>6. CASE FeederIsCancelled \/ ListenerIsCancelled
  <2>1. UNCHANGED <<threaded, turnVars, flowVars, requested>> /\ cancelled' = FALSE
    BY <1>6 DEF FeederIsCancelled, ListenerIsCancelled, hostVars
  <2> QED
    BY <2>1, OthersKeep DEF TurnInv, Types
<1>7. CASE \/ Converse \/ FeederCommits \/ FeederFails \/ FeederEnds \/ HangUp \/ TakeDelta
           \/ TranscriptionsEnd \/ HostAsksOn \/ HostClosesGenerator \/ FeederStops
           \/ FinallyEnds \/ CloseFails \/ HostCancelsCleanup \/ UNCHANGED allVars
  BY <1>3, <1>7 DEF Converse, FeederCommits, FeederFails, FeederEnds, HangUp, TakeDelta,
       TranscriptionsEnd, HostAsksOn, HostClosesGenerator, FeederStops, FinallyEnds, CloseFails,
       HostCancelsCleanup, allVars
<1> QED
  BY <1>1, <1>2, <1>4, <1>5, <1>6, <1>7 DEF LiveNext, Feeder, Listen

\* What the actions of a turn do to a request for its cancellation.
LEMMA TurnHeeds ==
  ASSUME TurnInv, Heeded, intercepted' = intercepted,
         BeginTurn \/ TurnStep \/ TimeOut \/ CancelTask \/ CancelCurrentTurn
  PROVE  Heeded'
<1> USE DEF TurnInv
<1>1. turn \in Nat /\ requested.turn \in Nat /\ (stage # "idle" => lastTurn = "none")
  BY DEF Types, Placed
<1>2. CASE BeginTurn
  <2>1. turn' = turn + 1 /\ requested' = requested
    BY <1>2 DEF BeginTurn, hostVars
  <2> QED
    BY <1>1, <2>1 DEF Heeded
<1>3. CASE CancelCurrentTurn
  <2>1. /\ requested'.turn = turn /\ requested'.stage = stage /\ cancelled' = TRUE
        /\ UNCHANGED <<turn, stage, lastTurn>>
    BY <1>3 DEF CancelCurrentTurn, turnVars
  <2> QED
    BY <1>1, <2>1 DEF Heeded
<1>4. CASE TimeOut \/ CancelTask \/ FlowFails
  <2>1. /\ UNCHANGED <<turn, requested>> /\ stage' = "idle" /\ lastTurn' # "completed"
    BY <1>1, <1>4 DEF TimeOut, CancelTask, FlowFails, FinishTurn, Failures, hostVars
  <2> QED
    BY <2>1 DEF Heeded
<1>5. CASE Transcribed \/ TryAgain
  <2>1. /\ UNCHANGED <<turn, requested>>
        /\ \/ stage' = "idle" /\ lastTurn' = "cancelled"
           \/ /\ cancelled' = cancelled /\ lastTurn' = "none"
              /\ stage' = stage \/ (stage = "stt" /\ stage' = "agent")
    BY <1>5 DEF Transcribed, TryAgain, CheckCancelled, FinishTurn, hostVars
  <2> QED
    BY <2>1 DEF Heeded
<1>6. CASE ProviderFails
  <2>1. /\ UNCHANGED <<turn, requested, cancelled>>
        /\ \/ stage' = "idle" /\ lastTurn' # "completed"
           \/ stage' = stage /\ lastTurn' = lastTurn
    BY <1>6 DEF ProviderFails, FinishTurn, Failures, hostVars
  <2> QED
    BY <2>1 DEF Heeded
<1>7. CASE Synthesized
  <2>1. UNCHANGED <<turn, requested, cancelled>> /\ stage = "tts" /\ stage' = "idle"
    BY <1>7 DEF Synthesized, FinishTurn, hostVars
  <2> QED
    BY <2>1 DEF Heeded
<1>8. CASE ThreadReads \/ ThreadSaves
  <2>1. UNCHANGED <<turn, requested, cancelled, stage, lastTurn>>
    BY <1>8 DEF ThreadReads, ThreadSaves, turnVars, hostVars
  <2> QED
    BY <2>1 DEF Heeded
<1>9. CASE FlowReturns
  <2>1. /\ UNCHANGED <<turn, requested>> /\ stage = "agent" /\ lastTurn' # "completed"
        /\ stage' = "idle" \/ (stage' = "tts" /\ ~cancelled)
    BY <1>9 DEF FlowReturns, CheckCancelled, CancelSeen, FinishTurn, hostVars
  <2> QED
    BY <2>1 DEF Heeded
<1> QED
  BY <1>2, <1>3, <1>4, <1>5, <1>6, <1>7, <1>8, <1>9 DEF TurnStep

LEMMA LiveStepHeeds ==
  ASSUME Inv, [LiveNext]_allVars
  PROVE  Heeded'
<1> USE DEF Inv
<1>1. ASSUME UNCHANGED <<turn, requested, cancelled, stage, lastTurn, intercepted>>
      PROVE  Heeded'
  BY <1>1 DEF Heeded
<1>2. CASE Beside /\ UNCHANGED liveVars
  <2>1. CASE CancelCurrentTurn
    BY <1>2, <2>1, TurnHeeds DEF liveVars
  <2>2. CASE Close \/ \E r \in abandoned : AbandonedReads(r) \/ AbandonedEnds(r)
    <3>1. UNCHANGED <<turn, requested, cancelled, stage, lastTurn>>
      BY <2>2 DEF Close, AbandonedReads, AbandonedEnds, turnVars, hostVars
    <3> QED
      BY <1>1, <1>2, <3>1 DEF liveVars
  <2> QED
    BY <1>2, <2>1, <2>2 DEF Beside
<1>3. CASE Next /\ UNCHANGED liveVars
  <2>1. CASE BeginTurn \/ TurnStep \/ TimeOut \/ CancelTask
    BY <1>3, <2>1, TurnHeeds DEF liveVars
  <2>2. CASE Over
    BY <1>1, <1>3, <2>2 DEF Over, vars, turnVars, hostVars, liveVars
  <2> QED
    BY <1>2, <1>3, <2>1, <2>2 DEF Next
<1>4. CASE Answer \/ AnswerTimesOut \/ HostCancelsTask
  <2>1. intercepted' = intercepted
    BY <1>4 DEF Answer, AnswerTimesOut, HostCancelsTask
  <2>2. CASE TurnStep \/ TimeOut \/ CancelTask
    BY <2>1, <2>2, TurnHeeds
  <2>3. CASE UNCHANGED vars
    BY <1>1, <2>1, <2>3 DEF vars, turnVars, hostVars
  <2> QED
    BY <1>4, <2>2, <2>3 DEF Answer, AnswerTimesOut, HostCancelsTask
<1>5. CASE TakeFinal
  <2>1. turn' = turn + 1 /\ requested' = requested /\ turn \in Nat /\ requested.turn \in Nat
    BY <1>5 DEF TakeFinal, hostVars, TurnInv, Types
  <2> QED
    BY <2>1 DEF Heeded
<1>6. CASE FeederIsCancelled
  BY <1>6 DEF FeederIsCancelled, Heeded, turnVars, hostVars
<1>7. CASE ListenerIsCancelled
  <2>1. UNCHANGED <<turn, requested, stage, lastTurn, intercepted>> /\ stage = "idle"
    BY <1>7 DEF ListenerIsCancelled, turnVars, hostVars, Talking
  <2> QED
    BY <2>1 DEF Heeded
<1>8. CASE \/ Converse \/ FeederCommits \/ FeederFails \/ FeederEnds \/ HangUp \/ TakeDelta
           \/ TranscriptionsEnd \/ HostAsksOn \/ HostClosesGenerator \/ FeederStops
           \/ FinallyEnds \/ CloseFails \/ HostCancelsCleanup \/ UNCHANGED allVars
  <2>1. UNCHANGED vars /\ intercepted' = intercepted
    BY <1>8 DEF Converse, FeederCommits, FeederFails, FeederEnds, HangUp, TakeDelta,
         TranscriptionsEnd, HostAsksOn, HostClosesGenerator, FeederStops, FinallyEnds, CloseFails,
         HostCancelsCleanup, allVars, liveVars
  <2> QED
    BY <1>1, <2>1 DEF vars, turnVars, hostVars
<1> QED
  BY <1>2, <1>3, <1>4, <1>5, <1>6, <1>7, <1>8 DEF LiveNext, Feeder, Listen

LEMMA LiveStepCleansUp ==
  ASSUME Inv, [LiveNext]_allVars
  PROVE  Talking' /\ ConversationCleanedUp'
<1> USE DEF Inv, Talking, ConversationCleanedUp
<1>1. CASE consumer = "off" /\ UNCHANGED liveVars
  BY <1>1 DEF liveVars
<1>2. CASE Beside /\ UNCHANGED liveVars
  <2>1. stage' = stage
    BY <1>2 DEF Beside, CancelCurrentTurn, Close, AbandonedReads, AbandonedEnds, turnVars
  <2> QED
    BY <1>2, <2>1 DEF liveVars
<1>3. CASE Converse
  BY <1>3 DEF Converse, vars, turnVars
<1>4. CASE Feeder
  <2>1. /\ feeder = "feeding" /\ UNCHANGED <<consumer, stage>>
    BY <1>4 DEF Feeder, Feeding, FeederIsCancelled, FeederCommits, FeederFails, FeederEnds,
         vars, turnVars
  <2> QED
    BY <2>1
<1>5. CASE HangUp
  BY <1>5 DEF HangUp, vars, turnVars
<1>6. CASE Listen
  <2>1. /\ consumer = "listening" /\ feeder' = feeder
        /\ \/ consumer' \in {"listening", "closing"} /\ stage' = stage
           \/ consumer' = "answering" /\ stage' = "agent"
    BY <1>6 DEF Listen, ListenerIsCancelled, TakeDelta, TakeFinal, TranscriptionsEnd, Leave,
         vars, turnVars
  <2> QED
    BY <2>1
<1>7. CASE Answer \/ AnswerTimesOut
  <2>1. /\ consumer = "answering" /\ feeder' = feeder
        /\ \/ stage' # "idle" /\ consumer' = consumer
           \/ stage' = "idle" /\ consumer' \in {"yielded", "closing"}
    BY <1>7 DEF Answer, AnswerTimesOut, AfterTurn, Leave
  <2> QED
    BY <2>1
<1>8. CASE HostAsksOn \/ HostClosesGenerator
  BY <1>8 DEF HostAsksOn, HostClosesGenerator, Leave, vars, turnVars
<1>9. CASE HostCancelsTask
  <2>1. consumer' = "closing" /\ stage' = "idle"
    BY <1>9 DEF HostCancelsTask, CancelTask, Leave, vars, turnVars
  <2> QED
    BY <2>1
<1>10. CASE FeederStops
  BY <1>10 DEF FeederStops, vars, turnVars
<1>11. CASE FinallyEnds
  BY <1>11 DEF FinallyEnds, Raised
<1>12. CASE CloseFails
  BY <1>12 DEF CloseFails
<1>13. CASE HostCancelsCleanup
  BY <1>13 DEF HostCancelsCleanup
<1>14. CASE UNCHANGED allVars
  BY <1>14 DEF allVars, liveVars, vars, turnVars
<1> QED
  BY <1>1, <1>2, <1>3, <1>4, <1>5, <1>6, <1>7, <1>8, <1>9, <1>10, <1>11, <1>12, <1>13,
     <1>14 DEF LiveNext

LEMMA LiveInitInv ==
  ASSUME LiveInit
  PROVE  Inv
<1> USE DEF LiveInit, Init
<1>1. <<>> \in Seq(Entries) /\ <<>> \in Seq(Nat) /\ DOMAIN <<>> = {}
  BY EmptySeq
<1>2. NoRun \in FlowRuns /\ NoRun.step = "none"
  BY <1>1 DEF NoRun, FlowRuns
<1>3. Types
  BY <1>1, <1>2 DEF Types, Stages
<1>4. Native /\ Placed /\ TurnsBuildOnEachOther
  BY <1>1, <1>2 DEF Native, Placed, TurnsBuildOnEachOther
<1>5. Heeded /\ Talking /\ ConversationCleanedUp
  BY DEF Heeded, Talking, ConversationCleanedUp
<1> QED
  BY <1>3, <1>4, <1>5 DEF Inv, TurnInv

THEOREM Invariance == LiveSpec => []Inv
<1>1. LiveInit => Inv
  BY LiveInitInv
<1>2. Inv /\ [LiveNext]_allVars => Inv'
  BY LiveStepKeepsTurns, LiveStepHeeds, LiveStepCleansUp DEF Inv
<1> QED
  BY <1>1, <1>2, PTL DEF LiveSpec

-----------------------------------------------------------------------------
\* With a native model every turn of a session, bounded or live, was run upon exactly
\* the turns before it, whatever interrupted others (chained.py:288-302).
THEOREM TurnsBuild == LiveSpec => []TurnsBuildOnEachOther
<1>1. Inv => TurnsBuildOnEachOther
  BY DEF Inv, TurnInv
<1> QED
  BY <1>1, Invariance, PTL

\* A completed turn is in the session once and is what the conversation continues
\* from, also while threads of earlier turns write to it (chained.py:301, flow.py:147).
THEOREM CompletedTurnIsKept == LiveSpec => []CompletedTurnKept
<1>1. Inv => CompletedTurnKept
  BY DEF Inv, TurnInv, Placed, InSession, CompletedTurnKept
<1> QED
  BY <1>1, Invariance, PTL

\* A turn that the host asked to cancel before its speech is completed only if the
\* feeder of a live conversation took the request (chained.py:192, 319-322).
THEOREM CancellationStops == LiveSpec => []CancelStopsOrIntercepted
<1>1. Inv => CancelStopsOrIntercepted
  BY DEF Inv, Heeded, CancelStopsOrIntercepted, CancelStops
<1> QED
  BY <1>1, Invariance, PTL

\* A live conversation that has ended has left no feeder; and it has left no connection
\* and has raised what its feeder raised, unless the close of the connection raised or
\* the task was cancelled during the cleanup (chained.py:178-188).
THEOREM CleanedUp == LiveSpec => []ConversationCleanedUp
<1>1. Inv => ConversationCleanedUp
  BY DEF Inv
<1> QED
  BY <1>1, Invariance, PTL

-----------------------------------------------------------------------------
(* The realtime session.  What the server has yet to read is what is on its *)
(* way and what the handler has yet to send, in this order.  Read to its    *)
(* end it leaves the server in step; the invariant says so of every         *)
(* moment, in terms that a step at either end of it keeps.                  *)

Messages == [kind: {"update", "create"}, agent: Agents] \cup [kind: {"output"}, call: Nat]
Events == [kind: {"call"}, call: Nat] \cup [kind: {"error", "ended", "garbage"}]
Notices == [kind: {"error", "ended"}, reason: Reasons]

Unread == toServer \o todo

\* The server, which offers the tools of s, offers those of a after k messages of q.
Shown(s, q, k, a) ==
  \/ a = s /\ \A j \in 1..k : q[j].kind # "update"
  \/ \E j \in 1..k : q[j] = Update(a) /\ \A l \in (j + 1)..k : q[l].kind # "update"

\* The calls whose outputs are in q, each there once.
Due(q) == {q[i].call : i \in {j \in DOMAIN q : q[j].kind = "output"}}
DueOnce(q) ==
  \A i, j \in DOMAIN q : q[i].kind = "output" /\ q[j].kind = "output" /\ q[i].call = q[j].call
                         => i = j


\* Reading q the server, which offers the tools of s, is asked to go on only on the
\* surface of the agent that asks, and ends up with that of a.
Offers(s, q, a) ==
  /\ \A k \in DOMAIN q : q[k].kind = "create" => Shown(s, q, k, q[k].agent)
  /\ Shown(s, q, Len(q), a)
Asks(now, q) == IF q = <<>> THEN now ELSE q[Len(q)].kind = "create"

\* With the outputs of q it has one of each call that is done.
Answers(sent, q, done) ==
  /\ Once(sent) /\ DueOnce(q) /\ Due(q) \cap CallsIn(sent) = {}
  /\ Due(q) \cup CallsIn(sent) = done

Executing == IF doing = "executing" THEN {event.call} ELSE {}

SessionTypes ==
  /\ current_agent \in Agents /\ surface \in Agents
  /\ calls \in Seq(Callable) /\ Len(calls) <= MaxCalls
  /\ handled \subseteq DOMAIN calls
  /\ toServer \in Seq(Messages) /\ todo \in Seq(Messages) /\ toClient \in Seq(Events)
  /\ \A i \in DOMAIN toClient : toClient[i].kind = "call" => toClient[i].call \in DOMAIN calls
  /\ voiceQueue \in Seq(Nat) /\ work \in Seq(Nat) /\ told \in Seq(Nat) /\ outputs \in Seq(Nat)
  /\ terminationReason \in {"none", "application", "completed", "caller"}
  /\ conn \in {"open", "lost", "closed"} /\ closing \in BOOLEAN /\ asked \in BOOLEAN
  /\ endings \in Seq(Notices)

Course ==
  /\ doing \in {"receiving", "executing", "sending", "reporting", "over"}
  /\ doing # "over" => (doing = "sending" <=> todo # <<>>)
  /\ doing = "executing" => event.call \in handled

\* What was done is what was reported and what is queued.
Reporting ==
  /\ work = told \o voiceQueue
  /\ Once(work) /\ CallsIn(work) \subseteq handled \ Executing
  /\ doing \in {"receiving", "executing"} => voiceQueue = <<>>

\* Every call that was executed has its output with the server or on its way.
Answering ==
  /\ Once(outputs) /\ CallsIn(outputs) \subseteq handled
  /\ doing # "over" => Answers(outputs, Unread, handled \ Executing)

\* What the server offers when it is asked to go on, and when it has read all.
Offering ==
  /\ toServer # <<>> /\ Head(toServer).kind = "create" => surface = Head(toServer).agent
  /\ doing # "over" => Offers(surface, Unread, current_agent) /\ Asks(asked, Unread)

ClosedByReason == closing \/ conn = "closed" => terminationReason # "none"

SessionInv ==
  SessionTypes /\ Course /\ Reporting /\ Answering /\ Offering /\ ClosedByReason

-----------------------------------------------------------------------------
(* Sequences of calls.                                                      *)

LEMMA OnceMore ==
  ASSUME NEW s \in Seq(Nat), Once(s), NEW c \in Nat, c \notin CallsIn(s)
  PROVE  Once(Append(s, c)) /\ CallsIn(Append(s, c)) = CallsIn(s) \cup {c}
<1> DEFINE t == Append(s, c)
<1>1. /\ t \in Seq(Nat) /\ Len(t) = Len(s) + 1 /\ t[Len(s) + 1] = c
      /\ \A i \in 1..Len(s) : t[i] = s[i]
      /\ Len(s) \in Nat /\ DOMAIN s = 1..Len(s)
  BY AppendProperties, LenProperties
<1>2. DOMAIN t = 1..(Len(s) + 1)
  BY <1>1, LenProperties
<1> HIDE DEF t
<1>3. \A i \in DOMAIN s : s[i] # c
  BY DEF CallsIn
<1>4. Once(t)
  BY <1>1, <1>2, <1>3 DEF Once
<1>5. CallsIn(t) = CallsIn(s) \cup {c}
  <2>1. \A i \in DOMAIN t : t[i] \in CallsIn(s) \cup {c}
    BY <1>1, <1>2 DEF CallsIn
  <2>2. c \in CallsIn(t)
    BY <1>1, <1>2 DEF CallsIn
  <2>3. CallsIn(s) \subseteq CallsIn(t)
    BY <1>1, <1>2 DEF CallsIn
  <2>4. CallsIn(t) \subseteq CallsIn(s) \cup {c}
    BY <2>1 DEF CallsIn
  <2> QED
    BY <2>2, <2>3, <2>4
<1> QED
  BY <1>4, <1>5 DEF t

-----------------------------------------------------------------------------
(* Messages that are read and sent.                                         *)

LEMMA MessageKinds ==
  /\ \A m \in Messages : m.kind \in {"update", "create", "output"}
  /\ \A m \in Messages : m.kind = "output" => m.call \in Nat
  /\ \A m \in Messages : m.kind # "output" => m.agent \in Agents
  /\ \A m \in Messages : m.kind = "update" => m = Update(m.agent)
  /\ \A a \in Agents : /\ Update(a) \in Messages /\ Update(a).kind = "update"
                       /\ Create(a) \in Messages /\ Create(a).kind = "create"
                       /\ Create(a).agent = a /\ Update(a).agent = a
  /\ \A c \in Nat : Output(c) \in Messages /\ Output(c).kind = "output" /\ Output(c).call = c
BY DEF Messages, Update, Create, Output

\* The server reads a message.
LEMMA ShownAfterReading ==
  ASSUME NEW q \in Seq(Messages), q # <<>>, NEW s, NEW a, NEW k \in 0..(Len(q) - 1),
         Shown(s, q, k + 1, a)
  PROVE  Shown(IF Head(q).kind = "update" THEN Head(q).agent ELSE s, Tail(q), k, a)
<1> DEFINE t == IF Head(q).kind = "update" THEN Head(q).agent ELSE s
           p == Tail(q)
<1>1. /\ Len(q) \in Nat /\ Len(q) > 0 /\ Head(q) = q[1] /\ Len(p) = Len(q) - 1
      /\ \A i \in 1..(Len(q) - 1) : p[i] = q[i + 1]
  BY HeadTailProperties, EmptySeq, LenProperties
<1> HIDE DEF p
<1>2. CASE a = s /\ \A j \in 1..(k + 1) : q[j].kind # "update"
  <2>1. t = s
    BY <1>1, <1>2
  <2>2. \A j \in 1..k : p[j].kind # "update"
    BY <1>1, <1>2
  <2> QED
    BY <1>2, <2>1, <2>2 DEF Shown, p
<1>3. ASSUME NEW j \in 1..(k + 1), q[j] = Update(a),
             \A l \in (j + 1)..(k + 1) : q[l].kind # "update"
      PROVE  Shown(t, p, k, a)
  <2>1. CASE j = 1
    <3>1. t = a
      BY <1>1, <1>3, <2>1 DEF Update
    <3>2. \A l \in 1..k : p[l].kind # "update"
      BY <1>1, <1>3, <2>1
    <3> QED
      BY <3>1, <3>2 DEF Shown
  <2>2. CASE j # 1
    <3>1. j - 1 \in 1..k /\ p[j - 1] = Update(a)
      BY <1>1, <1>3, <2>2
    <3>2. \A l \in ((j - 1) + 1)..k : p[l].kind # "update"
      BY <1>1, <1>3, <2>2
    <3> QED
      BY <3>1, <3>2 DEF Shown
  <2> QED
    BY <2>1, <2>2
<1>4. Shown(t, p, k, a)
  BY <1>2, <1>3 DEF Shown, p
<1> QED
  BY <1>4 DEF p

LEMMA ReadingKeepsStep ==
  ASSUME NEW q \in Seq(Messages), q # <<>>, NEW s, NEW a, NEW now, Offers(s, q, a), Asks(now, q)
  PROVE  /\ Offers(IF Head(q).kind = "update" THEN Head(q).agent ELSE s, Tail(q), a)
         /\ Asks(IF Head(q).kind = "update" THEN now ELSE Head(q).kind = "create", Tail(q))
         /\ Head(q).kind = "create" => s = Head(q).agent
<1> DEFINE t == IF Head(q).kind = "update" THEN Head(q).agent ELSE s
           p == Tail(q)
<1>1. /\ Len(q) \in Nat /\ Len(q) > 0 /\ Head(q) = q[1] /\ Len(p) = Len(q) - 1
      /\ DOMAIN q = 1..Len(q) /\ DOMAIN p = 1..Len(p)
      /\ \A i \in 1..(Len(q) - 1) : p[i] = q[i + 1]
      /\ p \in Seq(Messages)
  BY HeadTailProperties, EmptySeq, LenProperties
<1>0. p = <<>> <=> Len(p) = 0
  BY <1>1, EmptySeq
<1>2. \A k \in 0..(Len(q) - 1) : \A b : Shown(s, q, k + 1, b) => Shown(t, p, k, b)
  BY ShownAfterReading
<1> HIDE DEF p, t
<1>3. ASSUME NEW k \in DOMAIN p, p[k].kind = "create" PROVE Shown(t, p, k, p[k].agent)
  <2>1. k + 1 \in DOMAIN q /\ p[k] = q[k + 1] /\ k \in 0..(Len(q) - 1)
    BY <1>1
  <2>2. Shown(s, q, k + 1, p[k].agent)
    BY <1>3, <2>1 DEF Offers
  <2> QED
    BY <1>2, <2>1, <2>2
<1>4. Shown(t, p, Len(p), a)
  <2>1. Len(p) \in 0..(Len(q) - 1) /\ Len(p) + 1 = Len(q)
    BY <1>1
  <2> QED
    BY <1>2, <2>1 DEF Offers
<1>5. Asks(IF Head(q).kind = "update" THEN now ELSE Head(q).kind = "create", p)
  <2>1. q # <<>> /\ q[Len(q)].kind = "create"
    BY DEF Asks
  <2>2. CASE p = <<>>
    <3>1. Len(q) = 1
      BY <1>0, <1>1, <2>2
    <3>2. q[1].kind = "create" /\ Head(q) = q[1]
      BY <1>1, <2>1, <3>1
    <3> QED
      BY <2>2, <3>2 DEF Asks
  <2>3. CASE p # <<>>
    <3>1. p[Len(p)].kind = "create"
      BY <1>0, <1>1, <2>1, <2>3
    <3> QED
      BY <2>3, <3>1 DEF Asks
  <2> QED
    BY <2>2, <2>3
<1>6. Head(q).kind = "create" => s = Head(q).agent
  <2>1. ASSUME Head(q).kind = "create" PROVE s = Head(q).agent
    <3>1. q[1].kind = "create" /\ Shown(s, q, 1, q[1].agent)
      BY <1>1, <2>1 DEF Offers
    <3>2. q[1] # Update(q[1].agent)
      BY <3>1 DEF Update
    <3> QED
      BY <1>1, <3>1, <3>2 DEF Shown
  <2> QED
    BY <2>1
<1> QED
  BY <1>3, <1>4, <1>5, <1>6 DEF Offers, p, t

LEMMA ReadingKeepsAnswers ==
  ASSUME NEW q \in Seq(Messages), q # <<>>, NEW sent \in Seq(Nat), NEW done, Answers(sent, q, done)
  PROVE  Answers(IF Head(q).kind = "output" THEN Append(sent, Head(q).call) ELSE sent,
                 Tail(q), done)
<1> DEFINE p == Tail(q)
           more == IF Head(q).kind = "output" THEN Append(sent, Head(q).call) ELSE sent
<1>1. /\ Len(q) \in Nat /\ Len(q) > 0 /\ Head(q) = q[1] /\ Len(p) = Len(q) - 1
      /\ DOMAIN q = 1..Len(q) /\ DOMAIN p = 1..Len(p) /\ Head(q) \in Messages
      /\ \A i \in 1..(Len(q) - 1) : p[i] = q[i + 1]
  BY HeadTailProperties, EmptySeq, LenProperties
<1> HIDE DEF p
<1>2. /\ Once(sent) /\ DueOnce(q) /\ Due(q) \cap CallsIn(sent) = {}
      /\ Due(q) \cup CallsIn(sent) = done
  BY DEF Answers
<1>3. DueOnce(p)
  <2>1. ASSUME NEW i \in DOMAIN p, NEW j \in DOMAIN p, p[i].kind = "output", p[j].kind = "output",
               p[i].call = p[j].call
        PROVE  i = j
    <3>1. /\ i \in Nat /\ j \in Nat /\ i + 1 \in DOMAIN q /\ j + 1 \in DOMAIN q
          /\ p[i] = q[i + 1] /\ p[j] = q[j + 1]
      BY <1>1
    <3>2. i + 1 = j + 1
      BY <1>2, <2>1, <3>1 DEF DueOnce
    <3> QED
      BY <3>1, <3>2
  <2> QED
    BY <2>1 DEF DueOnce
<1>4. CASE Head(q).kind # "output"
  <2>1. Due(p) = Due(q)
    <3>1. \A i \in DOMAIN q : q[i].kind = "output" => i - 1 \in DOMAIN p /\ p[i - 1] = q[i]
      BY <1>1, <1>4
    <3>2. \A i \in DOMAIN p : i + 1 \in DOMAIN q /\ p[i] = q[i + 1]
      BY <1>1
    <3>3. Due(q) \subseteq Due(p)
      BY <3>1 DEF Due
    <3>4. Due(p) \subseteq Due(q)
      BY <3>2 DEF Due
    <3> QED
      BY <3>3, <3>4
  <2> QED
    BY <1>2, <1>3, <1>4, <2>1 DEF Answers, p
<1>5. CASE Head(q).kind = "output"
  <2> DEFINE c == Head(q).call
  <2>1. c \in Nat /\ c \in Due(q) /\ c \notin CallsIn(sent)
    <3>1. c \in Nat
      BY <1>1, <1>5, MessageKinds
    <3>2. c \in Due(q)
      <4>1. 1 \in DOMAIN q /\ q[1].kind = "output" /\ c = q[1].call
        BY <1>1, <1>5
      <4> HIDE DEF c
      <4> QED
        BY <4>1 DEF Due
    <3> QED
      BY <1>2, <3>1, <3>2
  <2>2. Due(q) = Due(p) \cup {c}
    <3>1. \A i \in DOMAIN q : i = 1 \/ (i - 1 \in DOMAIN p /\ p[i - 1] = q[i])
      BY <1>1
    <3>2. \A i \in DOMAIN p : i + 1 \in DOMAIN q /\ p[i] = q[i + 1]
      BY <1>1
    <3>3. Due(q) \subseteq Due(p) \cup {c}
      BY <1>1, <3>1 DEF Due
    <3>4. Due(p) \subseteq Due(q)
      BY <3>2 DEF Due
    <3> QED
      BY <2>1, <3>3, <3>4
  <2>3. c \notin Due(p)
    <3>1. ASSUME NEW i \in DOMAIN p, p[i].kind = "output", p[i].call = c PROVE FALSE
      <4>1. /\ i \in Nat /\ i # 0 /\ i + 1 \in DOMAIN q /\ p[i] = q[i + 1]
            /\ 1 \in DOMAIN q /\ q[1].kind = "output" /\ q[1].call = c
        BY <1>1, <1>5
      <4>2. i + 1 = 1
        BY <1>2, <3>1, <4>1 DEF DueOnce
      <4> QED
        BY <4>1, <4>2
    <3> QED
      BY <3>1 DEF Due
  <2> HIDE DEF c
  <2>4. Once(Append(sent, c)) /\ CallsIn(Append(sent, c)) = CallsIn(sent) \cup {c}
    BY <1>2, <2>1, OnceMore
  <2>5. Answers(Append(sent, c), p, done)
    BY <1>2, <1>3, <2>2, <2>3, <2>4 DEF Answers
  <2> QED
    BY <1>5, <2>5 DEF c, p
<1> QED
  BY <1>4, <1>5

\* The handler sends one more message.
LEMMA ShownAfterSending ==
  ASSUME NEW q \in Seq(Messages), NEW m \in Messages, NEW s, NEW a
  PROVE  /\ \A k \in 0..Len(q) : Shown(s, q, k, a) => Shown(s, Append(q, m), k, a)
         /\ Shown(s, q, Len(q), a) /\ m.kind # "update"
              => Shown(s, Append(q, m), Len(q) + 1, a)
         /\ m = Update(a) => Shown(s, Append(q, m), Len(q) + 1, a)
<1> DEFINE p == Append(q, m)
<1>1. /\ Len(q) \in Nat /\ p[Len(q) + 1] = m
      /\ \A i \in 1..Len(q) : p[i] = q[i]
  BY AppendProperties, LenProperties
<1> HIDE DEF p
<1>2. ASSUME NEW k \in 0..Len(q), Shown(s, q, k, a) PROVE Shown(s, p, k, a)
  <2>1. \A j \in 1..k : p[j] = q[j]
    BY <1>1
  <2>2. CASE a = s /\ \A j \in 1..k : q[j].kind # "update"
    BY <2>1, <2>2 DEF Shown
  <2>3. ASSUME NEW j \in 1..k, q[j] = Update(a), \A l \in (j + 1)..k : q[l].kind # "update"
        PROVE  Shown(s, p, k, a)
    <3>1. \A l \in (j + 1)..k : l \in 1..k
      OBVIOUS
    <3> QED
      BY <2>1, <2>3, <3>1 DEF Shown
  <2> QED
    BY <1>2, <2>2, <2>3 DEF Shown
<1>3. ASSUME Shown(s, q, Len(q), a), m.kind # "update" PROVE Shown(s, p, Len(q) + 1, a)
  <2>1. \A j \in 1..(Len(q) + 1) : j \in 1..Len(q) \/ p[j] = m
    BY <1>1
  <2>2. CASE a = s /\ \A j \in 1..Len(q) : q[j].kind # "update"
    BY <1>1, <1>3, <2>1, <2>2 DEF Shown
  <2>3. ASSUME NEW j \in 1..Len(q), q[j] = Update(a),
               \A l \in (j + 1)..Len(q) : q[l].kind # "update"
        PROVE  Shown(s, p, Len(q) + 1, a)
    <3>1. \A l \in (j + 1)..(Len(q) + 1) : p[l].kind # "update"
      <4>1. TAKE l \in (j + 1)..(Len(q) + 1)
      <4>2. CASE l = Len(q) + 1
        BY <1>1, <1>3, <4>2
      <4>3. CASE l # Len(q) + 1
        BY <1>1, <2>3, <4>3
      <4> QED
        BY <4>2, <4>3
    <3>2. j \in 1..(Len(q) + 1) /\ p[j] = Update(a)
      BY <1>1, <2>3
    <3> QED
      BY <3>1, <3>2 DEF Shown
  <2> QED
    BY <1>3, <2>2, <2>3 DEF Shown
<1>4. ASSUME m = Update(a) PROVE Shown(s, p, Len(q) + 1, a)
  <2>1. /\ Len(q) + 1 \in 1..(Len(q) + 1) /\ p[Len(q) + 1] = Update(a)
        /\ \A l \in ((Len(q) + 1) + 1)..(Len(q) + 1) : FALSE
    BY <1>1, <1>4
  <2> QED
    BY <2>1 DEF Shown
<1> QED
  BY <1>2, <1>3, <1>4 DEF p

LEMMA SendingKeepsStep ==
  ASSUME NEW q \in Seq(Messages), NEW m \in Messages, NEW s, NEW a, NEW b, Offers(s, q, a),
         IF m.kind = "update" THEN m = Update(b) ELSE b = a,
         m.kind = "create" => m.agent = b
  PROVE  Offers(s, Append(q, m), b)
<1> DEFINE p == Append(q, m)
<1>1. /\ Len(q) \in Nat /\ Len(p) = Len(q) + 1 /\ p[Len(q) + 1] = m
      /\ \A i \in 1..Len(q) : p[i] = q[i]
      /\ DOMAIN q = 1..Len(q) /\ DOMAIN p = 1..Len(p)
  BY AppendProperties, LenProperties
<1>2. /\ \A c : \A k \in 0..Len(q) : Shown(s, q, k, c) => Shown(s, p, k, c)
      /\ Shown(s, q, Len(q), b) /\ m.kind # "update" => Shown(s, p, Len(q) + 1, b)
      /\ m = Update(b) => Shown(s, p, Len(q) + 1, b)
  BY ShownAfterSending
<1> HIDE DEF p
<1>3. Shown(s, p, Len(p), b)
  BY <1>1, <1>2 DEF Offers
<1>4. ASSUME NEW k \in DOMAIN p, p[k].kind = "create" PROVE Shown(s, p, k, p[k].agent)
  <2>1. CASE k = Len(q) + 1
    BY <1>1, <1>3, <1>4, <2>1
  <2>2. CASE k # Len(q) + 1
    <3>1. k \in DOMAIN q /\ k \in 0..Len(q) /\ p[k] = q[k]
      BY <1>1, <2>2
    <3>2. Shown(s, q, k, p[k].agent)
      BY <1>4, <3>1 DEF Offers
    <3> QED
      BY <1>2, <3>1, <3>2
  <2> QED
    BY <2>1, <2>2
<1> QED
  BY <1>3, <1>4 DEF Offers, p

LEMMA SendingKeepsAnswers ==
  ASSUME NEW q \in Seq(Messages), NEW m \in Messages, NEW sent \in Seq(Nat), NEW done,
         Answers(sent, q, done), m.kind = "output" => m.call \notin done
  PROVE  Answers(sent, Append(q, m), IF m.kind = "output" THEN done \cup {m.call} ELSE done)
<1> DEFINE p == Append(q, m)
<1>1. /\ Len(q) \in Nat /\ Len(p) = Len(q) + 1 /\ p[Len(q) + 1] = m
      /\ \A i \in 1..Len(q) : p[i] = q[i]
      /\ DOMAIN q = 1..Len(q) /\ DOMAIN p = 1..Len(p)
  BY AppendProperties, LenProperties
<1> HIDE DEF p
<1>2. /\ Once(sent) /\ DueOnce(q) /\ Due(q) \cap CallsIn(sent) = {}
      /\ Due(q) \cup CallsIn(sent) = done
  BY DEF Answers
<1>3. /\ \A i \in DOMAIN p : (i \in DOMAIN q /\ p[i] = q[i]) \/ (i = Len(q) + 1 /\ p[i] = m)
      /\ \A i \in DOMAIN q : i \in DOMAIN p /\ p[i] = q[i]
      /\ Len(q) + 1 \in DOMAIN p
  BY <1>1
<1>4. Due(q) \subseteq Due(p)
  BY <1>3 DEF Due
<1>5. CASE m.kind # "output"
  <2>1. Due(p) \subseteq Due(q)
    BY <1>3, <1>5 DEF Due
  <2>2. DueOnce(p)
    BY <1>2, <1>3, <1>5 DEF DueOnce
  <2>3. Due(p) = Due(q)
    BY <1>4, <2>1
  <2> QED
    BY <1>2, <1>5, <2>2, <2>3 DEF Answers, p
<1>6. CASE m.kind = "output"
  <2> DEFINE c == m.call
  <2>1. c \notin Due(q) /\ c \notin CallsIn(sent)
    BY <1>2, <1>6
  <2>2. \A i \in DOMAIN q : q[i].kind = "output" => q[i].call # c
    BY <2>1 DEF Due
  <2>3. Due(p) \subseteq Due(q) \cup {c}
    BY <1>3 DEF Due
  <2>4. c \in Due(p)
    <3>1. p[Len(q) + 1].kind = "output" /\ p[Len(q) + 1].call = c
      BY <1>1, <1>6
    <3> HIDE DEF c
    <3> QED
      BY <1>3, <3>1 DEF Due
  <2>5. DueOnce(p)
    <3>1. ASSUME NEW i \in DOMAIN p, NEW j \in DOMAIN p, p[i].kind = "output",
                 p[j].kind = "output", p[i].call = p[j].call
          PROVE  i = j
      <4>1. CASE i \in DOMAIN q /\ p[i] = q[i] /\ j \in DOMAIN q /\ p[j] = q[j]
        BY <1>2, <3>1, <4>1 DEF DueOnce
      <4>2. CASE i = Len(q) + 1 /\ j = Len(q) + 1
        BY <4>2
      <4>3. CASE i \in DOMAIN q /\ p[i] = q[i] /\ p[j] = m
        BY <2>2, <3>1, <4>3
      <4>4. CASE p[i] = m /\ j \in DOMAIN q /\ p[j] = q[j]
        BY <2>2, <3>1, <4>4
      <4> QED
        BY <1>3, <4>1, <4>2, <4>3, <4>4
    <3> QED
      BY <3>1 DEF DueOnce
  <2> HIDE DEF c
  <2>6. Due(p) = Due(q) \cup {c}
    BY <1>4, <2>3, <2>4
  <2>7. Answers(sent, p, done \cup {c})
    BY <1>2, <2>1, <2>5, <2>6 DEF Answers
  <2> QED
    BY <1>6, <2>7 DEF c, p
<1> QED
  BY <1>5, <1>6

\* What a handler sends for a call leaves the server in step again: with the call's
\* output, asked to go on, and showing the tools of the agent it named last.
LEMMA ReplyKeepsStep ==
  ASSUME NEW q \in Seq(Messages), NEW s, NEW a \in Agents, NEW b \in Agents, NEW c \in Nat,
         Offers(s, q, a), NEW sent \in Seq(Nat), NEW done, Answers(sent, q, done), c \notin done,
         NEW now, NEW r,
         \/ r = <<Output(c), Create(b)>> /\ a = b
         \/ r = Replies(b, c)
  PROVE  /\ r \in Seq(Messages) /\ r # <<>> /\ q \o r \in Seq(Messages)
         /\ Offers(s, q \o r, b) /\ Asks(now, q \o r)
         /\ Answers(sent, q \o r, done \cup {c})
<1> DEFINE o == Append(q, Output(c))
           u == Append(q, Update(b))
           uo == Append(u, Output(c))
<1>1. /\ Update(b) \in Messages /\ Update(b).kind = "update" /\ Update(b).agent = b
      /\ Output(c) \in Messages /\ Output(c).kind = "output" /\ Output(c).call = c
      /\ Create(b) \in Messages /\ Create(b).kind = "create" /\ Create(b).agent = b
  BY MessageKinds
<1>2. o \in Seq(Messages) /\ u \in Seq(Messages) /\ uo \in Seq(Messages)
  BY <1>1, AppendProperties
<1>a. \A z \in Seq(Messages) :
        /\ Append(z, Create(b)) \in Seq(Messages)
        /\ Offers(s, z, b) => Offers(s, Append(z, Create(b)), b)
        /\ Asks(now, Append(z, Create(b)))
        /\ Answers(sent, z, done \cup {c}) => Answers(sent, Append(z, Create(b)), done \cup {c})
  <2>1. TAKE z \in Seq(Messages)
  <2> DEFINE p == Append(z, Create(b))
  <2>2. p \in Seq(Messages) /\ p # <<>> /\ p[Len(p)] = Create(b)
    <3>1. p \in Seq(Messages) /\ Len(p) = Len(z) + 1 /\ Len(z) \in Nat
          /\ p[Len(z) + 1] = Create(b)
      BY <1>1, AppendProperties, LenProperties
    <3> HIDE DEF p
    <3> QED
      BY <3>1, EmptySeq
  <2>3. Offers(s, z, b) => Offers(s, p, b)
    BY <1>1, SendingKeepsStep
  <2>4. Answers(sent, z, done \cup {c}) => Answers(sent, p, done \cup {c})
    BY <1>1, SendingKeepsAnswers
  <2> HIDE DEF p
  <2>5. Asks(now, p)
    BY <1>1, <2>2 DEF Asks
  <2> QED
    BY <2>2, <2>3, <2>4, <2>5 DEF p
<1>3. CASE r = <<Output(c), Create(b)>> /\ a = b
  <2>1. Offers(s, o, b)
    BY <1>1, <1>3, SendingKeepsStep
  <2>2. Answers(sent, o, done \cup {c})
    BY <1>1, SendingKeepsAnswers
  <2>3. q \o r = Append(o, Create(b))
    BY <1>1, <1>3
  <2>4. r \in Seq(Messages) /\ r # <<>>
    BY <1>1, <1>3
  <2> HIDE DEF o
  <2> QED
    BY <1>2, <1>a, <2>1, <2>2, <2>3, <2>4
<1>4. CASE r = Replies(b, c)
  <2>1. Offers(s, u, b)
    BY <1>1, SendingKeepsStep
  <2>2. Answers(sent, u, done)
    BY <1>1, SendingKeepsAnswers
  <2>3. Offers(s, uo, b)
    <3> HIDE DEF u
    <3> QED
      BY <1>1, <1>2, <2>1, SendingKeepsStep
  <2>4. Answers(sent, uo, done \cup {c})
    <3> HIDE DEF u
    <3> QED
      BY <1>1, <1>2, <2>2, SendingKeepsAnswers
  <2>5. q \o r = Append(uo, Create(b))
    BY <1>1, <1>4 DEF Replies
  <2>6. r \in Seq(Messages) /\ r # <<>>
    BY <1>1, <1>4 DEF Replies
  <2> HIDE DEF uo
  <2> QED
    BY <1>2, <1>a, <2>3, <2>4, <2>5, <2>6
<1> QED
  BY <1>3, <1>4

\* The handler's next message goes on its way.
LEMMA SendingKeepsUnread ==
  ASSUME NEW p \in Seq(Messages), NEW q \in Seq(Messages), q # <<>>
  PROVE  /\ Append(p, Head(q)) \o Tail(q) = p \o q
         /\ Append(p, Head(q)) \in Seq(Messages) /\ Tail(q) \in Seq(Messages)
BY HeadTailProperties, AppendProperties, SMTT(30)

-----------------------------------------------------------------------------
(* Steps that keep the invariant.                                           *)

LEMMA UnreadIsTyped ==
  ASSUME SessionInv
  PROVE  /\ Unread \in Seq(Messages)
         /\ Unread = <<>> <=> toServer = <<>> /\ todo = <<>>
         /\ toServer # <<>> => Head(Unread) = Head(toServer)
                               /\ Tail(Unread) = Tail(toServer) \o todo
<1>1. toServer \in Seq(Messages) /\ todo \in Seq(Messages)
  BY DEF SessionInv, SessionTypes
<1>2. Unread \in Seq(Messages)
  BY <1>1 DEF Unread
<1>3. Unread = <<>> <=> toServer = <<>> /\ todo = <<>>
  <2>1. Len(Unread) = Len(toServer) + Len(todo) /\ Len(toServer) \in Nat /\ Len(todo) \in Nat
    BY <1>1, ConcatProperties, LenProperties DEF Unread
  <2>2. /\ Unread = <<>> <=> Len(Unread) = 0
        /\ toServer = <<>> <=> Len(toServer) = 0
        /\ todo = <<>> <=> Len(todo) = 0
    BY <1>1, <1>2, EmptySeq
  <2> QED
    BY <2>1, <2>2
<1>4. ASSUME toServer # <<>>
      PROVE  Head(Unread) = Head(toServer) /\ Tail(Unread) = Tail(toServer) \o todo
  BY <1>1, <1>4, SMTT(30) DEF Unread
<1> QED
  BY <1>2, <1>3, <1>4

\* The server reads the next message.
LEMMA ReadKeeps ==
  ASSUME SessionInv, ServerReads
  PROVE  SessionInv'
<1> DEFINE m == Head(toServer)
<1>1. /\ Unread \in Seq(Messages) /\ Unread # <<>>
      /\ Head(Unread) = m /\ Unread' = Tail(Unread)
  <2>1. toServer # <<>> /\ Unread' = Tail(toServer) \o todo
    BY DEF ServerReads, Unread, clientVars
  <2> QED
    BY <2>1, UnreadIsTyped
<1>2. /\ toServer # <<>> /\ toServer \in Seq(Messages) /\ outputs \in Seq(Nat)
      /\ doing # "over" /\ doing' = doing /\ handled' = handled /\ Executing' = Executing
      /\ current_agent' = current_agent
      /\ surface' = IF m.kind = "update" THEN m.agent ELSE surface
      /\ outputs' = IF m.kind = "output" THEN Append(outputs, m.call) ELSE outputs
      /\ asked' = (IF m.kind = "update" THEN asked ELSE m.kind = "create")
      /\ toServer' = Tail(toServer)
  BY DEF ServerReads, Live, clientVars, SessionInv, SessionTypes, Executing
<1>3. m \in Messages /\ toServer' \in Seq(Messages)
  BY <1>2, HeadTailProperties
<1>4. /\ Offers(surface, Unread, current_agent) /\ Asks(asked, Unread)
      /\ Answers(outputs, Unread, handled \ Executing)
  BY <1>2 DEF SessionInv, Offering, Answering
<1>5. Offers(surface', Unread', current_agent') /\ Asks(asked', Unread')
  <2> HIDE DEF m
  <2>1. /\ Offers(IF Head(Unread).kind = "update" THEN Head(Unread).agent ELSE surface,
                  Tail(Unread), current_agent)
        /\ Asks(IF Head(Unread).kind = "update" THEN asked ELSE Head(Unread).kind = "create",
                Tail(Unread))
    BY <1>1, <1>4, ReadingKeepsStep
  <2> QED
    BY <1>1, <1>2, <2>1
<1>6. Answers(outputs', Unread', (handled \ Executing)')
  <2> HIDE DEF m
  <2>1. Answers(IF Head(Unread).kind = "output" THEN Append(outputs, Head(Unread).call)
                ELSE outputs, Tail(Unread), handled \ Executing)
    BY <1>1, <1>2, <1>4, ReadingKeepsAnswers
  <2> QED
    BY <1>1, <1>2, <2>1
<1>7. surface' \in Agents /\ outputs' \in Seq(Nat) /\ asked' \in BOOLEAN
  <2>1. /\ m.kind = "output" => m.call \in Nat
        /\ m.kind = "update" => m.agent \in Agents
    BY <1>3, MessageKinds
  <2>2. surface \in Agents /\ asked \in BOOLEAN
    BY DEF SessionInv, SessionTypes
  <2> HIDE DEF m
  <2>3. surface' \in Agents
    BY <1>2, <2>1, <2>2
  <2>4. outputs' \in Seq(Nat)
    BY <1>2, <2>1, AppendProperties
  <2>5. asked' \in BOOLEAN
    BY <1>2, <2>2
  <2> QED
    BY <2>3, <2>4, <2>5
<1>8. SessionTypes'
  BY <1>2, <1>3, <1>7 DEF SessionInv, SessionTypes, ServerReads, clientVars
<1>9. Once(outputs') /\ CallsIn(outputs') \subseteq handled'
  BY <1>2, <1>6 DEF Answers
<1>10. Answering'
  BY <1>6, <1>9 DEF Answering
<1>11. Offering'
  <2>1. toServer' # <<>> /\ Head(toServer').kind = "create" => surface' = Head(toServer').agent
    <3>1. toServer' # <<>> => Unread' # <<>> /\ Head(Unread') = Head(toServer')
      <4>1. todo' = todo /\ todo \in Seq(Messages)
        BY DEF ServerReads, clientVars, SessionInv, SessionTypes
      <4> QED
        BY <1>3, <4>1, SMTT(30) DEF Unread
    <3>2. Unread' \in Seq(Messages)
      BY <1>1, HeadTailProperties
    <3> QED
      BY <1>5, <3>1, <3>2, ReadingKeepsStep
  <2> QED
    BY <1>5, <2>1 DEF Offering
<1>12. Course' /\ Reporting' /\ ClosedByReason'
  BY <1>2 DEF SessionInv, Course, Reporting, ClosedByReason, ServerReads, clientVars
<1> QED
  BY <1>8, <1>10, <1>11, <1>12 DEF SessionInv

\* The server sends an event, and may make a call with it.
LEMMA EventKeeps ==
  ASSUME SessionInv, NEW e \in Events, ServerSends(e),
         \/ calls' = calls
         \/ Len(calls) < MaxCalls /\ \E what \in Callable : calls' = Append(calls, what),
         e.kind = "call" => e.call \in DOMAIN calls'
  PROVE  SessionInv'
<1>1. /\ calls \in Seq(Callable) /\ toClient \in Seq(Events) /\ handled \subseteq DOMAIN calls
      /\ Len(calls) <= MaxCalls
      /\ \A i \in DOMAIN toClient : toClient[i].kind = "call" => toClient[i].call \in DOMAIN calls
  BY DEF SessionInv, SessionTypes
<1>2. calls' \in Seq(Callable) /\ Len(calls') <= MaxCalls /\ DOMAIN calls \subseteq DOMAIN calls'
  <2>1. CASE calls' = calls
    BY <1>1, <2>1
  <2>2. ASSUME NEW what \in Callable, calls' = Append(calls, what), Len(calls) < MaxCalls
        PROVE  calls' \in Seq(Callable) /\ Len(calls') <= MaxCalls
               /\ DOMAIN calls \subseteq DOMAIN calls'
    <3>1. /\ calls' \in Seq(Callable) /\ Len(calls') = Len(calls) + 1 /\ Len(calls) \in Nat
          /\ DOMAIN calls = 1..Len(calls)
      BY <1>1, <2>2, AppendProperties, LenProperties
    <3>2. DOMAIN calls' = 1..Len(calls')
      BY <3>1, LenProperties
    <3>3. Len(calls') <= MaxCalls
      <4>1. Len(calls) < MaxCalls /\ MaxCalls \in Nat
        BY <2>2, RealtimeAssumption
      <4>2. Len(calls') = Len(calls) + 1 /\ Len(calls) \in Nat
        BY <3>1
      <4> QED
        BY <4>1, <4>2
    <3>4. DOMAIN calls \subseteq DOMAIN calls'
      BY <3>1, <3>2
    <3> QED
      BY <3>1, <3>3, <3>4
  <2> QED
    BY <2>1, <2>2
<1>3. toClient' \in Seq(Events)
  BY <1>1, AppendProperties DEF ServerSends
<1>4. \A i \in DOMAIN toClient' : toClient'[i].kind = "call" => toClient'[i].call \in DOMAIN calls'
  <2>1. /\ toClient' = Append(toClient, e) /\ Len(toClient) \in Nat
        /\ Len(toClient') = Len(toClient) + 1
        /\ toClient'[Len(toClient) + 1] = e
        /\ \A i \in 1..Len(toClient) : toClient'[i] = toClient[i]
        /\ DOMAIN toClient = 1..Len(toClient) /\ DOMAIN toClient' = 1..Len(toClient')
    BY <1>1, <1>3, AppendProperties, LenProperties DEF ServerSends
  <2>2. \A i \in DOMAIN toClient' : (i \in DOMAIN toClient /\ toClient'[i] = toClient[i])
                                    \/ toClient'[i] = e
    BY <2>1
  <2> QED
    BY <1>1, <1>2, <2>2
<1>5. SessionTypes'
  BY <1>1, <1>2, <1>3, <1>4 DEF SessionInv, SessionTypes, ServerSends, clientVars
<1>6. /\ doing' = doing /\ todo' = todo /\ event' = event /\ handled' = handled
      /\ work' = work /\ told' = told /\ voiceQueue' = voiceQueue
      /\ outputs' = outputs /\ toServer' = toServer /\ surface' = surface /\ asked' = asked
      /\ current_agent' = current_agent /\ closing' = closing /\ conn' = conn
      /\ terminationReason' = terminationReason
  BY DEF ServerSends, clientVars
<1> QED
  BY <1>5, <1>6 DEF SessionInv, Course, Reporting, Answering, Offering, ClosedByReason,
     Executing, Unread

\* The connection is lost or closed.
LEMMA ConnectionKeeps ==
  ASSUME SessionInv,
         \/ Disconnect
         \/ \E reason \in {"application", "completed"} : CloseSession(reason)
         \/ CloseTransport
  PROVE  SessionInv'
<1>1. /\ doing' = doing /\ todo' = todo /\ event' = event /\ handled' = handled
      /\ work' = work /\ told' = told /\ voiceQueue' = voiceQueue
      /\ outputs' = outputs /\ toServer' = toServer /\ surface' = surface /\ asked' = asked
      /\ current_agent' = current_agent /\ calls' = calls /\ toClient' = toClient
      /\ endings' = endings
  BY DEF Disconnect, CloseSession, CloseTransport, clientVars, serverVars
<1>2. /\ terminationReason' \in {"none", "application", "completed", "caller"}
      /\ conn' \in {"open", "lost", "closed"} /\ closing' \in BOOLEAN
      /\ ClosedByReason'
  <2>1. /\ terminationReason \in {"none", "application", "completed", "caller"}
        /\ conn \in {"open", "lost", "closed"} /\ closing \in BOOLEAN
        /\ closing \/ conn = "closed" => terminationReason # "none"
    BY DEF SessionInv, SessionTypes, ClosedByReason
  <2>2. CASE Disconnect
    BY <2>1, <2>2 DEF Disconnect, ClosedByReason
  <2>3. ASSUME NEW reason \in {"application", "completed"}, CloseSession(reason)
        PROVE  /\ terminationReason' \in {"none", "application", "completed", "caller"}
               /\ conn' \in {"open", "lost", "closed"} /\ closing' \in BOOLEAN
               /\ ClosedByReason'
    BY <2>1, <2>3 DEF CloseSession, ClosedByReason
  <2>4. CASE CloseTransport
    BY <2>1, <2>4 DEF CloseTransport, ClosedByReason
  <2> QED
    BY <2>2, <2>3, <2>4
<1>3. SessionTypes'
  BY <1>1, <1>2 DEF SessionInv, SessionTypes
<1> QED
  BY <1>1, <1>2, <1>3 DEF SessionInv, Course, Reporting, Answering, Offering,
     Executing, Unread

\* What an except clause reports.
LEMMA FaultReports ==
  ASSUME SessionInv
  PROVE  /\ \A r \in Reasons : /\ Fault(r) \in Seq(Notices) /\ Len(Fault(r)) = 2
                               /\ Fault(r)[2].reason = r
         /\ OtherFault \in Seq(Notices) /\ Len(OtherFault) \in {1, 2}
         /\ OtherFault[Len(OtherFault)].reason =
              IF terminationReason = "none" THEN "disconnected" ELSE terminationReason
<1>1. \A r \in Reasons : Error(r) \in Notices /\ Ended(r) \in Notices /\ Ended(r).reason = r
  BY DEF Error, Ended, Notices
<1>2. \A r \in Reasons : /\ Fault(r) \in Seq(Notices) /\ Len(Fault(r)) = 2
                         /\ Fault(r)[2].reason = r
  BY <1>1 DEF Fault
<1>3. terminationReason \in {"none", "application", "completed", "caller"}
  BY DEF SessionInv, SessionTypes
<1>4. CASE terminationReason = "application"
  <2>1. OtherFault = <<Ended("application")>> /\ "application" \in Reasons
    BY <1>4 DEF OtherFault, Reasons
  <2> QED
    BY <1>1, <1>2, <1>4, <2>1
<1>5. CASE terminationReason # "application"
  <2> DEFINE r == IF terminationReason = "none" THEN "disconnected" ELSE terminationReason
  <2>1. OtherFault = Fault(r) /\ r \in Reasons
    BY <1>3, <1>5 DEF OtherFault, Reasons
  <2> HIDE DEF r
  <2>2. OtherFault \in Seq(Notices) /\ Len(OtherFault) = 2 /\ OtherFault[2].reason = r
    BY <1>2, <2>1
  <2> QED
    BY <1>2, <2>2 DEF r
<1> QED
  BY <1>2, <1>4, <1>5

\* What is received, and what is known of a call that is new.
LEMMA Received ==
  ASSUME SessionInv, NEW kind, Receives(kind)
  PROVE  /\ toClient' \in Seq(Events)
         /\ \A i \in DOMAIN toClient' :
              toClient'[i].kind = "call" => toClient'[i].call \in DOMAIN calls
         /\ Head(toClient) \in Events
         /\ kind = "call" => Head(toClient).call \in DOMAIN calls /\ Head(toClient).call \in Nat
<1>1. /\ toClient \in Seq(Events) /\ toClient # <<>> /\ toClient' = Tail(toClient)
      /\ Head(toClient).kind = kind
      /\ calls \in Seq(Callable)
      /\ \A i \in DOMAIN toClient : toClient[i].kind = "call" => toClient[i].call \in DOMAIN calls
  BY DEF SessionInv, SessionTypes, Receives
<1>2. /\ Len(toClient) \in Nat /\ Len(toClient) > 0 /\ Head(toClient) = toClient[1]
      /\ Head(toClient) \in Events /\ toClient' \in Seq(Events)
      /\ Len(toClient') = Len(toClient) - 1
      /\ \A i \in 1..(Len(toClient) - 1) : toClient'[i] = toClient[i + 1]
  BY <1>1, HeadTailProperties, EmptySeq, LenProperties
<1>3. DOMAIN toClient = 1..Len(toClient) /\ DOMAIN toClient' = 1..Len(toClient')
  BY <1>1, <1>2, LenProperties
<1>4. \A i \in DOMAIN toClient' : i + 1 \in DOMAIN toClient /\ toClient'[i] = toClient[i + 1]
  BY <1>2, <1>3
<1>5. DOMAIN calls \subseteq Nat
  BY <1>1, LenProperties
<1>6. kind = "call" => Head(toClient).call \in DOMAIN calls
  <2>1. 1 \in DOMAIN toClient
    BY <1>2, <1>3
  <2> QED
    BY <1>1, <1>2, <2>1
<1> QED
  BY <1>1, <1>2, <1>4, <1>5, <1>6

LEMMA NewCall ==
  ASSUME SessionInv, NEW what, ReceivesNew(what)
  PROVE  /\ event' = Head(toClient) /\ event'.call \in DOMAIN calls /\ event'.call \in Nat
         /\ event'.call \notin handled /\ handled' = handled \cup {event'.call}
         /\ doing = "receiving"
         /\ UNCHANGED <<terminationReason, conn, closing, toServer, serverVars>>
BY Received DEF ReceivesNew, New, Receives

\* A step that ends the stream: why it does, and that it leaves all else alone.
LEMMA EndingSteps ==
  ASSUME SessionInv, ConnectionGone \/ ReceiveFault \/ CallFault \/ ToolRaises \/ SendFails
  PROVE  /\ doing # "over" /\ doing' = "over"
         /\ UNCHANGED <<current_agent, voiceQueue, todo, work, told, terminationReason, conn,
                        closing, toServer, serverVars>>
         /\ handled \subseteq handled' /\ handled' \subseteq DOMAIN calls
         /\ toClient' = toClient \/ \E kind : Receives(kind)
         /\ \/ endings' = endings \o OtherFault
            \/ /\ doing \in {"receiving", "executing"}
               /\ \/ endings' = endings \o Fault("provider_error")
                  \/ endings' = endings \o Fault("tool_error")
<1>1. handled \subseteq DOMAIN calls
  BY DEF SessionInv, SessionTypes
<1>2. CASE ConnectionGone
  BY <1>1, <1>2 DEF ConnectionGone, Raise
<1>3. CASE ReceiveFault
  <2>1. CASE Receives("error") /\ Raise(Fault("provider_error"))
    BY <1>1, <2>1 DEF Receives, Raise
  <2>2. CASE Receives("garbage") /\ Raise(OtherFault)
    BY <1>1, <2>2 DEF Receives, Raise
  <2> QED
    BY <1>3, <2>1, <2>2 DEF ReceiveFault
<1>4. CASE CallFault
  <2>1. PICK what : /\ ReceivesNew(what)
                    /\ \/ endings' = endings \o OtherFault
                       \/ endings' = endings \o Fault("provider_error")
                       \/ endings' = endings \o Fault("tool_error")
    BY <1>4 DEF CallFault, CallUnknown, TransferFault
  <2>2. Receives("call")
    BY <2>1 DEF ReceivesNew
  <2> QED
    BY <1>1, <1>4, <2>1, <2>2, NewCall DEF CallFault
<1>5. CASE ToolRaises
  BY <1>1, <1>5 DEF ToolRaises, Raise
<1>6. CASE SendFails
  BY <1>1, <1>6 DEF SendFails, Raise
<1> QED
  BY <1>2, <1>3, <1>4, <1>5, <1>6

LEMMA EndingKeeps ==
  ASSUME SessionInv, ConnectionGone \/ ReceiveFault \/ CallFault \/ ToolRaises \/ SendFails
  PROVE  SessionInv'
<1>1. /\ doing' = "over"
      /\ UNCHANGED <<current_agent, voiceQueue, todo, work, told, terminationReason, conn,
                     closing, toServer, serverVars>>
      /\ handled \subseteq handled' /\ handled' \subseteq DOMAIN calls
  BY EndingSteps
<1>2. /\ toClient' \in Seq(Events)
      /\ \A i \in DOMAIN toClient' : toClient'[i].kind = "call" => toClient'[i].call \in DOMAIN calls
  <2>1. CASE toClient' = toClient
    BY <2>1 DEF SessionInv, SessionTypes
  <2>2. CASE \E kind : Receives(kind)
    BY <2>2, Received
  <2> QED
    BY <2>1, <2>2, EndingSteps
<1>3. endings' \in Seq(Notices)
  <2>1. endings \in Seq(Notices)
    BY DEF SessionInv, SessionTypes
  <2>2. PICK report \in Seq(Notices) : endings' = endings \o report
    <3>1. "provider_error" \in Reasons /\ "tool_error" \in Reasons
      BY DEF Reasons
    <3> QED
      BY <3>1, EndingSteps, FaultReports
  <2> QED
    BY <2>1, <2>2, ConcatProperties
<1>4. SessionTypes'
  BY <1>1, <1>2, <1>3 DEF SessionInv, SessionTypes, serverVars
<1>5. Course' /\ Executing' = {}
  BY <1>1 DEF Course, Executing
<1>6. Reporting'
  BY <1>1, <1>5 DEF SessionInv, Reporting
<1>7. Answering'
  BY <1>1 DEF SessionInv, Answering, serverVars
<1>8. Offering' /\ ClosedByReason'
  BY <1>1 DEF SessionInv, Offering, ClosedByReason, serverVars
<1> QED
  BY <1>4, <1>5, <1>6, <1>7, <1>8 DEF SessionInv

\* A call that is executed was done before no more than it was answered.
LEMMA WorkMore ==
  ASSUME SessionInv, NEW c \in Nat, c \notin CallsIn(work)
  PROVE  /\ Append(work, c) = told \o Append(voiceQueue, c)
         /\ Append(work, c) \in Seq(Nat) /\ Append(voiceQueue, c) \in Seq(Nat)
         /\ Once(Append(work, c)) /\ CallsIn(Append(work, c)) = CallsIn(work) \cup {c}
<1>1. work = told \o voiceQueue /\ Once(work)
  BY DEF SessionInv, Reporting
<1>2. work \in Seq(Nat) /\ told \in Seq(Nat) /\ voiceQueue \in Seq(Nat)
  BY DEF SessionInv, SessionTypes
<1>3. Append(told \o voiceQueue, c) = told \o Append(voiceQueue, c)
  <2>1. told \o voiceQueue \in Seq(Nat) /\ <<c>> \in Seq(Nat)
    BY <1>2, ConcatProperties
  <2>2. /\ Append(told \o voiceQueue, c) = (told \o voiceQueue) \o <<c>>
        /\ Append(voiceQueue, c) = voiceQueue \o <<c>>
    BY <1>2, <2>1, AppendIsConcat
  <2>3. (told \o voiceQueue) \o <<c>> = told \o (voiceQueue \o <<c>>)
    BY <1>2, <2>1, ConcatAssociative, SMTT(30)
  <2> QED
    BY <2>2, <2>3
<1> QED
  BY <1>1, <1>2, <1>3, OnceMore, AppendProperties

\* Nothing to handle, or a tool of the agent: nothing is sent yet.
LEMMA ReceivingKeeps ==
  ASSUME SessionInv, ReceiveEvent \/ StartTool
  PROVE  SessionInv'
<1>1. /\ UNCHANGED <<current_agent, voiceQueue, todo, work, told, endings,
                     terminationReason, conn, closing, toServer, serverVars>>
      /\ doing = "receiving" /\ doing' \in {"reporting", "executing"}
      /\ \E kind : Receives(kind)
  BY DEF ReceiveEvent, StartTool, ReceivesNew, Receives
<1>2. /\ handled' \ Executing' = handled \ Executing
      /\ handled' \subseteq DOMAIN calls
      /\ handled \subseteq handled'
      /\ doing' = "executing" => event'.call \in handled'
  <2>1. handled \subseteq DOMAIN calls /\ Executing = {}
    BY <1>1 DEF SessionInv, SessionTypes, Executing
  <2>2. CASE ReceiveEvent
    BY <2>1, <2>2 DEF ReceiveEvent, Executing
  <2>3. CASE StartTool
    <3>1. /\ event'.call \in DOMAIN calls /\ event'.call \notin handled
          /\ handled' = handled \cup {event'.call} /\ doing' = "executing"
      BY <2>3, NewCall DEF StartTool
    <3>2. Executing' = {event'.call}
      BY <3>1 DEF Executing
    <3> QED
      BY <2>1, <3>1, <3>2
  <2> QED
    BY <2>2, <2>3
<1>3. /\ toClient' \in Seq(Events)
      /\ \A i \in DOMAIN toClient' : toClient'[i].kind = "call" => toClient'[i].call \in DOMAIN calls
  BY <1>1, Received
<1>4. SessionTypes'
  BY <1>1, <1>2, <1>3 DEF SessionInv, SessionTypes, serverVars
<1>5. Course'
  BY <1>1, <1>2 DEF SessionInv, Course
<1>6. Reporting'
  BY <1>1, <1>2 DEF SessionInv, Reporting
<1>7. Answering'
  BY <1>1, <1>2 DEF SessionInv, Answering, serverVars, Unread
<1>8. Offering' /\ ClosedByReason'
  BY <1>1 DEF SessionInv, Offering, ClosedByReason, serverVars, Unread
<1> QED
  BY <1>4, <1>5, <1>6, <1>7, <1>8 DEF SessionInv

\* A call was executed: a tool has returned, or a handoff was made.
LEMMA ExecutedKeeps ==
  ASSUME SessionInv, ToolReturns \/ \E a \in Agents : TransferTo(a)
  PROVE  SessionInv'
<1> DEFINE c == event'.call
           b == current_agent'
<1>1. /\ doing' = "sending" /\ doing # "over" /\ todo = <<>> /\ Executing' = {}
      /\ voiceQueue' = Append(voiceQueue, c) /\ work' = Append(work, c)
      /\ UNCHANGED <<told, endings, terminationReason, conn, closing, toServer, serverVars>>
      /\ b \in Agents
      /\ \/ todo' = <<Output(c), Create(b)>> /\ current_agent = b
         \/ todo' = Replies(b, c)
  BY DEF SessionInv, SessionTypes, Course, Executing, ToolReturns, TransferTo, ReceivesNew,
         Receives
<1>2. /\ c \in DOMAIN calls /\ c \in Nat /\ c \notin handled \ Executing
      /\ handled' = (handled \ Executing) \cup {c}
      /\ handled' \subseteq DOMAIN calls
      /\ toClient' = toClient \/ \E kind : Receives(kind)
  <2>1. handled \subseteq DOMAIN calls /\ calls \in Seq(Callable)
    BY DEF SessionInv, SessionTypes
  <2>2. CASE ToolReturns
    <3>1. /\ c = event.call /\ Executing = {c} /\ c \in handled /\ handled' = handled
          /\ toClient' = toClient
      BY <2>2 DEF ToolReturns, SessionInv, Course, Executing
    <3>2. DOMAIN calls \subseteq Nat
      BY <2>1, LenProperties
    <3> QED
      BY <2>1, <3>1, <3>2
  <2>3. ASSUME NEW a \in Agents, TransferTo(a)
        PROVE  /\ c \in DOMAIN calls /\ c \in Nat /\ c \notin handled \ Executing
               /\ handled' = (handled \ Executing) \cup {c}
               /\ handled' \subseteq DOMAIN calls
               /\ \E kind : Receives(kind)
    <3>1. /\ doing = "receiving" /\ c \in DOMAIN calls /\ c \in Nat /\ c \notin handled
          /\ handled' = handled \cup {c}
      BY <2>3, NewCall DEF TransferTo
    <3>2. Executing = {}
      BY <3>1 DEF Executing
    <3>3. Receives("call")
      BY <2>3 DEF TransferTo, ReceivesNew
    <3> QED
      BY <2>1, <3>1, <3>2, <3>3
  <2> QED
    BY <2>2, <2>3
<1>3. /\ toClient' \in Seq(Events)
      /\ \A i \in DOMAIN toClient' : toClient'[i].kind = "call" => toClient'[i].call \in DOMAIN calls
  <2>1. CASE toClient' = toClient
    BY <2>1 DEF SessionInv, SessionTypes
  <2>2. CASE \E kind : Receives(kind)
    BY <2>2, Received
  <2> QED
    BY <1>2, <2>1, <2>2
<1>4. /\ CallsIn(work) \subseteq handled \ Executing /\ current_agent \in Agents
      /\ outputs \in Seq(Nat)
      /\ Offers(surface, Unread, current_agent) /\ Answers(outputs, Unread, handled \ Executing)
  BY <1>1 DEF SessionInv, SessionTypes, Reporting, Offering, Answering
<1> HIDE DEF c, b
<1>5. Unread = toServer /\ Unread' = toServer \o todo' /\ toServer \in Seq(Messages)
  <2>1. toServer \in Seq(Messages)
    BY DEF SessionInv, SessionTypes
  <2>2. Unread = toServer
    BY <1>1, <2>1, ConcatEmptySeq DEF Unread
  <2> QED
    BY <1>1, <2>1, <2>2 DEF Unread
<1>6. /\ todo' \in Seq(Messages) /\ todo' # <<>>
      /\ Offers(surface, Unread', b) /\ Asks(asked, Unread')
      /\ Answers(outputs, Unread', (handled \ Executing) \cup {c})
  BY <1>1, <1>2, <1>4, <1>5, ReplyKeepsStep
<1>7. /\ work' = told \o voiceQueue' /\ work' \in Seq(Nat) /\ voiceQueue' \in Seq(Nat)
      /\ Once(work') /\ CallsIn(work') \subseteq handled'
  <2>1. c \notin CallsIn(work)
    BY <1>2, <1>4
  <2> QED
    BY <1>1, <1>2, <1>4, <2>1, WorkMore
<1>8. SessionTypes'
  BY <1>1, <1>2, <1>3, <1>6, <1>7 DEF SessionInv, SessionTypes, serverVars, b
<1>9. Course'
  BY <1>1, <1>6 DEF SessionInv, Course
<1>10. Reporting'
  BY <1>1, <1>7 DEF Reporting
<1>11. Answering'
  BY <1>1, <1>2, <1>6 DEF SessionInv, Answering, serverVars, Answers
<1>12. Offering' /\ ClosedByReason'
  BY <1>1, <1>6 DEF SessionInv, Offering, ClosedByReason, serverVars, b
<1> QED
  BY <1>8, <1>9, <1>10, <1>11, <1>12 DEF SessionInv

\* The next message goes on its way.
LEMMA SendNextKeeps ==
  ASSUME SessionInv, SendNext
  PROVE  SessionInv'
<1>1. /\ doing = "sending" /\ doing' = (IF todo' = <<>> THEN "reporting" ELSE "sending")
      /\ toServer' = Append(toServer, Head(todo)) /\ todo' = Tail(todo) /\ todo # <<>>
      /\ UNCHANGED <<current_agent, handled, voiceQueue, event, work, told, endings,
                     terminationReason, conn, closing, toClient, serverVars>>
  BY DEF SendNext, SessionInv, Course
<1>2. /\ toServer \in Seq(Messages) /\ todo \in Seq(Messages)
      /\ Offers(surface, Unread, current_agent) /\ Asks(asked, Unread)
      /\ Answers(outputs, Unread, handled \ Executing)
  BY <1>1 DEF SessionInv, SessionTypes, Offering, Answering
<1>3. Unread' = Unread /\ toServer' \in Seq(Messages) /\ todo' \in Seq(Messages)
  BY <1>1, <1>2, SendingKeepsUnread DEF Unread
<1>4. Executing = {} /\ Executing' = {}
  BY <1>1 DEF Executing
<1>5. SessionTypes' /\ ClosedByReason'
  BY <1>1, <1>3 DEF SessionInv, SessionTypes, ClosedByReason, serverVars
<1>6. Course'
  BY <1>1 DEF SessionInv, Course
<1>7. Reporting'
  BY <1>1, <1>4 DEF SessionInv, Reporting
<1>8. Answering'
  BY <1>1, <1>2, <1>3, <1>4 DEF SessionInv, Answering, serverVars
<1>9. Offering'
  <2>1. toServer' # <<>> => Unread' # <<>> /\ Head(Unread') = Head(toServer')
    BY <1>3, SMTT(30) DEF Unread
  <2>2. Unread \in Seq(Messages)
    BY UnreadIsTyped
  <2>3. toServer' # <<>> /\ Head(toServer').kind = "create" => surface = Head(toServer').agent
    BY <1>2, <1>3, <2>1, <2>2, ReadingKeepsStep
  <2> QED
    BY <1>1, <1>2, <1>3, <2>3 DEF Offering, serverVars
<1> QED
  BY <1>5, <1>6, <1>7, <1>8, <1>9 DEF SessionInv

\* The host is given what was queued, and then the event.
LEMMA ReportingKeeps ==
  ASSUME SessionInv, ReportWork \/ ReportEvent
  PROVE  SessionInv'
<1>1. /\ doing = "reporting" /\ doing' \in {"reporting", "receiving"}
      /\ UNCHANGED <<current_agent, handled, event, todo, work, conn, closing, toServer,
                     toClient, serverVars>>
      /\ Executing = {} /\ Executing' = {} /\ Unread' = Unread
  BY DEF ReportWork, ReportEvent, Executing, Unread
<1>2. /\ voiceQueue \in Seq(Nat) /\ told \in Seq(Nat) /\ work \in Seq(Nat)
      /\ work = told \o voiceQueue /\ endings \in Seq(Notices)
      /\ terminationReason \in {"none", "application", "completed", "caller"}
  BY DEF SessionInv, SessionTypes, Reporting
<1>3. /\ work = told' \o voiceQueue' /\ told' \in Seq(Nat) /\ voiceQueue' \in Seq(Nat)
      /\ doing' = "receiving" => voiceQueue' = <<>>
  <2>1. CASE ReportWork
    <3>1. /\ voiceQueue # <<>> /\ told' = Append(told, Head(voiceQueue))
          /\ voiceQueue' = Tail(voiceQueue) /\ doing' = "reporting"
      BY <1>1, <2>1 DEF ReportWork, Drained
    <3>2. Append(told, Head(voiceQueue)) \o Tail(voiceQueue) = told \o voiceQueue
      BY <1>2, <3>1, SMTT(30)
    <3> QED
      BY <1>2, <3>1, <3>2, HeadTailProperties, AppendProperties
  <2>2. CASE ReportEvent
    BY <1>2, <2>2 DEF ReportEvent, Drained
  <2> QED
    BY <2>1, <2>2
<1>4. /\ endings' \in Seq(Notices)
      /\ terminationReason' \in {"none", "application", "completed", "caller"}
      /\ terminationReason' = "none" => terminationReason = "none"
  <2>1. Ended("caller") \in Notices
    BY DEF Ended, Notices, Reasons
  <2>2. CASE ReportWork
    BY <1>2, <2>2 DEF ReportWork
  <2>3. CASE ReportEvent
    BY <1>2, <2>1, <2>3, AppendProperties, ZenonT(40) DEF ReportEvent
  <2> QED
    BY <2>2, <2>3
<1>5. SessionTypes'
  BY <1>1, <1>3, <1>4 DEF SessionInv, SessionTypes, serverVars
<1>6. Course'
  BY <1>1 DEF SessionInv, Course
<1>7. Reporting'
  BY <1>1, <1>3 DEF SessionInv, Reporting
<1>8. Answering' /\ Offering'
  BY <1>1 DEF SessionInv, Answering, Offering, serverVars
<1>9. ClosedByReason'
  BY <1>1, <1>4 DEF SessionInv, ClosedByReason
<1> QED
  BY <1>5, <1>6, <1>7, <1>8, <1>9 DEF SessionInv

-----------------------------------------------------------------------------
(* The invariant, and what it says of a session.                            *)

LEMMA SessionKeeps ==
  ASSUME SessionInv, [RealtimeNext]_realtimeVars
  PROVE  SessionInv'
<1>1. CASE UNCHANGED realtimeVars
  BY <1>1, SMTT(30) DEF realtimeVars, clientVars, serverVars, SessionInv, SessionTypes, Course, Reporting,
     Answering, Offering, ClosedByReason, Executing, Unread
<1>2. CASE ClientStep
  BY <1>2, EndingKeeps, ReceivingKeeps, ExecutedKeeps, SendNextKeeps, ReportingKeeps
     DEF ClientStep
<1>3. CASE ServerReads
  BY <1>3, ReadKeeps
<1>4. CASE ModelCalls
  <2> DEFINE e == Announcement(Len(calls) + 1)
  <2>1. calls \in Seq(Callable) /\ surface \in Agents
    BY DEF SessionInv, SessionTypes
  <2>2. PICK what \in Offered(surface) : calls' = Append(calls, what)
    BY <1>4 DEF ModelCalls
  <2>3. what \in Callable
    BY <2>1 DEF Callable
  <2>4. /\ Len(calls) \in Nat /\ calls' \in Seq(Callable) /\ Len(calls') = Len(calls) + 1
        /\ DOMAIN calls' = 1..Len(calls')
    BY <2>1, <2>2, <2>3, AppendProperties, LenProperties
  <2>5. e \in Events /\ e.call \in DOMAIN calls'
    BY <2>4 DEF Announcement, Events
  <2> HIDE DEF e
  <2>6. ServerSends(e) /\ Len(calls) < MaxCalls
    BY <1>4 DEF ModelCalls, e
  <2> QED
    BY <2>2, <2>3, <2>5, <2>6, EventKeeps
<1>5. CASE ServerRepeats
  <2>1. PICK c \in DOMAIN calls : ServerSends(Announcement(c)) /\ UNCHANGED calls
    BY <1>5 DEF ServerRepeats
  <2> DEFINE e == Announcement(c)
  <2>2. c \in Nat
    BY LenProperties DEF SessionInv, SessionTypes
  <2>3. e \in Events /\ e.call \in DOMAIN calls'
    BY <2>1, <2>2 DEF Announcement, Events
  <2> HIDE DEF e
  <2> QED
    BY <2>1, <2>3, EventKeeps DEF e
<1>6. CASE ServerEnds
  <2>1. PICK kind \in {"error", "ended", "garbage"} : ServerSends(Plain(kind)) /\ UNCHANGED calls
    BY <1>6 DEF ServerEnds
  <2> DEFINE e == Plain(kind)
  <2>2. e \in Events /\ e.kind # "call"
    BY DEF Plain, Events
  <2> HIDE DEF e
  <2> QED
    BY <2>1, <2>2, EventKeeps DEF e
<1>7. CASE \/ Disconnect
           \/ \E reason \in {"application", "completed"} : CloseSession(reason)
           \/ CloseTransport
  BY <1>7, ConnectionKeeps
<1>8. CASE StreamOver
  BY <1>1, <1>8 DEF StreamOver
<1> QED
  BY <1>1, <1>2, <1>3, <1>4, <1>5, <1>6, <1>7, <1>8 DEF RealtimeNext

LEMMA SessionBegins == RealtimeInit => SessionInv
<1> SUFFICES ASSUME RealtimeInit PROVE SessionInv
  OBVIOUS
<1>1. Unread = <<>> /\ Executing = {}
  BY DEF RealtimeInit, Unread, Executing
<1>2. SessionTypes
  <2>1. <<>> \in Seq(Callable) /\ <<>> \in Seq(Messages) /\ <<>> \in Seq(Events)
        /\ <<>> \in Seq(Nat) /\ <<>> \in Seq(Notices) /\ Len(<<>>) = 0 /\ DOMAIN <<>> = {}
    OBVIOUS
  <2>2. calls \in Seq(Callable) /\ Len(calls) <= MaxCalls
    BY <2>1, RealtimeAssumption DEF RealtimeInit
  <2> QED
    BY <2>1, <2>2, RealtimeAssumption DEF RealtimeInit, SessionTypes
<1>6. Course /\ ClosedByReason
  BY DEF RealtimeInit, Course, ClosedByReason
<1>3. Reporting
  BY DEF RealtimeInit, Reporting, Once, CallsIn, Executing
<1>4. Answering
  BY <1>1 DEF RealtimeInit, Answering, Answers, Once, DueOnce, Due, CallsIn
<1>5. Offering
  BY <1>1 DEF RealtimeInit, Offering, Offers, Asks, Shown
<1> QED
  BY <1>2, <1>3, <1>4, <1>5, <1>6 DEF SessionInv

LEMMA SessionIsTyped == SessionInv => TypeOK
<1> SUFFICES ASSUME SessionInv PROVE TypeOK
  OBVIOUS
<1>1. /\ voiceQueue \in Seq(Nat) /\ told \in Seq(Nat) /\ work = told \o voiceQueue
      /\ Once(work) /\ CallsIn(work) \subseteq handled
  BY DEF SessionInv, SessionTypes, Reporting
<1>2. /\ DOMAIN voiceQueue = 1..Len(voiceQueue) /\ DOMAIN work = 1..(Len(told) + Len(voiceQueue))
      /\ Len(told) \in Nat /\ Len(voiceQueue) \in Nat
      /\ \A i \in 1..Len(voiceQueue) : work[Len(told) + i] = voiceQueue[i]
  <2>1. /\ work \in Seq(Nat) /\ Len(work) = Len(told) + Len(voiceQueue)
        /\ \A i \in 1..(Len(told) + Len(voiceQueue)) :
             work[i] = IF i <= Len(told) THEN told[i] ELSE voiceQueue[i - Len(told)]
    BY <1>1, ConcatProperties
  <2>2. Len(told) \in Nat /\ Len(voiceQueue) \in Nat
    BY <1>1, LenProperties
  <2>3. \A i \in 1..Len(voiceQueue) :
          /\ Len(told) + i \in 1..(Len(told) + Len(voiceQueue))
          /\ ~(Len(told) + i <= Len(told)) /\ (Len(told) + i) - Len(told) = i
    BY <2>2
  <2> QED
    BY <1>1, <2>1, <2>2, <2>3, LenProperties
<1>3. \A i \in DOMAIN voiceQueue :
        Len(told) + i \in DOMAIN work /\ work[Len(told) + i] = voiceQueue[i] /\ i \in Nat
  BY <1>2
<1>4. CallsIn(voiceQueue) \subseteq CallsIn(work)
  BY <1>3 DEF CallsIn
<1>5. Once(voiceQueue)
  <2>1. ASSUME NEW i \in DOMAIN voiceQueue, NEW j \in DOMAIN voiceQueue,
               voiceQueue[i] = voiceQueue[j]
        PROVE  i = j
    <3>1. Len(told) + i = Len(told) + j
      BY <1>1, <1>3, <2>1, SMTT(30) DEF Once
    <3> QED
      BY <1>2, <1>3, <3>1
  <2> QED
    BY <2>1 DEF Once
<1>6. Once(outputs) /\ CallsIn(outputs) \subseteq handled
  BY DEF SessionInv, Answering
<1>7. \A s \in {voiceQueue, work, outputs} : Once(s) /\ CallsIn(s) \subseteq handled
  BY <1>1, <1>4, <1>5, <1>6
<1> QED
  BY <1>7 DEF SessionInv, SessionTypes, Course, TypeOK

LEMMA SessionInStep == SessionInv => ServerInStep
<1> SUFFICES ASSUME SessionInv, toServer = <<>>, doing \in {"receiving", "reporting"}
             PROVE  /\ surface = current_agent
                    /\ Once(outputs) /\ CallsIn(outputs) = handled
                    /\ asked
  BY DEF SessionInv, Offering, ServerInStep
<1>1. Unread = <<>> /\ Executing = {}
  BY UnreadIsTyped DEF SessionInv, Course, Executing
<1>2. /\ Offers(surface, <<>>, current_agent) /\ Asks(asked, <<>>)
      /\ Answers(outputs, <<>>, handled)
  <2>1. handled \ Executing = handled
    BY <1>1
  <2> QED
    BY <1>1, <2>1 DEF SessionInv, Offering, Answering
<1>3. surface = current_agent
  <2>1. Shown(surface, <<>>, 0, current_agent)
    BY <1>2 DEF Offers
  <2> QED
    BY <2>1 DEF Shown
<1>4. asked
  BY <1>2 DEF Asks
<1>5. Once(outputs) /\ CallsIn(outputs) = handled
  <2>1. Due(<<>>) = {}
    BY DEF Due
  <2> QED
    BY <1>2, <2>1 DEF Answers
<1> QED
  BY <1>3, <1>4, <1>5

LEMMA SessionHolds == RealtimeSpec => []SessionInv
BY SessionBegins, SessionKeeps, PTL DEF RealtimeSpec

\* The session's variables have their types, and every sequence of calls that the
\* session or the server keeps holds each call once and only calls the session took
\* (OpenAIRealtimeSession's _handled_calls and _voice_queue).
THEOREM SessionTypeCorrect == RealtimeSpec => []TypeOK
BY SessionHolds, SessionIsTyped, PTL

\* For any agents, handoffs and number of calls: Realtime is asked to go on only on
\* the surface of the active agent, and once it has read all it was sent it offers
\* that agent's tools and holds exactly one output for each call that was executed
\* (_execute_function_call, configure and create_response).
THEOREM SessionStaysInStep == RealtimeSpec => []ServerInStep
BY SessionHolds, SessionInStep, PTL

LEMMA EndingIsTrue ==
  ASSUME SessionInv, ConnectionGone \/ ReceiveFault \/ CallFault \/ ToolRaises \/ SendFails
  PROVE  LET reason == endings'[Len(endings')].reason
         IN  /\ reason \in {"provider_error", "tool_error"} => told' = work'
             /\ reason = "disconnected" => conn # "closed"
<1> DEFINE reason == endings'[Len(endings')].reason
<1>1. endings \in Seq(Notices) /\ told \in Seq(Nat)
  BY DEF SessionInv, SessionTypes
<1>2. \A report \in Seq(Notices) :
        Len(report) # 0 =>
          (endings \o report)[Len(endings \o report)] = report[Len(report)]
  <2>1. TAKE report \in Seq(Notices)
  <2>2. HAVE Len(report) # 0
  <2>3. /\ Len(endings) \in Nat /\ Len(report) \in Nat
        /\ Len(endings \o report) = Len(endings) + Len(report)
        /\ \A i \in 1..(Len(endings) + Len(report)) :
             (endings \o report)[i] = IF i <= Len(endings) THEN endings[i]
                                      ELSE report[i - Len(endings)]
    BY <1>1, ConcatProperties, LenProperties
  <2>4. /\ Len(endings) + Len(report) \in 1..(Len(endings) + Len(report))
        /\ ~(Len(endings) + Len(report) <= Len(endings))
        /\ (Len(endings) + Len(report)) - Len(endings) = Len(report)
    BY <2>2, <2>3
  <2> QED
    BY <2>3, <2>4
<1>3. CASE endings' = endings \o OtherFault
  <2>1. reason = IF terminationReason = "none" THEN "disconnected" ELSE terminationReason
    <3>1. /\ OtherFault \in Seq(Notices) /\ Len(OtherFault) # 0
          /\ OtherFault[Len(OtherFault)].reason =
               IF terminationReason = "none" THEN "disconnected" ELSE terminationReason
      <4>1. Len(OtherFault) \in {1, 2}
        BY FaultReports
      <4>2. Len(OtherFault) # 0
        BY <4>1
      <4>3. OtherFault \in Seq(Notices)
        BY FaultReports
      <4>4. OtherFault[Len(OtherFault)].reason =
              IF terminationReason = "none" THEN "disconnected" ELSE terminationReason
        BY FaultReports
      <4> QED
        BY <4>2, <4>3, <4>4
    <3>2. endings'[Len(endings')] = OtherFault[Len(OtherFault)]
      BY <1>2, <1>3, <3>1
    <3> QED
      BY <3>1, <3>2
  <2> HIDE DEF reason
  <2>2. /\ terminationReason \in {"none", "application", "completed", "caller"}
        /\ conn = "closed" => terminationReason # "none"
    BY DEF SessionInv, SessionTypes, ClosedByReason
  <2> QED
    BY <2>1, <2>2 DEF reason
<1>4. ASSUME doing \in {"receiving", "executing"},
             NEW r \in {"provider_error", "tool_error"}, endings' = endings \o Fault(r)
      PROVE  reason = r /\ told' = work'
  <2>1. reason = r
    <3>1. r \in Reasons
      BY DEF Reasons
    <3>2. Fault(r) \in Seq(Notices) /\ Len(Fault(r)) = 2 /\ Fault(r)[2].reason = r
      BY <3>1, FaultReports
    <3>3. Len(Fault(r)) # 0
      BY <3>2
    <3>4. (endings \o Fault(r))[Len(endings \o Fault(r))] = Fault(r)[2]
      BY <1>2, <3>2, <3>3
    <3> QED
      BY <1>4, <3>2, <3>4
  <2>2. work = told
    <3>1. voiceQueue = <<>> /\ work = told \o voiceQueue
      BY <1>4 DEF SessionInv, Reporting
    <3> QED
      BY <1>1, <3>1, ConcatEmptySeq
  <2> QED
    BY <2>1, <2>2, EndingSteps
<1> HIDE DEF reason
<1>5. /\ reason \in {"provider_error", "tool_error"} => told' = work'
      /\ reason = "disconnected" => conn # "closed"
  BY <1>3, <1>4, EndingSteps DEF reason
<1> QED
  BY <1>5 DEF reason

\* However the stream of a session ends: a provider's or a tool's error is its end
\* only when all work that was done before has been reported, in order, and a
\* connection that the application closed is never called lost (the except clauses
\* of voice_events).
THEOREM SessionEndsTruly == RealtimeSpec => EndsTruly
<1>1. ASSUME SessionInv, [RealtimeNext]_realtimeVars
      PROVE  [doing # "over" /\ doing' = "over" =>
                LET reason == endings'[Len(endings')].reason
                IN  /\ reason \in {"provider_error", "tool_error"} => told' = work'
                    /\ reason = "disconnected" => conn # "closed"]_realtimeVars
  <2>1. ASSUME doing # "over", doing' = "over"
        PROVE  ConnectionGone \/ ReceiveFault \/ CallFault \/ ToolRaises \/ SendFails
    <3>1. CASE ClientStep
      BY <2>1, <3>1 DEF ClientStep, ReceiveEvent, TransferTo, StartTool, ToolReturns, SendNext,
         ReportWork, ReportEvent
    <3>2. CASE ~ClientStep
      BY <1>1, <2>1, <3>2 DEF RealtimeNext, realtimeVars, clientVars, ServerReads, ModelCalls,
         ServerRepeats, ServerEnds, ServerSends, Disconnect, CloseSession, CloseTransport,
         StreamOver
    <3> QED
      BY <3>1, <3>2
  <2> QED
    BY <1>1, <2>1, EndingIsTrue
<1>2. SessionInv /\ [RealtimeNext]_realtimeVars =>
        [doing # "over" /\ doing' = "over" =>
           LET reason == endings'[Len(endings')].reason
           IN  /\ reason \in {"provider_error", "tool_error"} => told' = work'
               /\ reason = "disconnected" => conn # "closed"]_realtimeVars
  BY <1>1
<1> QED
  BY <1>2, SessionHolds, PTL DEF RealtimeSpec, EndsTruly

=============================================================================
