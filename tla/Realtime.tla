------------------------------ MODULE Realtime ------------------------------
(***************************************************************************)
(* A realtime voice session: OpenAIRealtimeSession on a WebSocket, read by *)
(* the host through voice_events and closed by the application.            *)
(*                                                                         *)
(* The server is external.  It offers the model the tools and handoffs of  *)
(* the last session.update it read and announces every function call       *)
(* twice, when its arguments are complete and when its item is.            *)
(***************************************************************************)
EXTENDS Naturals, Sequences

CONSTANTS
  Agents, Entry,    \* the registered agents and the first one
  Strangers,        \* handoff targets that are not registered
  MaxCalls,         \* bound: function calls of the session
  MaxInFlight       \* bound: events on their way to the client

ASSUME RealtimeAssumption ==
  Entry \in Agents /\ Agents \cap Strangers = {} /\ MaxCalls \in Nat
  /\ MaxInFlight \in Nat

VARIABLES
  current_agent, handled, voiceQueue, terminationReason,
  doing,      \* what voice_events is at
  event,      \* the event being handled
  todo,       \* messages the handler has yet to send
  conn,       \* "open", "lost", or "closed" by the application
  closing,    \* whether a close is on its way to the transport
  toServer, toClient,    \* messages in flight, first in first out
  surface,    \* server: whose tools and handoffs the model is offered
  calls,      \* server: the calls it made and what they name
  outputs,    \* server: the calls whose outputs it was sent, in order
  asked,      \* server: it was asked to go on after the last output
  work,       \* history: the calls whose tool or handoff is done
  told,       \* history: the calls whose work was reported to the host
  endings     \* history: what the host was told of errors and of the end

clientVars == <<current_agent, handled, voiceQueue, doing, event, todo, work,
                told, endings>>
serverVars == <<surface, calls, outputs, asked>>
realtimeVars ==
  <<clientVars, terminationReason, conn, closing, toServer, toClient, serverVars>>

-----------------------------------------------------------------------------
\* What an agent lets the model call: its tool and its handoffs.
Tool(a) == [kind |-> "tool", name |-> a]
Handoff(a) == [kind |-> "handoff", name |-> a]
Offered(a) == {Tool(a)} \cup {Handoff(b) : b \in (Agents \cup Strangers) \ {a}}
Callable == UNION {Offered(a) : a \in Agents}

Announcement(c) == [kind |-> "call", call |-> c]
Plain(kind) == [kind |-> kind]
Error(reason) == [kind |-> "error", reason |-> reason]
Ended(reason) == [kind |-> "ended", reason |-> reason]

\* configure, the function output and create_response.
Update(a) == [kind |-> "update", agent |-> a]
Output(c) == [kind |-> "output", call |-> c]
Create(a) == [kind |-> "create", agent |-> a]

RealtimeInit ==
  /\ current_agent = Entry /\ surface = Entry
  /\ handled = {} /\ voiceQueue = <<>> /\ terminationReason = "none"
  /\ doing = "receiving" /\ event = Plain("none") /\ todo = <<>>
  /\ conn = "open" /\ closing = FALSE
  /\ toServer = <<>> /\ toClient = <<>>
  /\ calls = <<>> /\ outputs = <<>> /\ asked = TRUE
  /\ work = <<>> /\ told = <<>> /\ endings = <<>>

-----------------------------------------------------------------------------
(* The server and the network, while somebody reads the stream.             *)

Live == conn = "open" /\ doing # "over"

ServerReads ==
  /\ Live /\ toServer # <<>>
  /\ toServer' = Tail(toServer)
  /\ LET m == Head(toServer)
     IN  /\ surface' = IF m.kind = "update" THEN m.agent ELSE surface
         /\ outputs' = IF m.kind = "output" THEN Append(outputs, m.call) ELSE outputs
         /\ asked' = (IF m.kind = "update" THEN asked ELSE m.kind = "create")
  /\ UNCHANGED <<clientVars, terminationReason, conn, closing, toClient, calls>>

ServerSends(e) ==
  /\ Live /\ Len(toClient) < MaxInFlight
  /\ toClient' = Append(toClient, e)
  /\ UNCHANGED <<clientVars, terminationReason, conn, closing, toServer,
                 surface, outputs, asked>>

\* The model makes a call: its arguments are done.
ModelCalls ==
  /\ Len(calls) < MaxCalls
  /\ ServerSends(Announcement(Len(calls) + 1))
  /\ \E what \in Offered(surface) : calls' = Append(calls, what)

\* Any call may be announced again: its output item is done.
ServerRepeats ==
  \E c \in DOMAIN calls :
    /\ \A i \in DOMAIN toClient : toClient[i] # Announcement(c)
    /\ ServerSends(Announcement(c))
    /\ UNCHANGED calls

\* An error, the end of the session (once), or what is no event at all.
ServerEnds ==
  \E kind \in {"error", "ended", "garbage"} :
    /\ \A i \in DOMAIN toClient : toClient[i].kind = "call"
    /\ kind = "ended" => \A i \in DOMAIN endings : endings[i] # Ended("caller")
    /\ ServerSends(Plain(kind))
    /\ UNCHANGED calls

Disconnect ==
  /\ Live
  /\ conn' = "lost"
  /\ UNCHANGED <<clientVars, terminationReason, closing, toServer, toClient, serverVars>>

-----------------------------------------------------------------------------
(* close, while voice_events is read elsewhere.                             *)

CloseSession(reason) ==
  /\ doing # "over" /\ ~closing /\ terminationReason # reason
  /\ closing' = TRUE
  /\ terminationReason' = reason
  /\ UNCHANGED <<clientVars, conn, toServer, toClient, serverVars>>

CloseTransport ==
  /\ closing
  /\ closing' = FALSE
  /\ conn' = IF conn = "open" THEN "closed" ELSE conn
  /\ UNCHANGED <<clientVars, terminationReason, toServer, toClient, serverVars>>

-----------------------------------------------------------------------------
(* voice_events.                                                            *)

Raise_Swallowed(report) ==
  /\ doing' = "receiving" /\ todo' = <<>>
  /\ UNCHANGED <<current_agent, handled, voiceQueue, event, work, told, endings>>

\* An except clause of voice_events: what it reports is the end of the stream.
Raise(report) ==
  /\ doing' = "over" /\ endings' = endings \o report
  /\ UNCHANGED <<current_agent, handled, voiceQueue, event, todo, work, told>>

Fault(reason) == <<Error(reason), Ended(reason)>>

\* except Exception
OtherFault ==
  IF terminationReason = "application" THEN <<Ended("application")>>
  ELSE Fault(IF terminationReason = "none" THEN "disconnected" ELSE terminationReason)

\* recv raises.  What arrived before may be read first, and need not be if it was
\* the application that closed.
ConnectionGone ==
  /\ doing = "receiving"
  /\ \/ conn = "lost" /\ toClient = <<>>
     \/ conn = "closed"
  /\ Raise(OtherFault)
  /\ UNCHANGED <<terminationReason, conn, closing, toServer, toClient, serverVars>>

\* handle: has this call been executed?
New_Always(c) == TRUE
New(c) == c \notin handled

Receives(kind) ==
  /\ doing = "receiving" /\ toClient # <<>>
  /\ Head(toClient).kind = kind
  /\ toClient' = Tail(toClient)
  /\ UNCHANGED <<terminationReason, conn, closing, toServer, serverVars>>

ReceivesNew(what) ==
  /\ Receives("call") /\ New(Head(toClient).call)
  /\ calls[Head(toClient).call] = what
  /\ event' = Head(toClient)
  /\ handled' = handled \cup {Head(toClient).call}

\* receive or handle raises.
ReceiveFault ==
  \/ Receives("error") /\ Raise(Fault("provider_error"))
  \/ Receives("garbage") /\ Raise(OtherFault)

\* Nothing to handle.
ReceiveEvent ==
  /\ \/ Receives("ended")
     \/ Receives("call") /\ ~New(Head(toClient).call)
  /\ event' = Head(toClient)
  /\ doing' = "reporting"
  /\ UNCHANGED <<current_agent, handled, voiceQueue, todo, work, told, endings>>

Replies_UpdateLast(a, c) == <<Output(c), Create(a), Update(a)>>
\* What a handoff sends: the new surface before the output.
Replies(a, c) == <<Update(a), Output(c), Create(a)>>

\* _execute_function_call with a handoff; its callback accepts the input.
TransferTo(a) ==
  /\ ReceivesNew(Handoff(a))
  /\ a # current_agent
  /\ current_agent' = a
  /\ voiceQueue' = Append(voiceQueue, event'.call)
  /\ work' = Append(work, event'.call)
  /\ todo' = Replies(a, event'.call)
  /\ doing' = "sending"
  /\ UNCHANGED <<told, endings>>

\* The agent has no such handoff or tool: UnknownToolError.
CallUnknown ==
  \E what \in Callable \ Offered(current_agent) :
    ReceivesNew(what) /\ endings' = endings \o Fault("tool_error")

\* The target is not registered, or the handoff's callback raises first.
TransferFault ==
  \/ /\ \E a \in Strangers : ReceivesNew(Handoff(a))
     /\ endings' = endings \o Fault("provider_error")
  \/ /\ \E a \in (Agents \cup Strangers) \ {current_agent} : ReceivesNew(Handoff(a))
     /\ endings' = endings \o OtherFault

CallFault ==
  /\ CallUnknown \/ TransferFault
  /\ doing' = "over"
  /\ UNCHANGED <<current_agent, voiceQueue, todo, work, told>>

StartTool ==
  /\ ReceivesNew(Tool(current_agent))
  /\ doing' = "executing"
  /\ UNCHANGED <<current_agent, voiceQueue, todo, work, told, endings>>

ToolReturns ==
  /\ doing = "executing"
  /\ voiceQueue' = Append(voiceQueue, event.call)
  /\ work' = Append(work, event.call)
  /\ todo' = <<Output(event.call), Create(current_agent)>>
  /\ doing' = "sending"
  /\ UNCHANGED <<current_agent, handled, event, told, endings, terminationReason, conn, closing,
                 toServer, toClient, serverVars>>

\* A tool error, or an exception voice_events has no name for (ApprovalRequired).
ToolRaises ==
  /\ doing = "executing"
  /\ Raise(Fault("tool_error")) \/ Raise(OtherFault)
  /\ UNCHANGED <<terminationReason, conn, closing, toServer, toClient, serverVars>>

\* One await of transport.send.
SendNext ==
  /\ doing = "sending" /\ conn = "open"
  /\ toServer' = Append(toServer, Head(todo))
  /\ todo' = Tail(todo)
  /\ doing' = IF Tail(todo) = <<>> THEN "reporting" ELSE "sending"
  /\ UNCHANGED <<current_agent, handled, voiceQueue, event, work, told, endings,
                 terminationReason, conn, closing, toClient, serverVars>>

SendFails ==
  /\ doing = "sending" /\ conn # "open"
  /\ Raise(OtherFault)
  /\ UNCHANGED <<terminationReason, conn, closing, toServer, toClient, serverVars>>

Drained_Skip == TRUE
Drained == voiceQueue = <<>>

\* The host is given what the handlers queued, then the event itself.
ReportWork ==
  /\ doing = "reporting" /\ ~Drained
  /\ told' = Append(told, Head(voiceQueue))
  /\ voiceQueue' = Tail(voiceQueue)
  /\ UNCHANGED <<current_agent, handled, doing, event, todo, work, endings, terminationReason,
                 conn, closing, toServer, toClient, serverVars>>

ReportEvent ==
  /\ doing = "reporting" /\ Drained
  /\ doing' = "receiving"
  /\ IF event.kind = "ended"
     THEN endings' = Append(endings, Ended("caller")) /\ terminationReason' = "caller"
     ELSE UNCHANGED <<endings, terminationReason>>
  /\ UNCHANGED <<current_agent, handled, voiceQueue, event, todo, work, told,
                 conn, closing, toServer, toClient, serverVars>>

StreamOver == doing = "over" /\ UNCHANGED realtimeVars

-----------------------------------------------------------------------------
ClientStep ==
  \/ ConnectionGone
  \/ ReceiveFault
  \/ ReceiveEvent
  \/ \E a \in Agents : TransferTo(a)
  \/ CallFault
  \/ StartTool
  \/ ToolReturns
  \/ ToolRaises
  \/ SendNext
  \/ SendFails
  \/ ReportWork
  \/ ReportEvent

RealtimeNext ==
  \/ ClientStep
  \/ ServerReads
  \/ ModelCalls
  \/ ServerRepeats
  \/ ServerEnds
  \/ Disconnect
  \/ \E reason \in {"application", "completed"} : CloseSession(reason)
  \/ CloseTransport
  \/ StreamOver

\* Tools return, the host reads on, and a transport told to close does.
RealtimeSpec ==
  /\ RealtimeInit /\ [][RealtimeNext]_realtimeVars
  /\ WF_realtimeVars(ClientStep) /\ WF_realtimeVars(CloseTransport)

-----------------------------------------------------------------------------
(* Properties.                                                              *)

Reasons == {"application", "completed", "caller", "disconnected", "provider_error",
            "tool_error"}
CallsIn(s) == {s[i] : i \in DOMAIN s}
Once(s) == \A i, j \in DOMAIN s : s[i] = s[j] => i = j

TypeOK ==
  /\ current_agent \in Agents /\ surface \in Agents
  /\ handled \subseteq DOMAIN calls
  /\ calls \in Seq(Callable) /\ Len(calls) <= MaxCalls
  /\ \A s \in {voiceQueue, work, outputs} : Once(s) /\ CallsIn(s) \subseteq handled
  /\ terminationReason \in {"none", "application", "completed", "caller"}
  /\ doing \in {"receiving", "executing", "sending", "reporting", "over"}
  /\ doing = "sending" <=> todo # <<>> /\ doing # "over"
  /\ conn \in {"open", "lost", "closed"} /\ closing \in BOOLEAN /\ asked \in BOOLEAN

\* The server is asked to go on only on the active agent's surface; and when it has
\* read all there is, it offers the active agent's tools and holds one output for
\* each call that was executed, though it announced each twice ("sends its output
\* to the socket, and asks Realtime to continue.  A transfer_to_* handoff updates
\* the active agent's instructions and tool surface", README.md).
ServerInStep ==
  /\ toServer # <<>> /\ Head(toServer).kind = "create" =>
       surface = Head(toServer).agent
  /\ toServer = <<>> /\ doing \in {"receiving", "reporting"} =>
       /\ surface = current_agent
       /\ Once(outputs) /\ CallsIn(outputs) = handled
       /\ asked

\* An error of the provider or of a tool ends the stream only after all that was
\* done before it has been reported, in order; and a transport the application
\* closed is never reported as a lost connection ("Close either session with a
\* VoiceTerminationReason to make lifecycle reporting explicit", README.md).
EndsTruly ==
  [][doing # "over" /\ doing' = "over" =>
       LET reason == endings'[Len(endings')].reason
       IN  /\ reason \in {"provider_error", "tool_error"} => told' = work'
           /\ reason = "disconnected" => conn # "closed"]_realtimeVars

\* When the connection is gone, whoever ended it, voice_events ends.
StreamEnds == conn # "open" ~> doing = "over"

=============================================================================
