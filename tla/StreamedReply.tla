--------------------------- MODULE StreamedReply ---------------------------
(***************************************************************************)
(* A model's streamed reply, from the bytes of the HTTP body to the        *)
(* response the agent accepts: parse_sse_lines, the stream mappers of the  *)
(* Chat and the Responses API and the agent's loop over their events.      *)
(*                                                                         *)
(* The server is external.  It sends text and the arguments of its calls   *)
(* in pieces, those of different calls in any order, and may stop at any   *)
(* byte.  A byte here is half a line of data, the name of an event or an   *)
(* end of line, and arguments are sequences of numbered pieces.            *)
(***************************************************************************)
EXTENDS Naturals, Sequences

CONSTANTS
  MaxCalls, MaxPieces,  \* bounds: calls of a reply; pieces of a call, or of the text
  MaxUnread             \* bound: bytes sent that were not read yet

ASSUME StreamAssumption == {MaxCalls, MaxPieces, MaxUnread} \subseteq Nat

VARIABLES
  dialect,    \* "chat", "responses", or "items": responses whose deltas name items
  meant,      \* server: how many pieces of the text and of each call it has sent
  whole,      \* server: the calls whose arguments it has announced as done
  finish,     \* server: how it ended the reply, or "no"
  wire,       \* bytes sent and not read
  conn,       \* "open"; "ended" after the data of the last event; before, "torn" inside
              \* a line or "cut" between two
  buffer, data,         \* parser: the bytes it has yet to split, the data of the event
  text, calls, completed,   \* mapper: what it has collected
  shown,      \* history: the deltas the agent passed on, joined
  pending,    \* history: the events sent that the mapper was not given yet
  outcome     \* "reading", "accepted", or the error: "undecodable", "no json"

serverVars == <<dialect, meant, whole, finish>>
mapperVars == <<text, calls, completed, shown>>
replyVars == <<serverVars, wire, conn, buffer, data, mapperVars, pending, outcome>>

\* A call goes by its call_id, or by its item_id where an event has no other.
CallId(n) == <<"call", n>>
Key(n) == IF dialect = "items" THEN <<"item", n>> ELSE CallId(n)

Pieces(n) == [i \in 1..n |-> i]
Meant == [text |-> Pieces(meant.text),
          calls |-> [n \in DOMAIN meant.calls |->
                       [id |-> CallId(n), arguments |-> Pieces(meant.calls[n])]]]

ReplyInit ==
  /\ dialect \in {"chat", "responses", "items"}
  /\ meant = [text |-> 0, calls |-> <<>>] /\ whole = {} /\ finish = "no"
  /\ wire = <<>> /\ conn = "open"
  /\ buffer = <<>> /\ data = <<>>
  /\ text = <<>> /\ calls = <<>> /\ completed = <<>>
  /\ shown = [text |-> <<>>, calls |-> <<>>] /\ pending = <<>> /\ outcome = "reading"

-----------------------------------------------------------------------------
(* The server.                                                              *)

Text(piece) == [kind |-> "text", piece |-> piece]
\* A chunk of a chat has the index of the call, and its id in the first only.
Delta(n, piece) ==
  [kind |-> "delta", index |-> n, piece |-> piece,
   id |-> IF dialect = "chat" /\ piece > 1 THEN <<>> ELSE Key(n)]
ArgumentsDone(n) ==
  [kind |-> "done", index |-> n, id |-> Key(n), arguments |-> Pieces(meant.calls[n])]
Done == [kind |-> "[DONE]"]
Incomplete == [kind |-> "incomplete"]

\* The output of the terminal response: the calls, and the message anywhere among them.
Message == [type |-> "message", text |-> Meant.text]
FunctionCalls == [n \in DOMAIN meant.calls |->
                    [type |-> "function_call", call |-> Meant.calls[n]]]
Completed(m) ==
  [kind |-> "completed",
   output |-> IF meant.text = 0 THEN FunctionCalls
              ELSE [i \in 1..(Len(meant.calls) + 1) |->
                      IF i = m THEN Message ELSE FunctionCalls[IF i < m THEN i ELSE i - 1]]]

Newline == [byte |-> "newline"]
Name == [byte |-> "name"]
\* The line of data, which for a text has a character in the middle.
FirstHalf(e) == [byte |-> "head", event |-> e]
SecondHalf(e) == [byte |-> "tail", event |-> e]

\* An event: its name, unless it is a chunk of a chat, its data and a blank line.
Frame(e) ==
  IF dialect = "chat" THEN <<FirstHalf(e), SecondHalf(e), Newline, Newline>>
  ELSE <<Name, Newline, FirstHalf(e), SecondHalf(e), Newline, Newline>>

Sends(e) ==
  /\ conn = "open" /\ outcome = "reading" /\ finish = "no"
  /\ Len(buffer) + Len(wire) <= MaxUnread
  /\ wire' = wire \o Frame(e)
  /\ pending' = Append(pending, e)
  /\ UNCHANGED <<dialect, conn, buffer, data, mapperVars, outcome>>

SendText ==
  /\ meant.text < MaxPieces
  /\ Sends(Text(meant.text + 1))
  /\ meant' = [meant EXCEPT !.text = @ + 1]
  /\ UNCHANGED <<whole, finish>>

SendPiece ==
  \E n \in (1..MaxCalls) \ whole :
    /\ \/ /\ n = Len(meant.calls) + 1
          /\ Sends(Delta(n, 1))
          /\ meant' = [meant EXCEPT !.calls = Append(@, 1)]
       \/ /\ n \in DOMAIN meant.calls /\ meant.calls[n] < MaxPieces
          /\ Sends(Delta(n, meant.calls[n] + 1))
          /\ meant' = [meant EXCEPT !.calls[n] = @ + 1]
    /\ UNCHANGED <<whole, finish>>

SendArgumentsDone ==
  \E n \in DOMAIN meant.calls \ whole :
    /\ dialect # "chat"
    /\ Sends(ArgumentsDone(n))
    /\ whole' = whole \cup {n}
    /\ UNCHANGED <<meant, finish>>

SendFinish ==
  \E e \in IF dialect = "chat" THEN {Done}
           ELSE {Completed(m) : m \in 1..(Len(meant.calls) + 1)} \cup {Incomplete} :
    /\ Sends(e)
    /\ finish' = e.kind
    /\ UNCHANGED <<meant, whole>>

\* The body ends, after the last event or anywhere before.  The last blank line may miss.
BodyStops ==
  /\ conn = "open" /\ outcome = "reading"
  /\ \E n \in 0..Len(wire) :
       LET left == buffer \o SubSeq(wire, 1, n)
       IN  /\ wire' = SubSeq(wire, 1, n)
           /\ conn' = IF finish # "no" /\ n + 1 >= Len(wire) THEN "ended"
                      ELSE IF left # <<>> /\ left[Len(left)].byte # "newline" THEN "torn"
                      ELSE "cut"
  /\ UNCHANGED <<serverVars, buffer, data, mapperVars, pending, outcome>>

-----------------------------------------------------------------------------
(* The mappers: one decoded event, and the reply when there are no more.    *)

\* calls.setdefault(key, ...)
SetDefault(cs, key, id) ==
  IF \E i \in DOMAIN cs : cs[i].key = key THEN cs
  ELSE Append(cs, [key |-> key, id |-> id, arguments |-> <<>>])

\* One more piece of a call.  Its id is the last one given.
AddPiece(cs, key, id, piece) ==
  LET all == SetDefault(cs, key, id)
  IN  [i \in DOMAIN all |->
         IF all[i].key # key THEN all[i]
         ELSE [key |-> key, id |-> IF id = <<>> THEN all[i].id ELSE id,
               arguments |-> Append(all[i].arguments, piece)]]

Final_Appended(old, arguments) == old \o arguments

\* What the end of the arguments says of them replaces the pieces.
Final(old, arguments) == arguments

Finalize(cs, key, arguments) ==
  LET all == SetDefault(cs, key, key)
  IN  [i \in DOMAIN all |->
         IF all[i].key # key THEN all[i]
         ELSE [all[i] EXCEPT !.arguments = Final(@, arguments)]]

\* The agent passes on what an event adds.
PassText(piece) == shown' = [shown EXCEPT !.text = Append(@, piece)]
PassPiece(key, id, piece) == shown' = [shown EXCEPT !.calls = AddPiece(@, key, id, piece)]

MapText(e) ==
  /\ e.kind = "text"
  /\ text' = Append(text, e.piece)
  /\ PassText(e.piece)
  /\ UNCHANGED <<calls, completed>>

MapDelta(e, key) ==
  /\ e.kind = "delta"
  /\ calls' = AddPiece(calls, key, e.id, e.piece)
  /\ PassPiece(key, e.id, e.piece)
  /\ UNCHANGED <<text, completed>>

\* chat_stream_events: calls by index.
MapChunk(e) == MapText(e) \/ MapDelta(e, e.index)

\* from_responses_payload, of a payload with one message at most
FromPayload(output) ==
  IF \E m \in DOMAIN output : output[m].type = "message"
  THEN LET m == CHOOSE m \in DOMAIN output : output[m].type = "message"
       IN  [text |-> output[m].text,
            calls |-> [i \in 1..(Len(output) - 1) |-> output[IF i < m THEN i ELSE i + 1].call]]
  ELSE [text |-> <<>>, calls |-> [i \in DOMAIN output |-> output[i].call]]

\* responses_stream_events: calls by id; an event of another type is ignored.
MapEvent(e) ==
  \/ MapText(e)
  \/ MapDelta(e, e.id)
  \/ /\ e.kind = "done"
     /\ calls' = Finalize(calls, e.id, e.arguments)
     /\ UNCHANGED <<text, completed, shown>>
  \/ /\ e.kind = "completed"
     /\ completed' = <<FromPayload(e.output)>>
     /\ UNCHANGED <<text, calls, shown>>
  \/ /\ e.kind = "incomplete"
     /\ UNCHANGED mapperVars

Map(e) == IF dialect = "chat" THEN MapChunk(e) ELSE MapEvent(e)

ToolCalls(cs) == [i \in DOMAIN cs |-> [id |-> cs[i].id, arguments |-> cs[i].arguments]]

Reply ==
  IF completed # <<>> THEN completed[1] ELSE [text |-> text, calls |-> ToolCalls(calls)]

-----------------------------------------------------------------------------
(* parse_sse_lines.                                                         *)

Kept_NotAcrossChunks(old) == <<>>

\* The unfinished line a chunk continues.
Kept(old) == old

Splits(chunk) ==
  chunk[Len(chunk)].byte = "head" /\ chunk[Len(chunk)].event.kind = "text"

\* The first line of the buffer, if it is whole, has n bytes with its end.
LineEnds(n) ==
  /\ n \in DOMAIN buffer /\ buffer[n].byte = "newline"
  /\ \A i \in 1..(n - 1) : buffer[i].byte # "newline"

HasLine == \E n \in DOMAIN buffer : buffer[n].byte = "newline"

\* A chunk of any size is decoded by itself, before its lines are looked at.
ReadChunk ==
  /\ outcome = "reading" /\ ~HasLine
  /\ \E n \in 1..Len(wire) :
       LET chunk == SubSeq(wire, 1, n)
       IN  /\ wire' = SubSeq(wire, n + 1, Len(wire))
           /\ \/ Splits(chunk) /\ outcome' = "undecodable" /\ UNCHANGED buffer
              \/ ~Splits(chunk) /\ buffer' = Kept(buffer) \o chunk /\ UNCHANGED outcome
  /\ UNCHANGED <<serverVars, conn, data, mapperVars, pending>>

\* A line of data, or a name, which is skipped.
ReadLine ==
  /\ outcome = "reading"
  /\ \E n \in DOMAIN buffer :
       /\ LineEnds(n) /\ n > 1
       /\ buffer' = SubSeq(buffer, n + 1, Len(buffer))
       /\ data' = IF buffer[1].byte = "head" THEN Append(data, buffer[1].event) ELSE data
  /\ UNCHANGED <<serverVars, wire, conn, mapperVars, pending, outcome>>

\* A blank line: the event goes to the mapper.
ReadBlank ==
  /\ outcome = "reading" /\ LineEnds(1)
  /\ buffer' = Tail(buffer) /\ data' = <<>>
  /\ \/ data = <<>> /\ UNCHANGED <<mapperVars, pending, outcome>>
     \/ /\ data = <<Done>> /\ pending' = Tail(pending)
        /\ outcome' = "accepted"
        /\ UNCHANGED mapperVars
     \/ /\ data \notin {<<>>, <<Done>>} /\ pending' = Tail(pending)
        /\ Map(data[1])
        /\ UNCHANGED outcome
  /\ UNCHANGED <<serverVars, wire, conn>>

LeftOver_Ignored == FALSE

\* What the body ended in is no event.
LeftOver == data = <<>> /\ buffer # <<>>

\* At the end of the body the data read so far is an event, with or without a blank line.
ReadEnd ==
  /\ outcome = "reading" /\ ~HasLine /\ conn # "open" /\ wire = <<>>
  /\ \/ LeftOver /\ outcome' = "no json" /\ UNCHANGED <<mapperVars, pending>>
     \/ /\ ~LeftOver /\ data = <<>>
        /\ outcome' = "accepted"
        /\ UNCHANGED <<mapperVars, pending>>
     \/ /\ data # <<>> /\ pending' = Tail(pending)
        /\ \/ data = <<Done>> /\ UNCHANGED mapperVars
           \/ data # <<Done>> /\ Map(data[1])
        /\ outcome' = "accepted"
  /\ UNCHANGED <<serverVars, wire, conn, buffer, data>>

ReplyNext ==
  \/ SendText \/ SendPiece \/ SendArgumentsDone \/ SendFinish \/ BodyStops
  \/ ReadChunk \/ ReadLine \/ ReadBlank \/ ReadEnd

ReplySpec == ReplyInit /\ [][ReplyNext]_replyVars

-----------------------------------------------------------------------------
\* The reply to a request whose stream arrived whole is what the model meant, however
\* the pieces of its calls were mixed and wherever the chunks ended (sse.py:36-60,
\* mapper.py:157-413).
ReplyWhole ==
  outcome = "accepted" /\ conn \in {"open", "ended"} /\ finish # "incomplete" => Reply = Meant

\* The deltas a caller was shown make up the reply the agent goes on with, call by
\* call, also when the stream was cut off (agent.py:263-282).
ShownIsReply ==
  outcome = "accepted" =>
    /\ shown.text = Reply.text
    /\ Len(shown.calls) = Len(Reply.calls)
    /\ \A i \in DOMAIN shown.calls : /\ shown.calls[i].arguments = Reply.calls[i].arguments
                                     /\ dialect # "items" => shown.calls[i].id = Reply.calls[i].id

\* A body that ends inside a line is refused, in whichever line of an event it is, and no
\* other body is refused as no JSON, wherever its chunks ended (sse.py:41-60).  One that
\* ends between two lines is accepted: after a name without its event, after the data
\* with it.
TornRefused ==
  /\ conn = "torn" => outcome # "accepted"
  /\ outcome = "no json" => conn = "torn"
=============================================================================
