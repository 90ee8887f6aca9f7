--------------------------- MODULE ToolBatchProofs ---------------------------
(***************************************************************************)
(* A batch of any number of tool calls implements ToolStep, and no result  *)
(* is missing when its last task has closed.                               *)
(*                                                                         *)
(* The argument: a task's closing None comes after its last event, so that *)
(* a generator that still waits has taken that event as a result when it   *)
(* takes the None; and a task has left before its None is in the queue.    *)
(***************************************************************************)
EXTENDS ToolBatch, TLAPS

Entries == [kind: {"delta", "progress", "finished", "failure", "cancellation", "end"},
            call: Calls]
LastKinds == {"finished", "failure", "cancellation"}
Active == consumer \in {"waiting", "yielded"}
AllDone == \A c \in Calls : task[c] = "done"

Types ==
  /\ task \in [Calls -> {"created", "running", "cancelling", "done"}]
  /\ queue \in Seq(Entries)
  /\ consumer \in {"waiting", "yielded", "stopping", "ended"}
  /\ open \subseteq Calls /\ results \subseteq Calls
  /\ outcome \in {"none", "accepted", "raised", "cancelled"}

\* What the None at position i says, to a generator that takes results given.
EndsAfterItsEvent(q, i, given) ==
  q[i].kind = "end" =>
    \/ q[i].call \in given
    \/ \E j \in DOMAIN q : j < i /\ q[j].call = q[i].call /\ q[j].kind \in LastKinds

QueueInOrder == Active => \A i \in DOMAIN queue : EndsAfterItsEvent(queue, i, results)

Closed ==
  /\ \A c \in Calls \ open : task[c] = "done" /\ c \in results
  /\ \A i \in DOMAIN queue : queue[i].kind = "end" => task[queue[i].call] = "done"

Decided ==
  /\ Active => outcome = "none"
  /\ outcome = "accepted" \/ consumer = "ended" => AllDone

Inv == Types /\ QueueInOrder /\ Closed /\ Decided

\* The calls of a queue's entries.
LEMMA CallsOfQueue ==
  ASSUME NEW q \in Seq(Entries)
  PROVE  \A i \in DOMAIN q : q[i].call \in Calls
<1>1. \A i \in DOMAIN q : q[i] \in Entries
  OBVIOUS
<1> QED
  BY <1>1 DEF Entries

-----------------------------------------------------------------------------
(* Tasks put on the queue.                                                  *)

\* A task that is not over puts an event that ends nothing.
LEMMA PutKeeps ==
  ASSUME Inv, NEW c \in Calls, NEW kind \in {"delta", "progress"},
         task[c] # "done",
         queue' = Append(queue, Entry(kind, c)),
         task' \in [Calls -> {"created", "running", "cancelling", "done"}],
         task'[c] # "done",
         \A d \in Calls \ {c} : task'[d] = task[d],
         UNCHANGED consumerVars
  PROVE  Inv'
<1>1. Entry(kind, c) \in Entries /\ Entry(kind, c).kind # "end"
  BY DEF Entry, Entries
<1>2. /\ queue \in Seq(Entries) /\ queue' \in Seq(Entries)
      /\ Len(queue) \in Nat /\ DOMAIN queue = 1..Len(queue)
      /\ DOMAIN queue' = 1..(Len(queue) + 1)
      /\ queue'[Len(queue) + 1].kind # "end"
      /\ \A i \in DOMAIN queue : queue'[i] = queue[i] /\ queue[i].call \in Calls
  <2>1. queue \in Seq(Entries)
    BY DEF Inv, Types
  <2> HIDE DEF Entries
  <2>4. \A i \in DOMAIN queue : queue[i].call \in Calls
    BY <2>1, CallsOfQueue
  <2> QED
    BY <1>1, <2>1, <2>4
<1>3. Types'
  BY <1>2 DEF Inv, Types, consumerVars
<1>4. QueueInOrder'
  <2>1. ASSUME Active', NEW i \in DOMAIN queue', queue'[i].kind = "end"
        PROVE  EndsAfterItsEvent(queue', i, results')
    <3>1. i \in DOMAIN queue /\ queue[i].kind = "end" /\ queue'[i] = queue[i]
      BY <1>2, <2>1
    <3>2. EndsAfterItsEvent(queue, i, results) /\ results' = results
      BY <2>1, <3>1 DEF Inv, QueueInOrder, Active, consumerVars
    <3> QED
      BY <1>2, <3>1, <3>2 DEF EndsAfterItsEvent
  <2> QED
    BY <2>1 DEF QueueInOrder, EndsAfterItsEvent
<1>5. Closed'
  <2>1. \A i \in DOMAIN queue' : queue'[i].kind = "end" =>
          i \in DOMAIN queue /\ queue'[i] = queue[i] /\ task[queue[i].call] = "done"
    BY <1>2 DEF Inv, Closed
  <2> QED
    BY <1>2, <2>1 DEF Inv, Closed, Types, consumerVars
<1>6. Decided'
  BY DEF Inv, Decided, Active, AllDone, consumerVars
<1> QED
  BY <1>3, <1>4, <1>5, <1>6 DEF Inv

\* A task's end is preceded by its last event.
LEMMA CloseKeeps ==
  ASSUME Inv, NEW c \in Calls, NEW kind \in LastKinds, Close(c, kind)
  PROVE  Inv'
<1> DEFINE n == Len(queue)
<1>1. /\ Entry(kind, c) \in Entries /\ Entry("end", c) \in Entries
      /\ Entry(kind, c).kind = kind /\ Entry(kind, c).call = c
      /\ Entry("end", c).kind = "end" /\ Entry("end", c).call = c
  BY DEF Entry, Entries, LastKinds
<1>2. /\ queue \in Seq(Entries) /\ queue' \in Seq(Entries)
      /\ n \in Nat /\ DOMAIN queue = 1..n /\ DOMAIN queue' = 1..(n + 2)
      /\ queue'[n + 1] = Entry(kind, c) /\ queue'[n + 2] = Entry("end", c)
      /\ \A i \in DOMAIN queue : queue'[i] = queue[i] /\ queue[i].call \in Calls
  <2>1. <<Entry(kind, c), Entry("end", c)>> \in Seq(Entries)
    BY <1>1
  <2>2. queue' = queue \o <<Entry(kind, c), Entry("end", c)>>
    BY DEF Close
  <2>3. queue \in Seq(Entries)
    BY DEF Inv, Types
  <2>4. \A i \in DOMAIN queue : queue[i] \in Entries
    BY <2>3
  <2> QED
    BY <2>1, <2>2, <2>3, <2>4 DEF Entries
<1>3. Types'
  BY <1>2 DEF Inv, Types, Close, consumerVars
<1>4. QueueInOrder'
  <2>1. ASSUME Active', NEW i \in DOMAIN queue', queue'[i].kind = "end"
        PROVE  EndsAfterItsEvent(queue', i, results')
    <3>1. CASE i \in DOMAIN queue
      <4>1. EndsAfterItsEvent(queue, i, results) /\ results' = results
        BY <2>1, <3>1 DEF Inv, QueueInOrder, Active, Close, consumerVars
      <4> QED
        BY <1>2, <2>1, <3>1, <4>1 DEF EndsAfterItsEvent
    <3>2. CASE i = n + 2
      BY <1>1, <1>2, <3>2 DEF EndsAfterItsEvent
    <3>3. CASE i = n + 1
      BY <1>1, <1>2, <2>1, <3>3 DEF LastKinds
    <3> QED
      BY <1>2, <3>1, <3>2, <3>3
  <2> QED
    BY <2>1 DEF QueueInOrder, EndsAfterItsEvent
<1>5. Closed'
  <2>1. task' = [task EXCEPT ![c] = "done"] /\ UNCHANGED <<open, results>>
    BY DEF Close, consumerVars
  <2>2. ASSUME NEW i \in DOMAIN queue', queue'[i].kind = "end"
        PROVE  task'[queue'[i].call] = "done"
    <3>1. CASE i \in DOMAIN queue
      BY <1>2, <2>1, <2>2, <3>1 DEF Inv, Closed, Types
    <3>2. CASE i \in {n + 1, n + 2}
      BY <1>1, <1>2, <2>1, <3>2 DEF Inv, Types
    <3> QED
      BY <1>2, <3>1, <3>2
  <2> QED
    BY <2>1, <2>2 DEF Inv, Closed, Types
<1>6. Decided'
  BY DEF Inv, Types, Decided, Active, AllDone, Close, consumerVars
<1> QED
  BY <1>3, <1>4, <1>5, <1>6 DEF Inv

LEMMA TaskStepKeeps ==
  ASSUME Inv, NEW c \in Calls, TaskStep(c)
  PROVE  Inv'
<1>1. CASE StartTool(c)
  BY <1>1, PutKeeps DEF StartTool, Inv, Types
<1>2. CASE ReportProgress(c)
  BY <1>2, PutKeeps DEF ReportProgress, Inv, Types
<1>3. CASE ToolReturns(c) \/ ToolReturnsNull(c) \/ ToolFails(c) \/ ToolStops(c)
  <2>1. PICK kind \in LastKinds : Close(c, kind)
    BY <1>3 DEF ToolReturns, ToolReturnsNull, ToolFails, ToolStops, LastKinds
  <2> QED
    BY <2>1, CloseKeeps
<1> QED
  BY <1>1, <1>2, <1>3 DEF TaskStep

-----------------------------------------------------------------------------
(* The generator takes from it.                                             *)

LEMMA QueueTail ==
  ASSUME Types, queue # <<>>
  PROVE  /\ Tail(queue) \in Seq(Entries) /\ Head(queue) \in Entries
         /\ Head(queue) = queue[1] /\ 1 \in DOMAIN queue
         /\ \A i \in DOMAIN Tail(queue) :
              i + 1 \in DOMAIN queue /\ Tail(queue)[i] = queue[i + 1] /\ i \in Nat \ {0}
         /\ \A i \in DOMAIN queue : i # 1 => i \in Nat \ {0, 1} /\ i - 1 \in DOMAIN Tail(queue)
  BY DEF Types

\* What is taken counts if it was a result, and needs no more if it was a None.
LEMMA TailInOrder ==
  ASSUME Inv, Active, queue # <<>>, queue' = Tail(queue), results \subseteq results',
         Head(queue).kind \in LastKinds => Head(queue).call \in results'
  PROVE  \A i \in DOMAIN queue' : EndsAfterItsEvent(queue', i, results')
<1> SUFFICES ASSUME NEW i \in DOMAIN queue', queue'[i].kind = "end"
             PROVE  EndsAfterItsEvent(queue', i, results')
  BY DEF EndsAfterItsEvent
<1>1. /\ i + 1 \in DOMAIN queue /\ queue'[i] = queue[i + 1] /\ i \in Nat \ {0}
      /\ \A k \in DOMAIN queue : k # 1 => /\ k \in Nat \ {0, 1} /\ k - 1 \in DOMAIN queue'
                                          /\ queue'[k - 1] = queue[k]
      /\ Head(queue) = queue[1]
  BY QueueTail DEF Inv
<1>2. CASE queue[i + 1].call \in results
  BY <1>1, <1>2 DEF EndsAfterItsEvent
<1>3. ASSUME NEW j \in DOMAIN queue, j < i + 1, queue[j].call = queue[i + 1].call,
             queue[j].kind \in LastKinds
      PROVE  EndsAfterItsEvent(queue', i, results')
  <2>1. CASE j = 1
    BY <1>1, <1>3, <2>1 DEF EndsAfterItsEvent
  <2>2. CASE j # 1
    <3>1. j - 1 \in DOMAIN queue' /\ queue'[j - 1] = queue[j] /\ j - 1 < i
      BY <1>1, <1>3, <2>2
    <3> QED
      BY <1>1, <1>3, <3>1 DEF EndsAfterItsEvent
  <2> QED
    BY <2>1, <2>2
<1> QED
  BY <1>1, <1>2, <1>3 DEF Inv, QueueInOrder, EndsAfterItsEvent

\* Ends in the rest of the queue are of tasks that are over.
LEMMA TailClosed ==
  ASSUME Inv, queue # <<>>, queue' = Tail(queue)
  PROVE  \A i \in DOMAIN queue' : queue'[i].kind = "end" => task[queue'[i].call] = "done"
  BY QueueTail DEF Inv, Closed

\* Cancelling ends tasks, and none begins anew.
LEMMA CancelTypes ==
  ASSUME Types, CancelTasks
  PROVE  /\ task' \in [Calls -> {"created", "running", "cancelling", "done"}]
         /\ \A c \in Calls : task[c] = "done" => task'[c] = "done"
         /\ \A c \in Calls :
              task'[c] \in {"running", "cancelling"} <=> task[c] \in {"running", "cancelling"}
<1>1. \A c \in Calls : task'[c] = CASE task[c] = "created" -> "done"
                                    [] task[c] = "running" -> "cancelling"
                                    [] OTHER -> task[c]
  BY DEF CancelTasks
<1>2. \A c \in Calls : task[c] \in {"created", "running", "cancelling", "done"}
  BY DEF Types
<1>3. \A c \in Calls : \/ task[c] = "created" /\ task'[c] = "done"
                       \/ task[c] = "running" /\ task'[c] = "cancelling"
                       \/ task[c] \in {"cancelling", "done"} /\ task'[c] = task[c]
  BY <1>1, <1>2
<1> QED
  BY <1>3 DEF CancelTasks

LEMMA TakeEventKeeps ==
  ASSUME Inv, TakeEvent
  PROVE  Inv'
<1>1. /\ Types /\ Active /\ queue # <<>> /\ queue' = Tail(queue)
      /\ consumer' = "yielded" /\ UNCHANGED <<task, open, outcome>>
      /\ Head(queue).kind \in {"delta", "progress", "finished"}
      /\ results' = IF Head(queue).kind = "finished" THEN results \cup {Head(queue).call}
                    ELSE results
  BY DEF TakeEvent, Inv, Active
<1>2. Types'
  BY <1>1, QueueTail DEF Types, Entries
<1>3. QueueInOrder'
  BY <1>1, TailInOrder DEF QueueInOrder, LastKinds
<1>4. Closed'
  BY <1>1, TailClosed DEF Inv, Closed
<1>5. Decided'
  BY <1>1 DEF Inv, Decided, Active, AllDone
<1> QED
  BY <1>2, <1>3, <1>4, <1>5 DEF Inv

LEMMA StopKeeps ==
  ASSUME Inv, NEW how \in {"raised", "cancelled"}, Stop(how),
         queue' = queue \/ (queue # <<>> /\ queue' = Tail(queue)),
         UNCHANGED <<open, results>>
  PROVE  Inv'
<1>1. Types'
  BY CancelTypes, QueueTail DEF Inv, Types, Stop
<1>2. QueueInOrder'
  BY DEF QueueInOrder, Active, Stop
<1>3. Closed'
  <2>1. \A i \in DOMAIN queue' : queue'[i].kind = "end" => task'[queue'[i].call] = "done"
    <3>1. CASE queue' = queue
      <4>1. CancelTasks /\ Types /\ Closed
        BY DEF Stop, Inv
      <4>2. \A i \in DOMAIN queue : queue[i].call \in Calls
        BY <4>1, CallsOfQueue DEF Types
      <4> QED
        BY <3>1, <4>1, <4>2, CancelTypes DEF Closed
    <3>2. CASE queue # <<>> /\ queue' = Tail(queue)
      <4>1. CancelTasks /\ Types
        BY DEF Stop, Inv
      <4>2. \A i \in DOMAIN queue' : queue'[i].kind = "end" => task[queue'[i].call] = "done"
        BY <3>2, TailClosed
      <4>3. \A i \in DOMAIN queue' : queue'[i].call \in Calls
        BY <1>1, CallsOfQueue DEF Types
      <4> QED
        BY <4>1, <4>2, <4>3, CancelTypes
    <3> QED
      BY <3>1, <3>2
  <2>2. CancelTasks /\ Types /\ Closed /\ UNCHANGED <<open, results>>
    BY DEF Inv, Stop
  <2>3. \A c \in Calls : task[c] = "done" => task'[c] = "done"
    BY <2>2, CancelTypes
  <2>4. \A c \in Calls \ open' : task'[c] = "done" /\ c \in results'
    BY <2>2, <2>3 DEF Closed
  <2> QED
    BY <2>1, <2>4 DEF Closed
<1>4. Decided'
  BY DEF Decided, Active, Stop
<1> QED
  BY <1>1, <1>2, <1>3, <1>4 DEF Inv

LEMMA TakeEndKeeps ==
  ASSUME Inv, TakeEnd
  PROVE  /\ Inv'
         /\ open' = {} => results = Calls /\ AllDone
<1> DEFINE c == Head(queue).call
<1>1. /\ Types /\ Active /\ queue # <<>> /\ queue' = Tail(queue)
      /\ Head(queue).kind = "end" /\ open' = open \ {c} /\ UNCHANGED results
  BY DEF TakeEnd, Inv, Active
<1>2. c \in Calls /\ task[c] = "done" /\ c \in results
  <2>1. /\ Head(queue) \in Entries /\ Head(queue) = queue[1] /\ 1 \in DOMAIN queue
        /\ \A j \in DOMAIN queue : ~(j < 1)
    BY <1>1, QueueTail
  <2>2. EndsAfterItsEvent(queue, 1, results) /\ task[queue[1].call] = "done"
    BY <1>1, <2>1 DEF Inv, QueueInOrder, Closed
  <2> QED
    BY <1>1, <2>1, <2>2 DEF EndsAfterItsEvent, Entries
<1>3. \A d \in Calls \ open' : task[d] = "done" /\ d \in results
  BY <1>1, <1>2 DEF Inv, Closed
<1>4. open' = {} => results = Calls /\ AllDone
  BY <1>1, <1>3 DEF Types, AllDone
<1>5. \/ open' # {} /\ UNCHANGED <<task, consumer, outcome>>
      \/ open' = {} /\ Stop("accepted")
  BY <1>4 DEF TakeEnd
<1>6. \A i \in DOMAIN queue' : queue'[i].kind = "end" => task[queue'[i].call] = "done"
  BY <1>1, TailClosed
<1>7. CASE open' # {} /\ UNCHANGED <<task, consumer, outcome>>
  <2>1. Types'
    BY <1>1, <1>7, QueueTail DEF Types
  <2>2. QueueInOrder'
    BY <1>1, TailInOrder DEF QueueInOrder, LastKinds
  <2>3. Closed' /\ Decided'
    BY <1>1, <1>3, <1>6, <1>7 DEF Inv, Closed, Decided, Active, AllDone
  <2> QED
    BY <1>4, <2>1, <2>2, <2>3 DEF Inv
<1>8. CASE open' = {} /\ Stop("accepted")
  <2>1. Types'
    BY <1>1, <1>8, QueueTail, CancelTypes DEF Types, Stop
  <2>2. QueueInOrder'
    BY <1>8 DEF QueueInOrder, Active, Stop
  <2>3. AllDone'
    BY <1>1, <1>4, <1>8, CancelTypes DEF AllDone, Stop
  <2>4. Closed'
    <3>1. \A i \in DOMAIN queue' : queue'[i].call \in Calls
      BY <2>1, CallsOfQueue DEF Types
    <3> QED
      BY <1>1, <1>3, <2>3, <3>1 DEF Closed, AllDone
  <2>5. Decided'
    BY <1>8, <2>3 DEF Decided, Active, Stop
  <2> QED
    BY <1>4, <2>1, <2>2, <2>4, <2>5 DEF Inv
<1> QED
  BY <1>5, <1>7, <1>8

LEMMA InitInv == Init => Inv
<1> SUFFICES ASSUME Init PROVE Inv
  OBVIOUS
<1>1. Types
  BY DEF Init, Types
<1> QED
  BY <1>1 DEF Init, Inv, QueueInOrder, Closed, Decided, Active

LEMMA StepKeeps ==
  ASSUME Inv, [Next]_vars
  PROVE  Inv'
<1>1. CASE \E c \in Calls : TaskStep(c)
  BY <1>1, TaskStepKeeps
<1>2. CASE TakeEvent
  BY <1>2, TakeEventKeeps
<1>3. CASE TakeError
  BY <1>3, StopKeeps DEF TakeError
<1>4. CASE TakeEnd
  BY <1>4, TakeEndKeeps
<1>5. CASE HostResumes
  BY <1>5 DEF HostResumes, Inv, Types, QueueInOrder, Closed, Decided, Active, AllDone
<1>6. CASE Interrupt
  <2>1. Stop("cancelled") /\ queue' = queue /\ UNCHANGED <<open, results>>
    BY <1>6 DEF Interrupt
  <2> QED
    BY <2>1, StopKeeps
<1>7. CASE Finish
  BY <1>7 DEF Finish, Inv, Types, QueueInOrder, Closed, Decided, Active, AllDone
<1>8. CASE Ended \/ UNCHANGED vars
  BY <1>8 DEF Ended, vars, Inv, Types, QueueInOrder, Closed, Decided, Active, AllDone
<1> QED
  BY <1>1, <1>2, <1>3, <1>4, <1>5, <1>6, <1>7, <1>8 DEF Next

THEOREM Invariance == Spec => []Inv
<1>1. Inv /\ [Next]_vars => Inv'
  BY StepKeeps
<1> QED
  BY InitInv, <1>1, PTL DEF Spec

-----------------------------------------------------------------------------
\* When the last task of a batch has closed there is a result of every call: accepting
\* them never meets a missing key (agent.py, _execute_tool_events).
THEOREM NoResultMissing == Spec => []ResultsComplete
<1>1. Inv => ResultsComplete
  BY DEF Inv, Types, Closed, ResultsComplete
<1> QED
  BY <1>1, Invariance, PTL

-----------------------------------------------------------------------------
(* The refinement: a step of the batch is a step of ToolStep or stutters.    *)

Executing == {c \in Calls : task[c] \in {"running", "cancelling"}}

\* A task's step starts its tool, settles it or leaves it running.
LEMMA TaskStepRefines ==
  ASSUME Inv, NEW c \in Calls, TaskStep(c)
  PROVE  [TheStep!StepNext]_TheStep!stepVars
<1>1. task[c] # "done" /\ outcome # "accepted" /\ consumer # "ended"
  BY DEF TaskStep, StartTool, ReportProgress, ToolReturns, ToolReturnsNull, ToolFails,
     ToolStops, Inv, Decided, AllDone
<1>2. UNCHANGED <<outcome, consumer, accepted>>
  BY DEF TaskStep, StartTool, ReportProgress, ToolReturns, ToolReturnsNull, ToolFails,
     ToolStops, Close, consumerVars
<1>3. CASE StartTool(c)
  <2>1. c \notin Executing /\ Executing' = Executing \cup {c}
    BY <1>3 DEF StartTool, Executing, Inv, Types
  <2> QED
    BY <1>1, <1>2, <2>1 DEF TheStep!StepNext, TheStep!Run, Executing, Calls
<1>4. CASE ReportProgress(c)
  BY <1>2, <1>4 DEF ReportProgress, TheStep!stepVars
<1>5. CASE ToolReturns(c) \/ ToolReturnsNull(c) \/ ToolFails(c) \/ ToolStops(c)
  <2>1. c \in Executing /\ task' = [task EXCEPT ![c] = "done"]
    BY <1>5 DEF ToolReturns, ToolReturnsNull, ToolFails, ToolStops, Close, Executing
  <2>2. Executing' = Executing \ {c}
    BY <2>1 DEF Executing, Inv, Types
  <2> QED
    BY <1>1, <1>2, <2>1, <2>2 DEF TheStep!StepNext, TheStep!Settle, Executing, Calls
<1> QED
  BY <1>3, <1>4, <1>5 DEF TaskStep

LEMMA StepRefines ==
  ASSUME Inv, [Next]_vars
  PROVE  [TheStep!StepNext]_TheStep!stepVars
<1>1. CASE \E c \in Calls : TaskStep(c)
  BY <1>1, TaskStepRefines
<1>2. ASSUME NEW how \in {"raised", "cancelled"}, Active, Stop(how), UNCHANGED accepted
      PROVE  UNCHANGED TheStep!stepVars
  <2>1. Executing' = Executing
    BY <1>2, CancelTypes DEF Inv, Stop, Executing
  <2>2. outcome = "none" /\ outcome' # "accepted" /\ consumer # "ended" /\ consumer' # "ended"
    BY <1>2 DEF Inv, Decided, Stop, Active
  <2> QED
    BY <1>2, <2>1, <2>2 DEF TheStep!stepVars, Executing
<1>3. CASE TakeError \/ Interrupt
  <2>1. PICK how \in {"raised", "cancelled"} : Stop(how)
    BY <1>3 DEF TakeError, Interrupt
  <2> QED
    BY <1>2, <1>3, <2>1 DEF TakeError, Interrupt, Active
<1>4. CASE TakeEnd
  <2>1. CASE open' = {}
    <3>1. Stop("accepted") /\ accepted' = CallOrder /\ Active
      BY <1>4, <2>1, TakeEndKeeps DEF TakeEnd, Active
    <3>2. AllDone /\ AllDone'
      BY <1>4, <2>1, <3>1, TakeEndKeeps, CancelTypes DEF Inv, Stop, AllDone
    <3>3. Executing = {} /\ Executing' = {}
      BY <3>2 DEF Executing, AllDone
    <3>4. outcome # "accepted" /\ consumer # "ended" /\ outcome' = "accepted"
      BY <3>1 DEF Inv, Decided, Active, Stop
    <3> QED
      BY <3>1, <3>3, <3>4 DEF TheStep!StepNext, TheStep!Accept, Executing, CallOrder, Calls
  <2>2. CASE open' # {}
    BY <1>4, <2>2 DEF TakeEnd, TheStep!stepVars
  <2> QED
    BY <2>1, <2>2
<1>5. CASE Finish
  <2>1. Executing = {} /\ UNCHANGED <<task, outcome, accepted>>
    BY <1>5 DEF Finish, Executing
  <2>2. consumer = "stopping" /\ consumer' = "ended"
    BY <1>5 DEF Finish
  <2> QED
    BY <2>1, <2>2 DEF TheStep!StepNext, TheStep!GiveUp, TheStep!stepVars, Executing
<1>6. CASE TakeEvent \/ HostResumes
  <2>1. UNCHANGED <<task, outcome, accepted>> /\ consumer # "ended" /\ consumer' # "ended"
    BY <1>6 DEF TakeEvent, HostResumes
  <2> QED
    BY <2>1 DEF TheStep!stepVars
<1>7. CASE Ended \/ UNCHANGED vars
  BY <1>7 DEF Ended, vars, TheStep!stepVars
<1> QED
  BY <1>1, <1>3, <1>4, <1>5, <1>6, <1>7 DEF Next

\* "A failed or cancelled batch cancels and awaits its remaining tasks" (README): for
\* any number of calls and any of them remote or hanging, no tool runs once a batch
\* has been decided, and the run gets every result in call order or none.
THEOREM BatchIsStep == Spec => ImplementsToolStep
<1>1. Init => TheStep!StepInit
  BY DEF Init, TheStep!StepInit
<1>2. Inv /\ [Next]_vars => [TheStep!StepNext]_TheStep!stepVars
  BY StepRefines
<1> QED
  BY <1>1, <1>2, Invariance, PTL DEF Spec, ImplementsToolStep, TheStep!StepSpec

=============================================================================
