------------------------------ MODULE ToolBatch ------------------------------
(***************************************************************************)
(* One parallel batch of tool calls: Agent._execute_tool_events with       *)
(* parallel_tool_calls and the tasks it creates (agents/agent.py).         *)
(*                                                                         *)
(* One asyncio task per call runs the tool and puts its events, its error  *)
(* and a closing None on an unbounded queue; the generator takes them,     *)
(* yields the events to its host, and accepts the results in call order    *)
(* once every task has closed.  An error, a deadline, a cancellation or    *)
(* the host closing the stream stops it: it cancels every task and waits   *)
(* for all of them.  A step here is what runs between two awaits.          *)
(***************************************************************************)
EXTENDS Naturals, Sequences

CONSTANTS
  NumCalls,      \* tool calls in the batch
  Remote,        \* calls whose RemoteTool is streamed (error policy "raise")
  MayHang,       \* calls whose tool may never return unless it is cancelled
  NullReturns,   \* remote calls that may return JSON null
  MaxProgress    \* bound: progress events of one remote call

Calls == 1..NumCalls

ASSUME BatchAssumption ==
  /\ NumCalls \in Nat \ {0}
  /\ NullReturns \subseteq Remote /\ Remote \subseteq Calls
  /\ MayHang \subseteq Calls
  /\ MaxProgress \in Nat

VARIABLES
  task,        \* where each task stands
  progress,    \* progress events each remote call has reported
  queue,       \* the asyncio queue
  consumer,    \* where the generator stands
  open,        \* tasks whose closing None is not taken yet: remaining is its size
  results,     \* calls with a result in the results dict
  outcome,     \* how the batch was decided
  interrupted, \* history: the deadline expired or the host cancelled or closed
  accepted     \* calls whose results were accepted, in order

vars == <<task, progress, queue, consumer, open, results, outcome, interrupted,
          accepted>>

Entry(kind, c) == [kind |-> kind, call |-> c]

Init ==
  /\ task = [c \in Calls |-> "created"]
  /\ progress = [c \in Calls |-> 0]
  /\ queue = <<>>
  /\ consumer = "waiting"
  /\ open = Calls
  /\ results = {}
  /\ outcome = "none"
  /\ interrupted = FALSE
  /\ accepted = <<>>

-----------------------------------------------------------------------------
(* The tasks.                                                               *)

consumerVars == <<consumer, open, results, outcome, interrupted, accepted>>

\* A task puts the call's delta and starts its tool.
StartTool(c) ==
  /\ task[c] = "created"
  /\ task' = [task EXCEPT ![c] = "running"]
  /\ queue' = Append(queue, Entry("delta", c))
  /\ UNCHANGED <<progress, consumerVars>>

ReportProgress(c) ==
  /\ task[c] \in {"running", "cancelling"}
  /\ c \in Remote
  /\ progress[c] < MaxProgress
  /\ progress' = [progress EXCEPT ![c] = @ + 1]
  /\ queue' = Append(queue, Entry("progress", c))
  /\ UNCHANGED <<task, consumerVars>>

Close_NoEnd(c, kind) ==
  /\ task' = [task EXCEPT ![c] = "done"]
  /\ queue' = Append(queue, Entry(kind, c))
  /\ UNCHANGED <<progress, consumerVars>>

\* The task ends with its last event and the closing None of the finally block.
Close(c, kind) ==
  /\ task' = [task EXCEPT ![c] = "done"]
  /\ queue' = queue \o <<Entry(kind, c), Entry("end", c)>>
  /\ UNCHANGED <<progress, consumerVars>>

ToolReturns(c) ==
  /\ task[c] = "running"
  /\ Close(c, "finished")

\* A streamed remote tool whose value is null looks as if it had no result.
ToolReturnsNull(c) ==
  /\ task[c] \in {"running", "cancelling"} /\ c \in NullReturns
  /\ Close(c, "cancellation")

ToolFails_Swallowed(c) ==
  /\ task[c] = "running"
  /\ task' = [task EXCEPT ![c] = "done"]
  /\ queue' = Append(queue, Entry("end", c))
  /\ UNCHANGED <<progress, consumerVars>>

ToolFails(c) ==
  /\ task[c] = "running"
  /\ Close(c, "failure")

\* A cancelled tool raises CancelledError, or returns or fails while it stops.
ToolStops(c) ==
  /\ task[c] = "cancelling"
  /\ \E kind \in {"cancellation", "finished", "failure"} : Close(c, kind)

-----------------------------------------------------------------------------
(* The generator.                                                           *)

\* task.cancel() for every task: one that never ran ends without a trace.
CancelTasks ==
  task' = [c \in Calls |-> CASE task[c] = "created" -> "done"
                             [] task[c] = "running" -> "cancelling"
                             [] OTHER -> task[c]]

Stop(how) ==
  /\ consumer' = "stopping"
  /\ outcome' = how
  /\ CancelTasks

TakeEvent ==
  /\ consumer = "waiting" /\ queue # <<>>
  /\ Head(queue).kind \in {"delta", "progress", "finished"}
  /\ results' = IF Head(queue).kind = "finished" THEN results \cup {Head(queue).call}
                ELSE results
  /\ queue' = Tail(queue)
  /\ consumer' = "yielded"
  /\ UNCHANGED <<task, progress, open, outcome, interrupted, accepted>>

TakeError ==
  /\ consumer = "waiting" /\ queue # <<>>
  /\ Head(queue).kind \in {"failure", "cancellation"}
  /\ queue' = Tail(queue)
  /\ Stop(IF Head(queue).kind = "failure" THEN "raised" ELSE "cancelled")
  /\ UNCHANGED <<progress, open, results, interrupted, accepted>>

\* The results are accepted in the order of the calls, not of completion.
CallOrder == [i \in Calls |-> i]

\* The last None: every result is accepted, in call order.  A missing result
\* would be a KeyError.
TakeEnd ==
  /\ consumer = "waiting" /\ queue # <<>>
  /\ Head(queue).kind = "end"
  /\ open' = open \ {Head(queue).call}
  /\ queue' = Tail(queue)
  /\ IF open' # {} THEN UNCHANGED <<task, consumer, outcome, accepted>>
     ELSE IF results # Calls THEN Stop("raised") /\ UNCHANGED accepted
     ELSE Stop("accepted") /\ accepted' = CallOrder
  /\ UNCHANGED <<progress, results, interrupted>>

\* The host asks for the next event.
HostResumes ==
  /\ consumer = "yielded"
  /\ consumer' = "waiting"
  /\ UNCHANGED <<task, progress, queue, open, results, outcome, interrupted, accepted>>

\* The deadline or a cancellation reaches queue.get(), or the host closes the
\* stream at a yield.
Interrupt ==
  /\ consumer \in {"waiting", "yielded"}
  /\ interrupted' = TRUE
  /\ Stop("cancelled")
  /\ UNCHANGED <<progress, queue, open, results, accepted>>

Finish_NoWait ==
  /\ consumer = "stopping"
  /\ consumer' = "ended"
  /\ UNCHANGED <<task, progress, queue, open, results, outcome, interrupted, accepted>>

\* gather(*tasks) has waited for every task.
Finish ==
  /\ consumer = "stopping"
  /\ \A c \in Calls : task[c] = "done"
  /\ consumer' = "ended"
  /\ UNCHANGED <<task, progress, queue, open, results, outcome, interrupted, accepted>>

Ended == consumer = "ended" /\ UNCHANGED vars

TaskStep(c) ==
  \/ StartTool(c)
  \/ ReportProgress(c)
  \/ ToolReturns(c)
  \/ ToolReturnsNull(c)
  \/ ToolFails(c)
  \/ ToolStops(c)

Next ==
  \/ \E c \in Calls : TaskStep(c)
  \/ TakeEvent
  \/ TakeError
  \/ TakeEnd
  \/ HostResumes
  \/ Interrupt
  \/ Finish
  \/ Ended

Spec == Init /\ [][Next]_vars

\* The event loop starts tasks, tools return unless they hang, and cancelled
\* ones stop; the host keeps asking.  Nobody has to interrupt.
FairSpec ==
  /\ Spec
  /\ \A c \in Calls \ MayHang : WF_vars(TaskStep(c))
  /\ \A c \in MayHang : WF_vars(StartTool(c)) /\ WF_vars(ToolStops(c))
  /\ WF_vars(TakeEvent \/ TakeError \/ TakeEnd \/ HostResumes \/ Finish)

-----------------------------------------------------------------------------
(* Properties.                                                              *)

\* The batch implements ToolStep: no tool outlives it, and the run sees every
\* result in call order or none.  "A failed or cancelled batch cancels and
\* awaits its remaining tasks" (README).
TheStep == INSTANCE ToolStep WITH
  running <- {c \in Calls : task[c] \in {"running", "cancelling"}},
  stage <- IF outcome = "accepted" THEN "accepted"
           ELSE IF consumer = "ended" THEN "failed" ELSE "open",
  outputs <- accepted
ImplementsToolStep == TheStep!StepSpec

\* The dict has a result for every call when the last task has closed: the
\* batch never fails with a missing key.
ResultsComplete ==
  open = {} => results = Calls

\* A batch ends by itself, unless all it still waits for are tools that hang, and
\* even then if a sibling of theirs failed: no event, error or closing None is lost
\* on the way to the generator.
BatchEnds ==
  /\ <>(consumer = "ended" \/ (open # {} /\ open \subseteq MayHang))
  /\ (\E i \in DOMAIN queue : queue[i].kind = "failure") ~> consumer = "ended"

=============================================================================
