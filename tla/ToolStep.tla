------------------------------ MODULE ToolStep ------------------------------
(***************************************************************************)
(* What a batch of tool calls promises the run that started it: calls run  *)
(* only while the step is open, and the step closes once, when no call     *)
(* runs any more, with every result in call order or with none at all.     *)
(* AgentExecution takes its parallel tool steps at this grain.             *)
(***************************************************************************)
EXTENDS Naturals, Sequences

CONSTANT NumCalls     \* tool calls in the batch, 1..NumCalls in call order

VARIABLES
  running,   \* calls whose tool is executing
  stage,     \* "open", "accepted" or "failed"
  outputs    \* results handed to the run, by call

stepVars == <<running, stage, outputs>>

StepInit == running = {} /\ stage = "open" /\ outputs = <<>>

Run(c) ==
  /\ stage = "open"
  /\ c \notin running
  /\ running' = running \cup {c}
  /\ UNCHANGED <<stage, outputs>>

Settle(c) ==
  /\ stage = "open"
  /\ c \in running
  /\ running' = running \ {c}
  /\ UNCHANGED <<stage, outputs>>

Accept ==
  /\ stage = "open" /\ running = {}
  /\ stage' = "accepted"
  /\ outputs' = [i \in 1..NumCalls |-> i]
  /\ UNCHANGED running

GiveUp ==
  /\ stage = "open" /\ running = {}
  /\ stage' = "failed"
  /\ UNCHANGED <<running, outputs>>

StepNext ==
  \/ \E c \in 1..NumCalls : Run(c) \/ Settle(c)
  \/ Accept
  \/ GiveUp

StepSpec == StepInit /\ [][StepNext]_stepVars

=============================================================================
