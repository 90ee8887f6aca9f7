------------------------ MODULE McpConnectionProofs ------------------------
(***************************************************************************)
(* What a connection offers is one whole catalogue, a run goes on with the *)
(* tools of all its connections, and a manager leaves nothing of its own   *)
(* open: for any connections, runs, catalogues and bounds.                 *)
(*                                                                         *)
(* The argument for the catalogue: what a call has listed so far is of the *)
(* catalogue of the server it asks, and it is kept in the call, out of     *)
(* reach of those who clear the connection meanwhile; the cache and the    *)
(* flag are set together from it, by its last page.                        *)
(*                                                                         *)
(* For those who use it: the task a run waits for leaves a catalogue       *)
(* before it is over, so that only a clearing takes it away, and whoever   *)
(* clears disturbs every run that prepares; a name is attached only where  *)
(* nobody has it, and only what is attached is noted as such; and the      *)
(* manager starts nothing but while it gathers, and counts each connection *)
(* that is open by its doing among those it has yet to close.              *)
(***************************************************************************)
EXTENDS McpConnection, TLAPS

States == {"none", "new", "discover", "list", "cancelling", "cancelled", "done", "failed"}
Calls == [at: States, got: SUBSET Names, connects: BOOLEAN]

CallTypes ==
  /\ catalogue \in [Clients -> Offers]
  /\ call \in [Owners -> [Clients -> Calls]]
  /\ tools \in [Clients -> (SUBSET Names) \cup {None}]
  /\ connected \in [Clients -> Owners \cup {None}]

ListedSoFar == \A o \in Owners, c \in Clients : call[o][c].got \subseteq catalogue[c]

CallInv == CallTypes /\ ListedSoFar
Inv == CallInv /\ CatalogueWhole

\* What an action does to the calls: each gets nothing it did not have.
CallsKept ==
  \/ call' = call
  \/ \E o \in Owners : \E calls \in [Clients -> Calls] :
       /\ \A c \in Clients : calls[c].got \subseteq call[o][c].got
       /\ call' = [call EXCEPT ![o] = calls]

-----------------------------------------------------------------------------
(* What runs and the manager rely on.                                       *)

Phases == {"idle", "gathering", "settling", "unwinding", "failed", "ready", "lost", "refused",
           "duplicate", "connected", "closing", "broken", "closed"}
ControlTypes == phase \in [Owners -> Phases] /\ attached \in [Clients -> SUBSET Names]

\* Names are the agent's once, and what was noted as attached is attached.
ToolsAttached ==
  /\ \A t, u \in agentTools : t.name = u.name => t = u
  /\ \A c \in Clients : \A n \in attached[c] : [name |-> n, from |-> c] \in agentTools

\* Unless somebody cleared a connection meanwhile, a run that prepares has the tools
\* of each client that it need not wait for.
Prepared ==
  \A r \in Runs : r \notin disturbed =>
    /\ phase[r] = "gathering" =>
         \A c \in Clients : call[r][c].at \in {"none", "done"} => tools[c] # None
    /\ phase[r] = "settling" => \A c \in Clients : tools[c] # None
    /\ phase[r] # "lost"

\* The manager connects nothing but while it gathers, and has yet to close what it
\* connected while it closes.
Group ==
  /\ phase[Manager] \notin {"gathering", "unwinding"} =>
       \A c \in Clients : call[Manager][c].at = "none"
  /\ phase[Manager] = "closing" => \A c \in Clients : connected[c] = Manager => c \in closing
  /\ phase[Manager] = "closed" => \A c \in Clients : connected[c] # Manager

UseInv == Inv /\ ControlTypes /\ ToolsAttached /\ Prepared /\ Group

-----------------------------------------------------------------------------
LEMMA NoCallType == NoCall \in Calls /\ NewCall \in Calls /\ NoCall.got = {} /\ NewCall.got = {}
  BY DEF NoCall, NewCall, Calls, States

LEMMA Catalogues ==
  ASSUME Inv, NEW o \in Owners, NEW c \in Clients
  PROVE  /\ catalogue[c] # None /\ catalogue[c] \subseteq Names
         /\ call[o][c] \in Calls /\ call[o][c].got \subseteq catalogue[c]
<1>1. CallTypes /\ ListedSoFar
  BY DEF Inv, CallInv
<1>2. catalogue[c] \in Offers /\ call[o][c] \in Calls
  BY <1>1 DEF CallTypes
<1>3. Offers \subseteq SUBSET Names /\ None \notin Offers
  BY McpAssumption
<1>4. call[o][c].got \subseteq catalogue[c]
  BY <1>1 DEF ListedSoFar
<1> QED
  BY <1>2, <1>3, <1>4

LEMMA CallsKeptKeeps ==
  ASSUME CallInv, CallsKept, catalogue' = catalogue,
         tools' \in [Clients -> (SUBSET Names) \cup {None}],
         connected' \in [Clients -> Owners \cup {None}]
  PROVE  CallInv'
<1> USE DEF CallInv, CallTypes, ListedSoFar
<1>1. CASE call' = call
  BY <1>1
<1>2. CASE call' # call
  <2>1. PICK o \in Owners, calls \in [Clients -> Calls] :
          /\ \A c \in Clients : calls[c].got \subseteq call[o][c].got
          /\ call' = [call EXCEPT ![o] = calls]
    BY <1>2 DEF CallsKept
  <2>2. call' \in [Owners -> [Clients -> Calls]]
    BY <2>1
  <2>3. ASSUME NEW p \in Owners, NEW c \in Clients
        PROVE  call'[p][c].got \subseteq catalogue[c]
    BY <2>1
  <2> QED
    BY <2>2, <2>3
<1> QED
  BY <1>1, <1>2

LEMMA BecomesKeeps ==
  ASSUME CallInv, NEW o \in Owners, NEW c \in Clients, NEW at \in States, Becomes(o, c, at)
  PROVE  CallsKept
<1> DEFINE k == IF o = Host /\ at \in {"done", "failed"} THEN NoCall
                ELSE [call[o][c] EXCEPT !.at = at, !.got = {}]
           calls == [call[o] EXCEPT ![c] = k]
<1>1. call[o] \in [Clients -> Calls] /\ call[o][c] \in Calls
  BY DEF CallInv, CallTypes
<1>2. k \in Calls /\ k.got = {}
  BY <1>1, NoCallType DEF Calls
<1>3. calls \in [Clients -> Calls] /\ \A d \in Clients : calls[d].got \subseteq call[o][d].got
  BY <1>1, <1>2
<1>4. call' = [call EXCEPT ![o] = calls]
  BY DEF Becomes
<1> QED
  BY <1>3, <1>4 DEF CallsKept

LEMMA AsksKeeps ==
  ASSUME CallInv, NEW o \in Owners, NEW c \in Clients, NEW at \in States, Asks(o, c, at)
  PROVE  CallsKept
<1>1. PICK to \in States : Becomes(o, c, to)
  BY DEF Asks, States
<1> QED
  BY <1>1, BecomesKeeps

-----------------------------------------------------------------------------
(* The steps of a call.                                                     *)

LEMMA ListedKeeps ==
  ASSUME Inv, NEW o \in Owners, NEW c \in Clients, Listed(o, c), catalogue' = catalogue
  PROVE  Inv'
<1>1. /\ CallInv /\ CatalogueWhole /\ CallTypes
      /\ call[o][c].got \subseteq catalogue[c]
      /\ catalogue[c] # None /\ catalogue[c] \subseteq Names
  BY Catalogues DEF Inv, CallInv
<1>2. /\ tools' = [tools EXCEPT ![c] = catalogue[c]]
      /\ connected' = [connected EXCEPT ![c] = IF call[o][c].connects THEN o ELSE @]
      /\ Becomes(o, c, "done")
  <2>1. call[o][c].got \cup (catalogue[c] \ call[o][c].got) = catalogue[c]
    BY <1>1
  <2> QED
    BY <2>1 DEF Listed, WithPage
<1>3. /\ tools' \in [Clients -> (SUBSET Names) \cup {None}]
      /\ connected' \in [Clients -> Owners \cup {None}]
  BY <1>1, <1>2 DEF CallTypes
<1>4. CallsKept
  BY <1>1, <1>2, BecomesKeeps DEF States
<1>5. CallInv'
  BY <1>1, <1>3, <1>4, CallsKeptKeeps
<1>6. ASSUME NEW d \in Clients
      PROVE  /\ connected'[d] # None => tools'[d] # None
             /\ tools'[d] # None => tools'[d] = catalogue'[d]
  BY <1>1, <1>2 DEF CallTypes, CatalogueWhole
<1> QED
  BY <1>5, <1>6 DEF Inv, CatalogueWhole

LEMMA ServerListsKeeps ==
  ASSUME Inv, NEW o \in Owners, NEW c \in Clients, ServerLists(o, c), catalogue' = catalogue
  PROVE  Inv'
<1> DEFINE k == call[o][c]
<1>1. CallInv /\ k \in Calls /\ k.got \subseteq catalogue[c] /\ catalogue[c] \subseteq Names
  BY Catalogues DEF Inv
<1>2. PICK page \in SUBSET (catalogue[c] \ k.got) : \E at \in {"list", "failed"} :
        call' = [call EXCEPT ![o][c] = [k EXCEPT !.got = @ \cup page, !.at = at]]
  <2>1. PICK page \in SUBSET (catalogue[c] \ k.got) :
          call' = [call EXCEPT ![o][c].got = WithPage(@, page),
                               ![o][c].at = IF open[c] THEN "list" ELSE "failed"]
    BY DEF ServerLists
  <2>2. call' = [call EXCEPT ![o][c] = [k EXCEPT !.got = @ \cup page,
                                                 !.at = IF open[c] THEN "list" ELSE "failed"]]
    BY <2>1, <1>1 DEF WithPage, CallInv, CallTypes, Calls
  <2> QED
    BY <2>2
<1>3. PICK at \in {"list", "failed"} :
        call' = [call EXCEPT ![o][c] = [k EXCEPT !.got = @ \cup page, !.at = at]]
  BY <1>2
<1> DEFINE l == [k EXCEPT !.got = @ \cup page, !.at = at]
<1>4. l \in Calls /\ l.got \subseteq catalogue[c]
  BY <1>1, <1>2 DEF Calls, States
<1>5. CallInv'
  <2>1. tools' = tools /\ connected' = connected
    BY DEF ServerLists, connVars
  <2>2. call' \in [Owners -> [Clients -> Calls]]
    BY <1>1, <1>3, <1>4 DEF CallInv, CallTypes
  <2>3. ASSUME NEW p \in Owners, NEW d \in Clients
        PROVE  call'[p][d].got \subseteq catalogue[d]
    BY <1>1, <1>3, <1>4 DEF CallInv, CallTypes, ListedSoFar
  <2> QED
    BY <1>1, <2>1, <2>2, <2>3 DEF CallInv, CallTypes, ListedSoFar
<1> QED
  BY <1>5 DEF Inv, CatalogueWhole, ServerLists, connVars

\* Steps that leave the connections alone and list nothing.
LEMMA QuietSteps ==
  ASSUME Inv, CallsKept, UNCHANGED <<catalogue, connVars>>
  PROVE  Inv'
<1>1. CallInv'
  BY CallsKeptKeeps DEF Inv, CallInv, CallTypes, connVars
<1> QED
  BY <1>1 DEF Inv, CatalogueWhole, connVars

LEMMA CallStepKeeps ==
  ASSUME Inv, CallStep
  PROVE  Inv'
<1>1. catalogue' = catalogue
  BY DEF CallStep
<1>2. PICK o \in Owners, c \in Clients :
        \/ Connect(o, c) \/ Discovered(o, c) \/ ServerLists(o, c) \/ Listed(o, c)
        \/ RequestFails(o, c) \/ CallCancelled(o, c)
  BY DEF CallStep
<1>3. CASE Connect(o, c)
  <2>1. FirstRequest(c) \in States
    BY DEF FirstRequest, States
  <2>2. CallsKept
    BY <1>3, <2>1, BecomesKeeps, AsksKeeps DEF Connect, Inv, States
  <2> QED
    BY <1>1, <1>3, <2>2, QuietSteps DEF Connect
<1>4. CASE Discovered(o, c)
  <2>1. CallsKept
    BY <1>4, AsksKeeps DEF Discovered, Inv, States
  <2> QED
    BY <1>1, <1>4, <2>1, QuietSteps DEF Discovered
<1>5. CASE ServerLists(o, c)
  BY <1>1, <1>5, ServerListsKeeps
<1>6. CASE Listed(o, c)
  BY <1>1, <1>6, ListedKeeps
<1>7. CASE RequestFails(o, c) \/ CallCancelled(o, c)
  <2>1. CallsKept
    BY <1>7, BecomesKeeps DEF RequestFails, CallCancelled, Inv, States
  <2> QED
    BY <1>1, <1>7, <2>1, QuietSteps DEF RequestFails, CallCancelled
<1> QED
  BY <1>2, <1>3, <1>4, <1>5, <1>6, <1>7

-----------------------------------------------------------------------------
(* What owners do to the calls of their tasks.                              *)

LEMMA TasksKeep ==
  ASSUME Inv, NEW o \in Owners,
         \/ \E which : CreateTasks(o, which)
         \/ \E next : CancelTasks(o, next)
         \/ Forget(o)
  PROVE  CallsKept
<1>1. call[o] \in [Clients -> Calls]
  BY DEF Inv, CallInv, CallTypes
<1>2. ASSUME NEW which, CreateTasks(o, which)
      PROVE  CallsKept
  <2> DEFINE calls == [c \in Clients |-> IF c \in which THEN NewCall ELSE NoCall]
  <2>1. calls \in [Clients -> Calls] /\ \A c \in Clients : calls[c].got \subseteq call[o][c].got
    BY NoCallType
  <2> QED
    BY <1>2, <2>1 DEF CreateTasks, CallsKept
<1>3. ASSUME NEW next, CancelTasks(o, next)
      PROVE  CallsKept
  <2>1. [NoCall EXCEPT !.at = "cancelling"] \in Calls /\ [NoCall EXCEPT !.at = "cancelling"].got = {}
    BY DEF NoCall, Calls, States
  <2>2. /\ Cancelled(call[o]) \in [Clients -> Calls]
        /\ \A c \in Clients : Cancelled(call[o])[c].got \subseteq call[o][c].got
    BY <1>1, <2>1 DEF Cancelled
  <2>3. call' = [call EXCEPT ![o] = Cancelled(call[o])]
    BY <1>3 DEF CancelTasks
  <2> QED
    BY <2>2, <2>3 DEF CallsKept
<1>4. ASSUME Forget(o)
      PROVE  CallsKept
  <2> DEFINE calls == [c \in Clients |-> IF Over(call[o][c]) THEN NoCall ELSE call[o][c]]
  <2>1. calls \in [Clients -> Calls] /\ \A c \in Clients : calls[c].got \subseteq call[o][c].got
    BY <1>1, NoCallType
  <2>2. call' = [call EXCEPT ![o] = calls]
    BY <1>4 DEF Forget
  <2> QED
    BY <2>1, <2>2 DEF CallsKept
<1> QED
  BY <1>2, <1>3, <1>4

\* Clearing takes the flag and the cache away together, and no call.
LEMMA ClearKeeps ==
  ASSUME Inv, NEW c, Clear(c), UNCHANGED catalogue, CallsKept
  PROVE  Inv'
<1>1. /\ tools' \in [Clients -> (SUBSET Names) \cup {None}]
      /\ connected' \in [Clients -> Owners \cup {None}]
      /\ \A d \in Clients : \/ tools'[d] = None /\ connected'[d] = None
                            \/ tools'[d] = tools[d] /\ connected'[d] = connected[d]
  BY DEF Clear, Inv, CallInv, CallTypes
<1>2. CallInv'
  BY <1>1, CallsKeptKeeps DEF Inv
<1> QED
  BY <1>1, <1>2 DEF Inv, CatalogueWhole

LEMMA RefreshKeeps ==
  ASSUME Inv, NEW c \in Clients, Refresh(c)
  PROVE  Inv'
<1> DEFINE k == IF open[c]
                THEN [at |-> IF connected[c] = None THEN FirstRequest(c) ELSE "list",
                      got |-> {}, connects |-> connected[c] = None]
                ELSE NoCall
           calls == [call[Host] EXCEPT ![c] = k]
<1>1. Host \in Owners /\ call[Host] \in [Clients -> Calls]
  BY DEF Owners, Inv, CallInv, CallTypes
<1>2. k \in Calls /\ k.got = {}
  BY NoCallType DEF Calls, States, FirstRequest
<1>3. calls \in [Clients -> Calls] /\ \A d \in Clients : calls[d].got \subseteq call[Host][d].got
  BY <1>1, <1>2
<1>4. call' = [call EXCEPT ![Host] = calls]
  BY DEF Refresh
<1>5. CallsKept
  BY <1>1, <1>3, <1>4 DEF CallsKept
<1> QED
  BY <1>5, QuietSteps DEF Refresh, HostCall

-----------------------------------------------------------------------------
LEMMA StepKeeps ==
  ASSUME Inv, [Next]_vars
  PROVE  Inv'
<1>1. CASE CallStep
  BY <1>1, CallStepKeeps
<1>2. CASE \E c \in Clients : Invalidate(c) \/ HostCloses(c)
  BY <1>2, ClearKeeps DEF Invalidate, HostCloses, CloseConnection, HostCall, CallsKept
<1>3. CASE \E c \in Clients : Refresh(c)
  BY <1>3, RefreshKeeps
<1>4. CASE \E o \in Runs \cup {Manager} : GatherRaises(o) \/ Interrupt(o)
  <2>1. PICK o \in Owners : GatherRaises(o) \/ Interrupt(o)
    BY <1>4 DEF Owners
  <2>2. CallsKept
    BY <2>1, TasksKeep DEF GatherRaises, Interrupt
  <2> QED
    BY <2>1, <2>2, QuietSteps DEF GatherRaises, Interrupt
<1>5. CASE \E r \in Runs : StartRun(r) \/ RunSync(r) \/ GatherReturns(r) \/ Settle(r)
  <2>1. PICK r \in Runs : StartRun(r) \/ RunSync(r) \/ GatherReturns(r) \/ Settle(r)
    BY <1>5
  <2>2. r \in Owners /\ UNCHANGED <<catalogue, connVars>>
    BY <2>1 DEF Owners, StartRun, RunSync, GatherReturns, Settle
  <2>3. CallsKept
    <3>1. CASE StartRun(r)
      BY <2>2, <3>1, TasksKeep DEF StartRun, CallsKept
    <3>2. CASE RunSync(r) \/ GatherReturns(r)
      BY <3>2 DEF RunSync, GatherReturns, CallsKept
    <3>3. CASE Settle(r)
      BY <2>2, <3>3, TasksKeep DEF Settle
    <3> QED
      BY <2>1, <3>1, <3>2, <3>3
  <2> QED
    BY <2>2, <2>3, QuietSteps
<1>6. CASE ManagerConnects \/ ManagerConnected \/ ManagerBeginsClosing
  <2>1. Manager \in Owners /\ UNCHANGED <<catalogue, connVars>>
    BY <1>6 DEF Owners, ManagerConnects, ManagerConnected, ManagerBeginsClosing
  <2>2. CallsKept
    BY <1>6, <2>1, TasksKeep DEF ManagerConnects, ManagerConnected, ManagerBeginsClosing
  <2> QED
    BY <2>1, <2>2, QuietSteps
<1>7. CASE \E c \in Clients : ManagerCloses(c) \/ ManagerCloseRaises(c)
  BY <1>7, ClearKeeps DEF ManagerCloses, ManagerCloseRaises, CloseConnection, CallsKept
<1>8. CASE ManagerClosed \/ UNCHANGED vars
  BY <1>8, QuietSteps DEF ManagerClosed, vars, CallsKept
<1> QED
  BY <1>1, <1>2, <1>3, <1>4, <1>5, <1>6, <1>7, <1>8 DEF Next

\* A connection that is connected has a catalogue, and it is the server's own from its
\* first page to its last, whatever refreshes, invalidations, closes and cancellations
\* come between the pages (connection.py:63-87, client.py:100-110).
THEOREM CatalogueIsWhole == Spec => []CatalogueWhole
<1>1. Init => Inv
  BY NoCallType DEF Init, Inv, CallInv, CallTypes, ListedSoFar, CatalogueWhole
<1>2. Inv /\ [Next]_vars => Inv'
  BY StepKeeps
<1>3. Inv => CatalogueWhole
  BY DEF Inv
<1> QED
  BY <1>1, <1>2, <1>3, PTL DEF Spec

-----------------------------------------------------------------------------
(* What the calls do for those who wait for them.                           *)

\* Owners are told apart.
LEMMA OwnersDiffer ==
  /\ Manager \in Owners /\ Host \in Owners /\ Runs \subseteq Owners
  /\ Manager # Host /\ Manager \notin Runs /\ Host \notin Runs
  /\ None \notin Owners
BY McpAssumption DEF Owners

\* A call that becomes done leaves a catalogue, no catalogue goes, the manager
\* starts no call and connects by its calls alone.
CallsMove ==
  /\ \A d \in Clients : tools[d] # None => tools'[d] # None
  /\ \A r \in Runs, d \in Clients :
       call'[r][d].at \in {"none", "done"} =>
         call[r][d].at \in {"none", "done"} \/ tools'[d] # None
  /\ \A d \in Clients : call[Manager][d].at = "none" => call'[Manager][d].at = "none"
  /\ \A d \in Clients : connected'[d] = Manager =>
       connected[d] = Manager \/ call[Manager][d].at # "none"

\* Such a step keeps what runs and the manager rely on.
LEMMA MovesKeep ==
  ASSUME UseInv, CallsMove, UNCHANGED <<agentVars, phase, closing, disturbed>>
  PROVE  ControlTypes' /\ ToolsAttached' /\ Prepared' /\ Group'
<1>1. ControlTypes' /\ ToolsAttached'
  BY DEF UseInv, ControlTypes, ToolsAttached, agentVars
<1>2. Prepared'
  BY DEF UseInv, Prepared, CallsMove
<1>3. Group'
  BY DEF UseInv, Group, CallsMove
<1> QED
  BY <1>1, <1>2, <1>3

\* The host's calls are forgotten as they end; others say how they ended.
LEMMA BecomesAt ==
  ASSUME CallInv, NEW o \in Owners, NEW c \in Clients, NEW at \in States, Becomes(o, c, at)
  PROVE  /\ \A p \in Owners, d \in Clients : p # o \/ d # c => call'[p][d] = call[p][d]
         /\ call'[o][c].at = at \/ (o = Host /\ call'[o][c].at = "none")
<1>1. call \in [Owners -> [Clients -> Calls]] /\ call[o][c] \in Calls
  BY DEF CallInv, CallTypes
<1> DEFINE k == IF o = Host /\ at \in {"done", "failed"} THEN NoCall
                ELSE [call[o][c] EXCEPT !.at = at, !.got = {}]
<1>2. k.at = at \/ (o = Host /\ k.at = "none")
  BY <1>1 DEF NoCall, Calls
<1>3. call' = [call EXCEPT ![o][c] = k]
  BY DEF Becomes
<1> HIDE DEF k
<1> QED
  BY <1>1, <1>2, <1>3

\* A call that goes on, without an end, moves nothing that others rely on.
LEMMA GoesOn ==
  ASSUME CallInv, NEW o \in Owners, NEW c \in Clients, call[o][c].at # "none",
         \A p \in Owners, d \in Clients : p # o \/ d # c => call'[p][d] = call[p][d],
         o # Host => call'[o][c].at # "none" /\ (call'[o][c].at = "done" => tools'[c] # None),
         \A d \in Clients : tools[d] # None => tools'[d] # None,
         \A d \in Clients : connected'[d] # connected[d] => d = c /\ connected'[d] = o
  PROVE  CallsMove
<1>1. ASSUME NEW r \in Runs, NEW d \in Clients, call'[r][d].at \in {"none", "done"}
      PROVE  call[r][d].at \in {"none", "done"} \/ tools'[d] # None
  BY <1>1, OwnersDiffer
<1>2. \A d \in Clients : call[Manager][d].at = "none" => call'[Manager][d].at = "none"
  BY OwnersDiffer
<1>3. \A d \in Clients : connected'[d] = Manager =>
        connected[d] = Manager \/ call[Manager][d].at # "none"
  BY OwnersDiffer
<1> QED
  BY <1>1, <1>2, <1>3 DEF CallsMove

\* Every step of a call is one.
LEMMA CallStepMoves ==
  ASSUME Inv, CallStep
  PROVE  CallsMove
<1>1. PICK o \in Owners, c \in Clients :
        \/ Connect(o, c) \/ Discovered(o, c) \/ ServerLists(o, c) \/ Listed(o, c)
        \/ RequestFails(o, c) \/ CallCancelled(o, c)
  BY DEF CallStep
<1>2. CallInv /\ CatalogueWhole
  BY DEF Inv
<1>3. ASSUME NEW at \in States, Becomes(o, c, at), call[o][c].at # "none", UNCHANGED connVars,
             at # "none", at = "done" => tools[c] # None
      PROVE  CallsMove
  <2>1. /\ \A p \in Owners, d \in Clients : p # o \/ d # c => call'[p][d] = call[p][d]
        /\ call'[o][c].at = at \/ (o = Host /\ call'[o][c].at = "none")
    BY <1>2, <1>3, BecomesAt
  <2> QED
    BY <1>2, <1>3, <2>1, GoesOn DEF connVars
<1>4. ASSUME NEW at \in States \ {"none", "done"}, Asks(o, c, at), call[o][c].at # "none",
             UNCHANGED connVars
      PROVE  CallsMove
  <2>1. PICK to \in States \ {"none", "done"} : Becomes(o, c, to)
    BY <1>4 DEF Asks, States
  <2> QED
    BY <1>3, <1>4, <2>1
<1>5. CASE Connect(o, c)
  <2>1. FirstRequest(c) \in States \ {"none", "done"}
    BY DEF FirstRequest, States
  <2>2. CASE Cached(c)
    <3>1. Becomes(o, c, "done") /\ tools[c] # None /\ call[o][c].at # "none" /\ UNCHANGED connVars
      BY <1>5, <2>2 DEF Connect, Cached
    <3>2. "done" \in States
      BY DEF States
    <3> QED
      BY <1>3, <3>1, <3>2
  <2>3. CASE ~Cached(c)
    BY <1>4, <1>5, <2>1, <2>3 DEF Connect
  <2> QED
    BY <2>2, <2>3
<1>6. CASE Discovered(o, c)
  <2>1. "list" \in States \ {"none", "done"}
    BY DEF States
  <2> QED
    BY <1>4, <1>6, <2>1 DEF Discovered
<1>7. CASE ServerLists(o, c)
  <2>1. PICK page : call' = [call EXCEPT ![o][c].got = page,
                                         ![o][c].at = IF open[c] THEN "list" ELSE "failed"]
    BY <1>7 DEF ServerLists
  <2>2. call \in [Owners -> [Clients -> Calls]] /\ call[o][c] \in Calls
    BY <1>2 DEF CallInv, CallTypes
  <2>3. /\ \A p \in Owners, d \in Clients : p # o \/ d # c => call'[p][d] = call[p][d]
        /\ call'[o][c].at \in {"list", "failed"}
    BY <2>1, <2>2 DEF Calls
  <2>4. call[o][c].at # "none" /\ UNCHANGED connVars
    BY <1>7 DEF ServerLists
  <2> QED
    BY <1>2, <2>3, <2>4, GoesOn DEF connVars
<1>8. CASE Listed(o, c)
  <2>1. /\ call[o][c].at # "none" /\ Becomes(o, c, "done") /\ "done" \in States
        /\ tools' = [tools EXCEPT ![c] = WithPage(call[o][c].got, catalogue[c] \ call[o][c].got)]
        /\ connected' = [connected EXCEPT ![c] = IF call[o][c].connects THEN o ELSE @]
    BY <1>8 DEF Listed, States
  <2>2. WithPage(call[o][c].got, catalogue[c] \ call[o][c].got) = catalogue[c] /\ catalogue[c] # None
    <3>1. call[o][c].got \subseteq catalogue[c] /\ catalogue[c] # None
      BY Catalogues
    <3> QED
      BY <3>1 DEF WithPage
  <2>3. /\ \A d \in Clients : tools[d] # None => tools'[d] # None
        /\ tools'[c] # None
        /\ \A d \in Clients : connected'[d] # connected[d] => d = c /\ connected'[d] = o
    BY <1>2, <2>1, <2>2 DEF CallInv, CallTypes
  <2>4. /\ \A p \in Owners, d \in Clients : p # o \/ d # c => call'[p][d] = call[p][d]
        /\ call'[o][c].at = "done" \/ (o = Host /\ call'[o][c].at = "none")
    BY <1>2, <2>1, BecomesAt
  <2> QED
    BY <1>2, <2>1, <2>3, <2>4, GoesOn
<1>9. CASE RequestFails(o, c)
  <2>1. "failed" \in States /\ call[o][c].at # "none"
    BY <1>9 DEF States, RequestFails, Waiting
  <2> QED
    BY <1>3, <1>9, <2>1 DEF RequestFails
<1>10. CASE CallCancelled(o, c)
  <2>1. "cancelled" \in States /\ call[o][c].at # "none"
    BY <1>10 DEF States, CallCancelled
  <2> QED
    BY <1>3, <1>10, <2>1 DEF CallCancelled
<1> QED
  BY <1>1, <1>5, <1>6, <1>7, <1>8, <1>9, <1>10

\* The host's own refresh is nobody else's.
LEMMA RefreshMoves ==
  ASSUME Inv, NEW c \in Clients, Refresh(c)
  PROVE  CallsMove
<1>1. \A p \in Owners : p # Host => call'[p] = call[p]
  BY OwnersDiffer DEF Refresh, Inv, CallInv, CallTypes
<1>2. UNCHANGED <<tools, connected>>
  BY DEF Refresh, connVars
<1> QED
  BY <1>1, <1>2, OwnersDiffer DEF CallsMove

-----------------------------------------------------------------------------
(* Clearing, and the steps of runs and of the manager.                      *)

\* Who clears a connection disturbs the runs that prepare; the manager may count it
\* as closed.
LEMMA ClearUse ==
  ASSUME UseInv, NEW c \in Clients, Clear(c), UNCHANGED <<agentVars, call>>,
         \/ phase' = phase
         \/ phase[Manager] = "closing" /\ phase' = [phase EXCEPT ![Manager] = "broken"],
         phase'[Manager] = "closing" => closing \ {c} \subseteq closing'
  PROVE  ControlTypes' /\ ToolsAttached' /\ Prepared' /\ Group'
<1>1. phase \in [Owners -> Phases] /\ connected \in [Clients -> Owners \cup {None}]
  BY DEF UseInv, ControlTypes, Inv, CallInv, CallTypes
<1>2. /\ connected' = [connected EXCEPT ![c] = None]
      /\ disturbed' = disturbed \cup {r \in Runs : Preparing(r)}
  BY DEF Clear
<1>3. \A r \in Runs : phase'[r] = phase[r]
  BY <1>1, OwnersDiffer
<1>4. ControlTypes' /\ ToolsAttached'
  <2>1. phase' \in [Owners -> Phases]
    BY <1>1 DEF Phases
  <2> QED
    BY <2>1 DEF UseInv, ControlTypes, ToolsAttached, agentVars
<1>5. Prepared'
  BY <1>2, <1>3 DEF UseInv, Prepared, Preparing
<1>6. \A d \in Clients : connected'[d] = Manager => connected[d] = Manager /\ d # c
  BY <1>1, <1>2, OwnersDiffer
<1>7. Group'
  <2>1. CASE phase' = phase
    BY <1>6, <2>1 DEF UseInv, Group
  <2>2. CASE phase[Manager] = "closing" /\ phase'[Manager] = "broken"
    BY <2>2 DEF UseInv, Group
  <2>3. phase' # phase => phase'[Manager] = "broken"
    BY <1>1, OwnersDiffer
  <2> QED
    BY <2>1, <2>2, <2>3
<1> QED
  BY <1>4, <1>5, <1>7

\* A run that goes on to a point where it has what it needs there.
LEMMA RunMoves ==
  ASSUME UseInv, NEW r \in Runs, NEW at \in Phases, phase' = [phase EXCEPT ![r] = at],
         \A p \in Owners : p # r => call'[p] = call[p],
         UNCHANGED <<connVars, closing>>, disturbed' \in {disturbed, disturbed \ {r}},
         at = "gathering" =>
           \A c \in Clients : call'[r][c].at \in {"none", "done"} => tools[c] # None,
         at = "settling" => r \in disturbed' \/ \A c \in Clients : tools[c] # None,
         at = "lost" => r \in disturbed'
  PROVE  phase' \in [Owners -> Phases] /\ Prepared' /\ Group'
<1>1. phase \in [Owners -> Phases]
  BY DEF UseInv, ControlTypes
<1>2. /\ phase' \in [Owners -> Phases] /\ phase'[r] = at
      /\ \A p \in Owners : p # r => phase'[p] = phase[p]
  BY <1>1, OwnersDiffer
<1>3. ASSUME NEW p \in Runs, p \notin disturbed'
      PROVE  /\ phase'[p] = "gathering" =>
                  \A c \in Clients : call'[p][c].at \in {"none", "done"} => tools'[c] # None
             /\ phase'[p] = "settling" => \A c \in Clients : tools'[c] # None
             /\ phase'[p] # "lost"
  <2>1. CASE p = r
    BY <1>2, <1>3, <2>1 DEF connVars
  <2>2. CASE p # r
    BY <1>2, <1>3, <2>2, OwnersDiffer DEF UseInv, Prepared, connVars
  <2> QED
    BY <2>1, <2>2
<1>4. Prepared'
  BY <1>3 DEF Prepared
<1>5. Group'
  BY <1>2, OwnersDiffer DEF UseInv, Group, connVars
<1> QED
  BY <1>2, <1>4, <1>5

\* The manager that goes on.
LEMMA ManagerMoves ==
  ASSUME UseInv, NEW at \in Phases, phase' = [phase EXCEPT ![Manager] = at],
         \A p \in Owners : p # Manager => call'[p] = call[p],
         UNCHANGED <<connVars, disturbed, agentVars>>,
         at \notin {"gathering", "unwinding"} => \A c \in Clients : call'[Manager][c].at = "none",
         at = "closing" => \A c \in Clients : connected[c] = Manager => c \in closing',
         at = "closed" => \A c \in Clients : connected[c] # Manager
  PROVE  ControlTypes' /\ ToolsAttached' /\ Prepared' /\ Group'
<1>1. phase \in [Owners -> Phases]
  BY DEF UseInv, ControlTypes
<1>2. /\ phase' \in [Owners -> Phases] /\ phase'[Manager] = at
      /\ \A p \in Owners : p # Manager => phase'[p] = phase[p]
  BY <1>1, OwnersDiffer
<1>3. ControlTypes' /\ ToolsAttached'
  BY <1>2 DEF UseInv, ControlTypes, ToolsAttached, agentVars
<1>4. Prepared'
  BY <1>2, OwnersDiffer DEF UseInv, Prepared, connVars
<1>5. Group'
  BY <1>2 DEF Group, connVars
<1> QED
  BY <1>3, <1>4, <1>5

\* New tasks, cancelled ones, and those that are over and forgotten.
LEMMA TasksAt ==
  ASSUME Inv, NEW o \in Owners
  PROVE  /\ \A which : CreateTasks(o, which) =>
              /\ \A p \in Owners : p # o => call'[p] = call[p]
              /\ \A c \in Clients : call'[o][c].at \in {"none", "done"} => c \notin which
         /\ \A next : CancelTasks(o, next) => \A p \in Owners : p # o => call'[p] = call[p]
         /\ Forget(o) =>
              /\ \A p \in Owners : p # o => call'[p] = call[p]
              /\ \A c \in Clients : Over(call[o][c]) => call'[o][c].at = "none"
<1>1. call \in [Owners -> [Clients -> Calls]]
  BY DEF Inv, CallInv, CallTypes
<1>2. NoCall.at = "none" /\ NewCall.at = "new"
  BY DEF NoCall, NewCall
<1>3. ASSUME NEW which, CreateTasks(o, which)
      PROVE  /\ \A p \in Owners : p # o => call'[p] = call[p]
             /\ \A c \in Clients : call'[o][c].at \in {"none", "done"} => c \notin which
  <2>1. call' = [call EXCEPT ![o] = [c \in Clients |-> IF c \in which THEN NewCall ELSE NoCall]]
    BY <1>3 DEF CreateTasks
  <2> QED
    BY <1>1, <1>2, <2>1
<1>4. ASSUME NEW next, CancelTasks(o, next) PROVE \A p \in Owners : p # o => call'[p] = call[p]
  BY <1>1, <1>4 DEF CancelTasks
<1>5. ASSUME Forget(o)
      PROVE  /\ \A p \in Owners : p # o => call'[p] = call[p]
             /\ \A c \in Clients : Over(call[o][c]) => call'[o][c].at = "none"
  <2>1. call' = [call EXCEPT ![o] = [c \in Clients |-> IF Over(call[o][c]) THEN NoCall
                                                       ELSE call[o][c]]]
    BY <1>5 DEF Forget
  <2> QED
    BY <1>1, <1>2, <2>1
<1> QED
  BY <1>3, <1>4, <1>5

-----------------------------------------------------------------------------
(* Attaching.                                                               *)

\* What is added has a name that neither the agent nor a client before has.
LEMMA AddedIsFree ==
  ASSUME UseInv, NEW usable \in SUBSET Known, NEW c \in Clients, NEW n \in Added(c, usable)
  PROVE  /\ n \in Names /\ c \in usable /\ n \in tools[c]
         /\ \A t \in agentTools : t.name # n
         /\ \A d \in Clients : d < c => n \notin Added(d, usable)
<1>1. c \in usable /\ n \in tools[c] /\ n \in Unattached(c, usable)
  BY DEF Added, Unattached
<1>2. tools[c] \in SUBSET Names
  BY <1>1 DEF UseInv, Inv, CallInv, CallTypes, Known
<1>3. n \in Names /\ n \in Nat
  BY <1>1, <1>2, McpAssumption
<1>4. n \notin Taken(c, usable)
  <2>1. n \in Taken(c, usable) => n < n
    BY DEF Added
  <2> QED
    BY <1>3, <2>1
<1>5. \A t \in agentTools : t.name # n
  BY <1>1, <1>4 DEF Taken
<1>6. ASSUME NEW d \in Clients, d < c PROVE n \notin Added(d, usable)
  BY <1>1, <1>4, <1>6 DEF Taken, Added
<1> QED
  BY <1>1, <1>3, <1>5, <1>6

\* Attaching keeps names apart and notes what it attaches; a run that may go on has
\* the tools of every client.
LEMMA AttachKeeps ==
  ASSUME UseInv, NEW r \in Runs, NEW usable \in SUBSET Known, NEW otherwise \in Phases,
         Attach(r, usable, otherwise)
  PROVE  /\ attached' \in [Clients -> SUBSET Names] /\ ToolsAttached'
         /\ \E at \in {"ready", "duplicate", otherwise} :
              /\ phase' = [phase EXCEPT ![r] = at]
              /\ usable = Clients => at \in {"ready", "duplicate"}
              /\ at = "ready" /\ otherwise # "ready" =>
                   \A c \in Clients :
                     /\ tools[c] # None
                     /\ \A n \in tools[c] : [name |-> n, from |-> c] \in agentTools'
<1> DEFINE new(c) == {[name |-> n, from |-> c] : n \in Added(c, usable)}
           news == UNION {new(c) : c \in Reached(usable)}
           ends == {c \in Clients : Stops(c, usable)}
           at == IF ends = {} THEN "ready"
                 ELSE IF ends \cap Reached(usable) \subseteq usable THEN "duplicate" ELSE otherwise
<1>1. /\ agentTools' = agentTools \cup news
      /\ attached' = [c \in Clients |-> IF c \in Reached(usable)
                                        THEN attached[c] \cup Added(c, usable) ELSE attached[c]]
      /\ phase' = [phase EXCEPT ![r] = at]
  BY DEF Attach, Noted
<1>2. ToolsAttached /\ attached \in [Clients -> SUBSET Names] /\ Clients \subseteq Nat
  BY McpAssumption DEF UseInv, ControlTypes
<1>3. Reached(usable) \subseteq Clients
  BY DEF Reached
<1>4. \A t \in news : \E c \in Clients : \E n \in Added(c, usable) : t = [name |-> n, from |-> c]
  BY <1>3
<1>5. \A c \in Reached(usable) : \A n \in Added(c, usable) : [name |-> n, from |-> c] \in news
  OBVIOUS
<1> HIDE DEF news, new
<1>6. attached' \in [Clients -> SUBSET Names]
  <2>1. \A c \in Clients : Added(c, usable) \subseteq Names
    BY AddedIsFree
  <2> QED
    BY <1>1, <1>2, <2>1
<1>7. ASSUME NEW t \in agentTools', NEW u \in agentTools', t.name = u.name PROVE t = u
  <2>1. ASSUME NEW v \in agentTools, NEW w \in news PROVE v.name # w.name
    <3>1. PICK c \in Clients : \E n \in Added(c, usable) : w = [name |-> n, from |-> c]
      BY <1>4, <2>1
    <3>2. PICK n \in Added(c, usable) : w = [name |-> n, from |-> c]
      BY <3>1
    <3>3. v.name # n
      BY <2>1, AddedIsFree
    <3> QED
      BY <3>2, <3>3
  <2>2. ASSUME NEW v \in news, NEW w \in news, v.name = w.name PROVE v = w
    <3>1. PICK c \in Clients : \E n \in Added(c, usable) : v = [name |-> n, from |-> c]
      BY <1>4, <2>2
    <3>2. PICK d \in Clients : \E n \in Added(d, usable) : w = [name |-> n, from |-> d]
      BY <1>4, <2>2
    <3>3. PICK n \in Added(c, usable) : v = [name |-> n, from |-> c]
      BY <3>1
    <3>4. w = [name |-> n, from |-> d] /\ n \in Added(d, usable)
      BY <2>2, <3>2, <3>3
    <3>5. ~(d < c) /\ ~(c < d)
      BY <3>3, <3>4, AddedIsFree
    <3>6. c = d
      BY <1>2, <3>5
    <3> QED
      BY <3>3, <3>4, <3>6
  <2>3. CASE t \in agentTools /\ u \in agentTools
    BY <1>2, <1>7, <2>3 DEF ToolsAttached
  <2> QED
    BY <1>1, <1>7, <2>1, <2>2, <2>3
<1>8. ASSUME NEW c \in Clients, NEW n \in attached'[c]
      PROVE  [name |-> n, from |-> c] \in agentTools'
  <2>1. n \in attached[c] \/ (c \in Reached(usable) /\ n \in Added(c, usable))
    BY <1>1, <1>8
  <2> QED
    BY <1>1, <1>2, <1>5, <2>1 DEF ToolsAttached
<1>9. usable = Clients => at \in {"ready", "duplicate"}
  OBVIOUS
<1>10. ASSUME at = "ready", otherwise # "ready", NEW c \in Clients
       PROVE  /\ tools[c] # None
              /\ \A n \in tools[c] : [name |-> n, from |-> c] \in agentTools'
  <2>1. \A d \in Clients : ~Stops(d, usable)
    BY <1>10
  <2>2. c \in Reached(usable) /\ c \in usable /\ Taken(c, usable) = {}
    BY <2>1 DEF Reached, Stops
  <2>3. Added(c, usable) = tools[c] \ attached[c]
    BY <2>2 DEF Added, Unattached
  <2>4. \A n \in tools[c] : [name |-> n, from |-> c] \in agentTools'
    BY <1>1, <1>2, <1>5, <2>2, <2>3 DEF ToolsAttached
  <2> QED
    BY <2>2, <2>4 DEF Known
<1>11. at \in {"ready", "duplicate", otherwise}
  OBVIOUS
<1> HIDE DEF at
<1> QED
  BY <1>1, <1>6, <1>7, <1>8, <1>9, <1>10, <1>11 DEF ToolsAttached

-----------------------------------------------------------------------------
(* The steps of runs and of the manager.                                    *)

\* A run that finds every connection open finds every catalogue, and waits otherwise.
LEMMA StartRunUse ==
  ASSUME UseInv, NEW r \in Runs, StartRun(r)
  PROVE  ControlTypes' /\ ToolsAttached' /\ Prepared' /\ Group'
<1> DEFINE missing == {c \in Clients : connected[c] = None}
<1>1. /\ UNCHANGED <<connVars, closing>> /\ disturbed' = disturbed \ {r}
      /\ Inv /\ CatalogueWhole /\ r \in Owners /\ Known \in SUBSET Known
      /\ attached \in [Clients -> SUBSET Names] /\ ToolsAttached
  BY OwnersDiffer DEF StartRun, UseInv, Inv, ControlTypes
<1>2. \A c \in Clients : c \notin missing => tools[c] # None
  BY <1>1 DEF CatalogueWhole
<1>3. CASE missing = {}
  <2>1. Attach(r, Known, "lost") /\ call' = call /\ Known = Clients /\ "lost" \in Phases
    BY <1>2, <1>3 DEF StartRun, Known, Phases
  <2>2. /\ attached' \in [Clients -> SUBSET Names] /\ ToolsAttached'
        /\ \E at \in {"ready", "duplicate"} : phase' = [phase EXCEPT ![r] = at]
    BY <1>1, <2>1, AttachKeeps
  <2>3. PICK at \in {"ready", "duplicate"} : phase' = [phase EXCEPT ![r] = at]
    BY <2>2
  <2>4. at \in Phases
    BY <2>3 DEF Phases
  <2> QED
    BY <1>1, <2>1, <2>2, <2>3, <2>4, RunMoves DEF ControlTypes
<1>4. CASE missing # {}
  <2>1. CreateTasks(r, missing) /\ UNCHANGED agentVars /\ "gathering" \in Phases
    BY <1>4 DEF StartRun, Phases
  <2>2. /\ \A p \in Owners : p # r => call'[p] = call[p]
        /\ \A c \in Clients : call'[r][c].at \in {"none", "done"} => tools[c] # None
    BY <1>1, <1>2, <2>1, TasksAt
  <2>3. phase' = [phase EXCEPT ![r] = "gathering"]
    BY <2>1 DEF CreateTasks
  <2>4. phase' \in [Owners -> Phases] /\ Prepared' /\ Group'
    BY <1>1, <2>1, <2>2, <2>3, RunMoves
  <2> QED
    BY <1>1, <2>1, <2>4 DEF ControlTypes, ToolsAttached, agentVars
<1> QED
  BY <1>3, <1>4

\* Tasks that are over without a failure have found or left a catalogue.
LEMMA GatherReturnsUse ==
  ASSUME UseInv, NEW r \in Runs, GatherReturns(r)
  PROVE  ControlTypes' /\ ToolsAttached' /\ Prepared' /\ Group'
<1>1. /\ UNCHANGED <<connVars, agentVars, call, closing, disturbed>> /\ r \in Owners
      /\ phase[r] = "gathering" /\ AllOver(r) /\ ~Failed(r) /\ "settling" \in Phases
      /\ phase' = [phase EXCEPT ![r] = "settling"]
      /\ call \in [Owners -> [Clients -> Calls]]
  BY OwnersDiffer DEF GatherReturns, Phases, UseInv, Inv, CallInv, CallTypes
<1>2. \A c \in Clients : call[r][c].at \in {"none", "done"}
  BY <1>1 DEF AllOver, Over, Running, Waiting, Failed, Calls, States
<1>3. r \in disturbed \/ \A c \in Clients : tools[c] # None
  BY <1>1, <1>2 DEF UseInv, Prepared
<1>4. phase' \in [Owners -> Phases] /\ Prepared' /\ Group'
  BY <1>1, <1>3, RunMoves
<1> QED
  BY <1>1, <1>4 DEF UseInv, ControlTypes, ToolsAttached, agentVars

\* A run that nobody disturbed finds every client with its tools when it settles.
LEMMA SettleUse ==
  ASSUME UseInv, NEW r \in Runs, Settle(r)
  PROVE  ControlTypes' /\ ToolsAttached' /\ Prepared' /\ Group'
<1>1. /\ UNCHANGED <<connVars, closing, disturbed>> /\ Forget(r) /\ r \in Owners /\ Inv
      /\ attached \in [Clients -> SUBSET Names] /\ ToolsAttached
  BY OwnersDiffer DEF Settle, UseInv, ControlTypes
<1>2. \A p \in Owners : p # r => call'[p] = call[p]
  BY <1>1, TasksAt
<1>3. CASE phase[r] = "settling" /\ Attach(r, Known, "lost")
  <2>1. "lost" \in Phases /\ Known \in SUBSET Known
    BY DEF Phases
  <2>2. /\ attached' \in [Clients -> SUBSET Names] /\ ToolsAttached'
        /\ \E at \in {"ready", "duplicate", "lost"} :
             /\ phase' = [phase EXCEPT ![r] = at]
             /\ Known = Clients => at \in {"ready", "duplicate"}
    BY <1>3, <2>1, AttachKeeps
  <2>3. PICK at \in {"ready", "duplicate", "lost"} :
          /\ phase' = [phase EXCEPT ![r] = at]
          /\ Known = Clients => at \in {"ready", "duplicate"}
    BY <2>2
  <2>4. at \in Phases /\ (at = "lost" => r \in disturbed)
    BY <1>3, <2>3 DEF Phases, UseInv, Prepared, Known
  <2>5. phase' \in [Owners -> Phases] /\ Prepared' /\ Group'
    BY <1>1, <1>2, <2>3, <2>4, RunMoves
  <2> QED
    BY <2>2, <2>5 DEF ControlTypes
<1>4. CASE phase' = [phase EXCEPT ![r] = "failed"] /\ UNCHANGED agentVars
  <2>1. "failed" \in Phases
    BY DEF Phases
  <2>2. phase' \in [Owners -> Phases] /\ Prepared' /\ Group'
    BY <1>1, <1>2, <1>4, <2>1, RunMoves
  <2> QED
    BY <1>1, <1>4, <2>2 DEF ControlTypes, ToolsAttached, agentVars
<1> QED
  BY <1>3, <1>4 DEF Settle

\* A run that connects nothing attaches what it finds, and is never lost.
LEMMA RunSyncUse ==
  ASSUME UseInv, NEW r \in Runs, RunSync(r)
  PROVE  ControlTypes' /\ ToolsAttached' /\ Prepared' /\ Group'
<1> DEFINE usable == {c \in Known : connected[c] # None}
<1>1. /\ UNCHANGED <<connVars, call, closing, disturbed>> /\ r \in Owners
      /\ Attach(r, usable, "refused") /\ usable \in SUBSET Known /\ "refused" \in Phases
  BY OwnersDiffer DEF RunSync, Phases
<1> HIDE DEF usable
<1>2. /\ attached' \in [Clients -> SUBSET Names] /\ ToolsAttached'
      /\ \E at \in {"ready", "duplicate", "refused"} : phase' = [phase EXCEPT ![r] = at]
  BY <1>1, AttachKeeps
<1>3. PICK at \in {"ready", "duplicate", "refused"} : phase' = [phase EXCEPT ![r] = at]
  BY <1>2
<1>4. at \in Phases
  BY DEF Phases
<1>5. phase' \in [Owners -> Phases] /\ Prepared' /\ Group'
  BY <1>1, <1>3, <1>4, RunMoves
<1> QED
  BY <1>2, <1>5 DEF ControlTypes

\* Who unwinds waits for its tasks yet.
LEMMA UnwindUse ==
  ASSUME UseInv, NEW o \in Runs \cup {Manager}, GatherRaises(o) \/ Interrupt(o)
  PROVE  ControlTypes' /\ ToolsAttached' /\ Prepared' /\ Group'
<1>1. /\ UNCHANGED <<connVars, agentVars, closing, disturbed>> /\ o \in Owners /\ Inv
      /\ CancelTasks(o, "unwinding") /\ "unwinding" \in Phases
      /\ phase' = [phase EXCEPT ![o] = "unwinding"]
  BY OwnersDiffer DEF GatherRaises, Interrupt, CancelTasks, Phases, UseInv
<1>2. \A p \in Owners : p # o => call'[p] = call[p]
  BY <1>1, TasksAt
<1>3. CASE o \in Runs
  <2>1. phase' \in [Owners -> Phases] /\ Prepared' /\ Group'
    BY <1>1, <1>2, <1>3, RunMoves
  <2> QED
    BY <1>1, <2>1 DEF UseInv, ControlTypes, ToolsAttached, agentVars
<1>4. CASE o = Manager
  BY <1>1, <1>2, <1>4, ManagerMoves
<1> QED
  BY <1>3, <1>4

\* The manager begins to close when no task of it is left, with all of its group.
LEMMA ManagerUse ==
  ASSUME UseInv, ManagerConnects \/ ManagerConnected \/ ManagerBeginsClosing \/ ManagerClosed
  PROVE  ControlTypes' /\ ToolsAttached' /\ Prepared' /\ Group'
<1>1. /\ UNCHANGED <<connVars, disturbed, agentVars>> /\ Inv /\ Manager \in Owners
      /\ {"gathering", "connected", "closing", "closed"} \subseteq Phases
  BY OwnersDiffer DEF ManagerConnects, ManagerConnected, ManagerBeginsClosing, ManagerClosed,
     Phases, UseInv
<1>2. CASE ManagerConnects
  <2>1. CreateTasks(Manager, Clients) /\ phase' = [phase EXCEPT ![Manager] = "gathering"]
    BY <1>2 DEF ManagerConnects, CreateTasks
  <2>2. \A p \in Owners : p # Manager => call'[p] = call[p]
    BY <1>1, <2>1, TasksAt
  <2> QED
    BY <1>1, <2>1, <2>2, ManagerMoves
<1>3. CASE ManagerConnected
  <2>1. Forget(Manager) /\ AllOver(Manager) /\ phase' = [phase EXCEPT ![Manager] = "connected"]
    BY <1>3 DEF ManagerConnected
  <2>2. /\ \A p \in Owners : p # Manager => call'[p] = call[p]
        /\ \A c \in Clients : call'[Manager][c].at = "none"
    BY <1>1, <2>1, TasksAt DEF AllOver
  <2> QED
    BY <1>1, <2>1, <2>2, ManagerMoves
<1>4. CASE ManagerBeginsClosing
  <2>1. /\ Forget(Manager) /\ phase' = [phase EXCEPT ![Manager] = "closing"]
        /\ closing' = Clients
    BY <1>4 DEF ManagerBeginsClosing
  <2>2. \A c \in Clients : Over(call[Manager][c])
    <3>1. CASE phase[Manager] = "unwinding" /\ AllOver(Manager)
      BY <3>1 DEF AllOver
    <3>2. CASE phase[Manager] = "connected"
      BY <3>2 DEF UseInv, Group, Over, Running, Waiting
    <3> QED
      BY <1>4, <3>1, <3>2 DEF ManagerBeginsClosing
  <2>3. /\ \A p \in Owners : p # Manager => call'[p] = call[p]
        /\ \A c \in Clients : call'[Manager][c].at = "none"
    BY <1>1, <2>1, <2>2, TasksAt
  <2> QED
    BY <1>1, <2>1, <2>3, ManagerMoves
<1>5. CASE ManagerClosed
  <2>1. /\ phase[Manager] = "closing" /\ closing = {} /\ call' = call
        /\ phase' = [phase EXCEPT ![Manager] = "closed"]
    BY <1>5 DEF ManagerClosed
  <2>2. /\ \A c \in Clients : call'[Manager][c].at = "none"
        /\ \A c \in Clients : connected[c] # Manager
    BY <2>1 DEF UseInv, Group
  <2> QED
    BY <1>1, <2>1, <2>2, ManagerMoves
<1> QED
  BY <1>2, <1>3, <1>4, <1>5

\* Every step keeps the invariant, and so does every behaviour.
LEMMA UseStepKeeps ==
  ASSUME UseInv, [Next]_vars
  PROVE  UseInv'
<1>1. Inv /\ Inv'
  BY StepKeeps DEF UseInv
<1>2. CASE CallStep
  BY <1>1, <1>2, CallStepMoves, MovesKeep DEF CallStep, UseInv
<1>3. CASE \E c \in Clients : Refresh(c)
  BY <1>1, <1>3, RefreshMoves, MovesKeep DEF Refresh, HostCall, UseInv
<1>4. CASE \E c \in Clients : Invalidate(c) \/ HostCloses(c)
  BY <1>1, <1>4, ClearUse DEF Invalidate, HostCloses, CloseConnection, HostCall, UseInv
<1>5. CASE \E c \in Clients : ManagerCloses(c) \/ ManagerCloseRaises(c)
  <2>1. PICK c \in Clients : ManagerCloses(c) \/ ManagerCloseRaises(c)
    BY <1>5
  <2>2. CASE ManagerCloses(c)
    BY <1>1, <2>2, ClearUse DEF ManagerCloses, CloseConnection, UseInv
  <2>3. CASE ManagerCloseRaises(c)
    <3>1. phase \in [Owners -> Phases] /\ Manager \in Owners
      BY OwnersDiffer DEF UseInv, ControlTypes
    <3>2. phase'[Manager] = "broken"
      BY <2>3, <3>1 DEF ManagerCloseRaises
    <3> QED
      BY <1>1, <2>3, <3>2, ClearUse DEF ManagerCloseRaises, CloseConnection, UseInv
  <2> QED
    BY <2>1, <2>2, <2>3
<1>6. CASE \E o \in Runs \cup {Manager} : GatherRaises(o) \/ Interrupt(o)
  BY <1>1, <1>6, UnwindUse DEF UseInv
<1>7. CASE \E r \in Runs : StartRun(r) \/ RunSync(r) \/ GatherReturns(r) \/ Settle(r)
  BY <1>1, <1>7, StartRunUse, RunSyncUse, GatherReturnsUse, SettleUse DEF UseInv
<1>8. CASE ManagerConnects \/ ManagerConnected \/ ManagerBeginsClosing \/ ManagerClosed
  BY <1>1, <1>8, ManagerUse DEF UseInv
<1>9. CASE UNCHANGED vars
  <2>1. CallsMove /\ UNCHANGED <<agentVars, phase, closing, disturbed>>
    BY <1>9 DEF vars, connVars, CallsMove
  <2> QED
    BY <1>1, <2>1, MovesKeep DEF UseInv
<1> QED
  BY <1>2, <1>3, <1>4, <1>5, <1>6, <1>7, <1>8, <1>9 DEF Next

LEMMA UseInvariance == Spec => []UseInv
<1>1. ASSUME Init PROVE UseInv
  <2>1. Inv
    BY <1>1, NoCallType DEF Init, Inv, CallInv, CallTypes, ListedSoFar, CatalogueWhole
  <2>2. phase = [o \in Owners |-> "idle"] /\ \A c \in Clients : connected[c] = None
    BY <1>1 DEF Init
  <2>3. ControlTypes
    BY <1>1 DEF Init, ControlTypes, Phases
  <2>4. ToolsAttached
    BY <1>1 DEF Init, ToolsAttached
  <2>5. Prepared
    BY <2>2, OwnersDiffer DEF Prepared
  <2>6. Group
    BY <1>1, <2>2, OwnersDiffer DEF Init, Group, NoCall
  <2> QED
    BY <2>1, <2>3, <2>4, <2>5, <2>6 DEF UseInv
<1>2. UseInv /\ [Next]_vars => UseInv'
  BY UseStepKeeps
<1> QED
  BY <1>1, <1>2, PTL DEF Spec

-----------------------------------------------------------------------------
\* A run gets ready by attaching, and by nothing else.
LEMMA ReadyAttaches ==
  ASSUME UseInv, [Next]_vars, NEW r \in Runs, phase[r] # "ready", phase'[r] = "ready"
  PROVE  \E usable \in SUBSET Known : \E otherwise \in {"lost", "refused"} :
           Attach(r, usable, otherwise)
<1>1. phase \in [Owners -> Phases] /\ r \in Owners /\ r # Manager
  BY OwnersDiffer DEF UseInv, ControlTypes
<1>2. ASSUME NEW o \in Owners, NEW at, phase' = [phase EXCEPT ![o] = at] PROVE o = r /\ at = "ready"
  BY <1>1, <1>2
<1>3. CASE \E p \in Runs : StartRun(p) \/ RunSync(p) \/ GatherReturns(p) \/ Settle(p)
  <2>1. PICK p \in Runs : StartRun(p) \/ RunSync(p) \/ GatherReturns(p) \/ Settle(p)
    BY <1>3
  <2>2. p \in Owners
    BY OwnersDiffer
  <2>3. ASSUME NEW usable \in SUBSET Known, NEW otherwise \in {"lost", "refused"},
               Attach(p, usable, otherwise)
        PROVE  p = r
    <3>1. PICK at : phase' = [phase EXCEPT ![p] = at]
      BY <2>3 DEF Attach
    <3> QED
      BY <1>2, <2>2, <3>1
  <2>4. {c \in Known : connected[c] # None} \in SUBSET Known /\ Known \in SUBSET Known
    OBVIOUS
  <2>5. CASE StartRun(p)
    <3>1. \/ Attach(p, Known, "lost")
          \/ phase' = [phase EXCEPT ![p] = "gathering"]
      BY <2>5 DEF StartRun, CreateTasks
    <3> QED
      BY <1>2, <2>2, <2>3, <2>4, <3>1
  <2>6. CASE RunSync(p)
    <3>1. Attach(p, {c \in Known : connected[c] # None}, "refused")
      BY <2>6 DEF RunSync
    <3> QED
      BY <2>3, <2>4, <3>1
  <2>7. CASE GatherReturns(p)
    BY <1>2, <2>2, <2>7 DEF GatherReturns
  <2>8. CASE Settle(p)
    <3>1. \/ Attach(p, Known, "lost")
          \/ phase' = [phase EXCEPT ![p] = "failed"]
      BY <2>8 DEF Settle
    <3> QED
      BY <1>2, <2>2, <2>3, <2>4, <3>1
  <2> QED
    BY <2>1, <2>5, <2>6, <2>7, <2>8
<1>4. CASE \E o \in Runs \cup {Manager} : GatherRaises(o) \/ Interrupt(o)
  <2>1. PICK o \in Owners : phase' = [phase EXCEPT ![o] = "unwinding"]
    BY <1>4, OwnersDiffer DEF GatherRaises, Interrupt, CancelTasks
  <2> QED
    BY <1>2, <2>1
<1>5. CASE ManagerConnects \/ ManagerConnected \/ ManagerBeginsClosing \/ ManagerClosed
           \/ \E c \in Clients : ManagerCloseRaises(c)
  <2>1. PICK at : phase' = [phase EXCEPT ![Manager] = at]
    BY <1>5 DEF ManagerConnects, ManagerConnected, ManagerBeginsClosing, ManagerClosed,
       ManagerCloseRaises, CreateTasks
  <2> QED
    BY <1>1, <1>2, <2>1, OwnersDiffer
<1>6. CASE \/ CallStep \/ UNCHANGED vars \/ \E c \in Clients : ManagerCloses(c)
           \/ \E c \in Clients : Invalidate(c) \/ HostCloses(c) \/ Refresh(c)
  <2>1. phase' = phase
    BY <1>6 DEF CallStep, vars, ManagerCloses, Invalidate, HostCloses, Refresh, HostCall
  <2> QED
    BY <2>1
<1> QED
  BY <1>3, <1>4, <1>5, <1>6 DEF Next

\* A run goes on to its model only with each tool of each of its connections, one
\* tool for a name, whatever runs before it left half attached and whoever clears,
\* refreshes or closes a connection meanwhile (agent.py:424-434).
THEOREM ReadyRunsAreServed == Spec => RunServed
<1> DEFINE Served ==
      \A r \in Runs : phase[r] # "ready" /\ phase'[r] = "ready" =>
        /\ \A t, u \in agentTools' : t.name = u.name => t = u
        /\ \A c \in Clients : /\ tools[c] # None
                            /\ \A n \in tools[c] : [name |-> n, from |-> c] \in agentTools'
<1>1. ASSUME UseInv, [Next]_vars PROVE Served
  <2> SUFFICES ASSUME NEW r \in Runs, phase[r] # "ready", phase'[r] = "ready"
               PROVE  /\ \A t, u \in agentTools' : t.name = u.name => t = u
                      /\ \A c \in Clients :
                           /\ tools[c] # None
                           /\ \A n \in tools[c] : [name |-> n, from |-> c] \in agentTools'
    OBVIOUS
  <2>1. PICK usable \in SUBSET Known, otherwise \in {"lost", "refused"} :
          Attach(r, usable, otherwise)
    BY <1>1, ReadyAttaches
  <2>2. otherwise \in Phases /\ otherwise # "ready"
    BY DEF Phases
  <2>3. /\ ToolsAttached'
        /\ \E at : /\ phase' = [phase EXCEPT ![r] = at]
                   /\ at = "ready" =>
                        \A c \in Clients :
                          /\ tools[c] # None
                          /\ \A n \in tools[c] : [name |-> n, from |-> c] \in agentTools'
    BY <1>1, <2>1, <2>2, AttachKeeps
  <2>4. phase \in [Owners -> Phases] /\ r \in Owners
    BY <1>1, OwnersDiffer DEF UseInv, ControlTypes
  <2>5. \A t, u \in agentTools' : t.name = u.name => t = u
    BY <2>3 DEF ToolsAttached
  <2>6. \A c \in Clients : /\ tools[c] # None
                           /\ \A n \in tools[c] : [name |-> n, from |-> c] \in agentTools'
    BY <2>3, <2>4
  <2> QED
    BY <2>5, <2>6
<1>2. UseInv /\ [Next]_vars => [Served]_vars
  BY <1>1
<1> QED
  BY <1>2, UseInvariance, PTL DEF Spec, RunServed

\* A run that finds a connection lost which it or another connected was disturbed:
\* somebody cleared a connection while it prepared (agent.py:424-426).
THEOREM LossIsByOthers == Spec => []LostOnlyToOthers
<1>1. UseInv => LostOnlyToOthers
  BY DEF UseInv, Prepared, LostOnlyToOthers
<1> QED
  BY <1>1, UseInvariance, PTL

\* A group that is closed, or that its manager gave up after a failure, has no task
\* of the manager left and no connection open by its doing (connection.py:107-112).
THEOREM GroupIsClosed == Spec => []GroupClosed
<1>1. UseInv => GroupClosed
  BY DEF UseInv, Group, GroupClosed, Over, Running, Waiting
<1> QED
  BY <1>1, UseInvariance, PTL

=============================================================================
