--------------------------- MODULE McpConnection ---------------------------
(***************************************************************************)
(* MCP connections shared by the runs of one agent, by a manager that      *)
(* opens and closes them as a group and by the host, who may refresh,      *)
(* invalidate or close each of them at any await of the others.            *)
(*                                                                         *)
(* A call is one connect() or refresh_tools() in flight, in a task of its  *)
(* owner.  The servers are external.  They list their tools in the order   *)
(* of the names, in pages; a server's catalogue here is what list_tools     *)
(* keeps of it, the valid definitions.                                     *)
(***************************************************************************)
EXTENDS Naturals, FiniteSets

CONSTANTS
  Clients,            \* the agent's and the manager's connections, numbered in order
  Discovers,          \* those that ask server/discover first
  Owned,              \* those that own their client: close() closes it too
  Runs,               \* concurrent runs of the agent
  Manager, Host,      \* who else calls the connections
  Names, Local,       \* names of tools; those of the agent's own tools
  Offers,             \* the catalogues a server may have
  None,
  MaxStarts,          \* bound: runs started
  MaxHostCalls        \* bound: refreshes, invalidations and closes by the host

Owners == Runs \cup {Manager, Host}

ASSUME McpAssumption ==
  /\ IsFiniteSet(Clients) /\ Clients \subseteq Nat /\ Owned \cup Discovers \subseteq Clients
  /\ Names \subseteq Nat /\ Local \subseteq Names /\ Offers \subseteq SUBSET Names
  /\ Manager # Host /\ {Manager, Host} \cap Runs = {}
  /\ None \notin Owners /\ None \notin Offers
  /\ {MaxStarts, MaxHostCalls} \subseteq Nat

VARIABLES
  catalogue,     \* servers: the tools each one has
  tools,         \* _tools: the cached names, or None
  connected,     \* _connected: None, or (history) the owner whose connect set it
  open,          \* whether the HTTP client takes requests
  call,          \* each owner's call on each connection
  phase,         \* what each owner is at
  agentTools,    \* Agent.tools: each name with where it is from
  attached,      \* Agent._mcp_tool_names
  closing,       \* connections the manager has yet to close, the last one first
  disturbed,     \* history: runs during which a connection was cleared
  starts, hostCalls

connVars == <<tools, connected, open>>
agentVars == <<agentTools, attached>>
bounds == <<starts, hostCalls>>
vars == <<connVars, agentVars, catalogue, call, phase, closing, disturbed, bounds>>

NoCall == [at |-> "none", got |-> {}, connects |-> TRUE]
NewCall == [NoCall EXCEPT !.at = "new"]

Init ==
  /\ catalogue \in [Clients -> Offers]
  /\ tools = [c \in Clients |-> None] /\ connected = [c \in Clients |-> None]
  /\ open = [c \in Clients |-> TRUE]
  /\ call = [o \in Owners |-> [c \in Clients |-> NoCall]]
  /\ phase = [o \in Owners |-> "idle"]
  /\ agentTools = {[name |-> n, from |-> None] : n \in Local}
  /\ attached = [c \in Clients |-> {}]
  /\ closing = {} /\ disturbed = {} /\ starts = 0 /\ hostCalls = 0

-----------------------------------------------------------------------------
(* One call, from its first step to its answer.                             *)

Cached(c) == connected[c] # None /\ tools[c] # None

\* The host waits for its call alone and has nothing to do when it ends.
Becomes(o, c, at) ==
  call' = [call EXCEPT ![o][c] =
             IF o = Host /\ at \in {"done", "failed"} THEN NoCall
             ELSE [@ EXCEPT !.at = at, !.got = {}]]

\* Whatever asks a closed client for more is refused.
Asks(o, c, at) == Becomes(o, c, IF open[c] THEN at ELSE "failed")

FirstRequest(c) == IF c \in Discovers THEN "discover" ELSE "list"

Connect(o, c) ==
  /\ call[o][c].at = "new"
  /\ IF Cached(c) THEN Becomes(o, c, "done") ELSE Asks(o, c, FirstRequest(c))
  /\ UNCHANGED connVars

\* The connection flag before the catalogue.
Discovered_Connects(o, c) ==
  /\ call[o][c].at = "discover"
  /\ Asks(o, c, "list")
  /\ connected' = [connected EXCEPT ![c] = o]
  /\ UNCHANGED <<tools, open>>

Discovered(o, c) ==
  /\ call[o][c].at = "discover"
  /\ Asks(o, c, "list")
  /\ UNCHANGED connVars

WithPage_Only(got, page) == page

WithPage(got, page) == got \cup page

\* A page of what was not listed yet, with a cursor for the next.
ServerLists(o, c) ==
  LET k == call[o][c]
      rest == catalogue[c] \ k.got
      Page(last) == {n \in rest : n <= last}
  IN  /\ k.at = "list"
      /\ \E last \in rest :
           /\ Page(last) # rest
           /\ call' = [call EXCEPT ![o][c].got = WithPage(@, Page(last)),
                                   ![o][c].at = IF open[c] THEN "list" ELSE "failed"]
      /\ UNCHANGED connVars

\* The last page: connect sets both fields, refresh_tools of a connected one the tools.
Listed(o, c) ==
  LET k == call[o][c]
  IN  /\ k.at = "list"
      /\ tools' = [tools EXCEPT ![c] = WithPage(k.got, catalogue[c] \ k.got)]
      /\ connected' = [connected EXCEPT ![c] = IF k.connects THEN o ELSE @]
      /\ Becomes(o, c, "done")
      /\ UNCHANGED open

Waiting(k) == k.at \in {"discover", "list"}

RequestFails(o, c) ==
  /\ Waiting(call[o][c])
  /\ Becomes(o, c, "failed")
  /\ UNCHANGED connVars

\* A cancelled task runs its cleanup, and nothing else.
CallCancelled(o, c) ==
  /\ call[o][c].at = "cancelling"
  /\ Becomes(o, c, "cancelled")
  /\ UNCHANGED connVars

CallStep ==
  /\ \E o \in Owners, c \in Clients :
       \/ Connect(o, c) \/ Discovered(o, c) \/ ServerLists(o, c) \/ Listed(o, c)
       \/ RequestFails(o, c) \/ CallCancelled(o, c)
  /\ UNCHANGED <<agentVars, catalogue, phase, closing, disturbed, bounds>>

-----------------------------------------------------------------------------
(* Tasks of an owner: one connect each, gathered.                           *)

Running(k) == k.at = "new" \/ Waiting(k)
Over(k) == ~Running(k) /\ k.at # "cancelling"
Failed(o) == \E c \in Clients : call[o][c].at \in {"failed", "cancelled"}

CreateTasks(o, which) ==
  /\ call' = [call EXCEPT ![o] = [c \in Clients |-> IF c \in which THEN NewCall ELSE NoCall]]
  /\ phase' = [phase EXCEPT ![o] = "gathering"]

Cancelled_Not(calls) == calls

Cancelled(calls) ==
  [c \in Clients |-> IF Running(calls[c]) THEN [NoCall EXCEPT !.at = "cancelling"] ELSE calls[c]]

AllOver_NotAwaited(o) == TRUE

AllOver(o) == \A c \in Clients : Over(call[o][c])

\* Tasks that are over are forgotten.
Forget(o) ==
  call' = [call EXCEPT ![o] = [c \in Clients |-> IF Over(@[c]) THEN NoCall ELSE @[c]]]

CancelTasks(o, next) ==
  /\ call' = [call EXCEPT ![o] = Cancelled(@)]
  /\ phase' = [phase EXCEPT ![o] = next]

\* The gather raises the first failure; or the owner's own task is cancelled.
GatherRaises(o) ==
  /\ phase[o] = "gathering" /\ Failed(o)
  /\ CancelTasks(o, "unwinding")
  /\ UNCHANGED <<connVars, agentVars, catalogue, closing, disturbed, bounds>>

Interrupt(o) ==
  /\ phase[o] = "gathering"
  /\ CancelTasks(o, "unwinding")
  /\ UNCHANGED <<connVars, agentVars, catalogue, closing, disturbed, bounds>>

-----------------------------------------------------------------------------
(* A run of the agent, up to its first request.                             *)

Preparing(r) == phase[r] \in {"gathering", "settling", "unwinding"}
Known == {c \in Clients : tools[c] # None}

\* The name is noted before it is found to be taken.
Noted_First(added, taken) == added \cup {n \in taken : \A k \in taken : n <= k}

\* What _mcp_tool_names takes up.
Noted(added, taken) == added

\* A client's tools that are not attached yet, those of them whose name the agent or
\* a client before it has, and those the loop comes to before it meets such a name.
Unattached(c, usable) == IF c \in usable THEN tools[c] \ attached[c] ELSE {}
Taken(c, usable) ==
  {n \in Unattached(c, usable) : \/ \E t \in agentTools : t.name = n
                                 \/ \E d \in Clients : d < c /\ n \in Unattached(d, usable)}
Added(c, usable) == {n \in Unattached(c, usable) : \A k \in Taken(c, usable) : n < k}

\* A client that cannot be asked for its tools, or a name that is taken, ends the loop.
Stops(c, usable) == c \notin usable \/ Taken(c, usable) # {}
Reached(usable) == {c \in Clients : \A d \in Clients : Stops(d, usable) => c <= d}

\* Attach the tools of each client in turn.
Attach(r, usable, otherwise) ==
  LET ends == {c \in Clients : Stops(c, usable)}
  IN  /\ agentTools' = agentTools \cup
           UNION {{[name |-> n, from |-> c] : n \in Added(c, usable)} : c \in Reached(usable)}
      /\ attached' = [c \in Clients |->
           IF c \in Reached(usable)
           THEN attached[c] \cup Noted(Added(c, usable), Taken(c, usable)) ELSE attached[c]]
      /\ phase' = [phase EXCEPT ![r] = IF ends = {} THEN "ready"
                                       ELSE IF ends \cap Reached(usable) \subseteq usable
                                       THEN "duplicate" ELSE otherwise]

\* With nothing to connect there is no await before the tools are attached.
StartRun(r) ==
  LET missing == {c \in Clients : connected[c] = None}
  IN  /\ ~Preparing(r) /\ starts < MaxStarts
      /\ starts' = starts + 1
      /\ disturbed' = disturbed \ {r}
      /\ IF missing = {} THEN Attach(r, Known, "lost") /\ UNCHANGED call
         ELSE CreateTasks(r, missing) /\ UNCHANGED agentVars
      /\ UNCHANGED <<connVars, catalogue, closing, hostCalls>>

GatherReturns(r) ==
  /\ phase[r] = "gathering" /\ AllOver(r) /\ ~Failed(r)
  /\ phase' = [phase EXCEPT ![r] = "settling"]
  /\ UNCHANGED <<connVars, agentVars, catalogue, call, closing, disturbed, bounds>>

Settle(r) ==
  /\ AllOver(r)
  /\ \/ phase[r] = "settling" /\ Attach(r, Known, "lost")
     \/ /\ phase[r] = "unwinding" /\ phase' = [phase EXCEPT ![r] = "failed"]
        /\ UNCHANGED agentVars
  /\ Forget(r)
  /\ UNCHANGED <<connVars, catalogue, closing, disturbed, bounds>>

\* run and run_stream connect nothing.
RunSync(r) ==
  /\ ~Preparing(r) /\ starts < MaxStarts
  /\ starts' = starts + 1
  /\ Attach(r, {c \in Known : connected[c] # None}, "refused")
  /\ UNCHANGED <<connVars, catalogue, call, closing, disturbed, hostCalls>>

-----------------------------------------------------------------------------
(* Clearing a connection: invalidate_tools_cache and close.                 *)

Clear(c) ==
  /\ tools' = [tools EXCEPT ![c] = None]
  /\ connected' = [connected EXCEPT ![c] = None]
  /\ disturbed' = disturbed \cup {r \in Runs : Preparing(r)}

CloseConnection(c) ==
  /\ Clear(c)
  /\ open' = [open EXCEPT ![c] = @ /\ c \notin Owned]

HostCall ==
  /\ hostCalls < MaxHostCalls /\ hostCalls' = hostCalls + 1
  /\ UNCHANGED <<agentVars, catalogue, phase, closing, starts>>

Invalidate(c) == HostCall /\ Clear(c) /\ UNCHANGED <<open, call>>
HostCloses(c) == HostCall /\ CloseConnection(c) /\ UNCHANGED call

\* refresh_tools, up to its first await.
Refresh(c) ==
  /\ HostCall
  /\ Over(call[Host][c])
  /\ LET connects == connected[c] = None
         first == IF connects THEN FirstRequest(c) ELSE "list"
     IN  call' = [call EXCEPT ![Host][c] =
                    IF open[c] THEN [at |-> first, got |-> {}, connects |-> connects] ELSE NoCall]
  /\ UNCHANGED <<connVars, disturbed>>

-----------------------------------------------------------------------------
(* MCPClientManager: connect, and close as a group.                         *)

ManagerConnects ==
  /\ phase[Manager] = "idle"
  /\ CreateTasks(Manager, Clients)
  /\ UNCHANGED <<connVars, agentVars, catalogue, closing, disturbed, bounds>>

ManagerConnected ==
  /\ phase[Manager] = "gathering" /\ AllOver(Manager) /\ ~Failed(Manager)
  /\ phase' = [phase EXCEPT ![Manager] = "connected"]
  /\ Forget(Manager)
  /\ UNCHANGED <<connVars, agentVars, catalogue, closing, disturbed, bounds>>

\* After a failure, or when the application leaves the group.
ManagerBeginsClosing ==
  /\ \/ phase[Manager] = "unwinding" /\ AllOver(Manager)
     \/ phase[Manager] = "connected"
  /\ phase' = [phase EXCEPT ![Manager] = "closing"]
  /\ closing' = Clients
  /\ Forget(Manager)
  /\ UNCHANGED <<connVars, agentVars, catalogue, disturbed, bounds>>

IsLast(c) == c \in closing /\ \A d \in closing : d <= c

ManagerCloses(c) ==
  /\ phase[Manager] = "closing" /\ IsLast(c)
  /\ CloseConnection(c)
  /\ closing' = closing \ {c}
  /\ UNCHANGED <<agentVars, catalogue, call, phase, bounds>>

\* Closing a client raises: the connections before it in the group stay open.
ManagerCloseRaises(c) ==
  /\ phase[Manager] = "closing" /\ IsLast(c) /\ c \in Owned
  /\ CloseConnection(c)
  /\ phase' = [phase EXCEPT ![Manager] = "broken"]
  /\ closing' = {}
  /\ UNCHANGED <<agentVars, catalogue, call, bounds>>

ManagerClosed ==
  /\ phase[Manager] = "closing" /\ closing = {}
  /\ phase' = [phase EXCEPT ![Manager] = "closed"]
  /\ UNCHANGED <<connVars, agentVars, catalogue, call, closing, disturbed, bounds>>

Next ==
  \/ CallStep
  \/ \E c \in Clients : Invalidate(c) \/ HostCloses(c) \/ Refresh(c)
  \/ \E o \in Runs \cup {Manager} : GatherRaises(o) \/ Interrupt(o)
  \/ \E r \in Runs : StartRun(r) \/ RunSync(r) \/ GatherReturns(r) \/ Settle(r)
  \/ ManagerConnects \/ ManagerConnected
  \/ ManagerBeginsClosing \/ ManagerClosed
  \/ \E c \in Clients : ManagerCloses(c) \/ ManagerCloseRaises(c)

Spec == Init /\ [][Next]_vars

\* The event loop runs a task that was cancelled and an owner whose tasks are over;
\* servers need not answer.
Unwind ==
  \/ \E o \in Runs \cup {Manager} : GatherRaises(o)
  \/ \E r \in Runs : phase[r] = "unwinding" /\ Settle(r)
  \/ phase[Manager] = "unwinding" /\ ManagerBeginsClosing
  \/ /\ \E o \in Owners, c \in Clients : CallCancelled(o, c)
     /\ UNCHANGED <<agentVars, catalogue, phase, closing, disturbed, bounds>>

FairSpec == Spec /\ WF_vars(Unwind)

-----------------------------------------------------------------------------
\* A connected connection has a catalogue, and a catalogue is the server's from its
\* first page to its last, whatever refreshes, invalidations and closes come between
\* the pages (connection.py:63-87, client.py:100-110).
CatalogueWhole ==
  \A c \in Clients : /\ connected[c] # None => tools[c] # None
                     /\ tools[c] # None => tools[c] = catalogue[c]

\* A run finds a client that it or another connected unconnected again only when
\* somebody cleared the connection while it waited for its others (agent.py:424-426).
LostOnlyToOthers ==
  \A r \in Runs : phase[r] = "lost" => r \in disturbed

\* Every tool has one name, and a run goes on to its model only with each tool of
\* each of its clients attached from that client, also after runs that stopped half
\* way through attaching (agent.py:424-434).
RunServed ==
  [][\A r \in Runs : phase[r] # "ready" /\ phase'[r] = "ready" =>
       /\ \A t, u \in agentTools' : t.name = u.name => t = u
       /\ \A c \in Clients : /\ tools[c] # None
                           /\ \A n \in tools[c] : [name |-> n, from |-> c] \in agentTools']_vars

\* When the manager has given up or closed its group no task of it is left and no
\* connection is open by its doing (connection.py:107-112).
GroupClosed ==
  phase[Manager] = "closed" =>
    \A c \in Clients : Over(call[Manager][c]) /\ connected[c] # Manager

\* One connection that fails ends a run's preparation and the manager's connect,
\* though the other servers never answer (agent.py:418-423, connection.py:106-112).
FailureEnds ==
  \A o \in Runs \cup {Manager} :
    phase[o] = "gathering" /\ Failed(o) ~> phase[o] \notin {"gathering", "unwinding"}
=============================================================================
