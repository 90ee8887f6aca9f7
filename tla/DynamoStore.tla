----------------------------- MODULE DynamoStore -----------------------------
(***************************************************************************)
(* DynamoDbFlowStateStore (persistence/dynamodb.py) used by several        *)
(* workers on one flow instance: load, then save with the revision loaded. *)
(* save reads the item once more before a conditional put, so other        *)
(* workers act between its two calls.  DynamoDbDurableSessionStore.save is *)
(* the same code without the ttl.                                          *)
(*                                                                         *)
(* The table is external.  Its item carries the revision the code writes   *)
(* and, as history, the number of the put that wrote it: the version.  The *)
(* ttl may take the item away at any moment; reads are consistent or not,  *)
(* as the connector asks for.                                              *)
(***************************************************************************)
EXTENDS Naturals

CONSTANTS
  Workers,
  MaxVersions,    \* bound: puts that land
  MaxFailures     \* bound: puts whose reply is lost

ASSUME StoreAssumption == MaxVersions \in Nat /\ MaxFailures \in Nat

VARIABLES
  staleReads, \* get is eventually consistent: the connector's choice
  item,       \* the stored item, Nothing when there is none
  past,       \* every item the table held, for stale reads
  versions,   \* puts that landed
  lapsed,     \* history: the puts that had landed when the item last expired
  failures,   \* replies lost
  pc,         \* where each worker stands
  loaded,     \* the state each worker works from
  wrote       \* history: the version of the worker's last put since it loaded

tableVars == <<item, past, versions, lapsed>>
vars == <<staleReads, tableVars, failures, pc, loaded, wrote>>

Nothing == [revision |-> 0, version |-> 0]
Items == [revision: Nat, version: Nat]

Init ==
  /\ staleReads \in BOOLEAN
  /\ item = Nothing
  /\ past = {Nothing}
  /\ versions = 0 /\ lapsed = 0 /\ failures = 0
  /\ pc = [w \in Workers |-> "idle"]
  /\ loaded = [w \in Workers |-> Nothing]
  /\ wrote = [w \in Workers |-> 0]

\* What a get may return.
Readable == IF staleReads THEN past ELSE {item}

Idle == {"idle", "saved", "conflict", "error"}

\* The host loads the state before it works on it.
Load(w) ==
  /\ pc[w] \in Idle
  /\ \E found \in Readable : loaded' = [loaded EXCEPT ![w] = found]
  /\ pc' = [pc EXCEPT ![w] = "loaded"]
  /\ wrote' = [wrote EXCEPT ![w] = 0]
  /\ UNCHANGED <<staleReads, tableVars, failures>>

\* save with expected_revision = the revision loaded (0 for no state): its own
\* load must agree.  The host may save a state it loaded, one that save
\* returned, or the same again after an error.
SaveReads(w) ==
  /\ pc[w] \in {"loaded", "saved", "error"}
  /\ \E current \in Readable :
       pc' = [pc EXCEPT ![w] = IF current.revision = loaded[w].revision
                               THEN "putting" ELSE "conflict"]
  /\ UNCHANGED <<staleReads, tableVars, failures, loaded, wrote>>

PutAllowed_IfAbsent(expected) == item = Nothing

\* attribute_not_exists(revision) OR revision = :expected_revision
PutAllowed(expected) == item = Nothing \/ item.revision = expected

Stored_SameRevision(state) ==
  [revision |-> state.revision, version |-> versions + 1]

\* The state saved carries the next revision.
Stored(state) == [revision |-> state.revision + 1, version |-> versions + 1]

PutLands(w) ==
  /\ pc[w] = "putting"
  /\ PutAllowed(loaded[w].revision)
  /\ versions < MaxVersions
  /\ item' = Stored(loaded[w])
  /\ past' = past \cup {Stored(loaded[w])}
  /\ versions' = versions + 1
  /\ wrote' = [wrote EXCEPT ![w] = versions + 1]
  /\ pc' = [pc EXCEPT ![w] = "landed"]
  /\ UNCHANGED <<staleReads, lapsed, failures, loaded>>

PutRefused(w) ==
  /\ pc[w] = "putting"
  /\ ~PutAllowed(loaded[w].revision)
  /\ pc' = [pc EXCEPT ![w] = "conflict"]
  /\ UNCHANGED <<staleReads, tableVars, failures, loaded, wrote>>

\* save returns the state under its new revision: the host works on from it.
SaveReturns(w) ==
  /\ pc[w] = "landed"
  /\ loaded' = [loaded EXCEPT ![w] = [revision |-> @.revision + 1,
                                      version |-> wrote[w]]]
  /\ pc' = [pc EXCEPT ![w] = "saved"]
  /\ UNCHANGED <<staleReads, tableVars, failures, wrote>>

\* The put fails, or its reply is lost after it landed: save raises an error
\* that is no conflict.
SaveFails(w) ==
  /\ pc[w] \in {"putting", "landed"}
  /\ failures < MaxFailures
  /\ failures' = failures + 1
  /\ pc' = [pc EXCEPT ![w] = "error"]
  /\ UNCHANGED <<staleReads, tableVars, loaded, wrote>>

\* A worker stops in the middle and starts again with nothing.
Crash(w) ==
  /\ pc[w] \in {"loaded", "putting", "landed"}
  /\ pc' = [pc EXCEPT ![w] = "idle"]
  /\ loaded' = [loaded EXCEPT ![w] = Nothing]
  /\ wrote' = [wrote EXCEPT ![w] = 0]
  /\ UNCHANGED <<staleReads, tableVars, failures>>

\* The ttl has passed and DynamoDB deletes the item.
Expire ==
  /\ item # Nothing
  /\ item' = Nothing
  /\ lapsed' = versions
  /\ UNCHANGED <<staleReads, past, versions, failures, pc, loaded, wrote>>

WorkerStep(w) ==
  \/ Load(w)
  \/ SaveReads(w)
  \/ PutLands(w)
  \/ PutRefused(w)
  \/ SaveReturns(w)
  \/ SaveFails(w)
  \/ Crash(w)

Next == Expire \/ \E w \in Workers : WorkerStep(w)

Spec == Init /\ [][Next]_vars

-----------------------------------------------------------------------------
(* Properties.                                                              *)

\* The store implements VersionedStore: a put replaces only the version its
\* worker had loaded, whatever happens between save's get and its put.  "The
\* flow state changed since the caller loaded its revision" (flows/state.py) is
\* the other outcome.  The exception, a worker holding a state that expired, is
\* VersionedStore's: revisions start over and may name another state.
Store == INSTANCE VersionedStore WITH
  version <- item.version,
  written <- versions,
  seen <- [w \in Workers |-> loaded[w].version]
ImplementsVersionedStore == Store!StoreSpec

\* With consistent reads a conflict is reported to a worker only if what it
\* loaded is not what is stored.
ConflictMeansChanged ==
  [][~staleReads => \A w \in Workers :
       pc[w] # "conflict" /\ pc'[w] = "conflict" =>
         loaded[w].version # item.version]_vars

=============================================================================
