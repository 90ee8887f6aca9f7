--------------------------- MODULE VersionedStore ---------------------------
(***************************************************************************)
(* Optimistic concurrency, as FlowStateStore and DurableSessionStore       *)
(* promise it: a write replaces only the version its writer has read, so   *)
(* no update is ever lost.  A state may vanish; whoever still works from a *)
(* version that is gone may then overwrite what has come after it, and     *)
(* nobody else may.  Versions are numbered as they are written; version 0  *)
(* is "nothing stored".                                                    *)
(***************************************************************************)
EXTENDS Naturals

CONSTANT Workers

VARIABLES
  version,   \* the version stored
  written,   \* the versions written so far
  lapsed,    \* the versions written when the state last vanished
  seen       \* the version each worker works from

storeVars == <<version, written, lapsed, seen>>

StoreInit ==
  /\ version = 0 /\ written = 0 /\ lapsed = 0
  /\ seen = [w \in Workers |-> 0]

\* A worker reads the stored version or an older one, or drops what it read.
See(w) ==
  /\ \E v \in 0..written : seen' = [seen EXCEPT ![w] = v]
  /\ UNCHANGED <<version, written, lapsed>>

Write(w) ==
  /\ seen[w] = version \/ seen[w] \in 1..lapsed
  /\ version' = written + 1
  /\ written' = written + 1
  /\ UNCHANGED <<lapsed, seen>>

Vanish ==
  /\ version' = 0
  /\ lapsed' = written
  /\ UNCHANGED <<written, seen>>

StoreNext == Vanish \/ \E w \in Workers : See(w) \/ Write(w)

StoreSpec == StoreInit /\ [][StoreNext]_storeVars

=============================================================================
