-------------------------- MODULE DynamoStoreProofs --------------------------
(***************************************************************************)
(* The store of DynamoStore implements VersionedStore for any number of    *)
(* workers, stale reads, failures, crashes and expiry included.            *)
(*                                                                         *)
(* The argument: within one lifetime of the item, from its creation to its *)
(* expiry, every put that lands raises revision and version by one, so the *)
(* two differ by a constant and a revision names a version.  Whatever a    *)
(* worker loaded in this lifetime, however stale, agrees with the item on  *)
(* that constant; so the conditional put, which compares revisions,        *)
(* compares versions.  The same constant makes a conflict, which is a      *)
(* difference of revisions, one of versions: with consistent reads a       *)
(* worker is refused only when the state stored is not the one it holds.   *)
(***************************************************************************)
EXTENDS DynamoStore, TLAPS

\* A state as some put of this store wrote it, and, if it is of the lifetime of
\* the item, its revision and version are as far apart as the item's.
Faithful(state) ==
  /\ state \in Items
  /\ state.version <= versions
  /\ state.version = 0 => state.revision = 0
  /\ state.version > lapsed =>
       item.revision + state.version = state.revision + item.version

Inv ==
  /\ versions \in Nat /\ lapsed \in 0..versions
  /\ item \in Items
  /\ item = Nothing => lapsed = versions
  /\ item # Nothing =>
       /\ item.version = versions /\ item.version # 0 /\ item.revision > 0
       /\ lapsed < versions
  /\ \A state \in past : Faithful(state)
  /\ pc \in [Workers -> Idle \cup {"loaded", "putting", "landed"}]
  /\ loaded \in [Workers -> Items]
  /\ wrote \in [Workers -> Nat]
  /\ \A w \in Workers :
       /\ Faithful(loaded[w])
       /\ pc[w] = "landed" =>
            /\ wrote[w] # 0
            /\ Faithful([revision |-> loaded[w].revision + 1, version |-> wrote[w]])

\* No put has landed at first, and nothing is loaded.
LEMMA InitInv == Init => Inv
  BY DEF Init, Inv, Faithful, Items, Nothing, Idle

\* A get returns a state this store wrote, however old it is.
LEMMA ReadableFaithful ==
  ASSUME Inv, NEW found \in Readable
  PROVE  Faithful(found)
<1>1. versions \in Nat /\ lapsed \in 0..versions /\ item \in Items
  BY DEF Inv
<1>2. CASE item = Nothing
  <2>1. Faithful(Nothing)
    BY <1>1 DEF Faithful, Items, Nothing
  <2> QED BY <1>2, <2>1 DEF Inv, Readable
<1>3. CASE item # Nothing
  <2>1. item.version = versions /\ item.version # 0
    BY <1>3 DEF Inv
  <2>2. Faithful(item)
    BY <1>1, <2>1 DEF Faithful, Items
  <2> QED BY <2>2 DEF Inv, Readable
<1> QED BY <1>2, <1>3

\* A put that is allowed was made from the version stored, or from one that has
\* expired: this is what the condition on the revision is for.
LEMMA AllowedPutIsCurrent ==
  ASSUME Inv, NEW w \in Workers, PutAllowed(loaded[w].revision)
  PROVE  loaded[w].version = item.version \/ loaded[w].version \in 1..lapsed
<1>1. loaded[w] \in Items /\ Faithful(loaded[w]) /\ item \in Items
  BY DEF Inv
<1>2. CASE item = Nothing
  <2>1. item.version = 0 /\ lapsed = versions /\ versions \in Nat
    BY <1>2 DEF Nothing, Inv
  <2> QED BY <1>1, <2>1 DEF Faithful, Items
<1>3. CASE item # Nothing /\ item.revision = loaded[w].revision
  <2>1. item.revision > 0 /\ lapsed \in Nat
    BY <1>3 DEF Inv
  <2>2. loaded[w].version # 0
    BY <1>1, <1>3, <2>1 DEF Faithful, Items
  <2>3. CASE loaded[w].version > lapsed
    BY <1>1, <1>3, <2>3 DEF Faithful, Items
  <2>4. CASE loaded[w].version <= lapsed
    BY <1>1, <2>1, <2>2, <2>4 DEF Items
  <2> QED BY <1>1, <2>1, <2>3, <2>4 DEF Items
<1> QED BY <1>2, <1>3 DEF PutAllowed

\* A step that leaves the table alone and gives one worker a state of this store
\* to work from keeps the invariant.
LEMMA SeeInv ==
  ASSUME Inv, NEW w \in Workers, NEW state, Faithful(state),
         UNCHANGED tableVars,
         loaded' = [loaded EXCEPT ![w] = state],
         NEW stage \in Idle \cup {"loaded"}, pc' = [pc EXCEPT ![w] = stage],
         wrote' \in {wrote, [wrote EXCEPT ![w] = 0]}
  PROVE  Inv'
<1>1. state \in Items
  BY DEF Faithful
<1>2. stage # "landed"
  BY DEF Idle
<1>3. /\ pc' \in [Workers -> Idle \cup {"loaded", "putting", "landed"}]
      /\ loaded' \in [Workers -> Items] /\ wrote' \in [Workers -> Nat]
  BY <1>1 DEF Inv
<1>4. \A v \in Workers : v # w =>
         pc'[v] = pc[v] /\ loaded'[v] = loaded[v] /\ wrote'[v] = wrote[v]
  BY DEF Inv
<1>5. pc'[w] = stage /\ loaded'[w] = state
  BY DEF Inv
<1>6. \A v \in Workers :
         /\ Faithful(loaded'[v])
         /\ pc'[v] = "landed" =>
              /\ wrote'[v] # 0
              /\ Faithful([revision |-> loaded'[v].revision + 1, version |-> wrote'[v]])
  BY <1>2, <1>4, <1>5 DEF Inv
<1> QED BY <1>3, <1>6 DEF Inv, Faithful, tableVars

\* A step that leaves the table and what the workers hold alone keeps it too.
LEMMA MoveInv ==
  ASSUME Inv, NEW w \in Workers, UNCHANGED <<tableVars, loaded, wrote>>,
         NEW stage \in Idle \cup {"putting"}, pc' = [pc EXCEPT ![w] = stage]
  PROVE  Inv'
<1>1. stage # "landed" /\ stage \in Idle \cup {"loaded", "putting", "landed"}
  BY DEF Idle
<1>2. /\ pc' \in [Workers -> Idle \cup {"loaded", "putting", "landed"}]
      /\ \A v \in Workers : pc'[v] = "landed" => pc[v] = "landed"
  BY <1>1 DEF Inv
<1> QED BY <1>2 DEF Inv, Faithful, tableVars

\* The item a put leaves, and every state of before, are as far apart as before.
LEMMA PutInv ==
  ASSUME Inv, NEW w \in Workers, PutLands(w)
  PROVE  Inv'
<1> DEFINE state == Stored(loaded[w])
           next == [revision |-> loaded[w].revision + 1, version |-> versions + 1]
<1> USE DEF Items
<1>1. /\ item' = state /\ past' = past \cup {state} /\ versions' = versions + 1
      /\ wrote' = [wrote EXCEPT ![w] = versions + 1]
      /\ pc' = [pc EXCEPT ![w] = "landed"] /\ loaded' = loaded /\ lapsed' = lapsed
  BY DEF PutLands
<1>2. versions \in Nat /\ lapsed \in 0..versions /\ loaded[w] \in Items
  BY DEF Inv
<1>3. state = next /\ state \in Items
  BY <1>2 DEF Stored
<1>4. /\ state.version = versions + 1 /\ state.revision = loaded[w].revision + 1
      /\ state # Nothing
  BY <1>2, <1>3 DEF Nothing
<1>5. ASSUME NEW old, Faithful(old) PROVE Faithful(old)'
  <2>1. old \in Items /\ old.version <= versions
        /\ (old.version = 0 => old.revision = 0)
    BY <1>5 DEF Faithful
  <2>2. ASSUME old.version > lapsed
        PROVE  state.revision + old.version = old.revision + state.version
    <3>1. item.revision + old.version = old.revision + item.version
      BY <1>5, <2>2 DEF Faithful
    <3>2. item # Nothing
      BY <1>2, <2>1, <2>2 DEF Inv
    <3>3. item.version = versions /\ item.revision \in Nat
      BY <3>2 DEF Inv
    <3>4. item.revision = loaded[w].revision
      BY <3>2 DEF PutLands, PutAllowed
    <3> QED BY <1>2, <1>4, <2>1, <3>1, <3>3, <3>4
  <2> QED BY <1>1, <1>2, <2>1, <2>2 DEF Faithful
<1>6. Faithful(item)'
  <2>1. item' \in Items /\ item'.version = versions'
    BY <1>1, <1>2, <1>3, <1>4
  <2> QED BY <1>1, <1>2, <2>1 DEF Faithful
<1>7. \A s \in past' : Faithful(s)'
  BY <1>1, <1>5, <1>6 DEF Inv
<1>8. \A v \in Workers : Faithful(loaded[v])'
  BY <1>1, <1>5 DEF Inv
<1>9. ASSUME NEW v \in Workers, pc'[v] = "landed"
      PROVE  /\ wrote'[v] # 0
             /\ Faithful([revision |-> loaded[v].revision + 1, version |-> wrote[v]])'
  <2>1. CASE v = w
    <3>1. wrote'[w] = versions + 1 /\ loaded'[w] = loaded[w]
      BY <1>1 DEF Inv
    <3>2. item' = [revision |-> loaded'[w].revision + 1, version |-> wrote'[w]]
      BY <1>1, <1>3, <3>1
    <3> QED BY <1>2, <1>6, <2>1, <3>1, <3>2
  <2>2. CASE v # w
    <3>1. pc[v] = "landed" /\ wrote'[v] = wrote[v]
      BY <1>1, <1>9, <2>2 DEF Inv
    <3> DEFINE old == [revision |-> loaded[v].revision + 1, version |-> wrote[v]]
    <3>2. Faithful(old) /\ wrote[v] # 0
      BY <3>1 DEF Inv
    <3>3. old = [revision |-> loaded'[v].revision + 1, version |-> wrote'[v]]
      BY <1>1, <3>1
    <3> HIDE DEF old
    <3>4. old' = old
      BY <1>1, <3>1 DEF old
    <3> QED BY <1>5, <3>1, <3>2, <3>3, <3>4 DEF old
  <2> QED BY <2>1, <2>2
<1>10. /\ versions' \in Nat /\ lapsed' \in 0..versions'
       /\ item' \in Items /\ item' # Nothing
       /\ item'.version = versions' /\ item'.version # 0 /\ item'.revision > 0
       /\ lapsed' < versions'
  BY <1>1, <1>2, <1>3, <1>4
<1>11. /\ pc' \in [Workers -> Idle \cup {"loaded", "putting", "landed"}]
       /\ loaded' \in [Workers -> Items] /\ wrote' \in [Workers -> Nat]
  BY <1>1, <1>2 DEF Inv
<1> QED BY <1>7, <1>8, <1>9, <1>10, <1>11 DEF Inv, Nothing

\* When the item expires nothing the workers hold is of the next lifetime.
LEMMA ExpireInv == Inv /\ Expire => Inv'
<1> SUFFICES ASSUME Inv, Expire PROVE Inv'
  OBVIOUS
<1>1. /\ item' = Nothing /\ lapsed' = versions
      /\ UNCHANGED <<past, versions, pc, loaded, wrote>>
  BY DEF Expire
<1>2. ASSUME NEW s, Faithful(s) PROVE Faithful(s)'
  BY <1>1, <1>2 DEF Faithful, Inv, Items
<1>3. /\ \A s \in past' : Faithful(s)'
      /\ \A w \in Workers : Faithful(loaded[w])'
  BY <1>1, <1>2 DEF Inv
<1>4. ASSUME NEW w \in Workers, pc'[w] = "landed"
      PROVE  /\ wrote'[w] # 0
             /\ Faithful([revision |-> loaded[w].revision + 1, version |-> wrote[w]])'
  BY <1>1, <1>2, <1>4 DEF Inv
<1> QED BY <1>1, <1>3, <1>4 DEF Inv, Nothing, Items

\* Every step of every worker keeps revisions and versions together.
LEMMA StepInv == ASSUME Inv, [Next]_vars PROVE Inv'
<1>1. CASE UNCHANGED vars
  BY <1>1 DEF Inv, vars, tableVars, Faithful
<1>2. CASE Expire
  BY <1>2, ExpireInv
<1>3. ASSUME NEW w \in Workers, Load(w) PROVE Inv'
  <2>1. PICK found \in Readable : loaded' = [loaded EXCEPT ![w] = found]
    BY <1>3 DEF Load
  <2> QED BY <1>3, <2>1, ReadableFaithful, SeeInv DEF Load
<1>4. ASSUME NEW w \in Workers, SaveReads(w) PROVE Inv'
  <2>1. PICK current \in Readable :
          pc' = [pc EXCEPT ![w] = IF current.revision = loaded[w].revision
                                  THEN "putting" ELSE "conflict"]
    BY <1>4 DEF SaveReads
  <2> QED BY <1>4, <2>1, MoveInv DEF SaveReads, Idle
<1>5. ASSUME NEW w \in Workers, PutLands(w) PROVE Inv'
  BY <1>5, PutInv
<1>6. ASSUME NEW w \in Workers, PutRefused(w) PROVE Inv'
  BY <1>6, MoveInv DEF PutRefused, Idle
<1>7. ASSUME NEW w \in Workers, SaveReturns(w) PROVE Inv'
  <2> DEFINE state == [revision |-> loaded[w].revision + 1, version |-> wrote[w]]
  <2>1. Faithful(state)
    BY <1>7 DEF Inv, SaveReturns
  <2>2. loaded' = [loaded EXCEPT ![w] = state]
    BY <1>7 DEF SaveReturns, Inv
  <2> HIDE DEF state
  <2> QED BY <1>7, <2>1, <2>2, SeeInv DEF SaveReturns, Idle
<1>8. ASSUME NEW w \in Workers, SaveFails(w) PROVE Inv'
  BY <1>8, MoveInv DEF SaveFails, Idle
<1>9. ASSUME NEW w \in Workers, Crash(w) PROVE Inv'
  <2>1. Faithful(Nothing)
    BY DEF Inv, Faithful, Nothing, Items
  <2> QED BY <1>9, <2>1, SeeInv DEF Crash, Idle
<1> QED BY <1>1, <1>2, <1>3, <1>4, <1>5, <1>6, <1>7, <1>8, <1>9
        DEF Next, WorkerStep

\* Every step maps to a read, a write from the version stored (or from one that
\* has expired), an expiry or a stutter.
LEMMA StepRefines ==
  ASSUME Inv, [Next]_vars
  PROVE  [Store!StoreNext]_(Store!storeVars)
<1> DEFINE seen == [w \in Workers |-> loaded[w].version]
<1> USE DEF Store!storeVars, Items
<1>1. CASE UNCHANGED <<tableVars, loaded>>
  BY <1>1 DEF tableVars
<1>2. ASSUME NEW w \in Workers, NEW state, Faithful(state),
             loaded' = [loaded EXCEPT ![w] = state], UNCHANGED tableVars
      PROVE  Store!See(w)
  <2>1. state.version \in 0..versions
    BY <1>2 DEF Faithful, Inv
  <2>2. [v \in Workers |-> loaded'[v].version] = [seen EXCEPT ![w] = state.version]
    BY <1>2 DEF Inv
  <2> QED BY <1>2, <2>1, <2>2 DEF Store!See, tableVars
<1>3. ASSUME NEW w \in Workers, Load(w) PROVE Store!See(w)
  <2>1. PICK found \in Readable : loaded' = [loaded EXCEPT ![w] = found]
    BY <1>3 DEF Load
  <2> QED BY <1>2, <1>3, <2>1, ReadableFaithful DEF Load
<1>4. ASSUME NEW w \in Workers, PutLands(w) PROVE Store!Write(w)
  <2>1. loaded[w].version = item.version \/ loaded[w].version \in 1..lapsed
    BY <1>4, AllowedPutIsCurrent DEF PutLands
  <2>2. /\ item'.version = versions + 1 /\ versions' = versions + 1
        /\ loaded' = loaded /\ lapsed' = lapsed
    BY <1>4 DEF PutLands, Stored
  <2> QED BY <2>1, <2>2 DEF Store!Write
<1>5. ASSUME NEW w \in Workers, SaveReturns(w) PROVE Store!See(w)
  <2> DEFINE state == [revision |-> loaded[w].revision + 1, version |-> wrote[w]]
  <2>1. Faithful(state)
    BY <1>5 DEF Inv, SaveReturns
  <2>2. loaded' = [loaded EXCEPT ![w] = state] /\ UNCHANGED tableVars
    BY <1>5 DEF SaveReturns, Inv
  <2> HIDE DEF state
  <2> QED BY <1>2, <2>1, <2>2
<1>6. ASSUME NEW w \in Workers, Crash(w) PROVE Store!See(w)
  <2>1. Faithful(Nothing)
    BY DEF Inv, Faithful, Nothing
  <2> QED BY <1>2, <1>6, <2>1 DEF Crash
<1>7. ASSUME NEW w \in Workers, SaveReads(w) \/ PutRefused(w) \/ SaveFails(w)
      PROVE  UNCHANGED <<tableVars, loaded>>
  BY <1>7 DEF SaveReads, PutRefused, SaveFails
<1>8. CASE Expire
  BY <1>8 DEF Expire, Store!Vanish, Store!StoreNext, Nothing
<1>9. CASE UNCHANGED vars
  BY <1>1, <1>9 DEF vars
<1> QED BY <1>1, <1>3, <1>4, <1>5, <1>6, <1>7, <1>8, <1>9
        DEF Next, WorkerStep, Store!StoreNext

\* The store is a VersionedStore: no save replaces a state its worker has not
\* seen, whatever other workers do between the get and the put of
\* DynamoDbFlowStateStore.save; only who holds an expired state may.
THEOREM NoLostUpdate == Spec => ImplementsVersionedStore
<1>1. Init => Store!StoreInit
  BY DEF Init, Store!StoreInit, Nothing
<1> QED BY <1>1, InitInv, StepInv, StepRefines, PTL
        DEF Spec, ImplementsVersionedStore, Store!StoreSpec

\* The state stored, if it is the one a worker holds, has the revision it holds.
LEMMA SameVersionSameRevision ==
  ASSUME Inv, NEW w \in Workers, loaded[w].version = item.version
  PROVE  loaded[w].revision = item.revision
<1>1. loaded[w] \in Items /\ Faithful(loaded[w]) /\ item \in Items
  BY DEF Inv
<1>2. CASE item = Nothing
  BY <1>1, <1>2 DEF Faithful, Nothing
<1>3. CASE item # Nothing
  <2>1. loaded[w].version > lapsed /\ lapsed \in Nat /\ versions \in Nat
    BY <1>3 DEF Inv
  <2>2. item.revision + loaded[w].version = loaded[w].revision + item.version
    BY <1>1, <2>1 DEF Faithful
  <2> QED BY <1>1, <2>2 DEF Items
<1> QED BY <1>2, <1>3

\* A step that tells a worker of a conflict was its own get or its own put.
LEMMA ConflictIsOfRevisions ==
  ASSUME Inv, [Next]_vars, ~staleReads, NEW w \in Workers,
         pc[w] # "conflict", pc'[w] = "conflict"
  PROVE  item.revision # loaded[w].revision
<1>1. \A v \in Workers : \A at : pc' = [pc EXCEPT ![v] = at] => v = w /\ at = "conflict"
  BY DEF Inv
<1>2. pc' # pc
  OBVIOUS
<1>3. ASSUME NEW v \in Workers, SaveReads(v) PROVE item.revision # loaded[w].revision
  <2>1. pc' = [pc EXCEPT ![v] = IF item.revision = loaded[v].revision
                                THEN "putting" ELSE "conflict"]
    BY <1>3 DEF SaveReads, Readable
  <2> DEFINE at == IF item.revision = loaded[v].revision THEN "putting" ELSE "conflict"
  <2>2. v = w /\ at = "conflict"
    <3>1. pc' = [pc EXCEPT ![v] = at]
      BY <2>1
    <3> HIDE DEF at
    <3> QED BY <1>1, <3>1
  <2> QED BY <2>2
<1>4. ASSUME NEW v \in Workers, PutRefused(v) PROVE item.revision # loaded[w].revision
  BY <1>1, <1>4 DEF PutRefused, PutAllowed
<1>5. ASSUME NEW v \in Workers,
             Load(v) \/ PutLands(v) \/ SaveReturns(v) \/ SaveFails(v) \/ Crash(v)
      PROVE  FALSE
  <2>1. \E at \in {"loaded", "landed", "saved", "error", "idle"} : pc' = [pc EXCEPT ![v] = at]
    BY <1>5 DEF Load, PutLands, SaveReturns, SaveFails, Crash
  <2> QED BY <1>1, <2>1
<1>6. ~Expire /\ ~UNCHANGED vars
  BY <1>2 DEF Expire, vars
<1> QED BY <1>3, <1>4, <1>5, <1>6 DEF Next, WorkerStep

\* "The flow state changed since the caller loaded its revision" (flows/state.py) is
\* true whenever save says so, if the connector reads consistently: the state stored
\* is not the one the worker holds.  (It may be the worker's own, from a save whose
\* reply it missed.)
THEOREM ConflictsAreReal == Spec => ConflictMeansChanged
<1>1. Inv /\ [Next]_vars =>
        [~staleReads => \A w \in Workers :
           pc[w] # "conflict" /\ pc'[w] = "conflict" =>
             loaded[w].version # item.version]_vars
  BY ConflictIsOfRevisions, SameVersionSameRevision
<1> QED BY <1>1, InitInv, StepInv, PTL DEF Spec, ConflictMeansChanged

=============================================================================
