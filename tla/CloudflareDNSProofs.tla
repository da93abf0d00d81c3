------------------------- MODULE CloudflareDNSProofs -------------------------
(* Theorems about CloudflareDNS, for all values of its constants. *)
EXTENDS CloudflareDNS, TLAPS

-----------------------------------------------------------------------------
(* Lemmas about the operators the actions are built from. *)

\* Setting a condition gives a status that lists the same records.
LEMMA WithType ==
    ASSUME NEW s \in Statuses, NEW c \in Conditions,
           NEW v \in {"None", "True", "False", "Unknown"}
    PROVE  /\ With(s, c, v) \in Statuses
           /\ With(s, c, v).ids = s.ids /\ With(s, c, v).resolved = s.resolved
BY DEF Statuses, With

\* The values the locals start with are well-typed.
LEMMA EmptyTypes == NoStatus \in Statuses /\ Nothing \in Outcomes
BY DEF NoStatus, Nothing, Statuses, Outcomes, Conditions

\* A resource the user has just created is a well-typed object.
LEMMA NewObjectType ==
    ASSUME NEW s \in Specs PROVE NewObject(s) \in Objects
BY EmptyTypes DEF NewObject, Objects

\* What the API server makes of an object when its finalizer is added or
\* removed, its status is written, its spec is edited or it is deleted.
LEMMA ObjectTypes ==
    ASSUME NEW o \in Objects
    PROVE  /\ Finalized(o) \in Objects /\ Gone(o) \in Objects /\ Terminating(o) \in Objects
           /\ \A s \in Statuses : Reporting(o, s) \in Objects
           /\ \A s \in Specs : Edited(o, s) \in Objects
BY DEF Objects, Finalized, Gone, Terminating, Reporting, Edited

\* Reconcile starts with one of these steps.
LEMMA PathType ==
    ASSUME NEW o \in Objects
    PROVE  Path(o) \in {"idle", "list", "unfinalize", "finalize", "target"}
BY DEF Path, Objects

\* Spending an event of the budget keeps the counters natural numbers.
LEMMA SpendType ==
    ASSUME NEW k \in Kinds, used \in [Kinds -> Nat], Spend(k)
    PROVE  used' \in [Kinds -> Nat]
BY DEF Spend, Kinds

\* Deleting a record leaves a well-typed zone.
LEMMA RemovedType ==
    ASSUME NEW h \in Hosts, NEW i, zone \in [Hosts -> Records \cup {None}]
    PROVE  Removed(h, i) \in [Hosts -> Records \cup {None}]
BY DEF Removed

\* A record found is a record of the zone.
LEMMA FoundType ==
    ASSUME NEW h \in Hosts, zone \in [Hosts -> Records \cup {None}], Found(h) # None
    PROVE  Found(h) = zone[h] /\ zone[h] # None /\ Found(h) \in Records
BY DEF Found

\* The worker at rest.
Rested ==
    /\ queued \in SUBSET Resources
    /\ pc = "idle" /\ cur = None /\ mem = None /\ at = None
    /\ st \in Statuses /\ out \in Outcomes
    /\ wanted = {} /\ todo = {} /\ doomed = {} /\ rec = 0

\* Every reconcile ends with the worker at rest.
LEMMA ReturnType ==
    ASSUME TypeOK, Return(TRUE) \/ Return(FALSE), pc # "idle"
    PROVE  Rested'
BY EmptyTypes DEF TypeOK, Return, Rested

\* The initial states are well-typed.
LEMMA TypeInit == Init => TypeOK
<1> SUFFICES ASSUME Init PROVE TypeOK
  OBVIOUS
<1>1. crs \in [Resources -> Objects] /\ cache \in [Resources -> Objects]
  BY NewObjectType DEF Init
<1>2. QED
  BY <1>1, EmptyTypes, RoutesAssumption DEF Init, TypeOK, Steps, Kinds

\* Every step of the controller and of its environment keeps the types.
LEMMA TypeNext == TypeOK /\ [Next]_vars => TypeOK'
<1> SUFFICES ASSUME TypeOK, [Next]_vars PROVE TypeOK'
  OBVIOUS
<1> USE DEF TypeOK, Steps
<1>1. ASSUME NEW o \in Resources, Fetch(o) PROVE TypeOK'
  <2>1. Path(cache[o]) \in {"idle", "list", "unfinalize", "finalize", "target"}
    BY PathType
  <2>2. cache[o] \in Objects /\ cache[o].status \in Statuses
    BY DEF Objects
  <2> QED
    BY <1>1, <2>1, <2>2 DEF Fetch, cluster, cloud, locals
<1>2. CASE AddFinalizer
  <2>1. crs' \in [Resources -> Objects]
    BY <1>2, ObjectTypes DEF AddFinalizer
  <2>2. used' \in [Kinds -> Nat]
    BY <1>2, SpendType DEF AddFinalizer, Kinds
  <2>3. Rested'
    BY <1>2, ReturnType DEF AddFinalizer
  <2> QED
    BY <1>2, <2>1, <2>2, <2>3 DEF Rested, AddFinalizer, cloud
<1>3. CASE ResolveTarget
  <2>1. st' \in Statuses /\ pc' \in {"collect", "status"}
    BY <1>3, WithType DEF ResolveTarget, Publish, Statuses, Conditions
  <2> QED
    BY <1>3, <2>1 DEF ResolveTarget, Publish, locals, cluster, cloud
<1>4. CASE CollectHostnames
  <2> DEFINE valid == With(st, "CredentialsValid", "True")
  <2>1. mem \in Objects /\ Hostnames(mem.spec) \in SUBSET Hosts
    BY <1>4 DEF CollectHostnames, Hostnames, Objects, Specs
  <2>2. /\ valid \in Statuses /\ With(valid, "ZonesResolved", "True") \in Statuses
        /\ With(valid, "ZonesResolved", "False") \in Statuses
        /\ With(st, "CredentialsValid", "False") \in Statuses
        /\ With(With(st, "RecordsSynced", "Unknown"), "Ready", "Unknown") \in Statuses
    BY WithType DEF Conditions
  <2>3. used' \in [Kinds -> Nat]
    BY <1>4, SpendType DEF CollectHostnames, Kinds
  <2>4. CASE Return(TRUE)
    <3>1. Rested'
      BY <1>4, <2>4, ReturnType DEF CollectHostnames
    <3> QED
      BY <1>4, <2>3, <3>1 DEF CollectHostnames, Rested, cluster, cloud
  <2>5. CASE ~Return(TRUE)
    BY <1>4, <2>1, <2>2, <2>3, <2>5 DEF CollectHostnames, Publish, locals, cluster, cloud
  <2> QED
    BY <2>4, <2>5
<1>5. CASE FindRecord
  <2>1. used' \in [Kinds -> Nat]
    BY <1>5, SpendType DEF FindRecord, Kinds
  <2>2. PICK h \in todo :
          \/ pc' = "create" /\ at' = h /\ UNCHANGED <<todo, rec, out>>
          \/ /\ Found(h) # None /\ pc' \in {"update", "txt"}
             /\ at' = h /\ rec' = Found(h).id /\ UNCHANGED <<todo, out>>
          \/ /\ out' = [out EXCEPT !.failed = @ \cup {h}]
             /\ todo' = todo \ {h} /\ UNCHANGED <<pc, at, rec>>
    BY <1>5 DEF FindRecord
  <2>3. rec' \in Nat
    BY <2>2, FoundType DEF Records
  <2>4. out' \in Outcomes
    BY <2>2 DEF Outcomes
  <2> QED
    BY <1>5, <2>1, <2>2, <2>3, <2>4 DEF FindRecord, cluster, cloud
<1>6. CASE CreateRecord
  <2>1. Desired(serial + 1) \in Records
    BY <1>6 DEF CreateRecord, Desired, Records, RecordKinds, Statuses
  <2>2. zone' \in [Hosts -> Records \cup {None}] /\ serial' \in Nat
    BY <1>6, <2>1 DEF CreateRecord
  <2>3. used' \in [Kinds -> Nat]
    BY <1>6, SpendType DEF CreateRecord, Kinds
  <2>4. out' \in Outcomes
    BY <1>6 DEF CreateRecord, FailHost, Outcomes
  <2> QED
    BY <1>6, <2>2, <2>3, <2>4 DEF CreateRecord, FailHost, NextHost, cluster
<1>7. CASE UpdateRecord
  <2>1. zone' \in [Hosts -> Records \cup {None}]
    BY <1>7 DEF UpdateRecord, Desired, Records, RecordKinds, Statuses
  <2>2. used' \in [Kinds -> Nat]
    BY <1>7, SpendType DEF UpdateRecord, Kinds
  <2>3. out' \in Outcomes
    BY <1>7 DEF UpdateRecord, FailHost, Outcomes
  <2> QED
    BY <1>7, <2>1, <2>2, <2>3 DEF UpdateRecord, FailHost, NextHost, cluster
<1>8. CASE WriteTXT
  <2>1. txt' \in [Hosts -> Resources \cup {None}] /\ used' \in [Kinds -> Nat]
    BY <1>8, SpendType DEF WriteTXT, Kinds
  <2>2. PICK good \in SUBSET {at}, bad \in SUBSET {at} : ListRecord(good, bad)
    BY <1>8 DEF WriteTXT
  <2>3. CASE Return(TRUE) /\ panicked' = TRUE
    <3>1. Rested'
      BY <1>8, <2>3, ReturnType DEF WriteTXT
    <3> QED
      BY <1>8, <2>1, <2>3, <3>1 DEF WriteTXT, Rested, cluster
  <2>4. CASE ~(Return(TRUE) /\ panicked' = TRUE)
    <3>1. /\ out' = [ids |-> [out.ids EXCEPT ![at] = rec], failed |-> out.failed,
                     good |-> out.good \cup good, bad |-> out.bad \cup bad]
          /\ NextHost /\ UNCHANGED <<queued, cur, mem, st, wanted, doomed, panicked>>
      BY <2>2, <2>4 DEF ListRecord
    <3>2. out' \in Outcomes
      BY <1>8, <3>1 DEF WriteTXT, Outcomes
    <3> QED
      BY <1>8, <2>1, <3>1, <3>2 DEF WriteTXT, NextHost, cluster
  <2> QED
    BY <2>3, <2>4
<1>9. CASE SyncDone
  BY <1>9 DEF SyncDone, cluster, cloud
<1>10. CASE FindOrphan
  <2>1. used' \in [Kinds -> Nat]
    BY <1>10, SpendType DEF FindOrphan, Kinds
  <2> QED
    BY <1>10, <2>1 DEF FindOrphan, cluster, cloud
<1>11. CASE DropOrphan
  <2>1. Removed(at, st.ids[at]) \in [Hosts -> Records \cup {None}]
    BY <1>11, RemovedType DEF DropOrphan
  <2>2. used' \in [Kinds -> Nat]
    BY <1>11, SpendType DEF DropOrphan, Kinds
  <2>3. txt' \in [Hosts -> Resources \cup {None}] /\ zone' \in [Hosts -> Records \cup {None}]
    BY <1>11, <2>1 DEF DropOrphan
  <2> QED
    BY <1>11, <2>2, <2>3 DEF DropOrphan, cluster
<1>12. CASE VerifyOwnership
  <2> DEFINE ready == With(With(st, "RecordsSynced", "True"), "Ready", "True")
             synced == [ready EXCEPT !.ids = out.ids, !.failed = out.failed]
  <2>1. ready \in Statuses
    BY WithType DEF Conditions
  <2>2. synced \in Statuses
    BY <2>1 DEF Statuses, Outcomes
  <2>3. /\ With(synced, "OwnershipVerified", "True") \in Statuses
        /\ With(synced, "OwnershipVerified", "False") \in Statuses
    BY <2>2, WithType DEF Conditions
  <2>4. used' \in [Kinds -> Nat]
    BY <1>12, SpendType DEF VerifyOwnership, Kinds
  <2> QED
    BY <1>12, <2>3, <2>4 DEF VerifyOwnership, Publish, locals, cluster, cloud
<1>13. CASE UpdateStatus
  <2>1. crs' \in [Resources -> Objects]
    BY <1>13, ObjectTypes DEF UpdateStatus
  <2>2. used' \in [Kinds -> Nat]
    BY <1>13, SpendType DEF UpdateStatus, Kinds
  <2>3. Rested'
    BY <1>13, ReturnType DEF UpdateStatus
  <2> QED
    BY <1>13, <2>1, <2>2, <2>3 DEF Rested, UpdateStatus, cloud
<1>14. CASE ListManagedRecords
  <2> DEFINE found == {[host |-> h, id |-> zone[h].id] : h \in {g \in Hosts : IsOwnedByCfgate(zone[g])}}
                        \cup {[host |-> h, id |-> 0] : h \in {g \in Hosts : txt[g] = cur}}
  <2>1. found \in SUBSET [host: Hosts, id: Nat]
    BY DEF IsOwnedByCfgate, Records
  <2>2. used' \in [Kinds -> Nat]
    BY <1>14, SpendType DEF ListManagedRecords, Kinds
  <2>3. Doomed(found) \/ Doomed({})
    BY <1>14 DEF ListManagedRecords
  <2>4. doomed' \in SUBSET [host: Hosts, id: Nat] /\ pc' \in {"unfinalize", "wipe"}
    BY <2>1, <2>3 DEF Doomed
  <2> QED
    BY <1>14, <2>2, <2>4 DEF ListManagedRecords, cluster, cloud
<1>15. CASE DeleteManagedRecord
  <2>1. PICK d \in doomed :
          /\ \/ /\ zone' = Removed(d.host, d.id)
                /\ txt' = IF d.id = 0 THEN [txt EXCEPT ![d.host] = None] ELSE txt
                /\ UNCHANGED used
             \/ Spend("fault") /\ UNCHANGED <<zone, txt>>
          /\ Doomed(doomed \ {d})
    BY <1>15 DEF DeleteManagedRecord
  <2>2. zone' \in [Hosts -> Records \cup {None}] /\ txt' \in [Hosts -> Resources \cup {None}]
    BY <2>1, RemovedType
  <2>3. used' \in [Kinds -> Nat]
    BY <2>1, SpendType DEF Kinds
  <2>4. doomed' \in SUBSET [host: Hosts, id: Nat] /\ pc' \in {"unfinalize", "wipe"}
    BY <2>1 DEF Doomed
  <2> QED
    BY <1>15, <2>2, <2>3, <2>4 DEF DeleteManagedRecord, cluster
<1>16. CASE RemoveFinalizer
  <2>1. crs' \in [Resources -> Objects]
    <3>1. crs' = crs \/ crs' = [crs EXCEPT ![cur] = Gone(crs[cur])]
      BY <1>16 DEF RemoveFinalizer
    <3> QED
      BY <1>16, <3>1, ObjectTypes DEF RemoveFinalizer
  <2>2. used' \in [Kinds -> Nat]
    BY <1>16, SpendType DEF RemoveFinalizer, Kinds
  <2>3. Rested'
    BY <1>16, ReturnType DEF RemoveFinalizer
  <2> QED
    BY <1>16, <2>1, <2>2, <2>3 DEF Rested, RemoveFinalizer, cloud
<1>17. ASSUME NEW o \in Resources, SyncCache(o) PROVE TypeOK'
  BY <1>17 DEF SyncCache, cluster, cloud, job, locals
<1>18. CASE Crash
  <2>1. used' \in [Kinds -> Nat]
    BY <1>18, SpendType DEF Crash, Kinds
  <2> QED
    BY <1>18, <2>1, EmptyTypes DEF Crash, cluster, cloud
<1>19. ASSUME NEW o \in Resources, EditSpec(o) \/ DeleteObject(o) PROVE TypeOK'
  <2>1. crs' \in [Resources -> Objects]
    <3>1. SpecsOf[o] \subseteq Specs
      BY SpecsAssumption
    <3> QED
      BY <1>19, <3>1, ObjectTypes DEF EditSpec, DeleteObject
  <2>2. used' \in [Kinds -> Nat]
    BY <1>19, SpendType DEF EditSpec, DeleteObject, Kinds
  <2> QED
    BY <1>19, <2>1, <2>2 DEF EditSpec, DeleteObject, cloud, job, locals
<1>20. CASE ChangeRoutes \/ ChangeTarget
  <2>1. used' \in [Kinds -> Nat]
    BY <1>20, SpendType DEF ChangeRoutes, ChangeTarget, Kinds
  <2> QED
    BY <1>20, <2>1, RoutesAssumption DEF ChangeRoutes, ChangeTarget, cloud, job, locals
<1>21. CASE External
  <2>1. zone' \in [Hosts -> Records \cup {None}] /\ txt' \in [Hosts -> Resources \cup {None}]
    BY <1>21, KindsAssumption DEF External, IsOwnedByCfgate, Repointed, Stripped, Foreign, Records
  <2>2. used' \in [Kinds -> Nat] /\ serial' \in Nat
    BY <1>21, SpendType DEF External, Kinds
  <2> QED
    BY <1>21, <2>1, <2>2 DEF External, cluster, job, locals
<1>22. CASE UNCHANGED vars
  BY <1>22 DEF vars, cluster, cloud, job, locals
<1> QED
  BY <1>1, <1>2, <1>3, <1>4, <1>5, <1>6, <1>7, <1>8, <1>9, <1>10, <1>11, <1>12,
     <1>13, <1>14, <1>15, <1>16, <1>17, <1>18, <1>19, <1>20, <1>21, <1>22
     DEF Next, Reconcile, Work, Environment

\* The variables keep their types: the identifiers in every status are natural
\* numbers, and a reconcile that acts on a record is at a hostname.
THEOREM TypeCorrect == Spec => []TypeOK
<1>1. QED
  BY TypeInit, TypeNext, PTL DEF Spec

-----------------------------------------------------------------------------
(* The worker *)

\* A reconcile that goes on goes on for the same resource, with the spec it
\* read; one that starts has read a copy from the cache.
LEMMA WorkerStep ==
    ASSUME TypeOK, [Next]_vars, pc' # "idle"
    PROVE  \/ cur' = cur /\ mem' = mem /\ pc # "idle" /\ (pc = "finalize" => pc' = "finalize")
           \/ \E o \in Resources : Fetch(o) /\ cur' = o /\ mem' = cache[o]
                                 /\ pc' = Path(cache[o])
<1>1. CASE \/ AddFinalizer \/ UpdateStatus \/ RemoveFinalizer \/ Crash
  BY <1>1 DEF AddFinalizer, UpdateStatus, RemoveFinalizer, Return, Crash
<1>2. CASE \/ ResolveTarget \/ CollectHostnames \/ FindRecord \/ CreateRecord
           \/ UpdateRecord \/ WriteTXT \/ SyncDone
  BY <1>2 DEF ResolveTarget, CollectHostnames, FindRecord, CreateRecord, UpdateRecord,
     WriteTXT, ListRecord, SyncDone, Publish, Return, NextHost, FailHost
<1>3. CASE FindOrphan \/ DropOrphan \/ VerifyOwnership \/ ListManagedRecords \/ DeleteManagedRecord
  BY <1>3 DEF FindOrphan, DropOrphan, VerifyOwnership, Publish, ListManagedRecords,
     DeleteManagedRecord, Doomed
<1>4. CASE \/ ChangeRoutes \/ ChangeTarget \/ External \/ UNCHANGED vars
           \/ \E x \in Resources : SyncCache(x) \/ EditSpec(x) \/ DeleteObject(x)
  BY <1>4 DEF ChangeRoutes, ChangeTarget, External, SyncCache, EditSpec, DeleteObject, vars, job
<1>5. CASE \E o \in Resources : Fetch(o)
  BY <1>5 DEF Fetch
<1> QED
  BY <1>1, <1>2, <1>3, <1>4, <1>5 DEF Next, Reconcile, Work, Environment

-----------------------------------------------------------------------------
(* PolicyRespected *)

\* Every step keeps the policy that led to it.
LEMMA PolicyNext == TypeOK /\ PolicyInv /\ [Next]_vars => PolicyInv'
<1> SUFFICES ASSUME TypeOK, PolicyInv, [Next]_vars PROVE PolicyInv'
  OBVIOUS
<1> USE DEF PolicyInv
<1>1. ASSUME NEW o \in Resources, Fetch(o) PROVE PolicyInv'
  BY <1>1, NoneAssumption DEF Fetch, Path, TypeOK, Objects
<1>2. CASE \/ AddFinalizer \/ UpdateStatus \/ RemoveFinalizer \/ Crash
  BY <1>2 DEF AddFinalizer, UpdateStatus, RemoveFinalizer, Return, Crash
<1>3. CASE \/ ResolveTarget \/ CollectHostnames \/ VerifyOwnership
  BY <1>3 DEF ResolveTarget, CollectHostnames, VerifyOwnership, Publish, Return
<1>4. CASE FindRecord
  BY <1>4 DEF FindRecord, Updates
<1>5. CASE CreateRecord \/ UpdateRecord \/ WriteTXT
  BY <1>5 DEF CreateRecord, UpdateRecord, WriteTXT, ListRecord, NextHost, FailHost, Return
<1>6. CASE SyncDone \/ FindOrphan \/ DropOrphan
  BY <1>6 DEF SyncDone, FindOrphan, DropOrphan
<1>7. CASE ListManagedRecords \/ DeleteManagedRecord
  BY <1>7 DEF ListManagedRecords, DeleteManagedRecord, Doomed
<1>8. CASE \/ ChangeRoutes \/ ChangeTarget \/ External \/ UNCHANGED vars
           \/ \E x \in Resources : SyncCache(x) \/ EditSpec(x) \/ DeleteObject(x)
  BY <1>8 DEF ChangeRoutes, ChangeTarget, External, SyncCache, EditSpec, DeleteObject, vars,
     job, locals
<1> QED
  BY <1>1, <1>2, <1>3, <1>4, <1>5, <1>6, <1>7, <1>8 DEF Next, Reconcile, Work, Environment

\* A reconcile changes the record of a hostname in one of three ways.
LEMMA ZoneStep ==
    ASSUME TypeOK, Reconcile, NEW h \in Hosts, zone[h] # None, zone'[h] # zone[h]
    PROVE  \/ pc = "update" /\ h = at /\ zone[h].id = rec /\ zone'[h] # None
           \/ pc = "drop" /\ h = at /\ zone[h].id = st.ids[at]
           \/ pc = "wipe" /\ \E d \in doomed : d.host = h /\ d.id = zone[h].id
<1>1. CASE CreateRecord
  BY <1>1 DEF CreateRecord, TypeOK
<1>2. CASE UpdateRecord
  <2>1. Desired(rec) \in Records
    <3>1. zone[at] \in Records
      BY <1>2 DEF UpdateRecord, TypeOK
    <3> QED
      BY <1>2 DEF UpdateRecord, Desired, Records, RecordKinds, TypeOK, Statuses
  <2> QED
    BY <1>2, <2>1, NoneAssumption DEF UpdateRecord, TypeOK
<1>3. CASE DropOrphan
  BY <1>3 DEF DropOrphan, Removed, TypeOK
<1>4. CASE DeleteManagedRecord
  BY <1>4 DEF DeleteManagedRecord, Removed, TypeOK
<1>5. CASE \/ AddFinalizer \/ ResolveTarget \/ CollectHostnames \/ FindRecord \/ WriteTXT
           \/ SyncDone \/ FindOrphan \/ VerifyOwnership \/ UpdateStatus
           \/ ListManagedRecords \/ RemoveFinalizer \/ \E o \in Resources : Fetch(o)
  BY <1>5 DEF AddFinalizer, ResolveTarget, CollectHostnames, FindRecord, WriteTXT, SyncDone,
     FindOrphan, VerifyOwnership, UpdateStatus, ListManagedRecords, RemoveFinalizer, Fetch, cloud
<1> QED
  BY <1>1, <1>2, <1>3, <1>4, <1>5 DEF Reconcile, Work

\* Whatever the policy becomes on the server, a reconcile never goes beyond the
\* one it has read: create-only changes nothing, only sync deletes.
THEOREM PolicySafe == Spec => PolicyRespected
<1>1. Init => PolicyInv
  BY DEF Init, PolicyInv
<1>2. TypeOK /\ PolicyInv /\ [Next]_vars =>
        [Reconcile => \A h \in Hosts :
           /\ zone[h] # None /\ zone'[h] = None => mem.spec.policy = "sync"
           /\ zone[h] # None /\ zone'[h] # zone[h] => mem.spec.policy # "create-only"]_vars
  BY ZoneStep DEF PolicyInv
<1> QED
  BY <1>1, <1>2, PolicyNext, TypeCorrect, PTL DEF Spec, PolicyRespected

-----------------------------------------------------------------------------
(* IdsOfTheirHosts *)

\* What others do to the zone: a record of theirs appears, one goes, or one of
\* cfgate's keeps its identifier and its comment, or loses the comment.
LEMMA ExternalZone ==
    ASSUME TypeOK, External
    PROVE  \/ zone' = zone /\ serial' = serial
           \/ /\ serial' = serial + 1
              /\ \E g \in Hosts : \E k : zone' = [zone EXCEPT ![g] = Foreign(serial + 1, k)]
           \/ \E g \in Hosts : zone' = [zone EXCEPT ![g] = None] /\ serial' = serial
           \/ /\ serial' = serial
              /\ \E g \in Hosts, v \in Records :
                   /\ zone[g] # None /\ zone[g].by \in Resources
                   /\ zone' = [zone EXCEPT ![g] = v]
                   /\ v.id = zone[g].id /\ v.by \in {zone[g].by, "stripped"}
<1>1. \A g \in Hosts : zone[g] # None => zone[g] \in Records
  BY DEF TypeOK
<1>2. ASSUME NEW v \in Records
      PROVE  /\ Repointed(v) \in Records /\ Repointed(v).id = v.id /\ Repointed(v).by = v.by
             /\ Stripped(v) \in Records /\ Stripped(v).id = v.id /\ Stripped(v).by = "stripped"
  BY DEF Repointed, Stripped, Records
<1> QED
  BY <1>1, <1>2 DEF External, IsOwnedByCfgate

\* Identifiers are handed out in order, one at a time; a record keeps its own.
LEMMA ZoneIds ==
    ASSUME TypeOK, [Next]_vars
    PROVE  /\ serial' >= serial
           /\ \A h \in Hosts : zone'[h] # None =>
                \/ /\ zone[h] # None /\ zone'[h].id = zone[h].id
                   /\ zone[h].by # None => zone'[h].by # None
                \/ /\ zone'[h].id = serial + 1 /\ serial' = serial + 1
                   /\ \A g \in Hosts \ {h} : zone'[g] = zone[g]
<1> USE DEF TypeOK
<1>1. CASE zone' = zone /\ serial' = serial
  BY <1>1
<1>2. CASE CreateRecord
  BY <1>1, <1>2 DEF CreateRecord, Desired
<1>3. CASE UpdateRecord
  BY <1>1, <1>3, NoneAssumption DEF UpdateRecord, Desired
<1>4. CASE DropOrphan
  BY <1>4 DEF DropOrphan, Removed
<1>5. CASE DeleteManagedRecord
  BY <1>5 DEF DeleteManagedRecord, Removed, cluster
<1>6. CASE External
  <2>1. \A g \in Hosts : zone[g] \in Records \cup {None}
    OBVIOUS
  <2> QED
    BY <1>6, <2>1, ExternalZone, NoneAssumption DEF Foreign
<1>7. CASE \/ AddFinalizer \/ ResolveTarget \/ CollectHostnames \/ FindRecord \/ WriteTXT
           \/ SyncDone \/ FindOrphan \/ VerifyOwnership \/ UpdateStatus
           \/ ListManagedRecords \/ RemoveFinalizer \/ \E o \in Resources : Fetch(o)
  BY <1>1, <1>7 DEF AddFinalizer, ResolveTarget, CollectHostnames, FindRecord, WriteTXT, SyncDone,
     FindOrphan, VerifyOwnership, UpdateStatus, ListManagedRecords, RemoveFinalizer, Fetch, cloud
<1>8. CASE \/ Crash \/ ChangeRoutes \/ ChangeTarget \/ UNCHANGED vars
           \/ \E x \in Resources : SyncCache(x) \/ EditSpec(x) \/ DeleteObject(x)
  BY <1>1, <1>8 DEF Crash, ChangeRoutes, ChangeTarget, vars, SyncCache, EditSpec, DeleteObject, cloud
<1> QED
  BY <1>2, <1>3, <1>4, <1>5, <1>6, <1>7, <1>8 DEF Next, Reconcile, Work, Environment

\* An identifier once noted for a hostname stays good, and so does what was
\* found out about its record.
LEMMA NotedStays ==
    ASSUME TypeOK, [Next]_vars, NEW i \in Nat, NEW h \in Hosts, i <= serial
    PROVE  /\ NotedFor(i, h) => NotedFor(i, h)'
           /\ Ours(h, i) => Ours(h, i)'
<1>1. serial \in Nat /\ serial' >= serial /\ serial' \in Nat
  BY ZoneIds, TypeNext DEF TypeOK
<1>2. ASSUME NEW g \in Hosts, zone'[g] # None, zone'[g].id = i
      PROVE  zone[g] # None /\ zone[g].id = i /\ (zone[g].by # None => zone'[g].by # None)
  BY <1>1, <1>2, ZoneIds
<1> QED
  BY <1>1, <1>2 DEF NotedFor, Ours

\* The status on the server and the copy in the cache come from one another or
\* from the reconcile under way.
LEMMA StatusStep ==
    ASSUME TypeOK, [Next]_vars, NEW o \in Resources
    PROVE  /\ \/ crs'[o].status = crs[o].status
              \/ crs'[o].status = st /\ o = cur /\ pc # "idle"
           /\ cache'[o] = cache[o] \/ cache'[o] = crs[o]
<1> USE DEF TypeOK
<1>1. ASSUME NEW x \in Objects
      PROVE  /\ Finalized(x).status = x.status /\ Gone(x).status = x.status
             /\ Terminating(x).status = x.status
             /\ \A s \in Statuses : Reporting(x, s).status = s
             /\ \A s \in Specs : Edited(x, s).status = x.status
  BY DEF Objects, Finalized, Gone, Terminating, Reporting, Edited
<1>2. CASE AddFinalizer \/ UpdateStatus \/ RemoveFinalizer
  <2>1. CASE AddFinalizer
    BY <1>1, <2>1 DEF AddFinalizer
  <2>2. CASE UpdateStatus
    BY <1>1, <2>2 DEF UpdateStatus
  <2>3. CASE RemoveFinalizer
    <3>1. /\ cache' = cache /\ cur \in Resources
          /\ crs' = crs \/ crs' = [crs EXCEPT ![cur] = Gone(crs[cur])]
      BY <2>3 DEF RemoveFinalizer
    <3> QED
      BY <1>1, <3>1
  <2> QED
    BY <1>2, <2>1, <2>2, <2>3
<1>3. ASSUME NEW x \in Resources, EditSpec(x) \/ DeleteObject(x)
      PROVE  crs'[o].status = crs[o].status /\ cache' = cache
  BY <1>1, <1>3, SpecsAssumption DEF EditSpec, DeleteObject
<1>4. CASE \/ ResolveTarget \/ CollectHostnames \/ FindRecord \/ CreateRecord
           \/ UpdateRecord \/ WriteTXT \/ SyncDone \/ FindOrphan \/ DropOrphan
           \/ VerifyOwnership \/ ListManagedRecords \/ DeleteManagedRecord
  BY <1>4 DEF ResolveTarget, CollectHostnames, FindRecord, CreateRecord, UpdateRecord,
     WriteTXT, SyncDone, FindOrphan, DropOrphan, VerifyOwnership, ListManagedRecords,
     DeleteManagedRecord, cluster
<1>5. CASE Crash \/ ChangeRoutes \/ ChangeTarget \/ External \/ UNCHANGED vars
  BY <1>5 DEF Crash, ChangeRoutes, ChangeTarget, External, vars, cluster
<1>6. CASE \E x \in Resources : Fetch(x) \/ SyncCache(x)
  BY <1>6 DEF Fetch, SyncCache, cluster
<1> QED
  BY <1>2, <1>3, <1>4, <1>5, <1>6 DEF Next, Reconcile, Work, Environment

\* Where the identifiers in the status in memory come from.
LEMMA StStep ==
    ASSUME TypeOK, [Next]_vars
    PROVE  \/ st'.ids = st.ids \/ st'.ids = out.ids \/ st' = NoStatus
           \/ \E o \in Resources : st' = cache[o].status /\ cur' = o
<1> USE DEF TypeOK
<1>1. CASE AddFinalizer \/ UpdateStatus \/ RemoveFinalizer \/ Crash
  BY <1>1 DEF AddFinalizer, UpdateStatus, RemoveFinalizer, Return, Crash
<1>2. CASE ResolveTarget
  BY <1>2, WithType DEF ResolveTarget, Publish, Statuses, Conditions
<1>3. CASE CollectHostnames
  <2> DEFINE valid == With(st, "CredentialsValid", "True")
  <2>1. /\ With(With(st, "RecordsSynced", "Unknown"), "Ready", "Unknown").ids = st.ids
        /\ With(valid, "ZonesResolved", "True").ids = st.ids
        /\ With(valid, "ZonesResolved", "False").ids = st.ids
        /\ With(st, "CredentialsValid", "False").ids = st.ids
    BY WithType DEF Conditions
  <2> QED
    BY <1>3, <2>1 DEF CollectHostnames, Publish, Return
<1>4. CASE VerifyOwnership
  <2> DEFINE ready == With(With(st, "RecordsSynced", "True"), "Ready", "True")
             synced == [ready EXCEPT !.ids = out.ids, !.failed = out.failed]
  <2>1. ready \in Statuses
    BY WithType DEF Conditions
  <2>2. synced \in Statuses /\ synced.ids = out.ids
    BY <2>1 DEF Statuses, Outcomes
  <2>3. /\ With(synced, "OwnershipVerified", "True").ids = out.ids
        /\ With(synced, "OwnershipVerified", "False").ids = out.ids
    BY <2>2, WithType DEF Conditions
  <2> QED
    BY <1>4, <2>3 DEF VerifyOwnership, Publish
<1>5. CASE WriteTXT
  BY <1>5 DEF WriteTXT, ListRecord, Return
<1>6. CASE \/ FindRecord \/ CreateRecord \/ UpdateRecord \/ SyncDone \/ FindOrphan
           \/ DropOrphan \/ ListManagedRecords \/ DeleteManagedRecord
  BY <1>6 DEF FindRecord, CreateRecord, UpdateRecord, SyncDone, FindOrphan, DropOrphan,
     ListManagedRecords, DeleteManagedRecord
<1>7. CASE \/ ChangeRoutes \/ ChangeTarget \/ External \/ UNCHANGED vars
           \/ \E x \in Resources : SyncCache(x) \/ EditSpec(x) \/ DeleteObject(x)
  BY <1>7 DEF ChangeRoutes, ChangeTarget, External, SyncCache, EditSpec, DeleteObject, vars, job
<1>8. CASE \E x \in Resources : Fetch(x)
  BY <1>8 DEF Fetch
<1> QED
  BY <1>1, <1>2, <1>3, <1>4, <1>5, <1>6, <1>7, <1>8 DEF Next, Reconcile, Work, Environment

\* Where the identifiers syncRecords collects come from.
LEMMA OutStep ==
    ASSUME TypeOK, [Next]_vars
    PROVE  \/ out'.ids = out.ids \/ out' = Nothing
           \/ at \in Hosts /\ out'.ids = [out.ids EXCEPT ![at] = rec]
<1> USE DEF TypeOK
<1>1. CASE AddFinalizer \/ UpdateStatus \/ RemoveFinalizer \/ Crash
  BY <1>1 DEF AddFinalizer, UpdateStatus, RemoveFinalizer, Return, Crash
<1>2. CASE FindRecord \/ CreateRecord \/ UpdateRecord
  <2>1. \A S : [out EXCEPT !.failed = S].ids = out.ids
    BY DEF Outcomes
  <2> QED
    BY <1>2, <2>1 DEF FindRecord, CreateRecord, UpdateRecord, FailHost
<1>3. CASE WriteTXT
  BY <1>3 DEF WriteTXT, ListRecord, Return
<1>4. CASE CollectHostnames
  BY <1>4 DEF CollectHostnames, Publish, Return, locals
<1>5. CASE \/ ResolveTarget \/ SyncDone \/ FindOrphan \/ DropOrphan \/ VerifyOwnership
           \/ ListManagedRecords \/ DeleteManagedRecord \/ \E x \in Resources : Fetch(x)
  BY <1>5 DEF ResolveTarget, SyncDone, FindOrphan, DropOrphan, VerifyOwnership, Publish,
     ListManagedRecords, DeleteManagedRecord, Fetch, locals
<1>6. CASE \/ ChangeRoutes \/ ChangeTarget \/ External \/ UNCHANGED vars
           \/ \E x \in Resources : SyncCache(x) \/ EditSpec(x) \/ DeleteObject(x)
  BY <1>6 DEF ChangeRoutes, ChangeTarget, External, SyncCache, EditSpec, DeleteObject, vars,
     job, locals
<1> QED
  BY <1>1, <1>2, <1>3, <1>4, <1>5, <1>6 DEF Next, Reconcile, Work, Environment

\* Where the identifier of the record found or created comes from.
LEMMA RecStep ==
    ASSUME TypeOK, [Next]_vars, pc \notin {"update", "txt"} => rec = 0
    PROVE  \/ rec' = 0
           \/ rec' = rec /\ at' = at /\ pc' \in {"update", "txt"}
           \/ /\ at' \in Hosts /\ zone'[at'] # None /\ rec' = zone'[at'].id
              /\ pc' \in {"update", "txt"}
<1> USE DEF TypeOK
<1>1. CASE AddFinalizer \/ UpdateStatus \/ RemoveFinalizer \/ Crash
  BY <1>1 DEF AddFinalizer, UpdateStatus, RemoveFinalizer, Return, Crash
<1>2. CASE FindRecord
  BY <1>2, FoundType DEF FindRecord, cloud
<1>3. CASE CreateRecord
  <2>1. Desired(serial + 1) \in Records
    BY <1>3 DEF CreateRecord, Desired, Records, RecordKinds, Statuses
  <2>2. Desired(serial + 1) # None /\ Desired(serial + 1).id = serial + 1
    BY <2>1, NoneAssumption DEF Desired
  <2> QED
    BY <1>3, <2>2 DEF CreateRecord, FailHost, NextHost
<1>4. CASE UpdateRecord
  BY <1>4 DEF UpdateRecord, FailHost, NextHost
<1>5. CASE WriteTXT
  BY <1>5 DEF WriteTXT, ListRecord, NextHost, Return
<1>6. CASE CollectHostnames
  BY <1>6 DEF CollectHostnames, Publish, Return, locals
<1>7. CASE \/ ResolveTarget \/ SyncDone \/ FindOrphan \/ DropOrphan \/ VerifyOwnership
           \/ ListManagedRecords \/ DeleteManagedRecord \/ \E x \in Resources : Fetch(x)
  BY <1>7 DEF ResolveTarget, SyncDone, FindOrphan, DropOrphan, VerifyOwnership, Publish,
     ListManagedRecords, DeleteManagedRecord, Fetch, locals
<1>8. CASE \/ ChangeRoutes \/ ChangeTarget \/ External \/ UNCHANGED vars
           \/ \E x \in Resources : SyncCache(x) \/ EditSpec(x) \/ DeleteObject(x)
  BY <1>8 DEF ChangeRoutes, ChangeTarget, External, SyncCache, EditSpec, DeleteObject, vars,
     job, locals
<1> QED
  BY <1>1, <1>2, <1>3, <1>4, <1>5, <1>6, <1>7, <1>8 DEF Next, Reconcile, Work, Environment

\* What is on the list of a cleanup: TXT records, and records of cfgate.
LEMMA DoomedStep ==
    ASSUME TypeOK, [Next]_vars, NEW d \in doomed'
    PROVE  \/ d \in doomed \/ d.id = 0
           \/ d.host \in Hosts /\ zone[d.host] # None /\ zone'[d.host] = zone[d.host]
              /\ d.id = zone[d.host].id /\ zone[d.host].by # None
<1> USE DEF TypeOK
<1>1. CASE AddFinalizer \/ UpdateStatus \/ RemoveFinalizer \/ Crash
  BY <1>1 DEF AddFinalizer, UpdateStatus, RemoveFinalizer, Return, Crash
<1>2. CASE ListManagedRecords
  BY <1>2, NoneAssumption DEF ListManagedRecords, Doomed, IsOwnedByCfgate, cloud
<1>3. CASE DeleteManagedRecord
  BY <1>3 DEF DeleteManagedRecord, Doomed
<1>4. CASE WriteTXT \/ CollectHostnames
  BY <1>4 DEF WriteTXT, ListRecord, CollectHostnames, Publish, Return, locals
<1>5. CASE \/ ResolveTarget \/ FindRecord \/ CreateRecord \/ UpdateRecord \/ SyncDone
           \/ FindOrphan \/ DropOrphan \/ VerifyOwnership \/ \E x \in Resources : Fetch(x)
  BY <1>5 DEF ResolveTarget, FindRecord, CreateRecord, UpdateRecord, SyncDone, FindOrphan,
     DropOrphan, VerifyOwnership, Publish, Fetch, locals
<1>6. CASE \/ ChangeRoutes \/ ChangeTarget \/ External \/ UNCHANGED vars
           \/ \E x \in Resources : SyncCache(x) \/ EditSpec(x) \/ DeleteObject(x)
  BY <1>6 DEF ChangeRoutes, ChangeTarget, External, SyncCache, EditSpec, DeleteObject, vars,
     job, locals
<1> QED
  BY <1>1, <1>2, <1>3, <1>4, <1>5, <1>6 DEF Next, Reconcile, Work, Environment

\* Every step keeps each identifier with its hostname.
LEMMA IdNext == TypeOK /\ IdInv /\ [Next]_vars => IdInv'
<1> SUFFICES ASSUME TypeOK, IdInv, [Next]_vars PROVE IdInv'
  OBVIOUS
<1> DEFINE Noted(i, h) ==
             i <= serial' /\ \A g \in Hosts : zone'[g] # None /\ zone'[g].id = i => g = h
<1>1. TypeOK'
  BY TypeNext
<1>2. /\ serial \in Nat /\ serial' \in Nat /\ serial' >= serial /\ rec \in Nat
      /\ \A h \in Hosts : /\ zone[h] # None => zone[h].id \in Nat \ {0}
                          /\ zone'[h] # None => zone'[h].id \in Nat \ {0}
  BY <1>1, ZoneIds DEF TypeOK, Records
<1>3. \A h \in Hosts, i \in Nat : NotedFor(i, h) => Noted(i, h)
  BY NotedStays DEF NotedFor
<1>4. \A h \in Hosts : Noted(0, h)
  BY <1>2
<1>5. ASSUME NEW h \in Hosts, zone'[h] # None PROVE Noted(zone'[h].id, h)
  <2>1. CASE zone[h] # None /\ zone'[h].id = zone[h].id
    <3>1. NotedFor(zone[h].id, h) /\ zone[h].id \in Nat
      BY <1>2, <2>1 DEF IdInv
    <3> QED
      BY <1>3, <2>1, <3>1
  <2>2. CASE /\ zone'[h].id = serial + 1 /\ serial' = serial + 1
             /\ \A g \in Hosts \ {h} : zone'[g] = zone[g]
    <3>1. \A g \in Hosts \ {h} : zone[g] # None => zone[g].id <= serial
      BY DEF IdInv, NotedFor
    <3> QED
      BY <1>2, <2>2, <3>1
  <2> QED
    BY <1>5, <2>1, <2>2, ZoneIds
<1> HIDE DEF Noted
<1>6. ASSUME NEW h \in Hosts, NEW o \in Resources
      PROVE  Noted(crs[o].status.ids[h], h) /\ Noted(cache[o].status.ids[h], h)
  <2>1. crs[o].status.ids[h] \in Nat /\ cache[o].status.ids[h] \in Nat
    BY DEF TypeOK, Objects, Statuses
  <2> QED
    BY <1>3, <2>1 DEF IdInv
<1>7. ASSUME NEW h \in Hosts PROVE Noted(st.ids[h], h) /\ Noted(out.ids[h], h)
  <2>1. st.ids[h] \in Nat /\ out.ids[h] \in Nat
    BY DEF TypeOK, Statuses, Outcomes
  <2> QED
    BY <1>3, <2>1 DEF IdInv
<1>8. at \in Hosts => Noted(rec, at)
  BY <1>2, <1>3, NoneAssumption DEF IdInv
<1>9. ASSUME NEW h \in Hosts, NEW o \in Resources
      PROVE  Noted(crs'[o].status.ids[h], h) /\ Noted(cache'[o].status.ids[h], h)
  BY <1>6, <1>7, StatusStep
<1>10. ASSUME NEW h \in Hosts PROVE Noted(st'.ids[h], h)
  <2>1. NoStatus.ids[h] = 0
    BY DEF NoStatus
  <2> QED
    BY <1>4, <1>6, <1>7, <2>1, StStep
<1>11. ASSUME NEW h \in Hosts PROVE Noted(out'.ids[h], h)
  <2>1. out.ids \in [Hosts -> Nat] /\ Nothing.ids[h] = 0
    BY DEF TypeOK, Outcomes, Nothing
  <2> QED
    BY <1>4, <1>7, <1>8, <2>1, OutStep
<1>12. pc' \notin {"update", "txt"} => rec' = 0
  BY RecStep DEF IdInv
<1>13. at' # None => Noted(rec', at')
  <2> SUFFICES ASSUME at' # None PROVE Noted(rec', at')
    OBVIOUS
  <2>1. at' \in Hosts
    BY <1>1 DEF TypeOK
  <2>2. CASE rec' = 0
    BY <1>4, <2>1, <2>2
  <2>3. CASE rec' = rec /\ at' = at
    BY <1>8, <2>1, <2>3
  <2>4. CASE zone'[at'] # None /\ rec' = zone'[at'].id
    BY <1>5, <2>1, <2>4
  <2> QED
    BY <2>2, <2>3, <2>4, RecStep DEF IdInv
<1>14. ASSUME NEW d \in doomed' PROVE d.id <= serial'
  <2>1. d.id \in Nat
    BY <1>1 DEF TypeOK
  <2>2. CASE d \in doomed
    BY <1>2, <2>1, <2>2 DEF IdInv
  <2>3. CASE d.id = 0
    BY <1>2, <2>3
  <2>4. CASE d.host \in Hosts /\ zone[d.host] # None /\ d.id = zone[d.host].id
    BY <1>2, <2>1, <2>4 DEF IdInv, NotedFor
  <2> QED
    BY <2>2, <2>3, <2>4, DoomedStep
<1> QED
  BY <1>5, <1>9, <1>10, <1>11, <1>12, <1>13, <1>14 DEF IdInv, NotedFor, Noted

\* The types and the identifiers together.
LEMMA IdSafe == Spec => []IdInv
<1>1. Init => IdInv
  BY NoneAssumption DEF Init, IdInv, NotedFor, NewObject, NoStatus, Nothing
<1> QED
  BY <1>1, IdNext, TypeCorrect, PTL DEF Spec

\* The identifier a status lists for a hostname never becomes that of another
\* hostname's record, however many records come and go.
THEOREM IdsSafe == Spec => []IdsOfTheirHosts
<1>1. IdInv => IdsOfTheirHosts
  BY DEF IdInv, NotedFor, IdsOfTheirHosts
<1> QED
  BY <1>1, IdSafe, PTL

-----------------------------------------------------------------------------
(* ForeignUntouched *)

\* How a reconcile comes to the steps that change a record it found.
LEMMA AimStep ==
    ASSUME TypeOK, [Next]_vars
    PROVE  /\ pc' = "update" =>
                \/ pc = "update" /\ at' = at /\ rec' = rec
                \/ /\ at' \in Hosts /\ zone' = zone
                   /\ zone[at'] # None /\ zone[at'].by # None
           /\ pc' = "drop" =>
                \/ pc = "drop" /\ at' = at /\ st' = st
                \/ /\ at' \in Hosts /\ zone' = zone
                   /\ zone[at'] # None /\ zone[at'].by # None
<1> USE DEF TypeOK
<1>1. CASE AddFinalizer \/ UpdateStatus \/ RemoveFinalizer \/ Crash
  BY <1>1 DEF AddFinalizer, UpdateStatus, RemoveFinalizer, Return, Crash
<1>2. CASE FindRecord
  BY <1>2, FoundType, NoneAssumption DEF FindRecord, Updates, IsOwnedByCfgate, cloud
<1>3. CASE FindOrphan
  BY <1>3, FoundType, NoneAssumption DEF FindOrphan, IsOwnedByCfgate, cloud
<1>4. CASE \/ ResolveTarget \/ CollectHostnames \/ CreateRecord \/ UpdateRecord \/ WriteTXT
  BY <1>4 DEF ResolveTarget, CollectHostnames, CreateRecord, UpdateRecord, WriteTXT,
     ListRecord, Publish, Return, NextHost, FailHost
<1>5. CASE \/ SyncDone \/ DropOrphan \/ VerifyOwnership \/ ListManagedRecords
           \/ DeleteManagedRecord
  BY <1>5 DEF SyncDone, DropOrphan, VerifyOwnership, Publish, ListManagedRecords,
     DeleteManagedRecord, Doomed
<1>6. CASE \E x \in Resources : Fetch(x)
  BY <1>6, PathType DEF Fetch
<1>7. CASE \/ ChangeRoutes \/ ChangeTarget \/ External \/ UNCHANGED vars
           \/ \E x \in Resources : SyncCache(x) \/ EditSpec(x) \/ DeleteObject(x)
  BY <1>7 DEF ChangeRoutes, ChangeTarget, External, SyncCache, EditSpec, DeleteObject, vars,
     job, locals
<1> QED
  BY <1>1, <1>2, <1>3, <1>4, <1>5, <1>6, <1>7 DEF Next, Reconcile, Work, Environment

\* Every step keeps the records of others out of reach.
LEMMA ForeignNext == TypeOK /\ IdInv /\ ForeignInv /\ [Next]_vars => ForeignInv'
<1> SUFFICES ASSUME TypeOK, IdInv, ForeignInv, [Next]_vars PROVE ForeignInv'
  OBVIOUS
<1>1. TypeOK'
  BY TypeNext
<1>2. pc' = "update" => Ours(at, rec)'
  <2> SUFFICES ASSUME pc' = "update" PROVE Ours(at, rec)'
    OBVIOUS
  <2>1. CASE pc = "update" /\ at' = at /\ rec' = rec
    <3>1. at \in Hosts /\ rec \in Nat /\ rec <= serial /\ Ours(at, rec)
      BY <2>1, NoneAssumption DEF TypeOK, IdInv, NotedFor, ForeignInv
    <3>2. Ours(at, rec) => (zone'[at] # None /\ zone'[at].id = rec => zone'[at].by # None)
      BY <3>1, NotedStays DEF Ours
    <3> QED
      BY <2>1, <3>1, <3>2 DEF Ours
  <2>2. CASE at' \in Hosts /\ zone' = zone /\ zone[at'] # None /\ zone[at'].by # None
    BY <2>2 DEF Ours
  <2> QED
    BY <2>1, <2>2, AimStep
<1>3. pc' = "drop" => Ours(at, st.ids[at])'
  <2> SUFFICES ASSUME pc' = "drop" PROVE Ours(at, st.ids[at])'
    OBVIOUS
  <2>1. CASE pc = "drop" /\ at' = at /\ st' = st
    <3>1. at \in Hosts /\ st.ids[at] \in Nat /\ st.ids[at] <= serial /\ Ours(at, st.ids[at])
      BY <2>1 DEF TypeOK, Statuses, IdInv, NotedFor, ForeignInv
    <3>2. zone'[at] # None /\ zone'[at].id = st.ids[at] => zone'[at].by # None
      BY <3>1, NotedStays DEF Ours
    <3> QED
      BY <2>1, <3>1, <3>2 DEF Ours
  <2>2. CASE at' \in Hosts /\ zone' = zone /\ zone[at'] # None /\ zone[at'].by # None
    BY <2>2 DEF Ours
  <2> QED
    BY <2>1, <2>2, AimStep
<1>4. ASSUME NEW d \in doomed' PROVE Ours(d.host, d.id)'
  <2>1. d.host \in Hosts /\ d.id \in Nat
    BY <1>1 DEF TypeOK
  <2>2. CASE d \in doomed
    BY <2>1, <2>2, NotedStays DEF IdInv, ForeignInv
  <2>3. CASE d.id = 0
    BY <1>1, <2>1, <2>3 DEF Ours, TypeOK, Records
  <2>4. CASE zone'[d.host] = zone[d.host] /\ zone[d.host].by # None
    BY <2>4 DEF Ours
  <2> QED
    BY <2>2, <2>3, <2>4, DoomedStep
<1> QED
  BY <1>2, <1>3, <1>4 DEF ForeignInv

\* No reconcile changes or deletes a record without cfgate's comment, whoever
\* put it there and whenever, between a lookup and the call based on it too.
THEOREM ForeignSafe == Spec => ForeignUntouched
<1>1. Init => ForeignInv
  BY DEF Init, ForeignInv
<1>2. TypeOK /\ ForeignInv /\ [Next]_vars =>
        [Reconcile => \A h \in Hosts :
           zone[h] # None /\ zone[h].by = None => zone'[h] = zone[h]]_vars
  BY ZoneStep DEF ForeignInv, Ours
<1> QED
  BY <1>1, <1>2, ForeignNext, IdSafe, TypeCorrect, PTL DEF Spec, ForeignUntouched

-----------------------------------------------------------------------------
(* The finalizer protocol *)

\* The steps of the full path, on which records are written, and of the cleanup.
Making == {"target", "collect", "find", "create", "update", "txt", "orphan", "drop", "status"}
Cleaning == {"list", "wipe", "unfinalize"}

\* The copy in the cache may be old, but a deletion it shows has happened, and
\* a finalizer it shows without one is still there: only a cleanup, which
\* starts from a copy that shows the deletion, takes it away.
FinInv ==
    /\ \A o \in Resources :
         /\ crs[o].finalizer => crs[o].exists
         /\ cache[o].deleting => crs[o].deleting
         /\ cache[o].finalizer /\ ~cache[o].deleting => crs[o].finalizer
    /\ pc \in Cleaning => cache[cur].deleting
    /\ pc \in Making => crs[cur].finalizer

\* What the writers of a resource do to the fields the protocol is about.
LEMMA ObjectFields ==
    ASSUME NEW o \in Objects
    PROVE  /\ Finalized(o).finalizer /\ Finalized(o).exists = o.exists
           /\ Finalized(o).deleting = o.deleting
           /\ \A s \in Statuses : /\ Reporting(o, s).finalizer = o.finalizer
                                  /\ Reporting(o, s).exists = o.exists
                                  /\ Reporting(o, s).deleting = o.deleting
           /\ ~Gone(o).finalizer /\ ~Gone(o).exists /\ Gone(o).deleting = o.deleting
           /\ \A s \in Specs : /\ Edited(o, s).finalizer = o.finalizer
                               /\ Edited(o, s).exists = o.exists
                               /\ Edited(o, s).deleting = o.deleting
           /\ Terminating(o).finalizer = o.finalizer /\ Terminating(o).exists = o.finalizer
           /\ Terminating(o).deleting
BY DEF Finalized, Reporting, Gone, Edited, Terminating, Objects

\* Who writes the resources on the API server, and leaves the zone alone.
LEMMA ObjectWrites ==
    ASSUME TypeOK, [Next]_vars, crs' # crs
    PROVE  /\ zone' = zone /\ txt' = txt
           /\ \/ \E o \in Resources : /\ crs[o].exists
                                      /\ crs' = [crs EXCEPT ![o] = Finalized(crs[o])]
              \/ \E o \in Resources : crs' = [crs EXCEPT ![o] = Reporting(crs[o], st)]
              \/ \E o \in Resources : /\ pc = "unfinalize" /\ cur = o /\ crs[o].exists
                                      /\ crs' = [crs EXCEPT ![o] = Gone(crs[o])]
              \/ \E o \in Resources, s \in Specs : crs' = [crs EXCEPT ![o] = Edited(crs[o], s)]
              \/ \E o \in Resources : /\ crs[o].exists
                                      /\ crs' = [crs EXCEPT ![o] = Terminating(crs[o])]
<1>0. pc # "idle" => cur \in Resources
  BY DEF TypeOK
<1>1. CASE AddFinalizer
  BY <1>0, <1>1 DEF AddFinalizer, cloud
<1>2. CASE UpdateStatus
  BY <1>0, <1>2 DEF UpdateStatus, cloud
<1>3. CASE RemoveFinalizer
  BY <1>0, <1>3 DEF RemoveFinalizer, cloud
<1>4. CASE \E o \in Resources : EditSpec(o)
  BY <1>4, SpecsAssumption DEF EditSpec, cloud
<1>5. CASE \E o \in Resources : DeleteObject(o)
  BY <1>5 DEF DeleteObject, cloud
<1> QED
  BY <1>1, <1>2, <1>3, <1>4, <1>5
     DEF Next, Reconcile, Work, Environment, vars, cluster, ResolveTarget, CollectHostnames,
         FindRecord, CreateRecord, UpdateRecord, WriteTXT, SyncDone, FindOrphan, DropOrphan,
         VerifyOwnership, ListManagedRecords, DeleteManagedRecord, Crash, ChangeRoutes,
         ChangeTarget, External, Fetch, SyncCache

\* How the worker goes from one path to the other.
LEMMA PathSteps ==
    ASSUME TypeOK, [Next]_vars
    PROVE  \/ pc' = pc /\ cur' = cur
           \/ pc' = "idle"
           \/ /\ \E o \in Resources : Fetch(o) /\ cur' = o /\ pc' = Path(cache[o])
              /\ cache' = cache /\ crs' = crs
           \/ pc \in Making /\ pc' \in Making /\ cur' = cur /\ crs' = crs
           \/ pc \in Cleaning /\ pc' \in Cleaning /\ cur' = cur /\ cache' = cache
<1>1. CASE Environment \/ UNCHANGED vars
  BY <1>1 DEF Environment, SyncCache, EditSpec, DeleteObject, Crash, ChangeRoutes,
       ChangeTarget, External, vars, job
<1>2. CASE \E o \in Resources : Fetch(o)
  BY <1>2 DEF Fetch, cluster
<1>3. CASE \/ ResolveTarget \/ CollectHostnames \/ FindRecord \/ CreateRecord \/ UpdateRecord
           \/ WriteTXT
  BY <1>3 DEF Making, cluster, Return, Publish, NextHost, FailHost, ListRecord, ResolveTarget,
       CollectHostnames, FindRecord, CreateRecord, UpdateRecord, WriteTXT
<1>4. CASE SyncDone \/ FindOrphan \/ DropOrphan \/ VerifyOwnership
  BY <1>4 DEF Making, cluster, Publish, SyncDone, FindOrphan, DropOrphan, VerifyOwnership
<1>5. CASE ListManagedRecords \/ DeleteManagedRecord
  BY <1>5 DEF Cleaning, Doomed, ListManagedRecords, DeleteManagedRecord
<1>6. CASE AddFinalizer \/ UpdateStatus \/ RemoveFinalizer
  BY <1>6 DEF Return, AddFinalizer, UpdateStatus, RemoveFinalizer
<1> QED
  BY <1>1, <1>2, <1>3, <1>4, <1>5, <1>6 DEF Next, Reconcile, Work

\* The cache only ever gets what the API server has.
LEMMA CacheWrites ==
    ASSUME TypeOK, [Next]_vars, cache' # cache
    PROVE  crs' = crs /\ \A o \in Resources : cache'[o] \in {cache[o], crs[o]}
<1>1. CASE \E o \in Resources : SyncCache(o)
  BY <1>1 DEF TypeOK, SyncCache, cluster
<1>2. CASE Crash
  BY <1>2 DEF Crash, cluster
<1> QED
  BY <1>1, <1>2
     DEF Next, Reconcile, Environment, Work, vars, Fetch, AddFinalizer, ResolveTarget,
         CollectHostnames, FindRecord, CreateRecord, UpdateRecord, WriteTXT, SyncDone,
         FindOrphan, DropOrphan, VerifyOwnership, UpdateStatus, ListManagedRecords,
         DeleteManagedRecord, RemoveFinalizer, EditSpec, DeleteObject, ChangeRoutes,
         ChangeTarget, External

\* Every step keeps what the copies and the reconcile under way say true.
LEMMA FinStep == TypeOK /\ FinInv /\ [Next]_vars => FinInv'
<1> SUFFICES ASSUME TypeOK, FinInv, [Next]_vars PROVE FinInv'
  OBVIOUS
<1>0. /\ crs \in [Resources -> Objects] /\ cache \in [Resources -> Objects]
      /\ st \in Statuses /\ (pc # "idle" => cur \in Resources)
  BY DEF TypeOK
<1>1. ASSUME NEW o \in Resources
      PROVE  /\ crs'[o].finalizer => crs'[o].exists
             /\ crs[o].deleting => crs'[o].deleting
             /\ crs[o].finalizer /\ ~(pc = "unfinalize" /\ cur = o) => crs'[o].finalizer
  <2>1. CASE crs' = crs
    BY <2>1 DEF FinInv
  <2>2. CASE crs' # crs
    <3>0. crs[o] \in Objects
      BY <1>0
    <3>1. CASE \E p \in Resources : /\ crs[p].exists
                                    /\ crs' = [crs EXCEPT ![p] = Finalized(crs[p])]
      BY <1>0, <3>0, <3>1, ObjectFields DEF FinInv
    <3>2. CASE \E p \in Resources : crs' = [crs EXCEPT ![p] = Reporting(crs[p], st)]
      BY <1>0, <3>0, <3>2, ObjectFields DEF FinInv
    <3>3. CASE \E p \in Resources : /\ pc = "unfinalize" /\ cur = p
                                    /\ crs' = [crs EXCEPT ![p] = Gone(crs[p])]
      BY <1>0, <3>0, <3>3, ObjectFields DEF FinInv
    <3>4. CASE \E p \in Resources, s \in Specs : crs' = [crs EXCEPT ![p] = Edited(crs[p], s)]
      BY <1>0, <3>0, <3>4, ObjectFields DEF FinInv
    <3>5. CASE \E p \in Resources : crs' = [crs EXCEPT ![p] = Terminating(crs[p])]
      BY <1>0, <3>0, <3>5, ObjectFields DEF FinInv
    <3> QED
      BY <2>2, <3>1, <3>2, <3>3, <3>4, <3>5, ObjectWrites
  <2> QED
    BY <2>1, <2>2
<1>2. ASSUME NEW o \in Resources
      PROVE  /\ cache'[o].deleting => crs'[o].deleting
             /\ cache[o].deleting => cache'[o].deleting
             /\ cache'[o].finalizer /\ ~cache'[o].deleting => crs'[o].finalizer
  <2>1. CASE cache' = cache
    <3>1. pc = "unfinalize" => cache[cur].deleting
      BY DEF FinInv, Cleaning
    <3> QED
      BY <1>1, <2>1, <3>1 DEF FinInv
  <2>2. CASE cache' # cache
    BY <2>2, CacheWrites DEF FinInv
  <2> QED
    BY <2>1, <2>2
<1>3. ASSUME NEW o \in Resources
      PROVE  /\ Path(cache[o]) \in Cleaning => cache[o].deleting
             /\ Path(cache[o]) \in Making => cache[o].finalizer /\ ~cache[o].deleting
  <2>1. /\ cache[o].exists \in BOOLEAN /\ cache[o].deleting \in BOOLEAN
        /\ cache[o].finalizer \in BOOLEAN
    BY <1>0 DEF Objects
  <2> QED
    BY <2>1 DEF Path, Cleaning, Making
<1>4. "idle" \notin Cleaning /\ "idle" \notin Making /\ Cleaning \cap Making = {}
      /\ "unfinalize" \notin Making
  BY DEF Cleaning, Making
<1>5. pc' \in Cleaning => cache'[cur'].deleting
  BY <1>0, <1>2, <1>3, <1>4, PathSteps DEF FinInv
<1>6. pc' \in Making => crs'[cur'].finalizer
  BY <1>0, <1>1, <1>3, <1>4, PathSteps DEF FinInv
<1> QED
  BY <1>1, <1>2, <1>5, <1>6 DEF FinInv

\* The steps that write a record or a TXT record for a resource.
Writing == CreateRecord \/ UpdateRecord \/ WriteTXT

\* Only they give a record an owner, and only the resource under
\* reconciliation; another resource may lose a record to it.
LEMMA OwnersStep ==
    ASSUME TypeOK, [Next]_vars, NEW o \in Resources, ~(Writing /\ o = cur)
    PROVE  OwnedBy(o)' \subseteq OwnedBy(o)
<1>0. /\ zone \in [Hosts -> Records \cup {None}] /\ txt \in [Hosts -> Resources \cup {None}]
      /\ o # None /\ \A h \in Hosts : zone[h] # None => zone[h] \in Records
  BY NoneAssumption DEF TypeOK
<1>1. ASSUME NEW h \in Hosts
      PROVE  /\ zone'[h] # None /\ zone'[h].by = o => zone[h] # None /\ zone[h].by = o
             /\ txt'[h] = o => txt[h] = o
  <2>1. CASE zone' = zone /\ txt' = txt
    BY <2>1
  <2>2. CASE CreateRecord
    BY <1>0, <2>2 DEF CreateRecord, Writing, Desired
  <2>3. CASE UpdateRecord
    BY <1>0, <2>3 DEF UpdateRecord, Writing, Desired
  <2>4. CASE WriteTXT
    BY <1>0, <2>4 DEF WriteTXT, Writing
  <2>5. CASE DropOrphan
    BY <1>0, <2>5 DEF DropOrphan, Removed
  <2>6. CASE DeleteManagedRecord
    BY <1>0, <2>6 DEF DeleteManagedRecord, Removed
  <2>7. CASE External
    <3>1. txt'[h] = o => txt[h] = o
      BY <1>0, <2>7 DEF External
    <3> QED
      BY <1>0, <2>7, <3>1, ExternalZone, NoneAssumption DEF Foreign
  <2> QED
    BY <2>1, <2>2, <2>3, <2>4, <2>5, <2>6, <2>7
       DEF Next, Reconcile, Work, Environment, vars, cloud, Fetch, AddFinalizer, ResolveTarget,
           CollectHostnames, FindRecord, SyncDone, FindOrphan, VerifyOwnership, UpdateStatus,
           ListManagedRecords, RemoveFinalizer, SyncCache, Crash, EditSpec, DeleteObject,
           ChangeRoutes, ChangeTarget
<1> QED
  BY <1>1 DEF OwnedBy

\* How far a resource has come changes only as the protocol has it.
LEMMA PhaseStep ==
    ASSUME TypeOK, FinInv, [Next]_vars, crs' # crs
    PROVE  \E o \in Resources :
             /\ \A p \in Resources \ {o} : Phase(p)' = Phase(p)
             /\ \/ Phase(o)' = Phase(o)
                \/ Phase(o) = "new" /\ Phase(o)' = "held"
                \/ Phase(o) \in {"new", "held"} /\ Phase(o)' = "released"
<1>0. /\ crs \in [Resources -> Objects] /\ st \in Statuses
      /\ \A o \in Resources : /\ crs[o] \in Objects /\ crs[o].exists \in BOOLEAN
                              /\ crs[o].finalizer \in BOOLEAN
  BY DEF TypeOK, Objects
<1>1. ASSUME NEW o \in Resources, NEW v \in Objects, crs' = [crs EXCEPT ![o] = v]
      PROVE  crs'[o] = v /\ \A p \in Resources \ {o} : Phase(p)' = Phase(p)
  BY <1>0, <1>1 DEF Phase
<1>2. ASSUME NEW o \in Resources, crs[o].exists, crs' = [crs EXCEPT ![o] = Finalized(crs[o])]
      PROVE  /\ \A p \in Resources \ {o} : Phase(p)' = Phase(p)
             /\ Phase(o)' = "held" /\ Phase(o) \in {"new", "held"}
  <2>1. crs'[o] = Finalized(crs[o]) /\ \A p \in Resources \ {o} : Phase(p)' = Phase(p)
    BY <1>0, <1>1, <1>2, ObjectTypes
  <2> QED
    BY <1>0, <1>2, <2>1, ObjectFields DEF Phase
<1>3. ASSUME NEW o \in Resources, crs' = [crs EXCEPT ![o] = Reporting(crs[o], st)]
      PROVE  Phase(o)' = Phase(o) /\ \A p \in Resources \ {o} : Phase(p)' = Phase(p)
  <2>1. crs'[o] = Reporting(crs[o], st) /\ \A p \in Resources \ {o} : Phase(p)' = Phase(p)
    BY <1>0, <1>1, <1>3, ObjectTypes
  <2> QED
    BY <1>0, <2>1, ObjectFields DEF Phase
<1>4. ASSUME NEW o \in Resources, crs[o].exists, crs' = [crs EXCEPT ![o] = Gone(crs[o])]
      PROVE  /\ \A p \in Resources \ {o} : Phase(p)' = Phase(p)
             /\ Phase(o)' = "released" /\ Phase(o) \in {"new", "held"}
  <2>1. crs'[o] = Gone(crs[o]) /\ \A p \in Resources \ {o} : Phase(p)' = Phase(p)
    BY <1>0, <1>1, <1>4, ObjectTypes
  <2> QED
    BY <1>0, <1>4, <2>1, ObjectFields DEF Phase
<1>5. ASSUME NEW o \in Resources, NEW s \in Specs, crs' = [crs EXCEPT ![o] = Edited(crs[o], s)]
      PROVE  Phase(o)' = Phase(o) /\ \A p \in Resources \ {o} : Phase(p)' = Phase(p)
  <2>1. crs'[o] = Edited(crs[o], s) /\ \A p \in Resources \ {o} : Phase(p)' = Phase(p)
    BY <1>0, <1>1, <1>5, ObjectTypes
  <2> QED
    BY <1>0, <2>1, ObjectFields DEF Phase
<1>6. ASSUME NEW o \in Resources, crs[o].exists, crs' = [crs EXCEPT ![o] = Terminating(crs[o])]
      PROVE  /\ \A p \in Resources \ {o} : Phase(p)' = Phase(p)
             /\ Phase(o)' = Phase(o) \/ (Phase(o) \in {"new", "held"} /\ Phase(o)' = "released")
  <2>1. crs'[o] = Terminating(crs[o]) /\ \A p \in Resources \ {o} : Phase(p)' = Phase(p)
    BY <1>0, <1>1, <1>6, ObjectTypes
  <2> QED
    BY <1>0, <1>6, <2>1, ObjectFields DEF Phase
<1> QED
  BY <1>2, <1>3, <1>4, <1>5, <1>6, ObjectWrites

\* Each step of the reconciler is a step of the protocol, or none.
LEMMA StepRefines == TypeOK /\ FinInv /\ [Next]_vars => [Protocol!Next]_(Protocol!vars)
<1> SUFFICES ASSUME TypeOK, FinInv, [Next]_vars PROVE [Protocol!Next]_(Protocol!vars)
  OBVIOUS
<1> DEFINE ph == [o \in Resources |-> Phase(o)]
           ow == [o \in Resources |-> OwnedBy(o)]
<1>1. CASE crs' # crs
  <2>1. ow' = ow
    BY <1>1, ObjectWrites DEF OwnedBy
  <2>2. PICK o \in Resources :
          /\ \A p \in Resources \ {o} : Phase(p)' = Phase(p)
          /\ \/ Phase(o)' = Phase(o)
             \/ Phase(o) = "new" /\ Phase(o)' = "held"
             \/ Phase(o) \in {"new", "held"} /\ Phase(o)' = "released"
    BY <1>1, PhaseStep
  <2>3. CASE Phase(o)' = Phase(o)
    <3>1. ph' = ph
      BY <2>2, <2>3
    <3>2. UNCHANGED Protocol!vars
      BY <2>1, <3>1 DEF Protocol!vars
    <3> QED
      BY <3>2
  <2>4. CASE Phase(o) = "new" /\ Phase(o)' = "held"
    <3>0. \A p \in Resources : Phase(p)' = IF p = o THEN "held" ELSE Phase(p)
      BY <2>2, <2>4
    <3>1. ph' = [ph EXCEPT ![o] = "held"] /\ ph[o] = "new"
      BY <2>4, <3>0
    <3> QED
      BY <2>1, <3>1 DEF Protocol!Next, Protocol!Hold
  <2>5. CASE Phase(o) \in {"new", "held"} /\ Phase(o)' = "released"
    <3>1. ph' = [ph EXCEPT ![o] = "released"] /\ ph[o] \in {"new", "held"}
      BY <2>2, <2>5
    <3> QED
      BY <2>1, <3>1 DEF Protocol!Next, Protocol!Release
  <2> QED
    BY <2>2, <2>3, <2>4, <2>5
<1>2. CASE crs' = crs
  <2>1. ph' = ph
    BY <1>2 DEF Phase
  <2>2. ow' \in [Resources -> SUBSET (Hosts \X {"address", "txt"})]
    BY DEF OwnedBy
  <2>3. CASE Writing
    <3>1. cur \in Resources /\ pc \in Making
      BY <2>3 DEF TypeOK, Writing, CreateRecord, UpdateRecord, WriteTXT, Making
    <3>2. ph[cur] = "held"
      BY <3>1 DEF FinInv, Phase
    <3>3. \A p \in Resources \ {cur} : ow'[p] \subseteq ow[p]
      BY OwnersStep
    <3> QED
      BY <2>1, <2>2, <3>1, <3>2, <3>3 DEF Protocol!Next, Protocol!Work, Protocol!OnlyLose
  <2>4. CASE ~Writing
    <3>1. \A p \in Resources : ow'[p] \subseteq ow[p]
      BY <2>4, OwnersStep
    <3> QED
      BY <2>1, <2>2, <3>1 DEF Protocol!Next, Protocol!Lose, Protocol!OnlyLose
  <2> QED
    BY <2>3, <2>4
<1> QED
  BY <1>1, <1>2

\* The reconciler implements the finalizer protocol: for any resources and
\* hostnames, shared ones included, no record is written for a resource before
\* its finalizer is stored or after it went.
THEOREM Refinement == Spec => HeldWhileOwned
<1>1. Init => Protocol!Init
  <2> SUFFICES ASSUME Init PROVE Protocol!Init
    OBVIOUS
  <2>1. ASSUME NEW o \in Resources PROVE Phase(o) = "new"
    BY DEF Init, NewObject, Phase
  <2>2. ASSUME NEW o \in Resources PROVE OwnedBy(o) = {}
    <3>1. \A h \in Hosts : zone[h] = None /\ txt[h] # o
      BY NoneAssumption DEF Init
    <3> QED
      BY <3>1 DEF OwnedBy
  <2> QED
    BY <2>1, <2>2 DEF Protocol!Init
<1>2. Init => FinInv
  <2> SUFFICES ASSUME Init PROVE FinInv
    OBVIOUS
  <2>1. \A o \in Resources : ~crs[o].finalizer /\ ~cache[o].deleting /\ ~cache[o].finalizer
    <3>1. PICK f : crs = [o \in Resources |-> NewObject(f[o])] /\ cache = crs
      BY DEF Init
    <3> QED
      BY <3>1 DEF NewObject
  <2> QED
    BY <2>1 DEF Init, FinInv, Making, Cleaning
<1> QED
  BY <1>1, <1>2, TypeCorrect, FinStep, StepRefines, PTL
     DEF Spec, HeldWhileOwned, Protocol!Spec

-----------------------------------------------------------------------------
(* The work queue *)

\* How a resource may come to be neither on the queue nor under reconciliation.
LEMMA QueueStep ==
    ASSUME TypeOK, [Next]_vars, NEW o \in Resources
    PROVE  \/ o \in queued' \/ cur' = o
           \/ o \notin queued /\ cur # o
           \/ Fetch(o) /\ Path(cache[o]) = "idle"
           \/ RemoveFinalizer /\ ~crs'[o].exists
           \/ ~crs[o].exists
<1>0. crs \in [Resources -> Objects] /\ (pc # "idle" => cur \in Resources)
  BY DEF TypeOK
<1>1. CASE \E p \in Resources : Fetch(p)
  <2>1. PICK p \in Resources : Fetch(p)
    BY <1>1
  <2>2. pc = "idle" /\ cur # o
    BY <2>1, NoneAssumption DEF Fetch, TypeOK
  <2> QED
    BY <2>1, <2>2 DEF Fetch
<1>2. CASE RemoveFinalizer
  BY <1>0, <1>2, ObjectFields DEF RemoveFinalizer, Return
<1>3. CASE AddFinalizer \/ UpdateStatus
  BY <1>3 DEF AddFinalizer, UpdateStatus, Return
<1>4. CASE CollectHostnames \/ WriteTXT
  BY <1>4 DEF CollectHostnames, Publish, WriteTXT, ListRecord, Return
<1>5. CASE \/ ResolveTarget \/ FindRecord \/ CreateRecord \/ UpdateRecord \/ SyncDone
           \/ FindOrphan \/ DropOrphan \/ VerifyOwnership \/ ListManagedRecords
           \/ DeleteManagedRecord
  BY <1>5 DEF ResolveTarget, FindRecord, CreateRecord, UpdateRecord, SyncDone, FindOrphan,
     DropOrphan, VerifyOwnership, Publish, ListManagedRecords, DeleteManagedRecord
<1>6. CASE Environment \/ UNCHANGED vars
  BY <1>6 DEF Environment, SyncCache, EditSpec, DeleteObject, Crash, ChangeRoutes, ChangeTarget,
     External, vars, job
<1> QED
  BY <1>1, <1>2, <1>3, <1>4, <1>5, <1>6 DEF Next, Reconcile, Work

\* Every step keeps the resources in sight, and what the copies of them say true.
LEMMA ServedNext == TypeOK /\ ServedInv /\ [Next]_vars => ServedInv'
<1> SUFFICES ASSUME TypeOK, ServedInv, [Next]_vars, NEW o \in Resources
             PROVE  /\ crs'[o].exists => o \in queued' \/ cur' = o
                    /\ crs'[o].exists => cache'[o].exists
                    /\ crs'[o].exists /\ crs'[o].deleting => crs'[o].finalizer
                    /\ cache'[o].exists /\ cache'[o].deleting => cache'[o].finalizer
  BY DEF ServedInv, NoneForgotten
<1>0. /\ crs \in [Resources -> Objects] /\ cache[o] \in Objects /\ crs[o] \in Objects
      /\ st \in Statuses
  BY DEF TypeOK
<1>1. /\ crs'[o].exists => crs[o].exists
      /\ crs'[o].exists /\ crs'[o].deleting => crs'[o].finalizer
  <2>1. CASE crs' = crs
    BY <2>1 DEF ServedInv
  <2>2. CASE crs' # crs
    <3>1. \/ crs'[o] = crs[o]
          \/ crs[o].exists /\ crs'[o] = Finalized(crs[o])
          \/ crs'[o] = Reporting(crs[o], st)
          \/ crs'[o] = Gone(crs[o])
          \/ \E s \in Specs : crs'[o] = Edited(crs[o], s)
          \/ crs[o].exists /\ crs'[o] = Terminating(crs[o])
      BY <1>0, <2>2, ObjectWrites
    <3> QED
      BY <1>0, <3>1, ObjectFields DEF ServedInv
  <2> QED
    BY <2>1, <2>2
<1>2. /\ crs'[o].exists => cache'[o].exists
      /\ cache'[o].exists /\ cache'[o].deleting => cache'[o].finalizer
  BY <1>1, CacheWrites DEF ServedInv
<1>3. Path(cache[o]) = "idle" => ~crs[o].exists
  <2>1. /\ cache[o].exists \in BOOLEAN /\ cache[o].deleting \in BOOLEAN
        /\ cache[o].finalizer \in BOOLEAN
    BY <1>0 DEF Objects
  <2> QED
    BY <2>1 DEF Path, ServedInv
<1>4. crs'[o].exists => o \in queued' \/ cur' = o
  BY <1>1, <1>3, QueueStep DEF ServedInv, NoneForgotten
<1> QED
  BY <1>1, <1>2, <1>4

\* A resource that exists is on the queue or under reconciliation at any time,
\* although copies lag, calls fail, the process dies and the event filter drops
\* what changes no generation.
THEOREM ServedSafe == Spec => []NoneForgotten
<1>1. Init => ServedInv
  <2> SUFFICES ASSUME Init PROVE ServedInv
    OBVIOUS
  <2>1. PICK f : crs = [o \in Resources |-> NewObject(f[o])]
    BY DEF Init
  <2>2. \A o \in Resources : crs[o].exists /\ ~crs[o].deleting
    BY <2>1 DEF NewObject
  <2> QED
    BY <2>2 DEF Init, ServedInv, NoneForgotten
<1>2. ServedInv => NoneForgotten
  BY DEF ServedInv
<1> QED
  BY <1>1, <1>2, ServedNext, TypeCorrect, PTL DEF Spec
=============================================================================
