---------------------------- MODULE CloudflareDNS ----------------------------
(***************************************************************************)
(* The CloudflareDNS reconciler                                            *)
(* (internal/controller/cloudflaredns_controller.go) and the DNS service   *)
(* it uses (internal/cloudflare/dns.go), keeping the records of one zone   *)
(* for several CloudflareDNS resources.                                    *)
(*                                                                         *)
(* One worker serves the resources, one at a time.  It reads a resource    *)
(* from a lagging informer cache, looks records up and changes them with   *)
(* separate API calls, and others may change the zone between the two.     *)
(* A record is created by one call and written into the status, from which *)
(* it is later found again when nobody wants it, by another.               *)
(***************************************************************************)
EXTENDS Naturals

CONSTANTS
    Resources,    \* the CloudflareDNS resources
    Hosts,        \* hostnames of the zone
    RouteHosts,   \* those the routes of the tunnel may have
    Targets,      \* domains a tunnel may have
    SpecsOf,      \* the specs each resource may have
    ForeignKinds, \* the record types others create
    None,         \* the empty string, the missing object
    MaxRecords,   \* how many records are created in a behaviour
    Bound         \* how often each kind of event may happen in a behaviour

Conditions == {"CredentialsValid", "ZonesResolved", "RecordsSynced",
               "OwnershipVerified", "Ready"}
Policies == {"sync", "upsert-only", "create-only"}
RecordKinds == {"CNAME", "A"}

\* The kinds of events the environment has a budget for, and all of them.
Kinds == {"fault", "crash", "external", "routes", "target", "spec", "delete",
          "any"}

Specs == [policy: Policies,
          explicit: SUBSET Hosts,  \* source.explicit
          routes: BOOLEAN,         \* source.gatewayRoutes.enabled
          txt: BOOLEAN,            \* ownership.txtRecord.enabled
          cleanup: BOOLEAN]        \* cleanupPolicy.deleteOnResourceRemoval

ASSUME SpecsAssumption == SpecsOf \in [Resources -> SUBSET Specs]
ASSUME RoutesAssumption == RouteHosts \subseteq Hosts
ASSUME KindsAssumption == ForeignKinds \subseteq RecordKinds
ASSUME BoundAssumption == Bound \in [Kinds -> Nat] /\ MaxRecords \in Nat

VARIABLES
    crs,      \* the resources on the API server
    cache,    \* the informer's copies
    routes,   \* the hostnames of the routes attached to the tunnel
    target,   \* status.tunnelDomain of the tunnel
    zone,     \* the address record (CNAME or A) of each hostname
    txt,      \* the owner named by the TXT record of each hostname
    serial,   \* the identifiers Cloudflare has handed out
    queued,   \* the resources on the work queue (or on its delay list)
    cur,      \* the resource under reconciliation
    pc,       \* the next step of its reconcile
    mem,      \* the resource as read
    st,       \* dns.Status in memory
    wanted,   \* the hostnames collected
    todo,     \* the hostnames a loop has yet to visit
    at,       \* the hostname it is at
    rec,      \* identifier of the record found or created there, 0 for nil
    out,      \* what syncRecords found so far
    doomed,   \* the records cleanup has listed and not yet visited
    panicked, \* history: a reconcile ended in a nil dereference
    used      \* the events of each kind so far

cluster == <<crs, routes, target>>
cloud   == <<zone, txt, serial>>
locals  == <<wanted, todo, at, rec, out, doomed>>
job     == <<cur, pc, mem, st, locals>>
vars == <<cluster, cache, cloud, queued, job, panicked, used>>

-----------------------------------------------------------------------------
(* Types *)

\* status.records: ids holds the record identifier of each synced hostname
\* (0: no entry, or a failed one), failed the hostnames that failed.
Statuses == [resolved: Targets \cup {None},
             ids: [Hosts -> Nat], failed: SUBSET Hosts,
             conds: [Conditions -> {"None", "True", "False", "Unknown"}]]

Objects == [exists: BOOLEAN, deleting: BOOLEAN, finalizer: BOOLEAN,
            spec: Specs, status: Statuses]

\* by is the resource in the comment "managed by cfgate, dns=...", None for a
\* record others made without that comment, "stripped" for one of cfgate's that
\* lost it; the target None is any content not ours.
Records == [id: Nat \ {0}, kind: RecordKinds, target: Targets \cup {None},
            by: Resources \cup {None, "stripped"}]

ASSUME NoneAssumption ==
    /\ None \notin Resources /\ None \notin Hosts /\ None \notin Records
    /\ "stripped" \notin Resources /\ None # "stripped"

\* What syncRecords keeps in locals, and the TXT records in the per-reconcile
\* cache: hosts whose lookup showed this owner, and whose lookup did not.
Outcomes == [ids: [Hosts -> Nat], failed: SUBSET Hosts,
             good: SUBSET Hosts, bad: SUBSET Hosts]

Steps == {"idle", "finalize", "target", "collect", "find", "create", "update",
          "txt", "orphan", "drop", "status", "list", "wipe", "unfinalize"}

TypeOK ==
    /\ crs \in [Resources -> Objects] /\ cache \in [Resources -> Objects]
    /\ routes \in SUBSET Hosts /\ target \in Targets \cup {None}
    /\ zone \in [Hosts -> Records \cup {None}]
    /\ txt \in [Hosts -> Resources \cup {None}]
    /\ serial \in Nat
    /\ queued \in SUBSET Resources
    /\ pc \in Steps
    /\ IF pc = "idle" THEN cur = None /\ mem = None
       ELSE cur \in Resources /\ mem \in Objects
    /\ st \in Statuses
    /\ wanted \in SUBSET Hosts /\ todo \in SUBSET Hosts
    /\ IF pc \in {"create", "update", "txt", "drop"} THEN at \in Hosts ELSE at = None
    /\ rec \in Nat
    /\ out \in Outcomes
    /\ doomed \in SUBSET [host: Hosts, id: Nat]
    /\ panicked \in BOOLEAN
    /\ used \in [Kinds -> Nat]

-----------------------------------------------------------------------------
(* Initial states: the resources have just been created, the zone is empty. *)

NoStatus == [resolved |-> None, ids |-> [h \in Hosts |-> 0], failed |-> {},
             conds |-> [c \in Conditions |-> "None"]]
Nothing == [ids |-> [h \in Hosts |-> 0], failed |-> {}, good |-> {}, bad |-> {}]

NewObject(spec) ==
    [exists |-> TRUE, deleting |-> FALSE, finalizer |-> FALSE, spec |-> spec,
     status |-> NoStatus]

Foreign(i, k) == [id |-> i, kind |-> k, target |-> None, by |-> None]

Init ==
    /\ \E f \in [Resources -> Specs] :
         /\ \A o \in Resources : f[o] \in SpecsOf[o]
         /\ crs = [o \in Resources |-> NewObject(f[o])]
    /\ cache = crs
    /\ routes \in SUBSET RouteHosts /\ target \in Targets
    /\ zone = [h \in Hosts |-> None]
    /\ txt = [h \in Hosts |-> None]
    /\ serial = 0
    /\ queued = Resources
    /\ cur = None /\ pc = "idle" /\ mem = None /\ st = NoStatus
    /\ wanted = {} /\ todo = {} /\ at = None /\ rec = 0 /\ out = Nothing
    /\ doomed = {} /\ panicked = FALSE
    /\ used = [k \in Kinds |-> 0]

-----------------------------------------------------------------------------
(* Helpers *)

Spend(k) ==
    /\ used[k] < Bound[k] /\ used["any"] < Bound["any"]
    /\ used' = [used EXCEPT ![k] = @ + 1, !["any"] = @ + 1]

\* Reconcile returns and its locals go out of scope.  An error, a recovered
\* panic, Requeue and RequeueAfter all put the key back on the queue.
Return(requeue) ==
    /\ queued' = IF requeue THEN queued \cup {cur} ELSE queued
    /\ cur' = None /\ pc' = "idle" /\ mem' = None /\ st' = NoStatus
    /\ wanted' = {} /\ todo' = {} /\ at' = None /\ rec' = 0
    /\ out' = Nothing /\ doomed' = {}

With(s, c, v) == [s EXCEPT !.conds = [@ EXCEPT ![c] = v]]

\* A resource after the finalizer patch, a status write, the removal of the
\* finalizer (with its deletion timestamp it goes), an edit and a deletion
\* (without a finalizer it goes at once).
Finalized(o) == [o EXCEPT !.finalizer = TRUE]
Reporting(o, s) == [o EXCEPT !.status = s]
Gone(o) == [o EXCEPT !.finalizer = FALSE, !.exists = FALSE]
Edited(o, s) == [o EXCEPT !.spec = s]
Terminating(o) == [o EXCEPT !.deleting = TRUE, !.exists = o.finalizer]

\* An early return that publishes the status s.
Publish(s) == st' = s /\ pc' = "status" /\ UNCHANGED <<cur, mem, locals>>

\* FindRecordByName for a CNAME, from the zone: each hostname is looked up
\* once in a reconcile before a change, so the per-reconcile cache is empty.
Found(h) == IF zone[h] # None /\ zone[h].kind = "CNAME" THEN zone[h] ELSE None
\* DeleteRecord by identifier; a record already gone counts as deleted.
Removed(h, i) ==
    IF zone[h] # None /\ zone[h].id = i THEN [zone EXCEPT ![h] = None] ELSE zone

\* IsOwnedByCfgate for an address record: the comment names cfgate, whichever
\* resource it was written for.
IsOwnedByCfgate(r) == r # None /\ r.by \in Resources

\* The record syncRecords wants at a hostname.
Desired(i) == [id |-> i, kind |-> "CNAME", target |-> st.resolved, by |-> cur]

\* The cases in which SyncRecordWithPolicy updates what it found.
\* Mutant: AllowsUpdate is not asked.
UpdatesAlways(r) == IsOwnedByCfgate(r) /\ r # Desired(r.id)
\* Mutant: recordsMatch compares the comments alone.
UpdatesByComment(r) ==
    IsOwnedByCfgate(r) /\ r.by # cur /\ mem.spec.policy # "create-only"
Updates(r) ==
    /\ IsOwnedByCfgate(r) /\ r # Desired(r.id)
    /\ mem.spec.policy # "create-only"

\* The hostnames of a resource: explicit ones and those of the routes.
\* Mutant: the routes count even when the source is disabled.
HostnamesAlways(spec) == spec.explicit \cup routes
Hostnames(spec) == spec.explicit \cup (IF spec.routes THEN routes ELSE {})

-----------------------------------------------------------------------------
(* Reconcile *)

\* The start of Reconcile and of reconcileDelete.
\* Mutant: the full path does not wait for the finalizer.
PathNoFinalizer(o) ==
    IF ~o.exists \/ (o.deleting /\ ~o.finalizer) THEN "idle"
    ELSE IF o.deleting THEN "list" ELSE "target"

Path(o) ==
    CASE ~o.exists \/ (o.deleting /\ ~o.finalizer) -> "idle"
      [] o.exists /\ o.deleting /\ o.finalizer ->
            IF o.spec.policy = "sync" /\ o.spec.cleanup THEN "list" ELSE "unfinalize"
      [] o.exists /\ ~o.deleting /\ ~o.finalizer -> "finalize"
      [] o.exists /\ ~o.deleting /\ o.finalizer  -> "target"

Fetch(o) ==
    /\ pc = "idle" /\ o \in queued
    /\ queued' = queued \ {o}
    /\ \/ Path(cache[o]) = "idle" /\ UNCHANGED <<cur, pc, mem, st>>
       \/ /\ Path(cache[o]) # "idle"
          /\ cur' = o /\ pc' = Path(cache[o])
          /\ mem' = cache[o] /\ st' = cache[o].status
    /\ UNCHANGED <<cluster, cache, cloud, locals, panicked, used>>

\* The finalizer patch, which the server refuses once the object is being
\* deleted or gone.
\* Mutant: the event of the patch is to bring the resource back.
AddFinalizerOnce ==
    /\ pc = "finalize" /\ crs[cur].exists /\ ~crs[cur].deleting
    /\ crs' = [crs EXCEPT ![cur] = Finalized(crs[cur])]
    /\ Return(FALSE)
    /\ UNCHANGED <<cache, routes, target, cloud, panicked, used>>

AddFinalizer ==
    /\ pc = "finalize"
    /\ \/ /\ crs[cur].exists /\ ~crs[cur].deleting
          /\ crs' = [crs EXCEPT ![cur] = Finalized(crs[cur])]
          /\ UNCHANGED used
       \/ ~(crs[cur].exists /\ ~crs[cur].deleting) /\ UNCHANGED <<crs, used>>
       \/ Spend("fault") /\ UNCHANGED crs
    /\ Return(TRUE)
    /\ UNCHANGED <<cache, routes, target, cloud, panicked>>

\* resolveTarget: a tunnel that is missing or has no domain yet ends here.
ResolveTarget ==
    /\ pc = "target"
    /\ \/ /\ target # None
          /\ st' = [st EXCEPT !.resolved = target]
          /\ pc' = "collect"
          /\ UNCHANGED <<cur, mem, locals>>
       \/ target = None /\ Publish(With(st, "Ready", "False"))
    /\ UNCHANGED <<cluster, cache, cloud, queued, panicked, used>>

\* collectHostnames, the wait for hostnames, the client and the zones.  A
\* failed listing of routes returns without touching the status; a failed
\* client or zone is published with Ready as it was.
CollectHostnames ==
    LET valid == With(st, "CredentialsValid", "True") IN
    /\ pc = "collect"
    /\ \/ /\ mem.spec.routes /\ Hostnames(mem.spec) = {}
          /\ Publish(With(With(st, "RecordsSynced", "Unknown"), "Ready", "Unknown"))
          /\ UNCHANGED <<queued, used>>
       \/ /\ ~(mem.spec.routes /\ Hostnames(mem.spec) = {})
          /\ st' = With(valid, "ZonesResolved", "True")
          /\ wanted' = Hostnames(mem.spec) /\ todo' = Hostnames(mem.spec)
          /\ pc' = "find"
          /\ UNCHANGED <<queued, cur, mem, at, rec, out, doomed, used>>
       \/ mem.spec.routes /\ Spend("fault") /\ Return(TRUE)
       \/ /\ Spend("fault")
          /\ \/ Publish(With(st, "CredentialsValid", "False"))
             \/ Publish(With(valid, "ZonesResolved", "False"))
          /\ UNCHANGED queued
    /\ UNCHANGED <<cluster, cache, cloud, panicked>>

\* The loop of syncRecords goes on to another hostname.
\* Mutant: the variable of the loop keeps its hostname.
NextHostKept == pc' = "find" /\ todo' = todo \ {at} /\ at' = at /\ rec' = 0
NextHost == pc' = "find" /\ todo' = todo \ {at} /\ at' = None /\ rec' = 0
FailHost == out' = [out EXCEPT !.failed = @ \cup {at}] /\ NextHost

\* SyncRecordWithPolicy, the lookup and the choice.
FindRecord ==
    /\ pc = "find"
    /\ \E h \in todo :
         \/ /\ Found(h) = None
            /\ pc' = "create" /\ at' = h
            /\ UNCHANGED <<todo, rec, out, used>>
         \/ /\ Found(h) # None
            /\ pc' = IF Updates(Found(h)) THEN "update" ELSE "txt"
            /\ at' = h /\ rec' = Found(h).id
            /\ UNCHANGED <<todo, out, used>>
         \/ /\ Spend("fault")
            /\ out' = [out EXCEPT !.failed = @ \cup {h}]
            /\ todo' = todo \ {h}
            /\ UNCHANGED <<pc, at, rec>>
    /\ UNCHANGED <<cluster, cache, cloud, queued, cur, mem, st, wanted, doomed, panicked>>

\* createRecord.  Cloudflare refuses a second address record for a hostname;
\* the lookup that follows answers from the per-reconcile cache, where the
\* hostname has no record: a nil record without an error.
\* Mutant: the identifier is that of the record created before.
CreateRecordStaleID ==
    /\ pc = "create"
    /\ zone[at] = None
    /\ zone' = [zone EXCEPT ![at] = Desired(serial + 1)]
    /\ serial' = serial + 1
    /\ rec' = IF serial = 0 THEN 1 ELSE serial
    /\ pc' = "txt"
    /\ UNCHANGED <<cluster, cache, txt, queued, cur, mem, st, wanted, todo, at, out,
                   doomed, panicked, used>>

CreateRecord ==
    /\ pc = "create"
    /\ \/ /\ zone[at] = None /\ serial < MaxRecords
          /\ zone' = [zone EXCEPT ![at] = Desired(serial + 1)]
          /\ serial' = serial + 1
          /\ \/ rec' = serial + 1 /\ pc' = "txt" /\ UNCHANGED <<todo, at, out, used>>
             \/ Spend("fault") /\ FailHost             \* the answer is lost
       \/ /\ zone[at] # None
          /\ rec' = 0 /\ pc' = "txt"
          /\ UNCHANGED <<zone, serial, todo, at, out, used>>
       \/ Spend("fault") /\ FailHost /\ UNCHANGED <<zone, serial>>
    /\ UNCHANGED <<cluster, cache, txt, queued, cur, mem, st, wanted, doomed, panicked>>

\* updateRecord, by the identifier found.
UpdateRecord ==
    /\ pc = "update"
    /\ \/ /\ zone[at] # None /\ zone[at].id = rec
          /\ zone' = [zone EXCEPT ![at] = Desired(rec)]
          /\ \/ pc' = "txt" /\ UNCHANGED <<todo, at, rec, out, used>>
             \/ Spend("fault") /\ FailHost             \* the answer is lost
       \/ /\ ~(zone[at] # None /\ zone[at].id = rec)
          /\ FailHost
          /\ UNCHANGED <<zone, used>>
       \/ Spend("fault") /\ FailHost /\ UNCHANGED zone
    /\ UNCHANGED <<cluster, cache, txt, serial, queued, cur, mem, st, wanted, doomed, panicked>>

\* The entry of the status, which dereferences the record; good and bad say
\* what the lookup of the TXT record left in the cache.
ListRecord(good, bad) ==
    \/ /\ rec # 0
       /\ out' = [ids |-> [out.ids EXCEPT ![at] = rec], failed |-> out.failed,
                  good |-> out.good \cup good, bad |-> out.bad \cup bad]
       /\ NextHost
       /\ UNCHANGED <<queued, cur, mem, st, wanted, doomed, panicked>>
    \/ rec = 0 /\ panicked' = TRUE /\ Return(TRUE)

\* CreateOwnershipRecord: nothing to do, written, failed at the lookup; a
\* failure is only logged.
WriteTXT ==
    /\ pc = "txt"
    /\ \/ ~mem.spec.txt /\ UNCHANGED <<txt, used>> /\ ListRecord({}, {})
       \/ /\ mem.spec.txt /\ txt[at] = cur
          /\ UNCHANGED <<txt, used>>
          /\ ListRecord({at}, {})
       \/ /\ mem.spec.txt /\ txt[at] # cur
          /\ \/ txt' = [txt EXCEPT ![at] = cur] /\ UNCHANGED used
             \/ Spend("fault") /\ UNCHANGED txt
          /\ ListRecord({}, {at})
       \/ mem.spec.txt /\ Spend("fault") /\ UNCHANGED txt /\ ListRecord({}, {})
    /\ UNCHANGED <<cluster, cache, zone, serial>>

\* The loop of syncRecords ends; deleteOrphanedRecords looks at the records
\* the status still lists from earlier reconciles.
SyncDone ==
    /\ pc = "find" /\ todo = {}
    /\ pc' = "orphan"
    /\ todo' = IF mem.spec.policy = "sync"
               THEN {h \in Hosts \ wanted : st.ids[h] # 0} ELSE {}
    /\ UNCHANGED <<cluster, cache, cloud, queued, cur, mem, st, wanted, at, rec, out,
                   doomed, panicked, used>>

\* The record must be one of cfgate's: the status also lists the identifiers of
\* records found that others made.
\* Mutant: any record found is dropped.
FindOrphanUnchecked ==
    /\ pc = "orphan"
    /\ \E h \in todo :
         \/ Found(h) # None /\ pc' = "drop" /\ at' = h /\ UNCHANGED todo
         \/ Found(h) = None /\ todo' = todo \ {h} /\ UNCHANGED <<pc, at>>
    /\ UNCHANGED <<cluster, cache, cloud, queued, cur, mem, st, wanted, rec, out,
                   doomed, panicked, used>>

FindOrphan ==
    /\ pc = "orphan"
    /\ \E h \in todo :
         \/ /\ IsOwnedByCfgate(Found(h))
            /\ pc' = "drop" /\ at' = h
            /\ UNCHANGED <<todo, used>>
         \/ /\ ~IsOwnedByCfgate(Found(h))
            /\ todo' = todo \ {h}
            /\ UNCHANGED <<pc, at, used>>
         \/ /\ Spend("fault")
            /\ todo' = todo \ {h}
            /\ UNCHANGED <<pc, at>>
    /\ UNCHANGED <<cluster, cache, cloud, queued, cur, mem, st, wanted, rec, out,
                   doomed, panicked>>

\* Delete the record by the identifier in the status, then the TXT record;
\* failures are logged and forgotten.
DropOrphan ==
    LET gone == Removed(at, st.ids[at])
        bare == IF mem.spec.txt THEN [txt EXCEPT ![at] = None] ELSE txt IN
    /\ pc = "drop"
    /\ \/ zone' = gone /\ txt' = bare /\ UNCHANGED used
       \/ zone' \in {zone, gone} /\ txt' \in {txt, bare} /\ Spend("fault")
    /\ pc' = "orphan" /\ todo' = todo \ {at} /\ at' = None
    /\ UNCHANGED <<cluster, cache, serial, queued, cur, mem, st, wanted, rec, out,
                   doomed, panicked>>

\* verifyOwnership, answered from the per-reconcile cache where it has an
\* entry, and the rest of the status.
VerifyOwnership ==
    /\ pc = "orphan" /\ todo = {}
    /\ LET verified == /\ mem.spec.txt
                       /\ \A h \in wanted : h \in out.good
                                            \/ (h \notin out.bad /\ txt[h] = cur)
           synced == [With(With(st, "RecordsSynced", "True"), "Ready", "True")
                        EXCEPT !.ids = out.ids, !.failed = out.failed]
       IN  \/ /\ Publish(With(synced, "OwnershipVerified", IF verified THEN "True" ELSE "False"))
              /\ UNCHANGED used
           \/ Spend("fault") /\ Publish(With(synced, "OwnershipVerified", "False"))
    /\ UNCHANGED <<cluster, cache, cloud, queued, panicked>>

\* updateStatus re-reads the informer's copy: a copy with this status needs no
\* write, an old copy is a conflict.
UpdateStatus ==
    /\ pc = "status"
    /\ \/ /\ cache[cur].exists /\ cache[cur].status # st /\ cache[cur] = crs[cur]
          /\ crs' = [crs EXCEPT ![cur] = Reporting(crs[cur], st)]
          /\ UNCHANGED used
       \/ /\ ~(cache[cur].exists /\ cache[cur].status # st /\ cache[cur] = crs[cur])
          /\ UNCHANGED <<crs, used>>
       \/ Spend("fault") /\ UNCHANGED crs
    /\ Return(TRUE)
    /\ UNCHANGED <<cache, routes, target, cloud, panicked>>

-----------------------------------------------------------------------------
(* reconcileDelete *)

Doomed(d) == pc' = (IF d = {} THEN "unfinalize" ELSE "wipe") /\ doomed' = d

\* cleanupRecordsWithFallback lists what IsOwnedByCfgate recognises: address
\* records with a cfgate comment, TXT records that name this owner (id 0
\* stands for the latter).  Without a client or a zone nothing is deleted.
ListManagedRecords ==
    /\ pc = "list"
    /\ \/ /\ Doomed({[host |-> h, id |-> zone[h].id] : h \in {g \in Hosts : IsOwnedByCfgate(zone[g])}}
                    \cup {[host |-> h, id |-> 0] : h \in {g \in Hosts : txt[g] = cur}})
          /\ UNCHANGED used
       \/ Spend("fault") /\ Doomed({})
    /\ UNCHANGED <<cluster, cache, cloud, queued, cur, mem, st, wanted, todo, at, rec,
                   out, panicked>>

\* Mutant: a record that cannot be deleted is tried again and again.
DeleteManagedForever ==
    /\ pc = "wipe"
    /\ \E d \in doomed :
         \/ /\ zone' = Removed(d.host, d.id)
            /\ txt' = IF d.id = 0 THEN [txt EXCEPT ![d.host] = None] ELSE txt
            /\ Doomed(doomed \ {d})
            /\ UNCHANGED <<queued, cur, mem, st, wanted, todo, at, rec, out>>
         \/ UNCHANGED <<zone, txt>> /\ Return(TRUE)
    /\ UNCHANGED <<cluster, cache, serial, panicked, used>>

\* Each is deleted by its identifier; a failure is only logged.
DeleteManagedRecord ==
    /\ pc = "wipe"
    /\ \E d \in doomed :
         /\ \/ /\ zone' = Removed(d.host, d.id)
               /\ txt' = IF d.id = 0 THEN [txt EXCEPT ![d.host] = None] ELSE txt
               /\ UNCHANGED used
            \/ Spend("fault") /\ UNCHANGED <<zone, txt>>
         /\ Doomed(doomed \ {d})
    /\ UNCHANGED <<cluster, cache, serial, queued, cur, mem, st, wanted, todo, at, rec,
                   out, panicked>>

RemoveFinalizer ==
    /\ pc = "unfinalize"
    /\ \/ /\ crs[cur].exists
          /\ crs' = [crs EXCEPT ![cur] = Gone(crs[cur])]
          /\ Return(FALSE)
          /\ UNCHANGED used
       \/ ~crs[cur].exists /\ Return(TRUE) /\ UNCHANGED <<crs, used>>
       \/ Spend("fault") /\ Return(TRUE) /\ UNCHANGED crs
    /\ UNCHANGED <<cache, routes, target, cloud, panicked>>

-----------------------------------------------------------------------------
(* The informers, the process, the user, Cloudflare's dashboard *)

\* GenerationOrDeletionPredicate.  Events of routes, Gateways and the tunnel
\* also enqueue the resource, which the requeue after every reconcile has
\* already put on the queue.
Enqueues(old, new) ==
    \/ old.exists # new.exists
    \/ old.spec # new.spec
    \/ ~old.deleting /\ new.deleting

SyncCache(o) ==
    /\ cache[o] # crs[o]
    /\ cache' = [cache EXCEPT ![o] = crs[o]]
    /\ queued' = IF Enqueues(cache[o], crs[o]) THEN queued \cup {o} ELSE queued
    /\ UNCHANGED <<cluster, cloud, job, panicked, used>>

\* The process dies and restarts: what it had in memory is lost, the
\* informers list everything again.
Crash ==
    /\ Spend("crash")
    /\ queued' = {o \in Resources : crs[o].exists}
    /\ cur' = None /\ pc' = "idle" /\ mem' = None /\ st' = NoStatus
    /\ wanted' = {} /\ todo' = {} /\ at' = None /\ rec' = 0
    /\ out' = Nothing /\ doomed' = {}
    /\ cache' = crs
    /\ UNCHANGED <<cluster, cloud, panicked>>

EditSpec(o) ==
    /\ crs[o].exists
    /\ Spend("spec")
    /\ \E s \in SpecsOf[o] : crs' = [crs EXCEPT ![o] = Edited(crs[o], s)]
    /\ UNCHANGED <<cache, routes, target, cloud, queued, job, panicked>>

DeleteObject(o) ==
    /\ crs[o].exists /\ ~crs[o].deleting
    /\ Spend("delete")
    /\ crs' = [crs EXCEPT ![o] = Terminating(crs[o])]
    /\ UNCHANGED <<cache, routes, target, cloud, queued, job, panicked>>

ChangeRoutes ==
    /\ Spend("routes")
    /\ \E r \in SUBSET RouteHosts : r # routes /\ routes' = r
    /\ UNCHANGED <<crs, cache, target, cloud, queued, job, panicked>>

\* The tunnel is re-created, or not ready.
ChangeTarget ==
    /\ Spend("target")
    /\ \E t \in Targets \cup {None} : t # target /\ target' = t
    /\ UNCHANGED <<crs, cache, routes, cloud, queued, job, panicked>>

\* A record of cfgate's with another content, and without the comment.
Repointed(r) == [r EXCEPT !.target = None]
Stripped(r) == [r EXCEPT !.by = "stripped"]

\* Somebody adds a record, deletes one (an address or a TXT record), changes the
\* content of one of cfgate's or makes it their own by removing its comment.
External ==
    /\ Spend("external")
    /\ \E h \in Hosts :
         \/ /\ zone[h] = None
            /\ \E k \in ForeignKinds : zone' = [zone EXCEPT ![h] = Foreign(serial + 1, k)]
            /\ serial' = serial + 1 /\ UNCHANGED txt
         \/ /\ zone[h] # None
            /\ zone' = [zone EXCEPT ![h] = None]
            /\ UNCHANGED <<txt, serial>>
         \/ /\ txt[h] # None
            /\ txt' = [txt EXCEPT ![h] = None]
            /\ UNCHANGED <<zone, serial>>
         \/ /\ IsOwnedByCfgate(zone[h])
            /\ \E v \in {Repointed(zone[h]), Stripped(zone[h])} : zone' = [zone EXCEPT ![h] = v]
            /\ UNCHANGED <<txt, serial>>
    /\ UNCHANGED <<cluster, cache, queued, job, panicked>>

-----------------------------------------------------------------------------
Work ==
    \/ AddFinalizer \/ ResolveTarget \/ CollectHostnames \/ FindRecord
    \/ CreateRecord \/ UpdateRecord \/ WriteTXT \/ SyncDone \/ FindOrphan
    \/ DropOrphan \/ VerifyOwnership \/ UpdateStatus \/ ListManagedRecords
    \/ DeleteManagedRecord \/ RemoveFinalizer

Reconcile == Work \/ \E o \in Resources : Fetch(o)

Environment ==
    \/ \E o \in Resources : SyncCache(o) \/ EditSpec(o) \/ DeleteObject(o)
    \/ Crash \/ ChangeRoutes \/ ChangeTarget \/ External

Next == Reconcile \/ Environment

Spec == Init /\ [][Next]_vars

\* The worker finishes what it started, the queue, first in first out, serves
\* every resource on it, and informers catch up.
Fairness ==
    /\ WF_vars(Work)
    /\ \A o \in Resources : SF_vars(Fetch(o)) /\ WF_vars(SyncCache(o))

FairSpec == Spec /\ Fairness

-----------------------------------------------------------------------------
(* Safety *)

\* The identifier the status lists for a hostname, by which the record is
\* deleted once nobody wants it, is never the identifier of another hostname's
\* record (syncRecords, deleteOrphanedRecords).
IdsOfTheirHosts ==
    \A o \in Resources, g, h \in Hosts :
        zone[g] # None /\ crs[o].status.ids[h] = zone[g].id => g = h

\* A resource that exists is on the queue or under reconciliation: no early
\* return, error path or event the predicate drops makes the controller forget
\* it (the results of Reconcile, GenerationOrDeletionPredicate).
NoneForgotten == \A o \in Resources : crs[o].exists => o \in queued \/ cur = o

(* What a step may never do *)

\* Records others made, which never carried cfgate's comment, are neither
\* changed nor deleted, although they may appear between a lookup and the call
\* that acts on it.  (A comment removed from one of cfgate's own records in that
\* moment is not noticed: the call goes by the identifier.)
ForeignUntouched ==
    [][Reconcile => \A h \in Hosts :
         zone[h] # None /\ zone[h].by = None => zone'[h] = zone[h]]_vars

\* A resource under reconciliation with the policy create-only changes no
\* address record that exists, and only sync deletes one (docs/cloudflare-dns.md).
PolicyRespected ==
    [][Reconcile => \A h \in Hosts :
         /\ zone[h] # None /\ zone'[h] = None => mem.spec.policy = "sync"
         /\ zone[h] # None /\ zone'[h] # zone[h] => mem.spec.policy # "create-only"]_vars

\* The hostnames a resource may ever want, and no two resources want the same.
EverWanted(o) ==
    UNION {s.explicit \cup (IF s.routes THEN RouteHosts ELSE {}) : s \in SpecsOf[o]}
HostsApart ==
    \A o, p \in Resources : o # p => EverWanted(o) \cap EverWanted(p) = {}

\* Resources that want different hostnames keep out of each other's way while
\* they exist: but for the cleanup of a deleted one, no reconcile changes or
\* deletes an address record made for another, although records are taken for
\* cfgate's own by their comment alone and specs and routes change under way.
NeighboursKept ==
    [][HostsApart /\ Reconcile /\ pc # "wipe" => \A h \in Hosts :
         zone[h] # None /\ zone[h].by \in Resources \ {cur} => zone'[h] = zone[h]]_vars

\* The finalizer protocol: a record, address or TXT, is written for a resource
\* only while its finalizer is stored, never before it nor after the cleanup.
Phase(o) ==
    IF ~crs[o].exists THEN "released" ELSE IF crs[o].finalizer THEN "held" ELSE "new"
OwnedBy(o) ==
    {<<h, "address">> : h \in {g \in Hosts : zone[g] # None /\ zone[g].by = o}}
    \cup {<<h, "txt">> : h \in {g \in Hosts : txt[g] = o}}

Protocol == INSTANCE FinalizerProtocol
    WITH Owners <- Resources, Things <- Hosts \X {"address", "txt"},
         phase <- [o \in Resources |-> Phase(o)], owned <- [o \in Resources |-> OwnedBy(o)]
HeldWhileOwned == Protocol!Spec

(* Liveness *)

\* A deleted resource goes, whatever fails in its cleanup.
DeletionCompletes ==
    \A o \in Resources : crs[o].deleting ~> ~crs[o].exists

Served(o, h) ==
    /\ zone[h] # None
    /\ \/ zone[h].by \notin Resources
       \/ /\ zone[h].by = o
          /\ crs[o].spec.policy # "create-only" => zone[h].target = target

\* The status a resource ends up with: one reconcile after the TXT records
\* were written they are also seen.
Reported(o) ==
    LET s == crs[o].status IN
    /\ s.conds["Ready"] = "True" /\ s.resolved = target /\ s.failed = {}
    /\ crs[o].spec.txt => s.conds["OwnershipVerified"] = "True"

\* After the last disturbance each wanted hostname has a record that points to
\* the tunnel, or one of somebody else, and the status says so: drift, lost
\* answers, crashes, a panic, and the cleanup of a neighbour are repaired.
RecordsConverge ==
    <>[](target # None => \A o \in Resources :
            crs[o].exists /\ Hostnames(crs[o].spec) # {} =>
                /\ \A h \in Hostnames(crs[o].spec) : Served(o, h)
                /\ Reported(o))

-----------------------------------------------------------------------------
(* Inductive strengthenings, for the proofs *)

\* An identifier noted for h was handed out, and no other hostname has it.
NotedFor(i, h) ==
    /\ i <= serial
    /\ \A g \in Hosts : zone[g] # None /\ zone[g].id = i => g = h

\* Wherever an identifier is kept between its lookup and its use.
IdInv ==
    /\ \A h \in Hosts :
         /\ zone[h] # None => NotedFor(zone[h].id, h)
         /\ \A o \in Resources : /\ NotedFor(crs[o].status.ids[h], h)
                                 /\ NotedFor(cache[o].status.ids[h], h)
         /\ NotedFor(st.ids[h], h) /\ NotedFor(out.ids[h], h)
    /\ at # None => NotedFor(rec, at)
    /\ pc \notin {"update", "txt"} => rec = 0
    /\ \A d \in doomed : d.id <= serial

Ours(h, i) == zone[h] # None /\ zone[h].id = i => zone[h].by # None

\* What a reconcile is about to change or to delete is one of cfgate's records,
\* or has been replaced since by one with a new identifier.
ForeignInv ==
    /\ pc = "update" => Ours(at, rec)
    /\ pc = "drop" => Ours(at, st.ids[at])
    /\ \A d \in doomed : Ours(d.host, d.id)

\* A copy that makes Reconcile drop the key is right: the resource is gone.
ServedInv ==
    /\ NoneForgotten
    /\ \A o \in Resources :
         /\ crs[o].exists => cache[o].exists
         /\ crs[o].exists /\ crs[o].deleting => crs[o].finalizer
         /\ cache[o].exists /\ cache[o].deleting => cache[o].finalizer

\* A reconcile reaches these steps only under a policy that allows them.
PolicyInv ==
    /\ pc = "update" => mem.spec.policy # "create-only"
    /\ pc \in {"drop", "list", "wipe"} \/ (pc = "orphan" /\ todo # {})
         => mem.spec.policy = "sync"

\* Specs, copies of specs and what follows from them stay within the hostnames
\* of the resource.
HostInv ==
    /\ \A o \in Resources :
         /\ crs[o].spec \in SpecsOf[o] /\ cache[o].spec \in SpecsOf[o]
         /\ \A h \in Hosts \ EverWanted(o) :
              crs[o].status.ids[h] = 0 /\ cache[o].status.ids[h] = 0
    /\ \A h \in Hosts, o \in Resources :
         zone[h] # None /\ zone[h].by = o => h \in EverWanted(o)
    /\ pc # "idle" =>
         /\ mem.spec \in SpecsOf[cur]
         /\ todo \subseteq EverWanted(cur)
         /\ at # None => at \in EverWanted(cur)
         /\ \A h \in Hosts \ EverWanted(cur) : st.ids[h] = 0 /\ out.ids[h] = 0
    /\ pc = "idle" => todo = {} /\ out = Nothing
    /\ routes \subseteq RouteHosts

-----------------------------------------------------------------------------
(* What the repository says of the records, and the code does not keep *)

\* dns.go: "createRecord creates a DNS record with duplicate error handling",
\* yet the record it returns is nil and the caller dereferences it.
DuplicateHandled == ~panicked

\* docs/cloudflare-dns.md, onlyManaged: only records created by this
\* installation are deleted.  The comment decides, not the owner.
OthersKept ==
    [][Reconcile => \A h \in Hosts :
         zone[h] # None /\ zone[h].by \in Resources \ {cur} => zone'[h] # None]_vars
=============================================================================
