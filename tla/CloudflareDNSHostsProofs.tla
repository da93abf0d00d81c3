---------------------- MODULE CloudflareDNSHostsProofs ----------------------
(***************************************************************************)
(* Resources that want different hostnames keep out of each other's way:   *)
(* what a reconcile looks at, from the spec it read to the identifiers its *)
(* status lists from reconciles before it, stays within the hostnames its  *)
(* resource may want.                                                      *)
(***************************************************************************)
EXTENDS CloudflareDNSProofs

-----------------------------------------------------------------------------
(* What one step does to the hostnames kept somewhere. *)

\* The hostnames collected for a spec are hostnames its resource may want.
LEMMA HostnamesWanted ==
    ASSUME NEW o \in Resources, NEW s \in SpecsOf[o], routes \subseteq RouteHosts
    PROVE  Hostnames(s) \subseteq EverWanted(o)
BY DEF Hostnames, EverWanted

\* Only the user changes a spec, to one the resource may have.
LEMMA SpecStep ==
    ASSUME TypeOK, [Next]_vars, NEW o \in Resources
    PROVE  crs'[o].spec = crs[o].spec \/ crs'[o].spec \in SpecsOf[o]
<1> USE DEF TypeOK
<1>1. ASSUME NEW x \in Objects
      PROVE  /\ Finalized(x).spec = x.spec /\ Gone(x).spec = x.spec
             /\ Terminating(x).spec = x.spec
             /\ \A s \in Statuses : Reporting(x, s).spec = x.spec
             /\ \A s \in Specs : Edited(x, s).spec = s
  BY DEF Objects, Finalized, Gone, Terminating, Reporting, Edited
<1>2. CASE AddFinalizer \/ UpdateStatus \/ RemoveFinalizer
  <2>1. /\ cur \in Resources /\ st \in Statuses
        /\ \/ crs' = crs
           \/ crs' = [crs EXCEPT ![cur] = Finalized(crs[cur])]
           \/ crs' = [crs EXCEPT ![cur] = Reporting(crs[cur], st)]
           \/ crs' = [crs EXCEPT ![cur] = Gone(crs[cur])]
    BY <1>2 DEF AddFinalizer, UpdateStatus, RemoveFinalizer
  <2>2. CASE o # cur
    BY <2>1, <2>2
  <2>3. CASE o = cur
    <3>1. /\ Finalized(crs[cur]).spec = crs[cur].spec /\ Gone(crs[cur]).spec = crs[cur].spec
          /\ Reporting(crs[cur], st).spec = crs[cur].spec
      BY <1>1, <2>1
    <3>2. \/ crs'[cur] = crs[cur] \/ crs'[cur] = Finalized(crs[cur])
          \/ crs'[cur] = Reporting(crs[cur], st) \/ crs'[cur] = Gone(crs[cur])
      BY <2>1
    <3> QED
      BY <2>3, <3>1, <3>2
  <2> QED
    BY <2>2, <2>3
<1>3. ASSUME NEW x \in Resources, EditSpec(x) \/ DeleteObject(x)
      PROVE  crs'[o].spec = crs[o].spec \/ crs'[o].spec \in SpecsOf[o]
  <2>1. \/ \E s \in SpecsOf[x] : s \in Specs /\ crs' = [crs EXCEPT ![x] = Edited(crs[x], s)]
        \/ crs' = [crs EXCEPT ![x] = Terminating(crs[x])]
    BY <1>3, SpecsAssumption DEF EditSpec, DeleteObject
  <2> QED
    BY <1>1, <2>1
<1>4. CASE crs' = crs
  BY <1>4
<1> QED
  BY <1>2, <1>3, <1>4
     DEF Next, Reconcile, Work, Environment, vars, cluster, ResolveTarget, CollectHostnames,
         FindRecord, CreateRecord, UpdateRecord, WriteTXT, SyncDone, FindOrphan, DropOrphan,
         VerifyOwnership, ListManagedRecords, DeleteManagedRecord, Crash, ChangeRoutes,
         ChangeTarget, External, Fetch, SyncCache

\* A record comes to be a resource's at the hostname its reconcile is at.
LEMMA AddressStep ==
    ASSUME TypeOK, [Next]_vars, NEW h \in Hosts, NEW o \in Resources,
           zone'[h] # None, zone'[h].by = o
    PROVE  \/ zone[h] # None /\ zone[h].by = o
           \/ o = cur /\ h = at /\ pc \in {"create", "update"}
<1>0. zone \in [Hosts -> Records \cup {None}] /\ o # None
  BY NoneAssumption DEF TypeOK
<1>1. CASE CreateRecord \/ UpdateRecord
  BY <1>0, <1>1 DEF CreateRecord, UpdateRecord, Desired
<1>2. CASE DropOrphan \/ DeleteManagedRecord
  BY <1>0, <1>2 DEF DropOrphan, DeleteManagedRecord, Removed
<1>3. CASE External
  BY <1>0, <1>3, ExternalZone, NoneAssumption DEF Foreign
<1>4. CASE zone' = zone
  BY <1>4
<1> QED
  BY <1>1, <1>2, <1>3, <1>4
     DEF Next, Reconcile, Work, Environment, vars, cloud, AddFinalizer, ResolveTarget,
         CollectHostnames, FindRecord, WriteTXT, SyncDone, FindOrphan, VerifyOwnership,
         UpdateStatus, ListManagedRecords, RemoveFinalizer, Crash, ChangeRoutes, ChangeTarget,
         Fetch, SyncCache, EditSpec, DeleteObject

\* The hostnames a loop has yet to visit were collected for the spec or come
\* from the status, and it visits those only.
LEMMA LoopStep ==
    ASSUME TypeOK, [Next]_vars
    PROVE  /\ \A h \in todo' : \/ h \in todo
                               \/ pc # "idle" /\ h \in Hostnames(mem.spec)
                               \/ pc # "idle" /\ h \in Hosts /\ st.ids[h] # 0
           /\ at' # None => at' = at \/ at' \in todo
<1>1. CASE AddFinalizer \/ UpdateStatus \/ RemoveFinalizer \/ Crash
  BY <1>1 DEF AddFinalizer, UpdateStatus, RemoveFinalizer, Return, Crash
<1>2. CASE CollectHostnames
  BY <1>2 DEF CollectHostnames, Publish, Return, locals
<1>3. CASE FindRecord \/ CreateRecord \/ UpdateRecord
  BY <1>3 DEF FindRecord, CreateRecord, UpdateRecord, FailHost, NextHost
<1>4. CASE WriteTXT
  BY <1>4 DEF WriteTXT, ListRecord, NextHost, Return
<1>5. CASE SyncDone \/ FindOrphan \/ DropOrphan
  BY <1>5 DEF SyncDone, FindOrphan, DropOrphan
<1>6. CASE todo' = todo /\ at' = at
  BY <1>6
<1> QED
  BY <1>1, <1>2, <1>3, <1>4, <1>5, <1>6
     DEF Next, Reconcile, Work, Environment, vars, job, locals, ResolveTarget, VerifyOwnership,
         Publish, ListManagedRecords, DeleteManagedRecord, Fetch, ChangeRoutes, ChangeTarget,
         External, SyncCache, EditSpec, DeleteObject

-----------------------------------------------------------------------------
(* NeighboursKept *)

\* The routes of the tunnel have the hostnames routes may have.
LEMMA RoutesStep ==
    ASSUME routes \subseteq RouteHosts, [Next]_vars PROVE routes' \subseteq RouteHosts
<1>1. CASE ChangeRoutes
  BY <1>1 DEF ChangeRoutes
<1>2. CASE routes' = routes
  BY <1>2
<1> QED
  BY <1>1, <1>2
     DEF Next, Reconcile, Work, Environment, vars, cluster, AddFinalizer, ResolveTarget,
         CollectHostnames, FindRecord, CreateRecord, UpdateRecord, WriteTXT, SyncDone,
         FindOrphan, DropOrphan, VerifyOwnership, UpdateStatus, ListManagedRecords,
         DeleteManagedRecord, RemoveFinalizer, Crash, ChangeTarget, External, Fetch, SyncCache,
         EditSpec, DeleteObject

\* A worker at rest has nothing left to visit.
LEMMA RestStep ==
    ASSUME TypeOK, [Next]_vars, pc = "idle" => todo = {} /\ out = Nothing, pc' = "idle"
    PROVE  todo' = {} /\ out' = Nothing
<1>1. CASE AddFinalizer \/ UpdateStatus \/ RemoveFinalizer \/ Crash
  BY <1>1 DEF AddFinalizer, UpdateStatus, RemoveFinalizer, Return, Crash
<1>2. CASE \/ ResolveTarget \/ CollectHostnames \/ FindRecord \/ CreateRecord \/ UpdateRecord
           \/ WriteTXT
  BY <1>2 DEF ResolveTarget, CollectHostnames, FindRecord, CreateRecord, UpdateRecord, WriteTXT,
     ListRecord, FailHost, NextHost, Publish, Return
<1>3. CASE SyncDone \/ FindOrphan \/ DropOrphan \/ VerifyOwnership \/ ListManagedRecords
           \/ DeleteManagedRecord
  BY <1>3 DEF SyncDone, FindOrphan, DropOrphan, VerifyOwnership, Publish, ListManagedRecords,
     DeleteManagedRecord, Doomed
<1>4. CASE \E o \in Resources : Fetch(o)
  BY <1>4 DEF Fetch, locals
<1>5. CASE \/ ChangeRoutes \/ ChangeTarget \/ External \/ UNCHANGED vars
           \/ \E o \in Resources : SyncCache(o) \/ EditSpec(o) \/ DeleteObject(o)
  BY <1>5 DEF ChangeRoutes, ChangeTarget, External, SyncCache, EditSpec, DeleteObject, vars,
     job, locals
<1> QED
  BY <1>1, <1>2, <1>3, <1>4, <1>5 DEF Next, Reconcile, Work, Environment

\* The invariant is inductive.
LEMMA HostNext == TypeOK /\ HostInv /\ [Next]_vars => HostInv'
<1> SUFFICES ASSUME TypeOK, HostInv, [Next]_vars PROVE HostInv'
  OBVIOUS
<1>0. TypeOK' /\ routes \subseteq RouteHosts
  BY TypeNext DEF HostInv
<1>1. ASSUME NEW o \in Resources
      PROVE  /\ crs'[o].spec \in SpecsOf[o] /\ cache'[o].spec \in SpecsOf[o]
             /\ \A h \in Hosts \ EverWanted(o) :
                  crs'[o].status.ids[h] = 0 /\ cache'[o].status.ids[h] = 0
  BY SpecStep, StatusStep DEF HostInv
<1>2. ASSUME NEW h \in Hosts, NEW o \in Resources, zone'[h] # None, zone'[h].by = o
      PROVE  h \in EverWanted(o)
  <2>1. pc \in {"create", "update"} => pc # "idle" /\ at # None
    BY NoneAssumption DEF TypeOK
  <2> QED
    BY <1>2, <2>1, AddressStep DEF HostInv
<1>3. ASSUME pc' # "idle"
      PROVE  /\ mem'.spec \in SpecsOf[cur']
             /\ todo' \subseteq EverWanted(cur')
             /\ at' # None => at' \in EverWanted(cur')
             /\ \A h \in Hosts \ EverWanted(cur') : st'.ids[h] = 0 /\ out'.ids[h] = 0
  <2>0. \A h \in Hosts : NoStatus.ids[h] = 0 /\ Nothing.ids[h] = 0
    BY DEF NoStatus, Nothing
  <2>1. CASE cur' = cur /\ mem' = mem /\ pc # "idle"
    <3>1. cur \in Resources /\ mem.spec \in SpecsOf[cur]
      BY <2>1 DEF TypeOK, HostInv
    <3>2. Hostnames(mem.spec) \subseteq EverWanted(cur)
      BY <1>0, <3>1, HostnamesWanted
    <3>3. todo' \subseteq EverWanted(cur) /\ (at' # None => at' \in EverWanted(cur))
      BY <2>1, <3>2, LoopStep DEF HostInv
    <3>4. ASSUME NEW h \in Hosts \ EverWanted(cur) PROVE st'.ids[h] = 0
      BY <2>0, <2>1, <3>1, StStep DEF HostInv
    <3>5. ASSUME NEW h \in Hosts \ EverWanted(cur) PROVE out'.ids[h] = 0
      <4>1. at \in Hosts => at # h
        BY <2>1, NoneAssumption DEF HostInv
      <4>2. out.ids \in [Hosts -> Nat] /\ out.ids[h] = 0
        BY <2>1 DEF TypeOK, Outcomes, HostInv
      <4> QED
        BY <2>0, <4>1, <4>2, OutStep
    <3> QED
      BY <2>1, <3>1, <3>3, <3>4, <3>5
  <2>2. CASE \E o \in Resources : Fetch(o) /\ cur' = o /\ mem' = cache[o]
                                /\ pc' = Path(cache[o])
    <3>1. PICK o \in Resources : Fetch(o) /\ cur' = o /\ mem' = cache[o]
                                 /\ pc' = Path(cache[o])
      BY <2>2
    <3>2. /\ todo' = {} /\ out' = Nothing /\ at' = None /\ st' = cache[o].status
      BY <1>3, <3>1 DEF Fetch, locals, HostInv, TypeOK
    <3> QED
      BY <2>0, <3>1, <3>2 DEF HostInv
  <2> QED
    BY <1>3, <2>1, <2>2, WorkerStep
<1>4. (pc = "idle" => todo = {} /\ out = Nothing)' /\ (routes \subseteq RouteHosts)'
  BY RestStep, RoutesStep DEF HostInv
<1> QED
  BY <1>1, <1>2, <1>3, <1>4 DEF HostInv, EverWanted

\* Resources that want different hostnames do not change each other's records,
\* but for the cleanup of a deleted one (syncRecords, deleteOrphanedRecords).
THEOREM NeighboursSafe == Spec => NeighboursKept
<1>1. Init => HostInv
  <2> SUFFICES ASSUME Init PROVE HostInv
    OBVIOUS
  <2>1. PICK f \in [Resources -> Specs] :
           /\ \A o \in Resources : f[o] \in SpecsOf[o]
           /\ crs = [o \in Resources |-> NewObject(f[o])]
    BY DEF Init
  <2>2. \A o \in Resources : /\ crs[o].spec \in SpecsOf[o]
                             /\ \A h \in Hosts : crs[o].status.ids[h] = 0
    BY <2>1 DEF NewObject, NoStatus
  <2> QED
    BY <2>2 DEF Init, HostInv
<1>2. TypeOK /\ HostInv /\ [Next]_vars =>
        [HostsApart /\ Reconcile /\ pc # "wipe" => \A h \in Hosts :
           zone[h] # None /\ zone[h].by \in Resources \ {cur} => zone'[h] = zone[h]]_vars
  <2> SUFFICES ASSUME TypeOK, HostInv, HostsApart, Reconcile, pc # "wipe", NEW h \in Hosts,
                      zone[h] # None, zone[h].by \in Resources \ {cur}, zone'[h] # zone[h]
               PROVE  FALSE
    OBVIOUS
  <2>1. zone[h].by \in Resources
    BY DEF TypeOK, Records
  <2>2. pc \in {"update", "drop"} /\ h = at
    BY ZoneStep
  <2>3. cur \in Resources /\ h \in EverWanted(cur) /\ h \in EverWanted(zone[h].by)
    BY <2>1, <2>2, NoneAssumption DEF TypeOK, HostInv
  <2> QED
    BY <2>1, <2>3 DEF HostsApart
<1> QED
  BY <1>1, <1>2, HostNext, TypeCorrect, PTL DEF Spec, NeighboursKept
=============================================================================
