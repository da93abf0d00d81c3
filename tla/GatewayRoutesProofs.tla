------------------------ MODULE GatewayRoutesProofs ------------------------
(* Proofs about the reconcilers of GatewayClasses, Gateways and HTTPRoutes. *)
EXTENDS GatewayRoutes, FiniteSetTheorems, TLAPS

-----------------------------------------------------------------------------
(* Types *)

\* countAttachedRoutes returns a number.
LEMMA AttachedType ==
    ASSUME NEW g, NEW l PROVE AttachedRoutes(g, l) \in Nat
<1>1. IsFiniteSet(Routes \X Refs)
  BY FiniteAssumption, FS_Product
<1>2. IsFiniteSet({x \in Routes \X Refs :
        /\ routeCache[x[1]].exists /\ x[2] \in routeCache[x[1]].spec.refs
        /\ x[2].gw = g /\ x[2].section \in {None, l}})
  BY <1>1, FS_Subset, Zenon
<1> QED
  BY <1>2, FS_CardinalityType DEF AttachedRoutes

\* The budget stays a function to numbers.
LEMMA SpendType ==
    ASSUME NEW k, used \in [Kinds -> Nat], Spend(k)
    PROVE  used' \in [Kinds -> Nat]
BY DEF Spend, Kinds

\* The initial states are well-typed.
LEMMA TypeInit == Init => TypeOK
<1> SUFFICES ASSUME Init PROVE TypeOK
  OBVIOUS
<1>1. classes \in [Classes -> ClassObjects] /\ classCache \in [Classes -> ClassObjects]
  BY DEF Init, NewClass, ClassObjects
<1>2. gateways \in [Gateways -> GatewayObjects] /\ gatewayCache \in [Gateways -> GatewayObjects]
  <2>1. NoGatewayStatus \in GatewayStatuses
    BY DEF NoGatewayStatus, GatewayStatuses, GatewayReasons
  <2> QED
    BY <2>1 DEF Init, NewGateway, GatewayObjects
<1>3. routes \in [Routes -> RouteObjects] /\ routeCache \in [Routes -> RouteObjects]
  BY DEF Init, NewRoute, RouteObjects, NoParents
<1>4. /\ classQ \in SUBSET Classes /\ gatewayQ \in SUBSET Gateways /\ routeQ \in SUBSET Routes
  BY <1>1, <1>2, <1>3 DEF Init, Existing
<1> QED
  BY <1>1, <1>2, <1>3, <1>4 DEF Init, TypeOK, GatewayIdle, RouteIdle, NoParents, Kinds

\* What a fetched object and its next versions are made of.
LEMMA ObjectTypes ==
    /\ \A c \in ClassObjects, n \in Nat : Observing(c, n) \in ClassObjects
    /\ \A c \in ClassObjects : Touched(c) \in ClassObjects
    /\ \A e \in BOOLEAN : NewClass(e) \in ClassObjects
    /\ \A g \in GatewayObjects, s \in GatewayStatuses : Reporting(g, s) \in GatewayObjects
    /\ \A g \in GatewayObjects, s \in GatewaySpecs : EditedGateway(g, s) \in GatewayObjects
    /\ \A e \in BOOLEAN, s \in GatewaySpecs : NewGateway(e, s) \in GatewayObjects
    /\ \A r \in RouteObjects : Noted(r) \in RouteObjects
    /\ \A r \in RouteObjects, s \in RouteSpecs : EditedRoute(r, s) \in RouteObjects
    /\ \A e \in BOOLEAN, s \in RouteSpecs : NewRoute(e, s) \in RouteObjects
<1>1. /\ \A c \in ClassObjects, n \in Nat : Observing(c, n) \in ClassObjects
      /\ \A c \in ClassObjects : Touched(c) \in ClassObjects
      /\ \A e \in BOOLEAN : NewClass(e) \in ClassObjects
  BY DEF Observing, Touched, NewClass, ClassObjects
<1>2. \A g \in GatewayObjects, s \in GatewayStatuses : Reporting(g, s) \in GatewayObjects
  BY DEF Reporting, GatewayObjects
<1>3. ASSUME NEW g \in GatewayObjects, NEW s \in GatewaySpecs
      PROVE  EditedGateway(g, s) \in GatewayObjects
  <2> DEFINE n == IF s.class = g.spec.class /\ s.listeners = g.spec.listeners
                  THEN g.gen ELSE g.gen + 1
  <2>1. n \in Nat
    BY DEF GatewayObjects
  <2>2. EditedGateway(g, s) = [g EXCEPT !.spec = s, !.gen = n]
    BY DEF EditedGateway
  <2> HIDE DEF n
  <2> QED
    BY <2>1, <2>2 DEF GatewayObjects
<1>4. \A e \in BOOLEAN, s \in GatewaySpecs : NewGateway(e, s) \in GatewayObjects
  <2>1. NoGatewayStatus \in GatewayStatuses
    BY DEF NoGatewayStatus, GatewayStatuses, GatewayReasons
  <2> QED
    BY <2>1 DEF NewGateway, GatewayObjects
<1>5. /\ \A r \in RouteObjects : Noted(r) \in RouteObjects
      /\ \A e \in BOOLEAN, s \in RouteSpecs : NewRoute(e, s) \in RouteObjects
  BY DEF Noted, NewRoute, RouteObjects, NoParents
<1>6. ASSUME NEW r \in RouteObjects, NEW s \in RouteSpecs
      PROVE  EditedRoute(r, s) \in RouteObjects
  <2> DEFINE n == IF s.refs = r.spec.refs /\ s.backends = r.spec.backends
                  THEN r.gen ELSE r.gen + 1
  <2>1. n \in Nat
    BY DEF RouteObjects
  <2>2. EditedRoute(r, s) = [r EXCEPT !.spec = s, !.gen = n]
    BY DEF EditedRoute
  <2> HIDE DEF n
  <2> QED
    BY <2>1, <2>2 DEF RouteObjects
<1> QED
  BY <1>1, <1>2, <1>3, <1>4, <1>5, <1>6

\* The status a Gateway's reconcile has built.
LEMMA StatusTypes ==
    ASSUME gwMem \in GatewayObjects
    PROVE  /\ \A r \in GatewayReasons : SetAccepted(gwMem.status, r) \in GatewayStatuses
           /\ \A id \in Nat : StatusFor(id) \in GatewayStatuses
<1>1. \A r \in GatewayReasons : SetAccepted(gwMem.status, r) \in GatewayStatuses
  BY DEF SetAccepted, GatewayObjects, GatewayStatuses
<1>2. ASSUME NEW id \in Nat PROVE StatusFor(id) \in GatewayStatuses
  <2>1. gwMem.gen \in Nat /\ gwMem.status.address \in Nat
    BY DEF GatewayObjects, GatewayStatuses
  <2>2. [l \in Listeners |-> IF gwMem.spec.listeners[l] = None THEN None
                                ELSE AttachedRoutes(gw, l)] \in [Listeners -> Nat \cup {None}]
    BY AttachedType
  <2> QED
    BY <2>1, <2>2 DEF StatusFor, GatewayStatuses, GatewayReasons
<1> QED
  BY <1>1, <1>2

\* The entries a route's reconcile has built.
LEMMA EntryTypes ==
    ASSUME rtMem \in RouteObjects, entries \in [Refs -> Entries \cup {None}],
           gatewayCache \in [Gateways -> GatewayObjects]
    PROVE  /\ \A r \in RouteReasons : Validated(r) \in Entries
           /\ \A b \in BOOLEAN, q \in BOOLEAN \cup {None} :
                Merged(b, q) \in [Refs -> Entries \cup {None}]
           /\ PolicyResolves \in BOOLEAN \cup {None} /\ BackendsResolve \in BOOLEAN
           /\ \A p \in Refs : ParentReason(p) \in RouteReasons
<1>1. \A r \in RouteReasons : Validated(r) \in Entries
  BY DEF Validated, Entries, RouteObjects
<1>2. \A b \in BOOLEAN, q \in BOOLEAN \cup {None} :
        Merged(b, q) \in [Refs -> Entries \cup {None}]
  BY DEF Merged, Entries
<1>3. PolicyResolves \in BOOLEAN \cup {None} /\ BackendsResolve \in BOOLEAN
  BY DEF PolicyResolves, BackendsResolve
<1>4. ASSUME NEW p \in Refs PROVE ParentReason(p) \in RouteReasons
  <2>1. \A b \in Listeners : gatewayCache[p.gw].spec.listeners[b] \in {None, "same", "all"}
    BY DEF Refs, GatewayObjects, GatewaySpecs
  <2>2. p.section = None \/ p.section \in Listeners
    BY DEF Refs
  <2>3. gatewayCache[p.gw].exists \in BOOLEAN
    BY DEF Refs, GatewayObjects
  <2> QED
    BY <2>1, <2>2, <2>3 DEF ParentReason, RouteReasons
<1> QED
  BY <1>1, <1>2, <1>3, <1>4

\* Every step of the reconcilers and of their environment keeps the types.
LEMMA TypeStep == TypeOK /\ [Next]_vars => TypeOK'
<1> SUFFICES ASSUME TypeOK, [Next]_vars PROVE TypeOK'
  OBVIOUS
<1> USE SpendType, ObjectTypes
<1>1. CASE \E c \in Classes : ReconcileClass(c)
  <2>1. PICK c \in Classes : ReconcileClass(c)
    BY <1>1
  <2>2. classCache[c].gen \in Nat /\ classes[c] \in ClassObjects
    BY DEF TypeOK, ClassObjects
  <2>3. classes' \in [Classes -> ClassObjects] /\ classQ' \in SUBSET Classes /\ used' \in [Kinds -> Nat]
    BY <2>1, <2>2 DEF TypeOK, ReconcileClass
  <2> QED
    BY <2>1, <2>3 DEF TypeOK, ReconcileClass, gwJob, routeJob, caches, world
<1>2. CASE \E g \in Gateways : FetchGateway(g)
  BY <1>2 DEF TypeOK, FetchGateway, store, caches, world, routeJob
<1>3. CASE ResolveTunnel
  BY <1>3, StatusTypes DEF TypeOK, ResolveTunnel, Resolves, GatewayReasons, store, caches, world, routeJob
<1>4. CASE WriteGateway
  <2>1. gateways[gw] \in GatewayObjects /\ gw \in Gateways /\ gwSt \in GatewayStatuses
    BY <1>4 DEF TypeOK, WriteGateway
  <2>2. gateways' \in [Gateways -> GatewayObjects] /\ used' \in [Kinds -> Nat]
    BY <1>4, <2>1 DEF TypeOK, WriteGateway
  <2> QED
    BY <1>4, <2>1, <2>2 DEF TypeOK, WriteGateway, GatewayReturns, GatewayRests, caches, world, routeJob
<1>5. CASE \E r \in Routes : FetchRoute(r)
  BY <1>5 DEF TypeOK, FetchRoute, RouteObjects, RouteSpecs, store, caches, world, gwJob
<1>6. CASE CheckParent
  BY <1>6 DEF TypeOK, CheckParent, store, caches, world, gwJob
<1>7. CASE ValidateParent
  <2>1. /\ \A e \in RouteReasons : Validated(e) \in Entries
        /\ ref \in Refs /\ ParentReason(ref) \in RouteReasons
    BY <1>7, EntryTypes DEF TypeOK, ValidateParent
  <2>2. {"Accepted", "NoMatchingParent"} \subseteq RouteReasons
    BY DEF RouteReasons
  <2>3. \E e \in RouteReasons : entries' = [entries EXCEPT ![ref] = Validated(e)]
    BY <1>7, <2>1, <2>2 DEF ValidateParent
  <2>4. entries' \in [Refs -> Entries \cup {None}] /\ used' \in [Kinds -> Nat]
    BY <1>7, <2>1, <2>3 DEF TypeOK, ValidateParent
  <2> QED
    BY <1>7, <2>1, <2>4 DEF TypeOK, ValidateParent, store, caches, world, gwJob
<1>8. CASE ResolveRefs
  BY <1>8, EntryTypes DEF TypeOK, ResolveRefs, store, caches, world, gwJob
<1>9. CASE WriteRoute
  <2>1. rt \in Routes /\ routes[rt] \in RouteObjects /\ rtMem \in RouteObjects
    BY <1>9 DEF TypeOK, WriteRoute
  <2>2. WithEntries(routes[rt]) \in RouteObjects
    BY <2>1 DEF TypeOK, WithEntries, RouteObjects
  <2>3. routes' \in [Routes -> RouteObjects] /\ used' \in [Kinds -> Nat]
    BY <1>9, <2>1, <2>2 DEF TypeOK, WriteRoute
  <2>4. entries' \in [Refs -> Entries \cup {None}]
    BY <1>9 DEF WriteRoute, RouteReturns, RouteRests, NoParents
  <2> QED
    BY <1>9, <2>1, <2>3, <2>4 DEF TypeOK, WriteRoute, RouteReturns, RouteRests, caches, world, gwJob
<1>10. CASE \E c \in Classes : SyncClass(c)
  BY <1>10 DEF TypeOK, SyncClass, store, world, gwJob, routeJob
<1>11. CASE \E c \in Classes : ChangeClass(c)
  <2>1. PICK c \in Classes : ChangeClass(c)
    BY <1>11
  <2>2. classes[c] \in ClassObjects
    BY DEF TypeOK
  <2>3. classes' \in [Classes -> ClassObjects] /\ used' \in [Kinds -> Nat]
    BY <2>1, <2>2 DEF TypeOK, ChangeClass
  <2> QED
    BY <2>1, <2>3 DEF TypeOK, ChangeClass, caches, world, gwJob, routeJob
<1>12. CASE \E g \in Gateways : SyncGateway(g)
  BY <1>12 DEF TypeOK, SyncGateway, store, world, routeJob
<1>13. CASE \E g \in Gateways : ChangeGateway(g)
  <2>1. PICK g \in Gateways : ChangeGateway(g)
    BY <1>13
  <2>2. gateways[g] \in GatewayObjects /\ gateways[g].spec \in GatewaySpecs
    BY DEF TypeOK, GatewayObjects
  <2>3. GatewaySpecsOf[g] \subseteq GatewaySpecs
    BY SpecsAssumption
  <2>4. \E v \in GatewayObjects : gateways' = [gateways EXCEPT ![g] = v]
    BY <2>1, <2>2, <2>3 DEF ChangeGateway
  <2>5. gateways' \in [Gateways -> GatewayObjects] /\ used' \in [Kinds -> Nat]
    BY <2>1, <2>4 DEF TypeOK, ChangeGateway
  <2> QED
    BY <2>1, <2>5 DEF TypeOK, ChangeGateway, caches, world, gwJob, routeJob
<1>14. CASE \E r \in Routes : SyncRoute(r)
  BY <1>14 DEF TypeOK, SyncRoute, store, world, gwJob
<1>15. CASE \E r \in Routes : ChangeRoute(r) \/ OtherController(r)
  <2>1. PICK r \in Routes : ChangeRoute(r) \/ OtherController(r)
    BY <1>15
  <2>2. routes[r] \in RouteObjects /\ routes[r].spec \in RouteSpecs
    BY DEF TypeOK, RouteObjects
  <2>3. RouteSpecsOf[r] \subseteq RouteSpecs
    BY SpecsAssumption
  <2>4. \E v \in RouteObjects : routes' = [routes EXCEPT ![r] = v]
    BY <2>1, <2>2, <2>3 DEF ChangeRoute, OtherController
  <2>5. routes' \in [Routes -> RouteObjects] /\ used' \in [Kinds -> Nat]
    BY <2>1, <2>4 DEF TypeOK, ChangeRoute, OtherController
  <2> QED
    BY <2>1, <2>5 DEF TypeOK, ChangeRoute, OtherController, caches, world, gwJob, routeJob
<1>16. CASE \E t \in Tunnels : ChangeTunnel(t)
  BY <1>16 DEF TypeOK, ChangeTunnel, IDChanged, Kinds, store, caches, routeJob
<1>17. CASE ChangeRefs
  BY <1>17 DEF TypeOK, ChangeRefs, store, caches, gwJob, routeJob
<1>18. CASE Crash
  BY <1>18 DEF TypeOK, Crash, Existing, GatewayRests, RouteRests, NoParents, store, world
<1>19. CASE UNCHANGED vars
  BY <1>19 DEF TypeOK, vars, store, caches, world, gwJob, routeJob
<1> QED
  BY <1>1, <1>2, <1>3, <1>4, <1>5, <1>6, <1>7, <1>8, <1>9, <1>10, <1>11, <1>12, <1>13, <1>14,
     <1>15, <1>16, <1>17, <1>18, <1>19
     DEF Next, Reconcile, Environment, GatewayWorker, RouteWorker

\* Every state of the three reconcilers is well-typed, and a status or a
\* parentRef in memory is there exactly while the reconcile needs it.
THEOREM TypeCorrect == Spec => []TypeOK
BY TypeInit, TypeStep, PTL DEF Spec

-----------------------------------------------------------------------------
(* What a status write says *)

\* What a reconcile of a Gateway knows: gwMem existed, and the status it has
\* built is about gwMem, its generation, its annotation and its listeners.
StatusAbout(s, g) ==
    /\ s.acceptedGen = g.gen
    /\ (s.accepted = "MissingTunnelRef") = (g.spec.tunnelRef = None)
    /\ s.accepted \in {"TunnelReady", "TunnelPending"} =>
         \A l \in Listeners : (s.attached[l] = None) = (g.spec.listeners[l] = None)
GatewayInv ==
    /\ gwPc # "idle" => gwMem.exists
    /\ gwPc = "write" => StatusAbout(gwSt, gwMem)

\* What a reconcile of a route knows: its entries are for parentRefs of rtMem,
\* at its generation, and with the policy condition its annotation asks for.
EntriesAbout(r) ==
    \A p \in Refs : entries[p] # None => p \in r.spec.refs /\ entries[p].gen = r.gen
PolicyAbout(r) ==
    \A p \in Refs : entries[p] # None => (entries[p].policy = None) = (r.spec.policy = None)
RouteInv ==
    /\ rtPc = "idle" => \A p \in Refs : entries[p] = None
    /\ rtPc # "idle" => rtMem.exists /\ todo \subseteq rtMem.spec.refs /\ EntriesAbout(rtMem)
    /\ rtPc = "write" => PolicyAbout(rtMem)

\* Every step keeps the status a Gateway reconcile is about to write true to the
\* object it read.
LEMMA GatewayInvStep == TypeOK /\ GatewayInv /\ [Next]_vars => GatewayInv'
<1> SUFFICES ASSUME TypeOK, GatewayInv, [Next]_vars PROVE GatewayInv'
  OBVIOUS
<1>1. CASE UNCHANGED <<gwPc, gwMem, gwSt>>
  BY <1>1 DEF GatewayInv, StatusAbout
<1>2. CASE \E g \in Gateways : FetchGateway(g)
  BY <1>2 DEF GatewayInv, FetchGateway, TypeOK, StatusAbout
<1>3. CASE ResolveTunnel
  <2>1. gwMem \in GatewayObjects /\ gwMem.exists /\ gwMem' = gwMem /\ gwPc' = "write"
    BY <1>3 DEF ResolveTunnel, TypeOK, GatewayInv
  <2>2. ASSUME NEW r \in {"MissingTunnelRef", "TunnelNotFound"}
        PROVE  /\ SetAccepted(gwMem.status, r).accepted = r
               /\ SetAccepted(gwMem.status, r).acceptedGen = gwMem.gen
    BY <2>1 DEF SetAccepted, GatewayObjects, GatewayStatuses
  <2>3. ASSUME NEW id, gwMem.spec.tunnelRef # None PROVE StatusAbout(StatusFor(id), gwMem)
    <3>1. \A l \in Listeners : AttachedRoutes(gw, l) # None
      BY AttachedType, NoneAssumption
    <3> QED
      BY <2>3, <3>1 DEF StatusAbout, StatusFor
  <2>4. StatusAbout(gwSt', gwMem)
    <3>1. CASE gwMem.spec.tunnelRef = None /\ gwSt' = SetAccepted(gwMem.status, "MissingTunnelRef")
      BY <3>1, <2>2 DEF StatusAbout
    <3>2. CASE gwMem.spec.tunnelRef # None /\ gwSt' = SetAccepted(gwMem.status, "TunnelNotFound")
      BY <3>2, <2>2 DEF StatusAbout
    <3>3. CASE /\ gwMem.spec.tunnelRef # None
               /\ gwSt' = StatusFor(tunnels[gwMem.spec.tunnelRef])
      BY <3>3, <2>3
    <3>4. Resolves(gwMem.spec.tunnelRef) => gwMem.spec.tunnelRef # None
      BY NoneAssumption DEF Resolves
    <3> QED
      BY <1>3, <3>1, <3>2, <3>3, <3>4 DEF ResolveTunnel
  <2> QED
    BY <2>1, <2>4 DEF GatewayInv, StatusAbout
<1>4. CASE WriteGateway \/ Crash
  BY <1>4 DEF GatewayInv, WriteGateway, Crash, GatewayReturns, GatewayRests
<1> QED
  BY <1>1, <1>2, <1>3, <1>4
     DEF Next, Reconcile, Environment, GatewayWorker, RouteWorker, vars, gwJob, ReconcileClass,
         FetchRoute, CheckParent, ValidateParent, ResolveRefs, WriteRoute, SyncClass, ChangeClass,
         SyncGateway, ChangeGateway, SyncRoute, ChangeRoute, OtherController, ChangeTunnel, ChangeRefs

\* Every step keeps the entries a route reconcile is about to write true to the
\* object it read.
LEMMA RouteInvStep == TypeOK /\ RouteInv /\ [Next]_vars => RouteInv'
<1> SUFFICES ASSUME TypeOK, RouteInv, [Next]_vars PROVE RouteInv'
  OBVIOUS
<1>1. CASE UNCHANGED <<rtPc, rtMem, todo, entries>>
  BY <1>1 DEF RouteInv, EntriesAbout, PolicyAbout
<1>2. CASE \E r \in Routes : FetchRoute(r)
  BY <1>2 DEF RouteInv, EntriesAbout, PolicyAbout, FetchRoute
<1>3. CASE CheckParent
  BY <1>3 DEF RouteInv, EntriesAbout, PolicyAbout, CheckParent
<1>4. CASE ValidateParent
  <2>1. /\ rtPc = "validate" /\ rtPc' = "parents" /\ rtMem' = rtMem /\ todo' = todo \ {ref}
        /\ ref \in todo /\ entries \in [Refs -> Entries \cup {None}]
    BY <1>4 DEF ValidateParent, TypeOK
  <2>2. rtMem.exists /\ todo \subseteq rtMem.spec.refs /\ EntriesAbout(rtMem)
    BY <2>1 DEF RouteInv
  <2>3. \E e : entries' = [entries EXCEPT ![ref] = Validated(e)]
    BY <1>4 DEF ValidateParent
  <2>4. \A e : Validated(e).gen = rtMem.gen
    BY DEF Validated
  <2>5. EntriesAbout(rtMem)'
    BY <2>1, <2>2, <2>3, <2>4 DEF EntriesAbout
  <2> QED
    BY <2>1, <2>2, <2>5 DEF RouteInv
<1>5. CASE ResolveRefs
  <2>1. /\ rtPc = "parents" /\ rtPc' = "write" /\ rtMem' = rtMem /\ todo' = todo
        /\ entries \in [Refs -> Entries \cup {None}]
    BY <1>5 DEF ResolveRefs, TypeOK
  <2>2. rtMem.exists /\ todo \subseteq rtMem.spec.refs /\ EntriesAbout(rtMem)
    BY <2>1 DEF RouteInv
  <2>3. PICK b, q : entries' = Merged(b, q) /\ (q = None) = (rtMem.spec.policy = None)
    <3>1. (PolicyResolves = None) = (rtMem.spec.policy = None)
      <4>1. CASE rtMem.spec.policy = None
        BY <4>1 DEF PolicyResolves
      <4>2. CASE rtMem.spec.policy # None
        <5>1. (rtMem.spec.policy \in policies) \in BOOLEAN
          OBVIOUS
        <5>2. PolicyResolves = (rtMem.spec.policy \in policies)
          BY <4>2, Zenon DEF PolicyResolves
        <5>3. PolicyResolves # None
          BY <5>1, <5>2, NoneAssumption, Zenon
        <5> QED
          BY <4>2, <5>3
      <4> QED
        BY <4>1, <4>2
    <3>2. FALSE # None
      BY NoneAssumption
    <3>3. CASE \E b : entries' = Merged(b, PolicyResolves)
      BY <3>1, <3>3
    <3>4. CASE rtMem.spec.policy # None /\ \E b : entries' = Merged(b, FALSE)
      BY <3>2, <3>4
    <3> QED
      BY <1>5, <3>3, <3>4 DEF ResolveRefs
  <2>4. ASSUME NEW p \in Refs, entries'[p] # None
        PROVE  entries[p] # None /\ entries'[p].gen = entries[p].gen /\ entries'[p].policy = q
    BY <2>1, <2>3, <2>4 DEF Merged, Entries
  <2>5. EntriesAbout(rtMem)' /\ PolicyAbout(rtMem)'
    BY <2>1, <2>2, <2>3, <2>4 DEF EntriesAbout, PolicyAbout
  <2> QED
    BY <2>1, <2>2, <2>5 DEF RouteInv
<1>6. CASE WriteRoute \/ Crash
  BY <1>6 DEF RouteInv, WriteRoute, Crash, RouteReturns, RouteRests, NoParents
<1> QED
  BY <1>1, <1>2, <1>3, <1>4, <1>5, <1>6
     DEF Next, Reconcile, Environment, GatewayWorker, RouteWorker, vars, routeJob, ReconcileClass,
         FetchGateway, ResolveTunnel, WriteGateway, SyncClass, ChangeClass, SyncGateway,
         ChangeGateway, SyncRoute, ChangeRoute, OtherController, ChangeTunnel, ChangeRefs

\* The invariant behind ReportsCurrent.
LEMMA ReportInv == Spec => [](TypeOK /\ GatewayInv /\ RouteInv)
<1>1. Init => GatewayInv /\ RouteInv
  BY DEF Init, GatewayIdle, RouteIdle, NoParents, GatewayInv, RouteInv
<1> QED
  BY <1>1, TypeInit, TypeStep, GatewayInvStep, RouteInvStep, PTL DEF Spec

\* Only the status writes of cfgate change a route or a Gateway.
LEMMA RouteWrites ==
    ASSUME Reconcile, routes' # routes
    PROVE  WriteRoute /\ rtMem = routes[rt] /\ routes' = [routes EXCEPT ![rt] = WithEntries(routes[rt])]
BY DEF Reconcile, GatewayWorker, RouteWorker, ReconcileClass, FetchGateway, ResolveTunnel,
       WriteGateway, FetchRoute, CheckParent, ValidateParent, ResolveRefs, WriteRoute, store

\* Who writes the Gateways on the API server.
LEMMA GatewayWrites ==
    ASSUME Reconcile, gateways' # gateways
    PROVE  /\ WriteGateway /\ gwMem = gateways[gw]
           /\ gateways' = [gateways EXCEPT ![gw] = Reporting(gateways[gw], gwSt)]
BY DEF Reconcile, GatewayWorker, RouteWorker, ReconcileClass, FetchGateway, ResolveTunnel,
       WriteGateway, FetchRoute, CheckParent, ValidateParent, ResolveRefs, WriteRoute, store

\* No reconcile changes or drops what other controllers report on a route, for
\* any number of routes, Gateways, faults and crashes.
THEOREM OthersSafe == Spec => OthersKept
<1>1. ASSUME TypeOK, Reconcile, NEW r \in Routes PROVE routes'[r].others = routes[r].others
  <2>1. CASE routes' = routes
    BY <2>1
  <2>2. CASE routes' # routes
    <3>1. rtMem = routes[rt] /\ routes' = [routes EXCEPT ![rt] = WithEntries(routes[rt])]
      BY <1>1, <2>2, RouteWrites
    <3>2. rt \in Routes /\ routes \in [Routes -> RouteObjects]
      BY <1>1, <2>2, RouteWrites DEF TypeOK, WriteRoute
    <3>3. WithEntries(routes[rt]).others = routes[rt].others
      BY <3>1, <3>2 DEF WithEntries, RouteObjects
    <3> QED
      BY <3>1, <3>2, <3>3
  <2> QED
    BY <2>1, <2>2
<1>2. TypeOK => [Reconcile => \A r \in Routes : routes'[r].others = routes[r].others]_vars
  BY <1>1
<1> QED
  BY <1>2, TypeCorrect, PTL DEF OthersKept

\* What a reconcile writes into a status is about the object as it is at that
\* moment: it exists, and generation, parentRefs, listeners and annotations are
\* those the reconcile has seen.
THEOREM ReportsSafe == Spec => ReportsCurrent
<1>1. ASSUME TypeOK, RouteInv, Reconcile, NEW r \in Routes, routes'[r] # routes[r]
      PROVE  RouteReported(r)
  <2>1. WriteRoute /\ rtMem = routes[rt] /\ routes' = [routes EXCEPT ![rt] = WithEntries(routes[rt])]
    BY <1>1, RouteWrites
  <2>2. rt \in Routes /\ routes \in [Routes -> RouteObjects] /\ rt = r
    BY <1>1, <2>1 DEF TypeOK, WriteRoute
  <2>3. /\ routes'[r].exists = rtMem.exists /\ routes'[r].spec = rtMem.spec
        /\ routes'[r].gen = rtMem.gen /\ routes'[r].parents = entries
    BY <2>1, <2>2 DEF WithEntries, RouteObjects
  <2>4. rtMem.exists /\ EntriesAbout(rtMem) /\ PolicyAbout(rtMem)
    BY <1>1, <2>1 DEF RouteInv, WriteRoute
  <2> QED
    BY <2>3, <2>4 DEF RouteReported, EntriesAbout, PolicyAbout
<1>2. ASSUME TypeOK, GatewayInv, Reconcile, NEW g \in Gateways, gateways'[g] # gateways[g]
      PROVE  GatewayReported(g)
  <2>1. /\ WriteGateway /\ gwMem = gateways[gw]
        /\ gateways' = [gateways EXCEPT ![gw] = Reporting(gateways[gw], gwSt)]
    BY <1>2, GatewayWrites
  <2>2. gw \in Gateways /\ gateways \in [Gateways -> GatewayObjects] /\ gw = g
    BY <1>2, <2>1 DEF TypeOK, WriteGateway
  <2>3. /\ gateways'[g].exists = gwMem.exists /\ gateways'[g].spec = gwMem.spec
        /\ gateways'[g].gen = gwMem.gen /\ gateways'[g].status = gwSt
    BY <2>1, <2>2 DEF Reporting, GatewayObjects
  <2>4. gwMem.exists /\ StatusAbout(gwSt, gwMem)
    BY <1>2, <2>1 DEF GatewayInv, WriteGateway
  <2> QED
    BY <2>3, <2>4 DEF GatewayReported, StatusAbout
<1>3. TypeOK /\ GatewayInv /\ RouteInv =>
        [Reconcile => /\ \A r \in Routes : routes'[r] # routes[r] => RouteReported(r)
                      /\ \A g \in Gateways : gateways'[g] # gateways[g] => GatewayReported(g)]_vars
  BY <1>1, <1>2
<1> QED
  BY <1>3, ReportInv, PTL DEF ReportsCurrent

-----------------------------------------------------------------------------
(* The work queues *)

\* What the writers of an object do to the fields the queues depend on.
LEMMA ServedFields ==
    /\ \A c \in ClassObjects : /\ \A n \in Nat : /\ Observing(c, n).exists = c.exists
                                                 /\ Observing(c, n).gen = c.gen
                               /\ Touched(c).exists = c.exists /\ Touched(c).gen = c.gen + 1
    /\ \A e \in BOOLEAN : NewClass(e).exists = e
    /\ \A g \in GatewayObjects :
         /\ \A s \in GatewayStatuses : /\ Reporting(g, s).exists = g.exists
                                       /\ Reporting(g, s).gen = g.gen
                                       /\ Reporting(g, s).spec = g.spec
         /\ \A s \in GatewaySpecs : /\ EditedGateway(g, s).exists = g.exists
                                    /\ EditedGateway(g, s).spec = s
                                    /\ EditedGateway(g, s).gen \in {g.gen, g.gen + 1}
                                    /\ EditedGateway(g, s).gen = g.gen => s.class = g.spec.class
    /\ \A r \in RouteObjects :
         /\ Noted(r).exists = r.exists /\ Noted(r).gen = r.gen
         /\ WithEntries(r).exists = r.exists /\ WithEntries(r).gen = r.gen
         /\ \A s \in RouteSpecs : /\ EditedRoute(r, s).exists = r.exists
                                  /\ EditedRoute(r, s).gen \in {r.gen, r.gen + 1}
    /\ \A e \in BOOLEAN : \A s : NewGateway(e, s).exists = e /\ NewRoute(e, s).exists = e
<1>1. /\ \A c \in ClassObjects : /\ \A n \in Nat : /\ Observing(c, n).exists = c.exists
                                                   /\ Observing(c, n).gen = c.gen
                                 /\ Touched(c).exists = c.exists /\ Touched(c).gen = c.gen + 1
      /\ \A e \in BOOLEAN : NewClass(e).exists = e
  BY DEF Observing, Touched, NewClass, ClassObjects
<1>2. ASSUME NEW g \in GatewayObjects
      PROVE  /\ \A s \in GatewayStatuses : /\ Reporting(g, s).exists = g.exists
                                           /\ Reporting(g, s).gen = g.gen
                                           /\ Reporting(g, s).spec = g.spec
             /\ \A s \in GatewaySpecs : /\ EditedGateway(g, s).exists = g.exists
                                        /\ EditedGateway(g, s).spec = s
                                        /\ EditedGateway(g, s).gen \in {g.gen, g.gen + 1}
                                        /\ EditedGateway(g, s).gen = g.gen => s.class = g.spec.class
  <2>1. \A s \in GatewayStatuses : /\ Reporting(g, s).exists = g.exists
                                   /\ Reporting(g, s).gen = g.gen
                                   /\ Reporting(g, s).spec = g.spec
    BY DEF Reporting, GatewayObjects
  <2>2. ASSUME NEW s \in GatewaySpecs
        PROVE  /\ EditedGateway(g, s).exists = g.exists
               /\ EditedGateway(g, s).spec = s
               /\ EditedGateway(g, s).gen \in {g.gen, g.gen + 1}
               /\ EditedGateway(g, s).gen = g.gen => s.class = g.spec.class
    <3> DEFINE same == s.class = g.spec.class /\ s.listeners = g.spec.listeners
               n == IF same THEN g.gen ELSE g.gen + 1
    <3>1. EditedGateway(g, s) = [g EXCEPT !.spec = s, !.gen = n]
      BY DEF EditedGateway
    <3>2. n \in {g.gen, g.gen + 1} /\ (n = g.gen => s.class = g.spec.class)
      BY DEF GatewayObjects
    <3> HIDE DEF n
    <3> QED
      BY <3>1, <3>2 DEF GatewayObjects
  <2> QED
    BY <2>1, <2>2
<1>3. \A e \in BOOLEAN : \A s : NewGateway(e, s).exists = e /\ NewRoute(e, s).exists = e
  BY DEF NewGateway, NewRoute
<1>4. ASSUME NEW r \in RouteObjects
      PROVE  /\ Noted(r).exists = r.exists /\ Noted(r).gen = r.gen
             /\ WithEntries(r).exists = r.exists /\ WithEntries(r).gen = r.gen
             /\ \A s \in RouteSpecs : /\ EditedRoute(r, s).exists = r.exists
                                      /\ EditedRoute(r, s).gen \in {r.gen, r.gen + 1}
  <2>1. /\ Noted(r).exists = r.exists /\ Noted(r).gen = r.gen
        /\ WithEntries(r).exists = r.exists /\ WithEntries(r).gen = r.gen
    BY DEF Noted, WithEntries, RouteObjects
  <2>2. ASSUME NEW s \in RouteSpecs
        PROVE  /\ EditedRoute(r, s).exists = r.exists
               /\ EditedRoute(r, s).gen \in {r.gen, r.gen + 1}
    <3> DEFINE n == IF s.refs = r.spec.refs /\ s.backends = r.spec.backends
                    THEN r.gen ELSE r.gen + 1
    <3>1. EditedRoute(r, s) = [r EXCEPT !.spec = s, !.gen = n]
      BY DEF EditedRoute
    <3>2. n \in {r.gen, r.gen + 1}
      OBVIOUS
    <3> HIDE DEF n
    <3> QED
      BY <3>1, <3>2 DEF RouteObjects
  <2> QED
    BY <2>1, <2>2
<1> QED
  BY <1>1, <1>2, <1>3, <1>4

\* A budget that is touched stays touched.
LEMMA SpentStays ==
    ASSUME TypeOK, [Next]_vars, used'["class"] = 0
    PROVE  used["class"] = 0 /\ ~\E c \in Classes : ChangeClass(c)
<1>1. \A k \in Kinds : Spend(k) => used["class"] = 0 /\ k # "class"
  BY DEF Spend, TypeOK, Kinds
<1>2. {"fault", "crash", "tunnel", "gateway", "route", "class", "other", "refs"} \subseteq Kinds
  BY DEF Kinds
<1>3. ~\E c \in Classes : ChangeClass(c)
  BY <1>1, <1>2 DEF ChangeClass
<1>4. used["class"] = 0
  <2>1. CASE \E k \in Kinds : Spend(k)
    BY <1>1, <2>1
  <2>2. CASE used' = used
    BY <2>2
  <2> QED
    BY <1>2, <2>1, <2>2
       DEF Next, Reconcile, Environment, GatewayWorker, RouteWorker, ReconcileClass, FetchGateway,
           ResolveTunnel, WriteGateway, FetchRoute, CheckParent, ValidateParent, ResolveRefs,
           WriteRoute, SyncClass, SyncGateway, SyncRoute, ChangeTunnel, ChangeClass,
           ChangeGateway, ChangeRoute, OtherController, ChangeRefs, Crash, vars
<1> QED
  BY <1>3, <1>4

\* A class of cfgate is on the queue or about to be.  Generations only grow
\* while an object exists, so that no edit undoes the event an earlier one has
\* caused.
ClassServed(c) ==
    /\ c \in Ours /\ classes[c].exists =>
         c \in classQ \/ GenerationChanged(classCache[c], classes[c])
    /\ classes[c].exists /\ classCache[c].exists => classCache[c].gen <= classes[c].gen
    /\ used["class"] = 0 => classCache[c].exists = classes[c].exists

\* No step makes the controller of classes forget one.
LEMMA ClassStep ==
    ASSUME TypeOK, [Next]_vars, NEW c \in Classes, ClassServed(c)
    PROVE  ClassServed(c)'
<1>0. /\ classes \in [Classes -> ClassObjects] /\ classCache \in [Classes -> ClassObjects]
      /\ classes[c] \in ClassObjects /\ classCache[c] \in ClassObjects
      /\ classes[c].gen \in Nat /\ classCache[c].gen \in Nat
      /\ classes[c].exists \in BOOLEAN /\ classCache[c].exists \in BOOLEAN
  BY DEF TypeOK, ClassObjects
<1>1. CASE \E d \in Classes : ReconcileClass(d)
  <2>1. PICK d \in Classes : ReconcileClass(d)
    BY <1>1
  <2>2. /\ classCache' = classCache
        /\ classes'[c].exists = classes[c].exists /\ classes'[c].gen = classes[c].gen
    BY <1>0, <2>1, ServedFields DEF ReconcileClass, caches, ClassObjects
  <2>3. c \in Ours /\ c \in classQ /\ classCache[c].exists => c \in classQ'
    BY <2>1 DEF ReconcileClass
  <2> QED
    BY <1>0, <2>2, <2>3, SpentStays DEF ClassServed, GenerationChanged
<1>2. CASE \E d \in Classes : SyncClass(d)
  <2>1. PICK d \in Classes : SyncClass(d)
    BY <1>2
  <2>2. /\ classes' = classes
        /\ classCache'[c] = IF d = c THEN classes[c] ELSE classCache[c]
        /\ c \in classQ' <=> c \in classQ \/ (d = c /\ GenerationChanged(classCache[c], classes[c]))
    BY <1>0, <2>1 DEF SyncClass, store
  <2> QED
    BY <1>0, <2>2, SpentStays DEF ClassServed, GenerationChanged
<1>3. CASE \E d \in Classes : ChangeClass(d)
  <2>1. PICK d \in Classes : ChangeClass(d)
    BY <1>3
  <2>2. /\ classCache' = classCache /\ classQ' = classQ
        /\ \/ classes'[c] = classes[c]
           \/ ~classCache[c].exists
           \/ classes[c].exists /\ classes'[c].exists /\ classes'[c].gen = classes[c].gen + 1
           \/ ~classes'[c].exists
    <3>1. CASE d = c
      BY <1>0, <2>1, <3>1, ServedFields DEF ChangeClass, caches
    <3>2. CASE d # c
      BY <1>0, <2>1, <3>2 DEF ChangeClass, caches
    <3> QED
      BY <3>1, <3>2
  <2>3. used'["class"] # 0
    BY <2>1, SpentStays
  <2> QED
    BY <1>0, <2>2, <2>3 DEF ClassServed, GenerationChanged
<1>4. CASE Crash
  BY <1>0, <1>4 DEF Crash, Existing, store, ClassServed, GenerationChanged
<1>5. CASE UNCHANGED <<classes, classCache, classQ>>
  BY <1>5, SpentStays DEF ClassServed, GenerationChanged
<1> QED
  BY <1>1, <1>2, <1>3, <1>4, <1>5
     DEF Next, Reconcile, Environment, GatewayWorker, RouteWorker, store, caches, FetchGateway,
         ResolveTunnel, WriteGateway, FetchRoute, CheckParent, ValidateParent, ResolveRefs,
         WriteRoute, SyncGateway, SyncRoute, ChangeTunnel, ChangeGateway, ChangeRoute,
         OtherController, ChangeRefs, vars

\* A Gateway of cfgate is on the queue, under reconciliation, or about to be
\* queued; a copy of the same generation has the same class.
GatewayServed(g) ==
    /\ used["class"] = 0 /\ Managed(g) =>
         g \in gatewayQ \/ gw = g \/ GenerationChanged(gatewayCache[g], gateways[g])
    /\ gateways[g].exists /\ gatewayCache[g].exists =>
         /\ gatewayCache[g].gen <= gateways[g].gen
         /\ gatewayCache[g].gen = gateways[g].gen =>
              gatewayCache[g].spec.class = gateways[g].spec.class

\* As long as no class has changed, a Gateway is cfgate's after a step if it was
\* before, or has been edited.
LEMMA ManagedStays ==
    ASSUME TypeOK, [Next]_vars, used'["class"] = 0, NEW g \in Gateways, Managed(g)',
           gateways'[g].spec.class = gateways[g].spec.class, gateways[g].exists
    PROVE  Managed(g)
<1>1. \A c \in Classes : classes'[c].exists = classes[c].exists
  <2>1. CASE \E c \in Classes : ReconcileClass(c)
    <3>1. PICK c \in Classes : ReconcileClass(c)
      BY <2>1
    <3>2. classes \in [Classes -> ClassObjects] /\ classCache[c].gen \in Nat
      BY DEF TypeOK, ClassObjects
    <3> QED
      BY <3>1, <3>2, ServedFields DEF ReconcileClass
  <2>2. CASE classes' = classes
    BY <2>2
  <2> QED
    BY <2>1, <2>2, SpentStays
       DEF Next, Reconcile, Environment, GatewayWorker, RouteWorker, store, FetchGateway,
           ResolveTunnel, WriteGateway, FetchRoute, CheckParent, ValidateParent, ResolveRefs,
           WriteRoute, SyncClass, SyncGateway, SyncRoute, ChangeTunnel, ChangeGateway,
           ChangeRoute, OtherController, ChangeRefs, Crash, vars
<1>2. gateways[g].spec.class \in Classes
  BY DEF TypeOK, GatewayObjects, GatewaySpecs
<1> QED
  BY <1>1, <1>2 DEF Managed

\* No step makes the controller of Gateways forget one.
LEMMA GatewayStep ==
    ASSUME TypeOK, [Next]_vars, NEW g \in Gateways, GatewayServed(g),
           \A c \in Classes : ClassServed(c)
    PROVE  GatewayServed(g)'
<1>0. /\ gateways \in [Gateways -> GatewayObjects] /\ gatewayCache \in [Gateways -> GatewayObjects]
      /\ gateways[g] \in GatewayObjects /\ gatewayCache[g] \in GatewayObjects
      /\ gateways[g].gen \in Nat /\ gatewayCache[g].gen \in Nat
      /\ gateways[g].exists \in BOOLEAN /\ gatewayCache[g].exists \in BOOLEAN
      /\ gateways[g].spec.class \in Classes
  BY DEF TypeOK, GatewayObjects, GatewaySpecs
<1>1. CASE \E h \in Gateways : FetchGateway(h)
  <2>1. PICK h \in Gateways : FetchGateway(h)
    BY <1>1
  <2>2. /\ gateways' = gateways /\ gatewayCache' = gatewayCache /\ classes' = classes
        /\ gw # g
        /\ \/ h # g /\ gatewayQ' = gatewayQ \ {h}
           \/ gw' = g
           \/ ~gatewayCache[g].exists \/ ~IsOurs(gatewayCache[g])
    BY <2>1, NoneAssumption DEF TypeOK, FetchGateway, store, caches
  <2>3. used["class"] = 0 /\ Managed(g) /\ (~gatewayCache[g].exists \/ ~IsOurs(gatewayCache[g]))
          => GenerationChanged(gatewayCache[g], gateways[g])
    <3>1. SUFFICES ASSUME used["class"] = 0, Managed(g), gatewayCache[g].exists,
                          gatewayCache[g].gen = gateways[g].gen
                   PROVE  IsOurs(gatewayCache[g])
      BY <1>0 DEF Managed, GenerationChanged
    <3>2. gatewayCache[g].spec.class = gateways[g].spec.class
      BY <3>1 DEF Managed, GatewayServed
    <3>3. classCache[gateways[g].spec.class].exists = classes[gateways[g].spec.class].exists
      BY <1>0, <3>1 DEF ClassServed
    <3> QED
      BY <3>1, <3>2, <3>3 DEF Managed, IsOurs
  <2>4. (used'["class"] = 0 => used["class"] = 0) /\ Managed(g)' = Managed(g)
        /\ GenerationChanged(gatewayCache[g], gateways[g])'
             = GenerationChanged(gatewayCache[g], gateways[g])
    BY <2>2, SpentStays DEF Managed, GenerationChanged
  <2>5. used["class"] = 0 /\ Managed(g) => g \in gatewayQ' \/ gw' = g
                                           \/ GenerationChanged(gatewayCache[g], gateways[g])
    BY <2>2, <2>3 DEF GatewayServed
  <2> QED
    BY <2>2, <2>4, <2>5 DEF GatewayServed
<1>2. CASE WriteGateway
  <2>1. gw \in Gateways /\ gwSt \in GatewayStatuses
    BY <1>2 DEF WriteGateway, TypeOK
  <2>2. /\ gatewayCache' = gatewayCache /\ gatewayQ' = gatewayQ \cup {gw}
        /\ gateways'[g].exists = gateways[g].exists /\ gateways'[g].gen = gateways[g].gen
        /\ gateways'[g].spec = gateways[g].spec
    BY <1>0, <1>2, <2>1, ServedFields DEF WriteGateway, GatewayReturns, caches
  <2>3. gateways[g].exists /\ used'["class"] = 0 /\ Managed(g)' => used["class"] = 0 /\ Managed(g)
    BY <2>2, SpentStays, ManagedStays
  <2> QED
    BY <2>2, <2>3 DEF GatewayServed, GenerationChanged, Managed
<1>3. CASE \E h \in Gateways : SyncGateway(h)
  <2>1. PICK h \in Gateways : SyncGateway(h)
    BY <1>3
  <2>2. /\ gateways' = gateways /\ classes' = classes /\ gw' = gw
        /\ gatewayCache'[g] = IF h = g THEN gateways[g] ELSE gatewayCache[g]
        /\ g \in gatewayQ' <=>
             g \in gatewayQ \/ (h = g /\ GenerationChanged(gatewayCache[g], gateways[g]))
    BY <1>0, <2>1 DEF SyncGateway, store
  <2> QED
    BY <1>0, <2>2, SpentStays DEF GatewayServed, GenerationChanged, Managed
<1>4. CASE \E h \in Gateways : ChangeGateway(h)
  <2>1. PICK h \in Gateways : ChangeGateway(h)
    BY <1>4
  <2>2. /\ gatewayCache' = gatewayCache /\ gatewayQ' = gatewayQ /\ gw' = gw /\ classes' = classes
    BY <2>1 DEF ChangeGateway, caches, gwJob
  <2>3. \/ gateways'[g] = gateways[g]
        \/ ~gatewayCache[g].exists /\ gateways'[g].exists
        \/ /\ gateways[g].exists /\ gateways'[g].exists
           /\ gateways'[g].gen \in {gateways[g].gen, gateways[g].gen + 1}
           /\ gateways'[g].gen = gateways[g].gen =>
                gateways'[g].spec.class = gateways[g].spec.class
        \/ ~gateways'[g].exists
    <3>1. CASE h = g
      <4>1. GatewaySpecsOf[g] \subseteq GatewaySpecs
        BY SpecsAssumption
      <4>2. ASSUME NEW s \in GatewaySpecsOf[g], gateways' = [gateways EXCEPT ![g] = NewGateway(TRUE, s)]
            PROVE  gateways'[g].exists
        BY <1>0, <4>2, ServedFields
      <4>3. ASSUME gateways' = [gateways EXCEPT ![g] = NewGateway(FALSE, gateways[g].spec)]
            PROVE  ~gateways'[g].exists
        BY <1>0, <4>3, ServedFields
      <4>4. ASSUME NEW s \in GatewaySpecsOf[g],
                   gateways' = [gateways EXCEPT ![g] = EditedGateway(gateways[g], s)]
            PROVE  /\ gateways'[g].exists = gateways[g].exists
                   /\ gateways'[g].gen \in {gateways[g].gen, gateways[g].gen + 1}
                   /\ gateways'[g].gen = gateways[g].gen =>
                        gateways'[g].spec.class = gateways[g].spec.class
        BY <1>0, <4>1, <4>4, ServedFields
      <4> QED
        BY <2>1, <3>1, <4>2, <4>3, <4>4 DEF ChangeGateway
    <3>2. CASE h # g
      BY <1>0, <2>1, <3>2 DEF ChangeGateway
    <3> QED
      BY <3>1, <3>2
  <2> QED
    BY <1>0, <2>2, <2>3, SpentStays DEF GatewayServed, GenerationChanged, Managed
<1>5. CASE Crash
  BY <1>0, <1>5 DEF Crash, Existing, store, GatewayServed, GenerationChanged, Managed
<1>6. CASE /\ UNCHANGED <<gateways, gatewayCache, gw>> /\ gatewayQ \subseteq gatewayQ'
  <2>1. gateways[g].exists /\ used'["class"] = 0 /\ Managed(g)' => used["class"] = 0 /\ Managed(g)
    BY <1>6, SpentStays, ManagedStays
  <2> QED
    BY <1>6, <2>1 DEF GatewayServed, GenerationChanged, Managed
<1> QED
  BY <1>1, <1>2, <1>3, <1>4, <1>5, <1>6
     DEF Next, Reconcile, Environment, GatewayWorker, RouteWorker, store, caches, gwJob,
         ReconcileClass, ResolveTunnel, FetchRoute, CheckParent, ValidateParent, ResolveRefs,
         WriteRoute, SyncClass, SyncRoute, ChangeTunnel, ChangeClass, ChangeRoute,
         OtherController, ChangeRefs, vars

\* A route is on the queue, under reconciliation, or about to be queued.
RouteServed(r) ==
    /\ routes[r].exists =>
         r \in routeQ \/ rt = r \/ GenerationChanged(routeCache[r], routes[r])
    /\ routes[r].exists /\ routeCache[r].exists => routeCache[r].gen <= routes[r].gen

\* No step makes the controller of routes forget one.
LEMMA RouteStep ==
    ASSUME TypeOK, [Next]_vars, NEW r \in Routes, RouteServed(r)
    PROVE  RouteServed(r)'
<1>0. /\ routes \in [Routes -> RouteObjects] /\ routeCache \in [Routes -> RouteObjects]
      /\ routes[r] \in RouteObjects /\ routeCache[r] \in RouteObjects
      /\ routes[r].gen \in Nat /\ routeCache[r].gen \in Nat
      /\ routes[r].exists \in BOOLEAN /\ routeCache[r].exists \in BOOLEAN
  BY DEF TypeOK, RouteObjects
<1>1. CASE \E q \in Routes : FetchRoute(q)
  <2>1. PICK q \in Routes : FetchRoute(q)
    BY <1>1
  <2>2. /\ routes' = routes /\ routeCache' = routeCache /\ rt # r
        /\ \/ q # r /\ routeQ' = routeQ \ {q}
           \/ rt' = r
           \/ ~routeCache[r].exists
    BY <2>1, NoneAssumption DEF TypeOK, FetchRoute, store, caches
  <2> QED
    BY <1>0, <2>2 DEF RouteServed, GenerationChanged
<1>2. CASE WriteRoute
  <2>1. rt \in Routes
    BY <1>2 DEF WriteRoute, TypeOK
  <2>2. /\ routeCache' = routeCache /\ routeQ' = routeQ \cup {rt}
        /\ routes'[r].exists = routes[r].exists /\ routes'[r].gen = routes[r].gen
    BY <1>0, <1>2, <2>1, ServedFields DEF WriteRoute, RouteReturns, caches
  <2> QED
    BY <2>2 DEF RouteServed, GenerationChanged
<1>3. CASE \E q \in Routes : SyncRoute(q)
  <2>1. PICK q \in Routes : SyncRoute(q)
    BY <1>3
  <2>2. /\ routes' = routes /\ rt' = rt
        /\ routeCache'[r] = IF q = r THEN routes[r] ELSE routeCache[r]
        /\ r \in routeQ' <=>
             r \in routeQ \/ (q = r /\ GenerationChanged(routeCache[r], routes[r]))
    BY <1>0, <2>1 DEF SyncRoute, store
  <2> QED
    BY <1>0, <2>2 DEF RouteServed, GenerationChanged
<1>4. CASE \E q \in Routes : ChangeRoute(q) \/ OtherController(q)
  <2>1. PICK q \in Routes : ChangeRoute(q) \/ OtherController(q)
    BY <1>4
  <2>2. routeCache' = routeCache /\ routeQ' = routeQ /\ rt' = rt
    BY <2>1 DEF ChangeRoute, OtherController, caches, routeJob
  <2>3. \/ routes'[r] = routes[r]
        \/ ~routeCache[r].exists /\ routes'[r].exists
        \/ /\ routes[r].exists /\ routes'[r].exists
           /\ routes'[r].gen \in {routes[r].gen, routes[r].gen + 1}
        \/ ~routes'[r].exists
    <3>1. CASE q = r
      <4>1. RouteSpecsOf[r] \subseteq RouteSpecs
        BY SpecsAssumption
      <4>2. ASSUME NEW s \in RouteSpecsOf[r], routes' = [routes EXCEPT ![r] = NewRoute(TRUE, s)]
            PROVE  routes'[r].exists
        BY <1>0, <4>2, ServedFields
      <4>3. ASSUME routes' = [routes EXCEPT ![r] = NewRoute(FALSE, routes[r].spec)]
            PROVE  ~routes'[r].exists
        BY <1>0, <4>3, ServedFields
      <4>4. ASSUME NEW s \in RouteSpecsOf[r], routes' = [routes EXCEPT ![r] = EditedRoute(routes[r], s)]
            PROVE  /\ routes'[r].exists = routes[r].exists
                   /\ routes'[r].gen \in {routes[r].gen, routes[r].gen + 1}
        BY <1>0, <4>1, <4>4, ServedFields
      <4>5. ASSUME routes' = [routes EXCEPT ![r] = Noted(routes[r])]
            PROVE  routes'[r].exists = routes[r].exists /\ routes'[r].gen = routes[r].gen
        BY <1>0, <4>5, ServedFields
      <4> QED
        BY <2>1, <3>1, <4>2, <4>3, <4>4, <4>5 DEF ChangeRoute, OtherController
    <3>2. CASE q # r
      BY <1>0, <2>1, <3>2 DEF ChangeRoute, OtherController
    <3> QED
      BY <3>1, <3>2
  <2> QED
    BY <1>0, <2>2, <2>3 DEF RouteServed, GenerationChanged
<1>5. CASE Crash
  BY <1>0, <1>5 DEF Crash, Existing, store, RouteServed, GenerationChanged
<1>6. CASE UNCHANGED <<routes, routeCache, routeQ, rt>>
  BY <1>6 DEF RouteServed, GenerationChanged
<1> QED
  BY <1>1, <1>2, <1>3, <1>4, <1>5, <1>6
     DEF Next, Reconcile, Environment, GatewayWorker, RouteWorker, store, caches, routeJob,
         ReconcileClass, FetchGateway, ResolveTunnel, WriteGateway, CheckParent,
         ValidateParent, ResolveRefs, SyncClass, SyncGateway, ChangeTunnel, ChangeClass,
         ChangeGateway, ChangeRefs, vars

\* The inductive invariant: every object is in sight of its controller.
ServedInv ==
    /\ \A c \in Classes : ClassServed(c)
    /\ \A g \in Gateways : GatewayServed(g)
    /\ \A r \in Routes : RouteServed(r)

\* No class, Gateway or route of cfgate's is ever lost to the work queues, for
\* any number of them, with refused writes, failures, crashes and an event filter
\* that drops annotations and status: the safety half of the convergence the
\* runs check.
THEOREM ServedSafe == Spec => []NoneForgotten
<1>1. Init => ServedInv
  <2> SUFFICES ASSUME Init PROVE ServedInv
    OBVIOUS
  <2>1. TypeOK
    BY TypeInit
  <2>2. \A c \in Classes : ClassServed(c)
    BY <2>1 DEF Init, ClassServed, Existing, TypeOK, ClassObjects
  <2>3. \A g \in Gateways : GatewayServed(g)
    BY <2>1 DEF Init, GatewayServed, Managed, Existing, TypeOK, GatewayObjects
  <2>4. \A r \in Routes : RouteServed(r)
    BY <2>1 DEF Init, RouteServed, Existing, TypeOK, RouteObjects
  <2> QED
    BY <2>2, <2>3, <2>4 DEF ServedInv
<1>2. TypeOK /\ ServedInv /\ [Next]_vars => ServedInv'
  BY ClassStep, GatewayStep, RouteStep DEF ServedInv
<1>3. ServedInv => NoneForgotten
  BY ClassesAssumption
     DEF ServedInv, NoneForgotten, ClassServed, GatewayServed, RouteServed
<1> QED
  BY <1>1, <1>2, <1>3, TypeCorrect, PTL DEF Spec
=============================================================================
