---------------------------- MODULE GatewayRoutes ----------------------------
(***************************************************************************)
(* The reconcilers that report on Gateway API objects: GatewayClass and    *)
(* Gateway (internal/controller/gateway_controller.go) and HTTPRoute       *)
(* (internal/controller/httproute_controller.go).                          *)
(*                                                                         *)
(* Three workers run concurrently, each on a queue of its own, and read    *)
(* the same lagging informer caches.  They write statuses only, each from  *)
(* the copy its reconcile began with, and the API server refuses a write   *)
(* from a copy that is no longer current.  Other controllers (a service    *)
(* mesh) write to the status of the same routes.                           *)
(***************************************************************************)
EXTENDS Naturals, FiniteSets

CONSTANTS
    Classes,       \* GatewayClasses
    Ours,          \* those with cfgate's controllerName
    Gateways,
    Listeners,     \* names of listeners
    Routes,        \* HTTPRoutes
    Away,          \* routes in another namespace than the Gateways
    Tunnels,       \* CloudflareTunnels
    Services,      \* backend Services
    Policies,      \* CloudflareAccessPolicies
    GatewaySpecsOf, RouteSpecsOf, \* what users may ask for
    None,
    Bound          \* how often each kind of event may happen in a behaviour

Kinds == {"fault", "crash", "class", "gateway", "route", "tunnel", "refs", "other", "any"}

\* spec.parentRefs; a reference may name a listener (sectionName).
Refs == [gw: Gateways, section: Listeners \cup {None}]

\* class and listeners are in the spec, the tunnel reference is an annotation,
\* which does not count for the generation.  A listener is missing, or takes
\* routes from its own namespace or from all.
GatewaySpecs == [class: Classes, listeners: [Listeners -> {None, "same", "all"}],
                 tunnelRef: Tunnels \cup {None, "malformed"}]

\* The access policy is an annotation too.
RouteSpecs == [refs: SUBSET Refs, backends: SUBSET Services, policy: Policies \cup {None}]

ASSUME SpecsAssumption ==
    /\ GatewaySpecsOf \in [Gateways -> SUBSET GatewaySpecs]
    /\ RouteSpecsOf \in [Routes -> SUBSET RouteSpecs]
ASSUME ClassesAssumption == Ours \subseteq Classes /\ Away \subseteq Routes
ASSUME FiniteAssumption == IsFiniteSet(Routes) /\ IsFiniteSet(Refs)
ASSUME NoneAssumption ==
    /\ None \notin BOOLEAN /\ None \notin Nat
    /\ None \notin Tunnels /\ None \notin Gateways /\ None \notin Routes
ASSUME BoundAssumption == Bound \in [Kinds -> Nat]

VARIABLES
    classes, gateways, routes,             \* the objects on the API server
    classCache, gatewayCache, routeCache,  \* the informers' copies
    tunnels,       \* status.tunnelId of each tunnel, 0 while pending
    services,      \* the Services that exist
    policies,      \* the CloudflareAccessPolicies that exist
    classQ, gatewayQ, routeQ,              \* the work queues
    gw, gwPc, gwMem,    \* the Gateway, the next step, the Gateway as read
    gwSt,          \* its status in memory
    rt, rtPc, rtMem,    \* the route, the next step, the route as read
    todo,          \* the parentRefs not visited yet
    ref,           \* the parentRef under validation
    entries,       \* cfgate's entries for status.parents
    used

store    == <<classes, gateways, routes>>
caches   == <<classCache, gatewayCache, routeCache>>
world    == <<tunnels, services, policies>>
gwJob    == <<gatewayQ, gw, gwPc, gwMem, gwSt>>
routeJob == <<routeQ, rt, rtPc, rtMem, todo, ref, entries>>
vars == <<store, caches, world, classQ, gwJob, routeJob, used>>

-----------------------------------------------------------------------------
(* Types *)

\* observed is the generation of an Accepted condition, 0 without one.
ClassObjects == [exists: BOOLEAN, gen: Nat, observed: Nat]

GatewayReasons == {None, "MissingTunnelRef", "TunnelNotFound", "TunnelReady", "TunnelPending"}

GatewayStatuses == [accepted: GatewayReasons, acceptedGen: Nat,
                    programmed: {None, "True", "False"}, programmedGen: Nat,
                    address: Nat,                         \* of tunnel id, 0 for none
                    attached: [Listeners -> Nat \cup {None}]]

GatewayObjects == [exists: BOOLEAN, gen: Nat, spec: GatewaySpecs, status: GatewayStatuses]

RouteReasons == {"Accepted", "NoMatchingParent", "NoTunnelRef", "NotAllowedByListeners",
                 "NoMatchingListenerHostname"}

\* An entry of status.parents: Accepted, ResolvedRefs and AccessPolicyResolved
\* (None: no such condition) and their observedGeneration.
Entries == [accepted: RouteReasons, resolved: BOOLEAN \cup {None},
            policy: BOOLEAN \cup {None}, gen: Nat]

\* parents are cfgate's entries, others a version of those of other controllers.
RouteObjects == [exists: BOOLEAN, gen: Nat, spec: RouteSpecs,
                 parents: [Refs -> Entries \cup {None}], others: Nat]

TypeOK ==
    /\ classes \in [Classes -> ClassObjects] /\ classCache \in [Classes -> ClassObjects]
    /\ gateways \in [Gateways -> GatewayObjects] /\ gatewayCache \in [Gateways -> GatewayObjects]
    /\ routes \in [Routes -> RouteObjects] /\ routeCache \in [Routes -> RouteObjects]
    /\ tunnels \in [Tunnels -> Nat \cup {None}]
    /\ services \in SUBSET Services /\ policies \in SUBSET Policies
    /\ classQ \in SUBSET Classes /\ gatewayQ \in SUBSET Gateways /\ routeQ \in SUBSET Routes
    /\ gwPc \in {"idle", "tunnel", "write"}
    /\ IF gwPc = "idle" THEN gw = None /\ gwMem = None
       ELSE gw \in Gateways /\ gwMem \in GatewayObjects
    /\ IF gwPc = "write" THEN gwSt \in GatewayStatuses ELSE gwSt = None
    /\ rtPc \in {"idle", "parents", "validate", "write"}
    /\ IF rtPc = "idle" THEN rt = None /\ rtMem = None
       ELSE rt \in Routes /\ rtMem \in RouteObjects
    /\ todo \in SUBSET Refs
    /\ IF rtPc = "validate" THEN ref \in todo ELSE ref = None
    /\ entries \in [Refs -> Entries \cup {None}]
    /\ used \in [Kinds -> Nat]

-----------------------------------------------------------------------------
(* Initial states: every object is there or is yet to be created. *)

NoGatewayStatus ==
    [accepted |-> None, acceptedGen |-> 0, programmed |-> None, programmedGen |-> 0,
     address |-> 0, attached |-> [l \in Listeners |-> None]]
NoParents == [p \in Refs |-> None]

NewClass(e) == [exists |-> e, gen |-> 1, observed |-> 0]
NewGateway(e, s) == [exists |-> e, gen |-> 1, spec |-> s, status |-> NoGatewayStatus]
NewRoute(e, s) == [exists |-> e, gen |-> 1, spec |-> s, parents |-> NoParents, others |-> 0]

GatewayIdle == gw = None /\ gwPc = "idle" /\ gwMem = None /\ gwSt = None
RouteIdle ==
    /\ rt = None /\ rtPc = "idle" /\ rtMem = None
    /\ todo = {} /\ ref = None /\ entries = NoParents

Existing(objects) == {o \in DOMAIN objects : objects[o].exists}

Init ==
    /\ \E there \in SUBSET Classes : classes = [c \in Classes |-> NewClass(c \in there)]
    /\ \E there \in SUBSET Gateways, f \in [Gateways -> GatewaySpecs] :
         /\ \A g \in Gateways : f[g] \in GatewaySpecsOf[g]
         /\ gateways = [g \in Gateways |-> NewGateway(g \in there, f[g])]
    /\ \E there \in SUBSET Routes, f \in [Routes -> RouteSpecs] :
         /\ \A r \in Routes : f[r] \in RouteSpecsOf[r]
         /\ routes = [r \in Routes |-> NewRoute(r \in there, f[r])]
    /\ classCache = classes /\ gatewayCache = gateways /\ routeCache = routes
    /\ tunnels = [t \in Tunnels |-> 0]
    /\ services = Services /\ policies = Policies
    /\ classQ = Existing(classes) /\ gatewayQ = Existing(gateways) /\ routeQ = Existing(routes)
    /\ GatewayIdle /\ RouteIdle
    /\ used = [k \in Kinds |-> 0]

-----------------------------------------------------------------------------
(* Helpers *)

Spend(k) ==
    /\ used[k] < Bound[k] /\ used["any"] < Bound["any"]
    /\ used' = [used EXCEPT ![k] = @ + 1, !["any"] = @ + 1]

\* Reconcile returns; an error and RequeueAfter put the key back on the queue.
GatewayRests == gw' = None /\ gwPc' = "idle" /\ gwMem' = None /\ gwSt' = None
GatewayReturns == gatewayQ' = gatewayQ \cup {gw} /\ GatewayRests

RouteRests ==
    /\ rt' = None /\ rtPc' = "idle" /\ rtMem' = None
    /\ todo' = {} /\ ref' = None /\ entries' = NoParents
RouteReturns == routeQ' = routeQ \cup {rt} /\ RouteRests

\* An object after a status write and after an edit that leaves its data alone.
Observing(c, n) == [c EXCEPT !.observed = n]
Reporting(g, s) == [g EXCEPT !.status = s]
Touched(c) == [c EXCEPT !.gen = c.gen + 1]
Noted(r) == [r EXCEPT !.others = r.others + 1]

\* The class of a Gateway, as the informers know both, is cfgate's.
IsOurs(g) == g.spec.class \in Ours /\ classCache[g.spec.class].exists

-----------------------------------------------------------------------------
(* GatewayClassReconciler *)

\* Whether the copy already says Accepted=True at its generation.
\* Mutant: the generation is not looked at.
AcceptedOnce(c) == c.observed # 0
Accepted(c) == c.observed = c.gen

\* One read of the informer's copy and at most one write, refused when the
\* copy is not current.  A class of another controller leaves the queue.
ReconcileClass(c) ==
    LET mine == c \in Ours /\ classCache[c].exists
        stale == classCache[c] # classes[c] IN
    /\ c \in classQ
    /\ \/ /\ mine /\ ~Accepted(classCache[c]) /\ ~stale
          /\ classes' = [classes EXCEPT ![c] = Observing(classes[c], classCache[c].gen)]
          /\ UNCHANGED <<classQ, used>>
       \/ mine /\ Accepted(classCache[c]) /\ UNCHANGED <<classes, classQ, used>>
       \/ mine /\ ~Accepted(classCache[c]) /\ stale /\ UNCHANGED <<classes, classQ, used>>
       \/ mine /\ ~Accepted(classCache[c]) /\ Spend("fault") /\ UNCHANGED <<classes, classQ>>
       \/ ~mine /\ classQ' = classQ \ {c} /\ UNCHANGED <<classes, used>>
    /\ UNCHANGED <<gateways, routes, caches, world, gwJob, routeJob>>

-----------------------------------------------------------------------------
(* GatewayReconciler *)

\* A Gateway that is gone, or whose class is another controller's or does not
\* exist, is dropped without a requeue.
FetchGateway(g) ==
    LET mine == gatewayCache[g].exists /\ IsOurs(gatewayCache[g]) IN
    /\ gwPc = "idle" /\ g \in gatewayQ
    /\ \/ ~mine /\ gatewayQ' = gatewayQ \ {g} /\ UNCHANGED <<gw, gwPc, gwMem>>
       \/ /\ mine /\ gatewayQ' = gatewayQ \ {g}
          /\ gw' = g /\ gwPc' = "tunnel" /\ gwMem' = gatewayCache[g]
    /\ UNCHANGED <<store, caches, world, classQ, gwSt, routeJob, used>>

\* countAttachedRoutes: every parentRef, accepted or not, counts.  (The list
\* comes from the informer and does not fail.)
AttachedRoutes(g, l) ==
    Cardinality({x \in Routes \X Refs :
        /\ routeCache[x[1]].exists /\ x[2] \in routeCache[x[1]].spec.refs
        /\ x[2].gw = g /\ x[2].section \in {None, l}})

\* setGatewayCondition(Accepted, ...).
SetAccepted(s, reason) == [s EXCEPT !.accepted = reason, !.acceptedGen = gwMem.gen]

\* updateGatewayStatus for a tunnel with identifier id; domain and identifier
\* are written together, a pending tunnel has neither.
StatusFor(id) ==
    [accepted |-> IF id # 0 THEN "TunnelReady" ELSE "TunnelPending",
     acceptedGen |-> gwMem.gen,
     programmed |-> IF id # 0 THEN "True" ELSE "False",
     programmedGen |-> gwMem.gen,
     address |-> IF id # 0 THEN id ELSE gwMem.status.address,
     attached |-> [l \in Listeners |->
        IF gwMem.spec.listeners[l] = None THEN None ELSE AttachedRoutes(gw, l)]]

\* resolveTunnel finds the tunnel.
\* Mutant: an error of the lookup is not looked at.
ResolvesNamed(t) == t \in Tunnels
Resolves(t) == t \in Tunnels /\ tunnels[t] # None

ResolveTunnel ==
    LET t == gwMem.spec.tunnelRef IN
    /\ gwPc = "tunnel"
    /\ \/ t = None /\ gwSt' = SetAccepted(gwMem.status, "MissingTunnelRef") /\ UNCHANGED used
       \/ /\ t # None /\ ~Resolves(t)
          /\ gwSt' = SetAccepted(gwMem.status, "TunnelNotFound") /\ UNCHANGED used
       \/ Resolves(t) /\ gwSt' = StatusFor(tunnels[t]) /\ UNCHANGED used
       \/ /\ t # None /\ gwSt' = SetAccepted(gwMem.status, "TunnelNotFound")
          /\ Spend("fault")
    /\ gwPc' = "write"
    /\ UNCHANGED <<store, caches, world, classQ, routeJob, gatewayQ, gw, gwMem>>

\* Status().Update, refused when the copy is not current; an error is logged.
\* Mutant: after a refused write the Gateway is not looked at again.
WriteGatewayOnce ==
    /\ gwPc = "write"
    /\ \/ /\ gwMem = gateways[gw]
          /\ gateways' = [gateways EXCEPT ![gw] = Reporting(gateways[gw], gwSt)]
          /\ GatewayReturns
       \/ gwMem # gateways[gw] /\ GatewayRests /\ UNCHANGED <<gateways, gatewayQ>>
    /\ UNCHANGED <<classes, routes, caches, world, classQ, routeJob, used>>

WriteGateway ==
    /\ gwPc = "write"
    /\ \/ /\ gwMem = gateways[gw]
          /\ gateways' = [gateways EXCEPT ![gw] = Reporting(gateways[gw], gwSt)]
          /\ UNCHANGED used
       \/ gwMem # gateways[gw] /\ UNCHANGED <<gateways, used>>
       \/ Spend("fault") /\ UNCHANGED gateways
    /\ GatewayReturns
    /\ UNCHANGED <<classes, routes, caches, world, classQ, routeJob>>

-----------------------------------------------------------------------------
(* HTTPRouteReconciler *)

FetchRoute(r) ==
    /\ rtPc = "idle" /\ r \in routeQ
    /\ routeQ' = routeQ \ {r}
    /\ \/ ~routeCache[r].exists /\ UNCHANGED <<rt, rtPc, rtMem, todo>>
       \/ /\ routeCache[r].exists
          /\ rt' = r /\ rtPc' = "parents" /\ rtMem' = routeCache[r]
          /\ todo' = routeCache[r].spec.refs
    /\ UNCHANGED <<store, caches, world, classQ, gwJob, ref, entries, used>>

\* isCfgateParentRef: a Gateway that is missing or of another class is
\* skipped, and so is one that cannot be read.
IsCfgateParentRef(p) == gatewayCache[p.gw].exists /\ IsOurs(gatewayCache[p.gw])

CheckParent ==
    /\ rtPc = "parents"
    /\ \E p \in todo :
         \/ /\ IsCfgateParentRef(p)
            /\ rtPc' = "validate" /\ ref' = p
            /\ UNCHANGED <<todo, used>>
         \/ /\ ~IsCfgateParentRef(p)
            /\ todo' = todo \ {p}
            /\ UNCHANGED <<rtPc, ref, used>>
         \/ /\ Spend("fault")
            /\ todo' = todo \ {p}
            /\ UNCHANGED <<rtPc, ref>>
    /\ UNCHANGED <<store, caches, world, classQ, gwJob, routeQ, rt, rtMem, entries>>

\* validateParentRef reads the Gateway and its class again.
ParentReason(p) ==
    LET g == gatewayCache[p.gw] IN
    CASE ~g.exists \/ ~IsOurs(g) -> "NoMatchingParent"
      [] g.exists /\ IsOurs(g) /\ g.spec.tunnelRef = None -> "NoTunnelRef"
      [] g.exists /\ IsOurs(g) /\ g.spec.tunnelRef # None ->
           IF p.section = None THEN "Accepted"
           ELSE CASE g.spec.listeners[p.section] = None -> "NoMatchingListenerHostname"
                  [] g.spec.listeners[p.section] = "same" ->
                       IF rt \in Away THEN "NotAllowedByListeners" ELSE "Accepted"
                  [] g.spec.listeners[p.section] = "all" -> "Accepted"

Validated(reason) ==
    [accepted |-> reason, resolved |-> None, policy |-> None, gen |-> rtMem.gen]

\* A Gateway that cannot be read leaves the route accepted, its class does not.
ValidateParent ==
    /\ rtPc = "validate"
    /\ \/ entries' = [entries EXCEPT ![ref] = Validated(ParentReason(ref))] /\ UNCHANGED used
       \/ /\ \E e \in {"Accepted", "NoMatchingParent"} :
               entries' = [entries EXCEPT ![ref] = Validated(e)]
          /\ Spend("fault")
    /\ rtPc' = "parents" /\ todo' = todo \ {ref} /\ ref' = None
    /\ UNCHANGED <<store, caches, world, classQ, gwJob, routeQ, rt, rtMem>>

\* resolveBackends and resolveAccessPolicy; a Service or a policy that cannot
\* be read does not resolve.
BackendsResolve == rtMem.spec.backends \subseteq services
PolicyResolves ==
    IF rtMem.spec.policy = None THEN None ELSE rtMem.spec.policy \in policies

\* MergeConditions into each of cfgate's entries.
Merged(resolved, policy) ==
    [p \in Refs |-> IF entries[p] = None THEN None
                    ELSE [entries[p] EXCEPT !.resolved = resolved, !.policy = policy]]

ResolveRefs ==
    /\ rtPc = "parents" /\ todo = {}
    /\ \/ entries' = Merged(BackendsResolve, PolicyResolves) /\ UNCHANGED used
       \/ entries' = Merged(FALSE, PolicyResolves) /\ Spend("fault")
       \/ /\ rtMem.spec.policy # None
          /\ entries' = Merged(BackendsResolve, FALSE)
          /\ Spend("fault")
    /\ rtPc' = "write"
    /\ UNCHANGED <<store, caches, world, classQ, gwJob, routeQ, rt, rtMem, todo, ref>>

\* status.parents: the entries of others as read, followed by cfgate's.
\* Mutant: cfgate's entries alone.
OwnEntries(r) == [r EXCEPT !.parents = entries, !.others = 0]
WithEntries(r) == [r EXCEPT !.parents = entries, !.others = rtMem.others]

\* Mutant: the write does not depend on the copy.
PatchRoute ==
    /\ rtPc = "write"
    /\ routes' = [routes EXCEPT ![rt] =
         IF @.exists THEN [@ EXCEPT !.parents = entries] ELSE @]
    /\ RouteReturns
    /\ UNCHANGED <<classes, gateways, caches, world, classQ, gwJob, used>>

\* Mutant: after a refused write the route is not looked at again.
WriteRouteOnce ==
    /\ rtPc = "write"
    /\ \/ /\ rtMem = routes[rt]
          /\ routes' = [routes EXCEPT ![rt] = WithEntries(routes[rt])]
          /\ RouteReturns
       \/ rtMem # routes[rt] /\ RouteRests /\ UNCHANGED <<routes, routeQ>>
    /\ UNCHANGED <<classes, gateways, caches, world, classQ, gwJob, used>>

WriteRoute ==
    /\ rtPc = "write"
    /\ \/ /\ rtMem = routes[rt]
          /\ routes' = [routes EXCEPT ![rt] = WithEntries(routes[rt])]
          /\ UNCHANGED used
       \/ rtMem # routes[rt] /\ UNCHANGED <<routes, used>>
       \/ Spend("fault") /\ UNCHANGED routes
    /\ RouteReturns
    /\ UNCHANGED <<classes, gateways, caches, world, classQ, gwJob>>

-----------------------------------------------------------------------------
(* Informers and the predicates on their events *)

\* GenerationChangedPredicate, which lets creations and deletions pass.
GenerationChanged(old, new) == old.exists # new.exists \/ old.gen # new.gen

SyncClass(c) ==
    /\ classCache[c] # classes[c]
    /\ classCache' = [classCache EXCEPT ![c] = classes[c]]
    /\ classQ' = IF GenerationChanged(classCache[c], classes[c]) THEN classQ \cup {c} ELSE classQ
    /\ UNCHANGED <<store, gatewayCache, routeCache, world, gwJob, routeJob, used>>

\* The routes that refer to the Gateway are enqueued as well
\* (findRoutesForGateway), but the requeue after every reconcile has already
\* put them on their queue.
SyncGateway(g) ==
    /\ gatewayCache[g] # gateways[g]
    /\ gatewayCache' = [gatewayCache EXCEPT ![g] = gateways[g]]
    /\ gatewayQ' = IF GenerationChanged(gatewayCache[g], gateways[g])
                   THEN gatewayQ \cup {g} ELSE gatewayQ
    /\ UNCHANGED <<store, classCache, routeCache, world, classQ, gw, gwPc, gwMem, gwSt,
                   routeJob, used>>

SyncRoute(r) ==
    /\ routeCache[r] # routes[r]
    /\ routeCache' = [routeCache EXCEPT ![r] = routes[r]]
    /\ routeQ' = IF GenerationChanged(routeCache[r], routes[r]) THEN routeQ \cup {r} ELSE routeQ
    /\ UNCHANGED <<store, classCache, gatewayCache, world, classQ, gwJob, rt, rtPc, rtMem,
                   todo, ref, entries, used>>

\* TunnelIDChangedPredicate: a deletion does not pass, nor does the creation
\* of a tunnel without an identifier; an identifier set, changed or cleared does.
IDChanged(old, new) == new # None /\ ~(old = None /\ new = 0)

\* A tunnel is created or deleted, gets an identifier, another one or none.
\* findGatewaysForTunnel: the Gateways that refer to it are enqueued.
ChangeTunnel(t) ==
    /\ Spend("tunnel")
    /\ \E id \in {None, 0, used["any"] + 1} \ {tunnels[t]} :
         /\ tunnels' = [tunnels EXCEPT ![t] = id]
         /\ gatewayQ' = IF ~IDChanged(tunnels[t], id) THEN gatewayQ
                        ELSE gatewayQ \cup {g \in Gateways :
                                 /\ gatewayCache[g].exists
                                 /\ gatewayCache[g].spec.tunnelRef = t}
    /\ UNCHANGED <<store, caches, services, policies, classQ, gw, gwPc, gwMem, gwSt, routeJob>>

-----------------------------------------------------------------------------
(* Users, other controllers, the process *)

\* A class is created, edited or deleted.
ChangeClass(c) ==
    /\ Spend("class")
    /\ \/ /\ ~classes[c].exists /\ classCache[c] = classes[c]
          /\ classes' = [classes EXCEPT ![c] = NewClass(TRUE)]
       \/ /\ classes[c].exists
          /\ \/ classes' = [classes EXCEPT ![c] = Touched(classes[c])]
             \/ classes' = [classes EXCEPT ![c] = NewClass(FALSE)]
    /\ UNCHANGED <<gateways, routes, caches, world, classQ, gwJob, routeJob>>

\* A Gateway with another spec; its annotation alone leaves the generation.
EditedGateway(g, s) ==
    [g EXCEPT !.spec = s,
              !.gen = IF s.class = g.spec.class /\ s.listeners = g.spec.listeners
                      THEN g.gen ELSE g.gen + 1]

ChangeGateway(g) ==
    /\ Spend("gateway")
    /\ \/ /\ ~gateways[g].exists /\ gatewayCache[g] = gateways[g]
          /\ \E s \in GatewaySpecsOf[g] :
               gateways' = [gateways EXCEPT ![g] = NewGateway(TRUE, s)]
       \/ /\ gateways[g].exists
          /\ \/ \E s \in GatewaySpecsOf[g] \ {gateways[g].spec} :
                  gateways' = [gateways EXCEPT ![g] = EditedGateway(gateways[g], s)]
             \/ gateways' = [gateways EXCEPT ![g] = NewGateway(FALSE, gateways[g].spec)]
    /\ UNCHANGED <<classes, routes, caches, world, classQ, gwJob, routeJob>>

EditedRoute(r, s) ==
    [r EXCEPT !.spec = s,
              !.gen = IF s.refs = r.spec.refs /\ s.backends = r.spec.backends
                      THEN r.gen ELSE r.gen + 1]

ChangeRoute(r) ==
    /\ Spend("route")
    /\ \/ /\ ~routes[r].exists /\ routeCache[r] = routes[r]
          /\ \E s \in RouteSpecsOf[r] : routes' = [routes EXCEPT ![r] = NewRoute(TRUE, s)]
       \/ /\ routes[r].exists
          /\ \/ \E s \in RouteSpecsOf[r] \ {routes[r].spec} :
                  routes' = [routes EXCEPT ![r] = EditedRoute(routes[r], s)]
             \/ routes' = [routes EXCEPT ![r] = NewRoute(FALSE, routes[r].spec)]
    /\ UNCHANGED <<classes, gateways, caches, world, classQ, gwJob, routeJob>>

\* Another controller reports on a route.
OtherController(r) ==
    /\ routes[r].exists
    /\ Spend("other")
    /\ routes' = [routes EXCEPT ![r] = Noted(routes[r])]
    /\ UNCHANGED <<classes, gateways, caches, world, classQ, gwJob, routeJob>>

\* Services and access policies come and go, as the informers know them.
ChangeRefs ==
    /\ Spend("refs")
    /\ \/ services' \in (SUBSET Services) \ {services} /\ UNCHANGED policies
       \/ policies' \in (SUBSET Policies) \ {policies} /\ UNCHANGED services
    /\ UNCHANGED <<store, caches, tunnels, classQ, gwJob, routeJob>>

\* The process dies and restarts: the informers list everything again.
Crash ==
    /\ Spend("crash")
    /\ classCache' = classes /\ gatewayCache' = gateways /\ routeCache' = routes
    /\ classQ' = Existing(classes) /\ gatewayQ' = Existing(gateways)
    /\ routeQ' = Existing(routes)
    /\ GatewayRests /\ RouteRests
    /\ UNCHANGED <<store, world>>

-----------------------------------------------------------------------------
GatewayWorker == ResolveTunnel \/ WriteGateway
RouteWorker == CheckParent \/ ValidateParent \/ ResolveRefs \/ WriteRoute

Reconcile ==
    \/ GatewayWorker \/ RouteWorker
    \/ \E c \in Classes : ReconcileClass(c)
    \/ \E g \in Gateways : FetchGateway(g)
    \/ \E r \in Routes : FetchRoute(r)

Environment ==
    \/ \E c \in Classes : SyncClass(c) \/ ChangeClass(c)
    \/ \E g \in Gateways : SyncGateway(g) \/ ChangeGateway(g)
    \/ \E r \in Routes : SyncRoute(r) \/ ChangeRoute(r) \/ OtherController(r)
    \/ \E t \in Tunnels : ChangeTunnel(t)
    \/ ChangeRefs \/ Crash

Next == Reconcile \/ Environment

Spec == Init /\ [][Next]_vars

\* Every worker finishes what it started, each queue, first in first out,
\* serves every key on it, and informers catch up.
Fairness ==
    /\ WF_vars(GatewayWorker) /\ WF_vars(RouteWorker)
    /\ \A c \in Classes : SF_vars(ReconcileClass(c)) /\ WF_vars(SyncClass(c))
    /\ \A g \in Gateways : SF_vars(FetchGateway(g)) /\ WF_vars(SyncGateway(g))
    /\ \A r \in Routes : SF_vars(FetchRoute(r)) /\ WF_vars(SyncRoute(r))

-----------------------------------------------------------------------------
(* Safety *)

\* The class of g exists and is cfgate's.
Managed(g) == gateways[g].exists /\ gateways[g].spec.class \in Ours
              /\ classes[gateways[g].spec.class].exists

\* A class of cfgate, a route, and a Gateway of a class that has been there all
\* along, is on its queue, under reconciliation, or an event the predicate lets
\* pass is to come: no refused write, error or skipped event makes a controller
\* forget it (the results of the three Reconcile, GenerationChangedPredicate).
NoneForgotten ==
    /\ \A c \in Ours : classes[c].exists =>
         c \in classQ \/ GenerationChanged(classCache[c], classes[c])
    /\ used["class"] = 0 => \A g \in Gateways : Managed(g) =>
         g \in gatewayQ \/ gw = g \/ GenerationChanged(gatewayCache[g], gateways[g])
    /\ \A r \in Routes : routes[r].exists =>
         r \in routeQ \/ rt = r \/ GenerationChanged(routeCache[r], routes[r])

(* What a step may never do *)

\* cfgate never changes or drops the entries other controllers keep in the
\* status of a route, however old the copy it writes from (the comment on
\* HTTPRouteReconciler.Reconcile, the Gateway API specification).
OthersKept ==
    [][Reconcile => \A r \in Routes : routes'[r].others = routes[r].others]_vars

\* What cfgate writes into a status is about the object as it is at that
\* moment, never about a spec, an annotation or an object that is gone.
RouteReported(r) ==
    LET new == routes'[r] IN
    /\ new.exists
    /\ \A p \in Refs : new.parents[p] # None =>
         /\ p \in new.spec.refs /\ new.parents[p].gen = new.gen
         /\ (new.parents[p].policy = None) = (new.spec.policy = None)
GatewayReported(g) ==
    LET new == gateways'[g] IN
    /\ new.exists /\ new.status.acceptedGen = new.gen
    /\ (new.status.accepted = "MissingTunnelRef") = (new.spec.tunnelRef = None)
    /\ new.status.accepted \in {"TunnelReady", "TunnelPending"} =>
         \A l \in Listeners :
            (new.status.attached[l] = None) = (new.spec.listeners[l] = None)

ReportsCurrent ==
    [][Reconcile =>
         /\ \A r \in Routes : routes'[r] # routes[r] => RouteReported(r)
         /\ \A g \in Gateways : gateways'[g] # gateways[g] => GatewayReported(g)]_vars

(* Liveness *)

\* A class of cfgate is accepted at its current generation.
ClassConverges ==
    <>[](\A c \in Ours : classes[c].exists => classes[c].observed = classes[c].gen)

\* What the status of a Gateway should say.
Attached(g, l) ==
    Cardinality({x \in Routes \X Refs :
        /\ routes[x[1]].exists /\ x[2] \in routes[x[1]].spec.refs
        /\ x[2].gw = g /\ x[2].section \in {None, l}})
GatewayCurrent(g) ==
    LET s == gateways[g].status
        t == gateways[g].spec.tunnelRef IN
    /\ s.acceptedGen = gateways[g].gen
    /\ s.accepted = IF t = None THEN "MissingTunnelRef"
                    ELSE IF ~Resolves(t) THEN "TunnelNotFound"
                    ELSE IF tunnels[t] = 0 THEN "TunnelPending" ELSE "TunnelReady"
    /\ t # None /\ Resolves(t) =>
         /\ s.programmed = IF tunnels[t] = 0 THEN "False" ELSE "True"
         /\ tunnels[t] # 0 => s.address = tunnels[t]
         /\ \A l \in Listeners : gateways[g].spec.listeners[l] # None =>
              s.attached[l] = Attached(g, l)

\* After the last disturbance the status of every Gateway of cfgate tells
\* about its tunnel and its routes, if the classes have been there all along.
GatewaysConverge ==
    <>[](used["class"] = 0 => \A g \in Gateways : Managed(g) => GatewayCurrent(g))

\* A route of another namespace that names no listener, while no listener of
\* the Gateway takes routes from all: validateParentRef accepts it, the docs
\* (gateway-api-primer.md) say that it cannot attach.
Disputed(r, p) ==
    /\ p.section = None /\ r \in Away
    /\ \A l \in Listeners : gateways[p.gw].spec.listeners[l] # "all"

\* What the status of a route should say.  Nothing is asked of Accepted where
\* code and docs disagree.
RouteCurrent(r) ==
    \A p \in Refs :
        LET e == routes[r].parents[p] IN
        IF p \notin routes[r].spec.refs \/ ~Managed(p.gw) THEN e = None
        ELSE LET g == gateways[p.gw].spec IN
             /\ e # None
             /\ e.gen = routes[r].gen
             /\ Disputed(r, p) \/
                  (e.accepted = "Accepted") =
                     /\ g.tunnelRef # None
                     /\ p.section # None => /\ g.listeners[p.section] # None
                                            /\ r \in Away => g.listeners[p.section] = "all"
             /\ e.resolved = (routes[r].spec.backends \subseteq services)
             /\ e.policy = IF routes[r].spec.policy = None THEN None
                           ELSE routes[r].spec.policy \in policies

\* After the last disturbance a route has an entry of cfgate for exactly the
\* parents cfgate is responsible for, and its conditions are right.
RoutesConverge ==
    <>[](\A r \in Routes : routes[r].exists => RouteCurrent(r))
=============================================================================
