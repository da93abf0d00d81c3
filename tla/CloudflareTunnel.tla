-------------------------- MODULE CloudflareTunnel --------------------------
(***************************************************************************)
(* The CloudflareTunnel reconciler                                         *)
(* (internal/controller/cloudflaretunnel_controller.go) working on one     *)
(* CloudflareTunnel resource.                                              *)
(*                                                                         *)
(* The API server holds the resource (obj).  The reconciler reads it from  *)
(* an informer cache that may lag (cache), keeps a private copy while it   *)
(* works (mem for metadata and spec, st for the status it is building),    *)
(* and writes back with patches and status updates.  Between any two of    *)
(* its API calls the user, the dashboard, the informers and the clock may  *)
(* step, and the process may crash.  One worker serves the key             *)
(* (MaxConcurrentReconciles is 1), so there is one reconcile at a time.    *)
(*                                                                         *)
(* Real time is abstracted: RequeueAfter puts the key back on the queue,   *)
(* served at any later moment; the 30-minute age of status.lastSyncTime    *)
(* and the 2-minute deletion budget become flags that time may flip.       *)
(***************************************************************************)
EXTENDS Naturals

CONSTANTS
    Names,      \* values of spec.tunnel.name
    Fallbacks,  \* values of spec.fallbackTarget
    RouteSets,  \* what the Gateways and HTTPRoutes of the tunnel may say
    TunnelIDs,  \* identifiers Cloudflare hands out
    None,       \* the empty string, the missing object
    Hash(_),    \* tunnelConfigHash, a digest of a configuration
    Bound       \* how often each kind of event may happen in a behaviour

Conditions == {"CredentialsValid", "TunnelReady", "CloudflaredDeployed",
               "ConfigurationSynced", "Ready"}

\* The kinds of events the environment has a budget for, and all of them.
Kinds == {"fault", "crash", "external", "routes", "replicas", "spec", "delete",
          "any"}

\* The configuration syncConfiguration builds: the rules of the routes and a
\* last catch-all rule whose service is the fallback target.
Config(r, f) == [rules |-> r, fallback |-> f]
Configs == [rules: RouteSets, fallback: Fallbacks]
Hashes == {Hash(c) : c \in Configs}

Specs == [name: Names, fallback: Fallbacks]

ASSUME BoundAssumption == Bound \in [Kinds -> Nat]
ASSUME NoneAssumption == None \notin TunnelIDs /\ None \notin Hashes

VARIABLES
    obj,         \* the resource on the API server
    cache,       \* the informer's copy of obj
    routes,      \* the Gateways and HTTPRoutes on the API server
    routesCache, \* the informer's copy of routes
    cf,          \* the tunnels of the Cloudflare account
    children,    \* the token Secret and the Deployment: the tunnel whose
                 \* token the Secret holds, the generation deployed
    childCache,  \* the informer's copy of children
    queued,      \* the key is on the work queue (or on its delay list)
    pc,          \* the next step of the reconcile under way
    guard,       \* this reconcile took the tunnelLifecycleUnchanged path
    mem,         \* the tunnel as read, or as the last response left it
    st,          \* tunnel.Status in memory
    want,        \* the configuration collected by this reconcile
    elapsed,     \* deletionRetryBudget has passed since deletion
    warned,      \* history: a TunnelOrphaned* warning was emitted
    created,     \* history: the tunnels this controller created
    pushed,      \* history: hashes of configurations Cloudflare accepted
    used         \* the events of each kind so far

server  == <<obj, routes, cf, children>>
informers == <<cache, routesCache, childCache>>
worker  == <<queued, pc, guard, mem, st, want>>
history == <<warned, created, pushed>>
vars == <<obj, cache, routes, routesCache, cf, children, childCache, queued,
          pc, guard, mem, st, want, elapsed, warned, created, pushed, used>>

-----------------------------------------------------------------------------
(* Types *)

Statuses == [tunnelID: TunnelIDs \cup {None},
             observedGen: Nat,
             conds: [Conditions -> {"None", "True", "False"}],
             fresh: BOOLEAN]      \* lastSyncTime is set and < 30 minutes old

Objects == [exists: BOOLEAN, deleting: BOOLEAN, finalizer: BOOLEAN,
            orphan: BOOLEAN,      \* cfgate.io/deletion-policy: orphan
            gen: Nat \ {0}, spec: Specs,
            hash: Hashes \cup {None},    \* cfgate.io/config-hash
            status: Statuses]

\* A tunnel of the account; config None is the one a new tunnel starts with.
Tunnels == [state: {"unused", "live", "deleted"},
            name: Names \cup {None},
            config: Configs \cup {None}]

Steps == {"idle", "finalize", "validate", "ensure", "create", "secret",
          "deployment", "collect", "push", "clear", "patch", "status",
          "delete", "unfinalize"}

ChildStates == [secret: TunnelIDs \cup {None}, deployment: Nat]

TypeOK ==
    /\ obj \in Objects /\ cache \in Objects
    /\ IF pc = "idle" THEN mem = None ELSE mem \in Objects
    /\ st \in Statuses
    /\ routes \in RouteSets /\ routesCache \in RouteSets
    /\ cf \in [TunnelIDs -> Tunnels]
    /\ children \in ChildStates /\ childCache \in ChildStates
    /\ pc \in Steps /\ guard \in BOOLEAN /\ queued \in BOOLEAN
    /\ want \in Configs \cup {None}
    /\ pc \in {"push", "clear", "patch"} => want \in Configs
    /\ elapsed \in BOOLEAN /\ warned \in BOOLEAN
    /\ created \in SUBSET TunnelIDs
    /\ pushed \in SUBSET Hashes
    /\ used \in [Kinds -> Nat]

-----------------------------------------------------------------------------
(* Initial states: the resource has just been created.  The account may    *)
(* already hold one tunnel, which the reconciler adopts if the name fits.  *)

NoStatus == [tunnelID |-> None, observedGen |-> 0,
             conds |-> [c \in Conditions |-> "None"], fresh |-> FALSE]

NewObject(spec) ==
    [exists |-> TRUE, deleting |-> FALSE, finalizer |-> FALSE, orphan |-> FALSE,
     gen |-> 1, spec |-> spec, hash |-> None, status |-> NoStatus]

Unused == [state |-> "unused", name |-> None, config |-> None]
Fresh(n) == [state |-> "live", name |-> n, config |-> None]
Live(i) == cf[i].state = "live"

Init ==
    /\ \E s \in Specs : obj = NewObject(s)
    /\ cache = obj
    /\ routes \in RouteSets /\ routesCache = routes
    /\ \E pre \in SUBSET TunnelIDs, n \in Names :
         /\ \A i, j \in pre : i = j
         /\ cf = [i \in TunnelIDs |-> IF i \in pre THEN Fresh(n) ELSE Unused]
    /\ children = [secret |-> None, deployment |-> 0]
    /\ childCache = children
    /\ queued = TRUE /\ pc = "idle" /\ guard = FALSE
    /\ mem = None /\ st = NoStatus /\ want = None
    /\ elapsed = FALSE /\ warned = FALSE /\ created = {} /\ pushed = {}
    /\ used = [k \in Kinds |-> 0]

-----------------------------------------------------------------------------
(* Helpers *)

Spend(k) ==
    /\ used[k] < Bound[k] /\ used["any"] < Bound["any"]
    /\ used' = [used EXCEPT ![k] = @ + 1, !["any"] = @ + 1]

\* Reconcile returns and its locals go out of scope.  An error, Requeue and
\* RequeueAfter all put the key back on the queue.
Return(requeue) ==
    /\ pc' = "idle" /\ queued' = requeue
    /\ guard' = FALSE /\ mem' = None /\ st' = NoStatus /\ want' = None

\* isTunnelHealthy, and the rest of tunnelLifecycleUnchanged.
Healthy(s) == s.tunnelID # None /\ s.conds["Ready"] = "True"
\* Mutant: lastSyncTime is not consulted.
LifecycleNoAge(o) == o.gen = o.status.observedGen /\ Healthy(o.status)
LifecycleUnchanged(o) ==
    /\ o.gen = o.status.observedGen
    /\ Healthy(o.status)
    /\ o.status.fresh

\* A failed phase of the full path: its condition and Ready go False.
Failed(s, c) == [s EXCEPT !.conds = [@ EXCEPT ![c] = "False", !["Ready"] = "False"]]
Passed(s, c) == [s EXCEPT !.conds = [@ EXCEPT ![c] = "True"]]
Fails(c) == st' = Failed(st, c) /\ pc' = "status"

\* What Reconcile does after syncConfiguration returned, with m and s the
\* tunnel and status the call left in memory.  The guard path touches only
\* ConfigurationSynced and lastSyncTime.
SyncOK(m, s) ==
    /\ pc' = "status"
    /\ st' = LET t == [Passed(s, "ConfigurationSynced") EXCEPT !.fresh = TRUE]
             IN  IF guard THEN t
                 ELSE [Passed(t, "Ready") EXCEPT !.observedGen = m.gen]

SyncError(s) ==
    /\ pc' = "status"
    /\ st' = IF guard
             THEN [s EXCEPT !.conds = [@ EXCEPT !["ConfigurationSynced"] = "False"],
                            !.fresh = TRUE]
             ELSE Failed(s, "ConfigurationSynced")

\* client.Patch decodes the server's answer into the tunnel in memory.  Every
\* status field is omitempty: the ones the server has replace those in
\* memory, the others keep what this reconcile had put there.  (lastSyncTime
\* is assigned again before it is next looked at.)
Decode(theirs, mine) ==
    [tunnelID |-> IF theirs.tunnelID # None THEN theirs.tunnelID ELSE mine.tunnelID,
     observedGen |-> IF theirs.observedGen # 0 THEN theirs.observedGen
                     ELSE mine.observedGen,
     conds |-> IF \E c \in Conditions : theirs.conds[c] # "None"
               THEN theirs.conds ELSE mine.conds,
     fresh |-> mine.fresh]

\* tunnelStatusEqual ignores lastSyncTime.
StatusEqual(a, b) ==
    /\ a.tunnelID = b.tunnelID
    /\ a.observedGen = b.observedGen
    /\ a.conds = b.conds

-----------------------------------------------------------------------------
(* Reconcile *)

\* Steps 1 and 2 of Reconcile: read the informer's copy and choose a path.
\* Mutant: the full path does not wait for the finalizer.
PathNoFinalizer(o) ==
    IF ~o.exists \/ (o.deleting /\ ~o.finalizer) THEN "idle"
    ELSE IF o.deleting THEN "delete"
    ELSE IF LifecycleUnchanged(o) THEN "collect" ELSE "validate"

Path(o) ==
    CASE ~o.exists \/ (o.deleting /\ ~o.finalizer) -> "idle"
      [] o.exists /\ o.deleting /\ o.finalizer     -> "delete"
      [] o.exists /\ ~o.deleting /\ ~o.finalizer   -> "finalize"
      [] o.exists /\ ~o.deleting /\ o.finalizer    ->
            IF LifecycleUnchanged(o) THEN "collect" ELSE "validate"

Fetch ==
    /\ pc = "idle" /\ queued
    /\ \/ Path(cache) = "idle" /\ Return(FALSE)
       \/ /\ Path(cache) # "idle"
          /\ queued' = FALSE /\ pc' = Path(cache)
          /\ guard' = (Path(cache) = "collect")
          /\ mem' = cache /\ st' = cache.status /\ want' = None
    /\ UNCHANGED <<server, informers, elapsed, history, used>>

\* The finalizer patch.  The server refuses it once the object is being
\* deleted or gone; any failure returns an error and the key is retried.
\* Mutant: the event of the patch is to bring the resource back.
AddFinalizerOnce ==
    /\ pc = "finalize" /\ obj.exists /\ ~obj.deleting
    /\ obj' = [obj EXCEPT !.finalizer = TRUE]
    /\ Return(FALSE)
    /\ UNCHANGED <<informers, routes, cf, children, elapsed, history, used>>

AddFinalizer ==
    /\ pc = "finalize"
    /\ \/ /\ obj.exists /\ ~obj.deleting
          /\ obj' = [obj EXCEPT !.finalizer = TRUE]
          /\ UNCHANGED used
       \/ ~(obj.exists /\ ~obj.deleting) /\ UNCHANGED <<obj, used>>
       \/ Spend("fault") /\ UNCHANGED obj
    /\ Return(TRUE)
    /\ UNCHANGED <<informers, routes, cf, children, elapsed, history>>

\* Step 3: the credentials Secret, the account and the token.
ValidateCredentials ==
    /\ pc = "validate"
    /\ \/ /\ st' = Passed(st, "CredentialsValid") /\ pc' = "ensure"
          /\ UNCHANGED used
       \/ Spend("fault") /\ Fails("CredentialsValid")
    /\ UNCHANGED <<server, informers, queued, guard, mem, want, elapsed, history>>

\* Step 4, TunnelService.EnsureTunnel: look the name up among the tunnels
\* that are not deleted, adopt the one found, create one otherwise.
\* Mutant: the name is stored where the identifier belongs.
AdoptedByName(i) == [Passed(st, "TunnelReady") EXCEPT !.tunnelID = cf[i].name]
Adopted(i) == [Passed(st, "TunnelReady") EXCEPT !.tunnelID = i]

\* Mutant: create without looking.
FindNothing ==
    /\ pc = "ensure"
    /\ pc' = "create"
    /\ UNCHANGED <<server, informers, queued, guard, mem, st, want, elapsed,
                   history, used>>

FindTunnel ==
    /\ pc = "ensure"
    /\ \/ /\ \E i \in TunnelIDs :
               /\ Live(i) /\ cf[i].name = mem.spec.name
               /\ st' = Adopted(i)
          /\ pc' = "secret"
          /\ UNCHANGED used
       \/ /\ \A i \in TunnelIDs : Live(i) => cf[i].name # mem.spec.name
          /\ pc' = "create"
          /\ UNCHANGED <<st, used>>
       \/ Spend("fault") /\ Fails("TunnelReady")
    /\ UNCHANGED <<server, informers, queued, guard, mem, want, elapsed, history>>

\* The request may succeed, fail, or succeed with its answer lost.
CreateTunnel ==
    /\ pc = "create"
    /\ \/ \E i \in TunnelIDs :
            /\ cf[i] = Unused
            /\ cf' = [cf EXCEPT ![i] = Fresh(mem.spec.name)]
            /\ created' = created \cup {i}
            /\ \/ st' = Adopted(i) /\ pc' = "secret" /\ UNCHANGED used
               \/ Spend("fault") /\ Fails("TunnelReady")
       \/ Spend("fault") /\ Fails("TunnelReady") /\ UNCHANGED <<cf, created>>
    /\ UNCHANGED <<obj, routes, children, informers, queued, guard, mem, want,
                   elapsed, warned, pushed>>

\* Step 5, deployCloudflared: a child is updated if the informer knows it (a
\* stale copy is a conflict), created if not; AlreadyExists counts as success
\* and leaves what is there.
Written(known, there, none, value) ==
    IF there = none THEN value
    ELSE IF known = none THEN there ELSE value
Conflict(known, there, none) == known # none /\ known # there

\* Mutant: a failed Secret is logged and the reconcile goes on.
WriteSecretNonFatal ==
    /\ pc = "secret"
    /\ \/ /\ Live(st.tunnelID)
          /\ children' = [children EXCEPT !.secret = st.tunnelID]
          /\ UNCHANGED used
       \/ Spend("fault") /\ UNCHANGED children
    /\ pc' = "deployment"
    /\ UNCHANGED <<obj, routes, cf, informers, queued, guard, mem, st, want,
                   elapsed, history>>

WriteSecret ==
    /\ pc = "secret"
    /\ \/ /\ Live(st.tunnelID)             \* GetToken
          /\ ~Conflict(childCache.secret, children.secret, None)
          /\ children' = [children EXCEPT !.secret =
                Written(childCache.secret, @, None, st.tunnelID)]
          /\ pc' = "deployment"
          /\ UNCHANGED <<st, used>>
       \/ /\ ~Live(st.tunnelID) \/ Conflict(childCache.secret, children.secret, None)
          /\ Fails("CloudflaredDeployed")
          /\ UNCHANGED <<children, used>>
       \/ Spend("fault") /\ Fails("CloudflaredDeployed") /\ UNCHANGED children
    /\ UNCHANGED <<obj, routes, cf, informers, queued, guard, mem, want,
                   elapsed, history>>

WriteDeployment ==
    /\ pc = "deployment"
    /\ \/ /\ ~Conflict(childCache.deployment, children.deployment, 0)
          /\ children' = [children EXCEPT !.deployment =
                Written(childCache.deployment, @, 0, mem.gen)]
          /\ st' = Passed(st, "CloudflaredDeployed")
          /\ pc' = "collect"
          /\ UNCHANGED used
       \/ /\ Conflict(childCache.deployment, children.deployment, 0)
          /\ Fails("CloudflaredDeployed")
          /\ UNCHANGED <<children, used>>
       \/ Spend("fault") /\ Fails("CloudflaredDeployed") /\ UNCHANGED children
    /\ UNCHANGED <<obj, routes, cf, informers, queued, guard, mem, want,
                   elapsed, history>>

\* What collectIngressRules finds in the caches, as a configuration.
Collected == Config(routesCache, mem.spec.fallback)

\* Step 6, syncConfiguration up to the config diff gate.  (Its check that
\* tunnelID is set never fires: both paths reach it with one.)
\* Mutant: any stored hash closes the gate.
CollectIfNoHash ==
    /\ pc = "collect"
    /\ want' = Collected
    /\ \/ mem.hash # None /\ SyncOK(mem, st)
       \/ mem.hash = None /\ pc' = "push" /\ UNCHANGED st
    /\ UNCHANGED <<server, informers, queued, guard, mem, elapsed, history, used>>

CollectIngressRules ==
    /\ pc = "collect"
    /\ want' = Collected
    /\ \/ /\ Hash(Collected) = mem.hash
          /\ SyncOK(mem, st)
          /\ UNCHANGED used
       \/ /\ Hash(Collected) # mem.hash
          /\ pc' = "push"
          /\ UNCHANGED <<st, used>>
       \/ Spend("fault") /\ SyncError(st)
    /\ UNCHANGED <<server, informers, queued, guard, mem, elapsed, history>>

\* UpdateConfiguration replaces the whole configuration.
\* Mutant: a failed update is logged and the hash stored all the same.
PushIgnoringErrors ==
    /\ pc = "push"
    /\ \/ /\ Live(st.tunnelID)
          /\ cf' = [cf EXCEPT ![st.tunnelID] = [@ EXCEPT !.config = want]]
          /\ pushed' = pushed \cup {Hash(want)}
          /\ UNCHANGED used
       \/ Spend("fault") /\ UNCHANGED <<cf, pushed>>
    /\ pc' = "patch"
    /\ UNCHANGED <<obj, routes, children, informers, queued, guard, mem, st, want,
                   elapsed, warned, created>>

PushConfiguration ==
    /\ pc = "push"
    /\ \/ /\ Live(st.tunnelID)
          /\ cf' = [cf EXCEPT ![st.tunnelID] = [@ EXCEPT !.config = want]]
          /\ pushed' = pushed \cup {Hash(want)}
          /\ \/ pc' = "patch" /\ UNCHANGED <<st, used>>
             \/ Spend("fault") /\ SyncError(st)
       \/ /\ ~Live(st.tunnelID)            \* 404
          /\ pc' = "clear"
          /\ UNCHANGED <<st, cf, pushed, used>>
       \/ Spend("fault") /\ SyncError(st) /\ UNCHANGED <<cf, pushed>>
    /\ UNCHANGED <<obj, routes, children, informers, queued, guard, mem, want,
                   elapsed, warned, created>>

\* The tunnel is gone: drop its identifier and write the status at once, from
\* the copy in memory (no re-read), so a newer object on the server is a
\* conflict; that failure is only logged.
ClearTunnelID ==
    /\ pc = "clear"
    /\ LET cleared == [st EXCEPT !.tunnelID = None] IN
       /\ SyncError(cleared)
       /\ \/ obj.exists /\ obj = mem /\ obj' = [obj EXCEPT !.status = cleared] /\ UNCHANGED used
          \/ ~(obj.exists /\ obj = mem) /\ UNCHANGED <<obj, used>>
          \/ Spend("fault") /\ UNCHANGED obj
    /\ UNCHANGED <<routes, cf, children, informers, queued, guard, mem, want,
                   elapsed, history>>

\* Store the hash.  A failure (the object is gone, an API error) is only
\* logged; success replaces mem and st by the server's answer.
PatchConfigHash ==
    /\ pc = "patch"
    /\ \/ /\ obj.exists
          /\ obj' = [obj EXCEPT !.hash = Hash(want)]
          /\ mem' = [obj EXCEPT !.hash = Hash(want)]
          /\ SyncOK(obj, Decode(obj.status, st))
          /\ UNCHANGED used
       \/ ~obj.exists /\ SyncOK(mem, st) /\ UNCHANGED <<obj, mem, used>>
       \/ Spend("fault") /\ SyncOK(mem, st) /\ UNCHANGED <<obj, mem>>
    /\ UNCHANGED <<routes, cf, children, informers, queued, guard, want,
                   elapsed, history>>

\* updateStatus: re-read from the API server, skip the write if nothing but
\* lastSyncTime changed, else replace the status.  The replica and route
\* counts, which the model leaves out, may force the write.
UpdateStatus ==
    /\ pc = "status"
    /\ \/ /\ obj.exists /\ ~StatusEqual(obj.status, st)
          /\ obj' = [obj EXCEPT !.status = st]
          /\ UNCHANGED used
       \/ /\ obj.exists /\ StatusEqual(obj.status, st)
          /\ Spend("replicas")
          /\ obj' = [obj EXCEPT !.status = st]
       \/ /\ ~obj.exists \/ StatusEqual(obj.status, st)
          /\ UNCHANGED <<obj, used>>
       \/ Spend("fault") /\ UNCHANGED obj
    /\ Return(TRUE)
    /\ UNCHANGED <<routes, cf, children, informers, elapsed, history>>

-----------------------------------------------------------------------------
(* reconcileDelete *)

\* Delete the tunnel unless the policy is orphan or no tunnel is known.  The
\* client may be unavailable (no credentials, primary or fallback, or no
\* account); the call may fail, or succeed with its answer lost; a tunnel
\* that is already gone counts as deleted.
Deleted(i) == IF Live(i) THEN [cf EXCEPT ![i] = [@ EXCEPT !.state = "deleted"]] ELSE cf

Unfinalize == pc' = "unfinalize" /\ UNCHANGED <<queued, guard, mem, st, want>>

\* Mutants: the policy is ignored; a failed call is not retried, nor reported;
\* a failed call is retried for ever.
DeleteAlways ==
    /\ pc = "delete"
    /\ cf' = IF st.tunnelID = None THEN cf ELSE Deleted(st.tunnelID)
    /\ Unfinalize
    /\ UNCHANGED <<obj, routes, children, informers, elapsed, history, used>>

DeleteOnce ==
    /\ pc = "delete"
    /\ cf' \in IF mem.orphan \/ st.tunnelID = None THEN {cf} ELSE {cf, Deleted(st.tunnelID)}
    /\ Unfinalize
    /\ UNCHANGED <<obj, routes, children, informers, elapsed, history, used>>

DeleteForever ==
    /\ pc = "delete"
    /\ \/ mem.orphan /\ Unfinalize /\ UNCHANGED cf
       \/ ~mem.orphan /\ st.tunnelID = None /\ Unfinalize /\ UNCHANGED cf
       \/ ~mem.orphan /\ st.tunnelID # None /\ cf' = Deleted(st.tunnelID) /\ Unfinalize
       \/ ~mem.orphan /\ st.tunnelID # None /\ Return(TRUE) /\ UNCHANGED cf
    /\ UNCHANGED <<obj, routes, children, informers, elapsed, history, used>>

DeleteTunnel ==
    /\ pc = "delete"
    /\ \/ /\ mem.orphan \/ st.tunnelID = None
          /\ Unfinalize
          /\ UNCHANGED <<cf, warned>>
       \/ /\ ~mem.orphan /\ st.tunnelID # None
          /\ cf' = Deleted(st.tunnelID)
          /\ Unfinalize
          /\ UNCHANGED warned
       \/ /\ ~mem.orphan /\ st.tunnelID # None         \* no client
          /\ warned' = TRUE
          /\ Unfinalize
          /\ UNCHANGED cf
       \/ /\ ~mem.orphan /\ st.tunnelID # None         \* the call failed
          /\ cf' \in {cf, Deleted(st.tunnelID)}
          /\ \/ ~elapsed /\ Return(TRUE) /\ UNCHANGED warned
             \/ elapsed /\ warned' = TRUE /\ Unfinalize
    /\ UNCHANGED <<obj, routes, children, informers, elapsed, created, pushed, used>>

\* With its last finalizer the object goes; a failure returns an error.
RemoveFinalizer ==
    /\ pc = "unfinalize"
    /\ \/ /\ obj.exists
          /\ obj' = [obj EXCEPT !.finalizer = FALSE, !.exists = FALSE]
          /\ Return(queued)
          /\ UNCHANGED used
       \/ ~obj.exists /\ Return(TRUE) /\ UNCHANGED <<obj, used>>
       \/ Spend("fault") /\ Return(TRUE) /\ UNCHANGED obj
    /\ UNCHANGED <<routes, cf, children, informers, elapsed, history>>

-----------------------------------------------------------------------------
(* The informers, the clock, the process *)

\* An informer event for the tunnel; GenerationOrDeletionPredicate lets
\* through creations, deletions, new generations and deletion timestamps.
Enqueues(old, new) ==
    \/ old.exists # new.exists
    \/ old.gen # new.gen
    \/ ~old.deleting /\ new.deleting

SyncCache ==
    /\ cache # obj
    /\ cache' = obj
    /\ queued' = (queued \/ Enqueues(cache, obj))
    /\ UNCHANGED <<server, routesCache, childCache, pc, guard, mem, st, want,
                   elapsed, history, used>>

\* Gateway and HTTPRoute events enqueue the tunnel only when the generation
\* changed: a change of annotations alone does not.
SyncRoutes ==
    /\ routesCache # routes
    /\ routesCache' = routes
    /\ queued' \in {queued, TRUE}
    /\ UNCHANGED <<server, cache, childCache, pc, guard, mem, st, want,
                   elapsed, history, used>>

\* Owns(Deployment), Owns(Secret): every event of a child enqueues its owner.
SyncChildren ==
    /\ childCache # children
    /\ childCache' = children
    /\ queued' = TRUE
    /\ UNCHANGED <<server, cache, routesCache, pc, guard, mem, st, want,
                   elapsed, history, used>>

\* Thirty minutes pass after the lastSyncTime on record; a reconcile, a few
\* API calls with timeouts of seconds, is not under way that long.
Age ==
    /\ pc = "idle"
    /\ obj.status.fresh \/ cache.status.fresh
    /\ obj' = [obj EXCEPT !.status = [@ EXCEPT !.fresh = FALSE]]
    /\ cache' = [cache EXCEPT !.status = [@ EXCEPT !.fresh = FALSE]]
    /\ UNCHANGED <<routes, cf, children, routesCache, childCache, worker,
                   elapsed, history, used>>

\* Two minutes pass after the deletion timestamp, between two attempts.
BudgetElapses ==
    /\ pc = "idle"
    /\ obj.exists /\ obj.deleting /\ ~elapsed
    /\ elapsed' = TRUE
    /\ UNCHANGED <<server, informers, worker, history, used>>

\* The process dies and restarts: what it had in memory is lost, the
\* informers list everything again and enqueue what they find.
Crash ==
    /\ Spend("crash")
    /\ Return(TRUE)
    /\ cache' = obj /\ routesCache' = routes /\ childCache' = children
    /\ UNCHANGED <<server, elapsed, history>>

-----------------------------------------------------------------------------
(* The user, and Cloudflare's dashboard *)

\* A new spec: another tunnel name (nothing makes it immutable), another
\* fallback target, or a field the model leaves out (replicas, image).
EditSpec ==
    /\ obj.exists
    /\ Spend("spec")
    /\ \E s \in Specs : obj' = [obj EXCEPT !.spec = s, !.gen = @ + 1]
    /\ UNCHANGED <<routes, cf, children, informers, worker, elapsed, history>>

\* The user deletes the resource, having set its deletion policy if at all
\* (docs/annotations.md).  Without a finalizer the object goes at once.
DeleteObject ==
    /\ obj.exists /\ ~obj.deleting
    /\ Spend("delete")
    /\ \E policy \in BOOLEAN :
         obj' = [obj EXCEPT !.orphan = policy, !.deleting = TRUE,
                            !.exists = obj.finalizer]
    /\ UNCHANGED <<routes, cf, children, informers, worker, elapsed, history>>

ChangeRoutes ==
    /\ Spend("routes")
    /\ \E r \in RouteSets \ {routes} : routes' = r
    /\ UNCHANGED <<obj, cf, children, informers, worker, elapsed, history>>

\* Someone deletes a tunnel outside the controller.
ExternalDelete ==
    /\ Spend("external")
    /\ \E i \in TunnelIDs : Live(i) /\ cf' = Deleted(i)
    /\ UNCHANGED <<obj, routes, children, informers, worker, elapsed, history>>

-----------------------------------------------------------------------------
Reconcile ==
    \/ Fetch \/ AddFinalizer \/ ValidateCredentials \/ FindTunnel
    \/ CreateTunnel \/ WriteSecret \/ WriteDeployment \/ CollectIngressRules
    \/ PushConfiguration \/ ClearTunnelID \/ PatchConfigHash \/ UpdateStatus
    \/ DeleteTunnel \/ RemoveFinalizer

Environment ==
    \/ SyncCache \/ SyncRoutes \/ SyncChildren \/ Age \/ BudgetElapses \/ Crash
    \/ EditSpec \/ DeleteObject \/ ChangeRoutes \/ ExternalDelete

Next == Reconcile \/ Environment

Spec == Init /\ [][Next]_vars

\* The worker serves its queue, informers catch up, and time passes (strongly
\* fair because it is modelled to pass between two reconciles).  Nothing is
\* assumed of the user, of Cloudflare or of crashes.
Fairness ==
    /\ WF_vars(Reconcile)
    /\ WF_vars(SyncCache) /\ WF_vars(SyncRoutes) /\ WF_vars(SyncChildren)
    /\ SF_vars(Age) /\ SF_vars(BudgetElapses)

FairSpec == Spec /\ Fairness
-----------------------------------------------------------------------------
(* Safety *)

\* The config-hash annotation is a write-ahead promise the wrong way round is
\* worthless: it is stored only after Cloudflare accepted a configuration with
\* that hash, whatever fails or crashes in between (PatchConfigHash after
\* PushConfiguration in syncConfiguration).
HashNeverAhead == obj.hash # None => obj.hash \in pushed

\* Ready=True is never published before a token Secret and a Deployment exist:
\* the phases of Reconcile are ordered, and a stale copy of the status cannot
\* bring Ready back before them.
ConnectorBeforeReady ==
    obj.status.conds["Ready"] = "True" =>
        children.secret # None /\ children.deployment # 0

\* Adopting by name before creating keeps one live tunnel per name even when
\* an answer is lost or the process dies between CreateTunnel and the status
\* update that records the identifier (EnsureTunnel is idempotent).
UniqueLiveTunnel ==
    \A i, j \in TunnelIDs : Live(i) /\ Live(j) /\ cf[i].name = cf[j].name => i = j

\* Nothing is made, at Cloudflare or in the cluster, before the finalizer that
\* will clean it up is on the object (the early return after the finalizer
\* patch), although the object may be deleted and the cache may lag.
CleanupGuaranteed ==
    (created # {} \/ children.secret # None \/ children.deployment # 0)
        => (obj.exists => obj.finalizer)

\* The finalizer goes only after the tunnel the reconciler knows of is deleted,
\* was to be orphaned, or a warning event says that it may be left behind.
CleanupBeforeRemoval ==
    pc = "unfinalize" /\ ~mem.orphan /\ st.tunnelID # None =>
        ~Live(st.tunnelID) \/ warned

\* A resource that exists is on the queue or under reconciliation: no early
\* return, error path or event the predicate drops makes the controller forget
\* it (the results of Reconcile, GenerationOrDeletionPredicate).
NoneForgotten == obj.exists => queued \/ pc # "idle"

(* The invariants above are not inductive: each holds because of what the   *)
(* caches, the memory of the reconcile under way and its next step imply.  *)

\* The hash about to be stored belongs to a configuration already accepted.
HashInv ==
    /\ HashNeverAhead
    /\ pc = "patch" => Hash(want) \in pushed

\* The lookup that found nothing is still true when CreateTunnel acts on it.
UniqueInv ==
    /\ UniqueLiveTunnel
    /\ pc = "create" => \A i \in TunnelIDs : Live(i) => cf[i].name # mem.spec.name

\* The finalizer, once seen, stays until the object goes.
FinalizerKept == obj.exists => obj.finalizer
CleanupInv ==
    /\ CleanupGuaranteed
    /\ cache.exists /\ cache.finalizer => FinalizerKept
    /\ pc \in {"validate", "ensure", "create", "secret", "deployment"} => FinalizerKept

\* A copy of the status that says Ready, and a reconcile past deployCloudflared,
\* both mean that the Secret and the Deployment were written.
Connected == children.secret # None /\ children.deployment # 0
ConnectorInv ==
    /\ ConnectorBeforeReady
    /\ cache.status.conds["Ready"] = "True" => Connected
    /\ st.conds["Ready"] = "True" => Connected
    /\ pc = "secret" => st.tunnelID # None
    /\ pc = "deployment" => children.secret # None
    /\ pc \in {"collect", "push", "clear", "patch"} => Connected

\* The policy read from a copy that says "deleting" is the one on the object.
OrphanInv ==
    /\ cache.deleting => obj.deleting /\ cache.orphan = obj.orphan
    /\ pc = "delete" => obj.deleting /\ mem.orphan = obj.orphan

\* A copy that makes Reconcile drop the key is right: the object is gone.
ServedInv ==
    /\ NoneForgotten
    /\ obj.exists => cache.exists
    /\ obj.exists /\ obj.deleting => obj.finalizer
    /\ cache.exists /\ cache.deleting => cache.finalizer

(* What a step may never do *)

\* The deletion policy is obeyed: a tunnel whose resource was deleted with the
\* orphan annotation is never deleted by the controller, however stale its
\* cache was when reconcileDelete started.
OrphanRespected ==
    [][Reconcile /\ obj.orphan =>
         \A i \in TunnelIDs : Live(i) => Live(i)']_vars

\* The finalizer protocol: a tunnel is created for the resource only while the
\* finalizer is stored, never before it nor after it was given up, although the
\* reconcile works from a copy that may be old and may crash at any point.
Phase == IF ~obj.exists THEN "released" ELSE IF obj.finalizer THEN "held" ELSE "new"
Owned == {i \in created : Live(i)}

Protocol == INSTANCE FinalizerProtocol
    WITH Owners <- {"tunnel"}, Things <- TunnelIDs,
         phase <- [o \in {"tunnel"} |-> Phase], owned <- [o \in {"tunnel"} |-> Owned]
HeldWhileOwned == Protocol!Spec

(* Liveness *)

\* Deletion never blocks: even if every delete call fails, the retry budget
\* runs out and the finalizer goes (reconcileDelete).
DeletionCompletes == obj.deleting ~> ~obj.exists

\* The status, the Secret and the Deployment end up describing the spec.
InfraCurrent ==
    /\ obj.status.conds["Ready"] = "True"
    /\ obj.status.observedGen = obj.gen
    /\ obj.status.tunnelID # None
    /\ Live(obj.status.tunnelID)
    /\ cf[obj.status.tunnelID].name = obj.spec.name
    /\ children = [secret |-> obj.status.tunnelID, deployment |-> obj.gen]

\* After the last fault and edit the reconciler settles on that state for good,
\* or the object is gone: a lost answer, a conflict, a stale copy, a tunnel
\* deleted from the dashboard are all repaired, at the latest when
\* lastSyncTime turns 30 minutes old and the full path runs.
InfraConverges == <>[](~obj.exists \/ InfraCurrent)

\* With nobody deleting or renaming tunnels behind the hash's back, and no
\* failure between the push and the hash, the tunnel ends up with the
\* configuration of the routes and the fallback target: the config diff gate
\* loses no update although routes change back and forth and caches lag.
ConfigCurrent ==
    /\ obj.status.tunnelID # None
    /\ cf[obj.status.tunnelID].config = [rules |-> routes, fallback |-> obj.spec.fallback]
ConfigConverges == <>[](~obj.exists \/ ConfigCurrent)

=============================================================================
