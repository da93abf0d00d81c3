-------------------------- MODULE CloudflareAccess --------------------------
(***************************************************************************)
(* The CloudflareAccessPolicy reconciler                                   *)
(* (internal/controller/cloudflareaccesspolicy_controller.go), the Access  *)
(* service it uses (internal/cloudflare/access.go) and the conversions of  *)
(* the API client (internal/cloudflare/client_impl.go).                    *)
(*                                                                         *)
(* One worker serves the resources, one at a time, from a lagging informer *)
(* cache.  An application is found by name or created, then its policies   *)
(* are synchronised, then service tokens are made, whose secret Cloudflare *)
(* shows once and the worker stores with another call, then a certificate  *)
(* for mTLS.  The status, from which all of this is found again when the   *)
(* resource is deleted, is written last.                                   *)
(***************************************************************************)
EXTENDS Naturals

CONSTANTS
    Resources,    \* the CloudflareAccessPolicy resources
    AppNames,     \* application names
    Domains,      \* hostnames, numbered in their sort order
    PolicyNames,  \* names of the policies of an application
    TokenNames,   \* names of service tokens
    CertNames,    \* names of mTLS rules
    Targets,      \* the Gateways and routes a resource may target
    Foreign,      \* those in another namespace
    Unsupported,  \* those of a kind whose CRD is not installed
    Linked,       \* those that lead to a Gateway with an existing tunnel
    RouteStates,  \* which targets may be there, with which hostnames
    SpecsOf,      \* the specs each resource may have
    None,         \* the empty string, the missing object
    MaxIDs,       \* how many identifiers Cloudflare hands out
    Secrets,      \* the values of token secrets
    Bound         \* how often each kind of event may happen in a behaviour

Conditions == {"CredentialsValid", "TargetsResolved", "ReferenceGrantValid",
               "ApplicationCreated", "PoliciesAttached", "ServiceTokensReady",
               "MTLSConfigured", "Ready"}

\* The kinds of events the environment has a budget for, and all of them.
\* "lost" are the failures, crashes and deletions that lose a token's secret.
Kinds == {"fault", "crash", "lost", "external", "expire", "routes", "spec", "delete", "any"}

\* The rules of the CRD; a list may be given by its identifier or its name.
RuleKinds == {"ip", "ipList", "ipListByName", "country", "everyone",
              "serviceToken", "anyValidServiceToken", "email", "emailList",
              "emailListByName", "emailDomain", "oidcClaim", "gsuiteGroup"}

\* A policy of the spec; precedence stands for the position in the list too.
Rules == [rules: SUBSET RuleKinds, groups: BOOLEAN, precedence: Nat]

Specs == [name: AppNames,              \* application.name, or the resource's
          domain: Domains \cup {None}, \* application.domain
          cors: {"none", "empty", "set"},
          policies: [PolicyNames -> Rules \cup {None}],
          tokens: SUBSET TokenNames,
          mtls: CertNames \cup {None},
          targets: SUBSET Targets,
          inherit: BOOLEAN,            \* no cloudflareRef
          orphan: BOOLEAN]             \* cfgate.io/deletion-policy: orphan

ASSUME SpecsAssumption == SpecsOf \in [Resources -> SUBSET Specs]
\* A set of hostnames has a first one in the sort order.
ASSUME DomainsAssumption ==
    /\ Domains \subseteq Nat /\ None \notin Domains
    /\ \A S \in SUBSET Domains : S # {} => \E d \in S : \A e \in S : d <= e
ASSUME TargetsAssumption ==
    /\ Foreign \subseteq Targets /\ Unsupported \subseteq Targets /\ Linked \subseteq Targets
    /\ RouteStates \subseteq [Targets -> [there: BOOLEAN, hosts: SUBSET Domains]]
ASSUME BoundAssumption ==
    Bound \in [Kinds -> Nat] /\ MaxIDs \in Nat /\ Secrets \subseteq Nat \ {0}
ASSUME NoneAssumption == None \notin Resources /\ None \notin CertNames /\ None \notin Rules

Ids == 1..MaxIDs

VARIABLES
    crs,       \* the resources on the API server
    cache,     \* the informer's copies
    routes,    \* which targets are there, and their hostnames
    granted,   \* a ReferenceGrant permits the references to Foreign targets
    ca,        \* the Secret with the certificate of the CA is there
    secrets,   \* the token secret each resource has stored, 0 for none
    apps,      \* the Access applications
    tokens,    \* the service tokens
    certs,     \* the mTLS certificates
    mtlsHosts, \* the hostnames associated with a certificate
    serial,    \* the identifiers handed out
    queued,    \* the resources on the work queue (or on its delay list)
    cur,       \* the resource under reconciliation
    pc,        \* the next step of its reconcile
    mem,       \* the resource as read
    st,        \* policy.Status in memory
    resolved,  \* the targets that were resolved
    hosts,     \* the hostnames extracted from them
    app,       \* the application found or created, 0 for none
    existing,  \* its policies as listed
    todo,      \* the policies or tokens a loop has yet to visit
    tok,       \* the token it is at
    fresh,     \* the token made, whose secret is yet to be stored
    used       \* the events of each kind so far

cluster == <<crs, routes, granted, ca, secrets>>
cloud   == <<apps, tokens, certs, mtlsHosts, serial>>
locals  == <<resolved, hosts, app, existing, todo, tok, fresh>>
job     == <<cur, pc, mem, st, locals>>
vars == <<cluster, cache, cloud, queued, job, used>>

-----------------------------------------------------------------------------
(* Types *)

Statuses == [app: Nat,                   \* applicationId
             tokens: [TokenNames -> Nat], \* serviceTokenIds
             cert: Nat,                  \* mtlsRuleId
             accepted: SUBSET Targets,   \* ancestors, attachedTargets
             observedGen: Nat,
             conds: [Conditions -> {"None", "True", "False", "Unknown"}]]

Objects == [exists: BOOLEAN, deleting: BOOLEAN, finalizer: BOOLEAN, gen: Nat,
            spec: Specs, status: Statuses]

\* A policy as Cloudflare holds it.
Held == [rules: SUBSET RuleKinds, precedence: Nat]

\* by is the resource it was made for, None for those of others.
Applications == [name: AppNames, domain: Domains, cors: {"none", "set"},
                 policies: [PolicyNames -> Held \cup {None}],
                 by: Resources \cup {None}]
Tokens == [id: Nat \ {0}, secret: Secrets, expired: BOOLEAN, by: Resources]
Certificates == [id: Nat \ {0}, by: Resources]

ASSUME NullAssumption == /\ None \notin Held /\ None \notin Applications
                         /\ None \notin Tokens /\ None \notin Certificates

Steps == {"idle", "finalize", "credentials", "targets", "find", "create", "update",
          "list", "prune", "upsert", "token", "mint", "store", "cert", "upload",
          "associate", "finish", "status", "wipe", "deleteApp", "revoke",
          "unfinalize"}

TypeOK ==
    /\ crs \in [Resources -> Objects] /\ cache \in [Resources -> Objects]
    /\ routes \in RouteStates /\ granted \in BOOLEAN /\ ca \in BOOLEAN
    /\ secrets \in [Resources -> [TokenNames -> Nat]]
    /\ apps \in [Ids -> Applications \cup {None}]
    /\ tokens \in [TokenNames -> Tokens \cup {None}]
    /\ certs \in [CertNames -> Certificates \cup {None}]
    /\ mtlsHosts \in SUBSET Domains
    /\ serial \in 0..MaxIDs
    /\ queued \in SUBSET Resources
    /\ pc \in Steps
    /\ IF pc = "idle" THEN cur = None /\ mem = None
       ELSE cur \in Resources /\ mem \in Objects
    /\ st \in Statuses
    /\ resolved \in SUBSET Targets /\ hosts \in SUBSET Domains
    /\ app \in Nat /\ (pc \in {"update", "list", "prune", "upsert"} => app \in Ids)
    /\ existing \in [PolicyNames -> Held \cup {None}]
    /\ todo \in SUBSET (PolicyNames \cup TokenNames)
    /\ pc \in {"create", "update"} => mem.spec.domain # None \/ hosts # {}
    /\ pc \in {"prune", "upsert"} => todo \subseteq PolicyNames
    /\ pc = "upsert" => \A n \in todo : mem.spec.policies[n] # None
    /\ pc \in {"token", "mint", "store", "revoke"} => todo \subseteq TokenNames
    /\ IF pc \in {"mint", "store"} THEN tok \in todo \cap TokenNames ELSE tok = None
    /\ fresh \in [id: Nat, secret: Nat]
    /\ used \in [Kinds -> Nat]

-----------------------------------------------------------------------------
(* Initial states: the resources have just been created, the account is empty. *)

NoStatus == [app |-> 0, tokens |-> [t \in TokenNames |-> 0], cert |-> 0,
             accepted |-> {}, observedGen |-> 0,
             conds |-> [c \in Conditions |-> "None"]]
NoPolicies == [n \in PolicyNames |-> None]
NoToken == [id |-> 0, secret |-> 0]

NewObject(spec) ==
    [exists |-> TRUE, deleting |-> FALSE, finalizer |-> FALSE, gen |-> 1,
     spec |-> spec, status |-> NoStatus]

\* No reconcile is under way.
Resting ==
    /\ cur = None /\ pc = "idle" /\ mem = None /\ st = NoStatus
    /\ resolved = {} /\ hosts = {} /\ app = 0 /\ existing = NoPolicies
    /\ todo = {} /\ tok = None /\ fresh = NoToken

Init ==
    /\ \E f \in [Resources -> UNION {SpecsOf[o] : o \in Resources}] :
         /\ \A o \in Resources : f[o] \in SpecsOf[o]
         /\ crs = [o \in Resources |-> NewObject(f[o])]
    /\ cache = crs
    /\ routes \in RouteStates /\ granted \in BOOLEAN /\ ca \in BOOLEAN
    /\ secrets = [o \in Resources |-> [t \in TokenNames |-> 0]]
    /\ apps = [i \in Ids |-> None]
    /\ tokens = [t \in TokenNames |-> None]
    /\ certs = [c \in CertNames |-> None]
    /\ mtlsHosts = {} /\ serial = 0
    /\ queued = Resources
    /\ Resting
    /\ used = [k \in Kinds |-> 0]

-----------------------------------------------------------------------------
(* Helpers *)

Spend(k) ==
    /\ used[k] < Bound[k] /\ used["any"] < Bound["any"]
    /\ used' = [used EXCEPT ![k] = @ + 1, !["any"] = @ + 1]

\* Reconcile returns and its locals go out of scope.
Rest ==
    /\ cur' = None /\ pc' = "idle" /\ mem' = None /\ st' = NoStatus
    /\ resolved' = {} /\ hosts' = {} /\ app' = 0 /\ existing' = NoPolicies
    /\ todo' = {} /\ tok' = None /\ fresh' = NoToken

\* An error, Requeue and RequeueAfter all put the key back on the queue.
Return(requeue) ==
    /\ queued' = IF requeue THEN queued \cup {cur} ELSE queued
    /\ Rest

\* A status with a condition set, and with the identifiers of what was found
\* or made.
With(s, c, v) == [s EXCEPT !.conds = [@ EXCEPT ![c] = v]]
SetApp(s, i) == [s EXCEPT !.app = i]
SetToken(s, t, i) == [s EXCEPT !.tokens = [@ EXCEPT ![t] = i]]
SetCert(s, i) == [s EXCEPT !.cert = i]

\* A resource after the finalizer patch, a status write, the removal of the
\* finalizer, an edit and a deletion (without a finalizer it goes at once).
Finalized(o) == [o EXCEPT !.finalizer = TRUE]
Reporting(o, s) == [o EXCEPT !.status = s]
Gone(o) == [o EXCEPT !.finalizer = FALSE, !.exists = FALSE]
Edited(o, s) == [o EXCEPT !.spec = s, !.gen = o.gen + 1]
Terminating(o) == [o EXCEPT !.deleting = TRUE, !.exists = o.finalizer]

\* The status gets the value s and the reconcile goes on to step p, or, with
\* "status", returns early and publishes it.
Continue(p, s) == pc' = p /\ st' = s /\ UNCHANGED <<cur, mem, locals>>

-----------------------------------------------------------------------------
(* Conversions *)

\* convertAccessRules knows lists by their identifiers only, accessRuleToAPI
\* has no case for lists at all; accessRuleFromAPI would read them.
ConvertAccessRules(rules) == rules \ {"ipListByName", "emailListByName"}
\* Mutant: the country rule is forgotten too.
RulesToAPIFewer(rules) == rules \ {"ipList", "emailList", "country"}
AccessRulesToAPI(rules) == rules \ {"ipList", "emailList"}

\* What syncPolicies asks for, what a create or an update sends of it, and how
\* a listing shows what Cloudflare holds: approval groups are neither sent nor
\* read.
PolicyParams(p) == [p EXCEPT !.rules = ConvertAccessRules(p.rules)]
Sent(p) == [rules |-> AccessRulesToAPI(PolicyParams(p).rules), precedence |-> p.precedence]
Listed(h) == [rules |-> h.rules, groups |-> FALSE, precedence |-> h.precedence]
AccessPolicyEqual(h, p) == Listed(h) = PolicyParams(p)

\* An all-default corsHeaders comes back as none.
SentCORS(c) == IF c = "set" THEN "set" ELSE "none"

\* ensureApplication: application.domain, or the first hostname.
Domain(spec) ==
    IF spec.domain # None THEN spec.domain
    ELSE IF hosts = {} THEN None
    ELSE CHOOSE d \in hosts : \A e \in hosts : d <= e

\* The application ensureApplication asks for, with policies p.
Desired(p, by) ==
    [name |-> mem.spec.name, domain |-> Domain(mem.spec),
     cors |-> SentCORS(mem.spec.cors), policies |-> p, by |-> by]

\* accessApplicationNeedsUpdate; domain and cors stand for the managed fields.
\* Mutant: the domain is not compared.
NeedsUpdateCORS(a) == a.cors # mem.spec.cors
NeedsUpdate(a) == a.domain # Domain(mem.spec) \/ a.cors # mem.spec.cors

-----------------------------------------------------------------------------
(* Reconcile *)

\* The start of Reconcile and of reconcileDelete.
\* Mutant: the full path does not wait for the finalizer.
PathNoFinalizer(o) ==
    IF ~o.exists \/ (o.deleting /\ ~o.finalizer) THEN "idle"
    ELSE IF o.deleting THEN "wipe" ELSE "credentials"

Path(o) ==
    CASE ~o.exists \/ (o.deleting /\ ~o.finalizer) -> "idle"
      [] o.exists /\ o.deleting /\ o.finalizer ->
            IF o.spec.orphan THEN "unfinalize" ELSE "wipe"
      [] o.exists /\ ~o.deleting /\ ~o.finalizer -> "finalize"
      [] o.exists /\ ~o.deleting /\ o.finalizer  -> "credentials"

Fetch(o) ==
    /\ pc = "idle" /\ o \in queued
    /\ queued' = queued \ {o}
    /\ \/ Path(cache[o]) = "idle" /\ UNCHANGED <<cur, pc, mem, st>>
       \/ /\ Path(cache[o]) # "idle"
          /\ cur' = o /\ pc' = Path(cache[o])
          /\ mem' = cache[o] /\ st' = cache[o].status
    /\ UNCHANGED <<cluster, cache, cloud, locals, used>>

\* The finalizer patch, refused once the object is being deleted or gone.
\* Mutant: the event of the patch is to bring the resource back.
AddFinalizerOnce ==
    /\ pc = "finalize" /\ crs[cur].exists /\ ~crs[cur].deleting
    /\ crs' = [crs EXCEPT ![cur] = Finalized(crs[cur])]
    /\ Return(FALSE)
    /\ UNCHANGED <<cache, routes, granted, ca, secrets, cloud, used>>

AddFinalizer ==
    /\ pc = "finalize"
    /\ \/ /\ crs[cur].exists /\ ~crs[cur].deleting
          /\ crs' = [crs EXCEPT ![cur] = Finalized(crs[cur])]
          /\ UNCHANGED used
       \/ ~(crs[cur].exists /\ ~crs[cur].deleting) /\ UNCHANGED <<crs, used>>
       \/ Spend("fault") /\ UNCHANGED crs
    /\ Return(TRUE)
    /\ UNCHANGED <<cache, routes, granted, ca, secrets, cloud>>

\* resolveCredentials: an explicit reference, or the tunnel of the Gateway a
\* target leads to.  The Secret itself may be missing or unreadable.
InheritCredentials(spec) == \E t \in spec.targets \cap Linked : routes[t].there
HasCredentials(spec) == spec.inherit => InheritCredentials(spec)

ResolveCredentials ==
    /\ pc = "credentials"
    /\ \/ /\ HasCredentials(mem.spec)
          /\ Continue("targets", With(st, "CredentialsValid", "True"))
          /\ UNCHANGED used
       \/ /\ ~HasCredentials(mem.spec)
          /\ Continue("status", With(st, "CredentialsValid", "False"))
          /\ UNCHANGED used
       \/ Spend("fault") /\ Continue("status", With(st, "CredentialsValid", "False"))
    /\ UNCHANGED <<cluster, cache, cloud, queued>>

\* resolveTargets: the target exists, and a grant permits a foreign one.
Resolvable(spec) ==
    {t \in spec.targets : routes[t].there /\ (t \in Foreign => granted)}

\* validateTargetKinds; checkReferenceGrants, which a single target without a
\* grant fails for all; the hostnames of the targets that were resolved.
ValidKinds(spec) == spec.targets \cap Unsupported = {}
ReferencesGranted(spec) == granted \/ spec.targets \cap Foreign = {}
ExtractHostnames(ts) == UNION {routes[t].hosts : t \in ts}

\* Some targets are enough to go on.
ResolveTargets ==
    LET r == Resolvable(mem.spec)
        failed == With(st, "TargetsResolved", "False")
        s == IF r = mem.spec.targets THEN With(st, "TargetsResolved", "True") ELSE failed IN
    /\ pc = "targets"
    /\ \/ /\ ~(ValidKinds(mem.spec) /\ (r # {} \/ mem.spec.targets = {}))
          /\ Continue("status", failed)
       \/ /\ ValidKinds(mem.spec) /\ (r # {} \/ mem.spec.targets = {})
          /\ IF ~ReferencesGranted(mem.spec)
             THEN Continue("status", With(s, "ReferenceGrantValid", "False"))
             ELSE /\ pc' = "find" /\ st' = s
                  /\ resolved' = r /\ hosts' = ExtractHostnames(r)
                  /\ UNCHANGED <<cur, mem, app, existing, todo, tok, fresh>>
    /\ UNCHANGED <<cluster, cache, cloud, queued, used>>

ApplicationFails == Continue("status", With(st, "ApplicationCreated", "False"))

\* The application is known: its identifier goes into the status.
ApplicationIs(i) ==
    /\ app' = i /\ pc' = "list"
    /\ st' = SetApp(With(st, "ApplicationCreated", "True"), i)
    /\ UNCHANGED <<cur, mem, resolved, hosts, existing, todo, tok, fresh>>

\* Mutant: the lookup is by domain.
NamedByDomain(n) == {i \in Ids : apps[i] # None /\ apps[i].domain = Domain(mem.spec)}
Named(n) == {i \in Ids : apps[i] # None /\ apps[i].name = n}

\* EnsureApplication, the lookup: any application of that name is adopted.
FindApplication ==
    /\ pc = "find"
    /\ \/ /\ Domain(mem.spec) # None /\ Named(mem.spec.name) = {}
          /\ pc' = "create" /\ UNCHANGED <<cur, mem, st, locals, used>>
       \/ /\ Domain(mem.spec) # None
          /\ \E i \in Named(mem.spec.name) :
               \/ ~NeedsUpdate(apps[i]) /\ ApplicationIs(i)
               \/ /\ NeedsUpdate(apps[i])
                  /\ pc' = "update" /\ app' = i
                  /\ UNCHANGED <<cur, mem, st, resolved, hosts, existing, todo, tok, fresh>>
          /\ UNCHANGED used
       \/ Domain(mem.spec) = None /\ ApplicationFails /\ UNCHANGED used
       \/ Spend("fault") /\ ApplicationFails
    /\ UNCHANGED <<cluster, cache, cloud, queued>>

CreateApplication ==
    /\ pc = "create"
    /\ \/ /\ serial < MaxIDs
          /\ apps' = [apps EXCEPT ![serial + 1] = Desired(NoPolicies, cur)]
          /\ serial' = serial + 1
          /\ \/ ApplicationIs(serial + 1) /\ UNCHANGED used
             \/ Spend("fault") /\ ApplicationFails      \* the answer is lost
       \/ Spend("fault") /\ ApplicationFails /\ UNCHANGED <<apps, serial>>
    /\ UNCHANGED <<cluster, cache, tokens, certs, mtlsHosts, queued>>

\* UpdateAccessApplication, by the identifier found.
UpdateApplication ==
    /\ pc = "update"
    /\ \/ /\ apps[app] # None
          /\ apps' = [apps EXCEPT ![app] = Desired(apps[app].policies, apps[app].by)]
          /\ \/ ApplicationIs(app) /\ UNCHANGED used
             \/ Spend("fault") /\ ApplicationFails      \* the answer is lost
       \/ apps[app] = None /\ ApplicationFails /\ UNCHANGED <<apps, used>>
       \/ Spend("fault") /\ ApplicationFails /\ UNCHANGED apps
    /\ UNCHANGED <<cluster, cache, tokens, certs, mtlsHosts, serial, queued>>

PoliciesFail == Continue("status", With(st, "PoliciesAttached", "False"))

Wanted == {n \in PolicyNames : mem.spec.policies[n] # None}

\* SyncPolicies, the listing; first come the policies nobody wants any more.
ListPolicies ==
    /\ pc = "list"
    /\ \/ /\ apps[app] # None
          /\ existing' = apps[app].policies
          /\ todo' = {n \in PolicyNames \ Wanted : apps[app].policies[n] # None}
          /\ pc' = "prune"
          /\ UNCHANGED <<cur, mem, st, resolved, hosts, app, tok, fresh, used>>
       \/ apps[app] = None /\ PoliciesFail /\ UNCHANGED used
       \/ Spend("fault") /\ PoliciesFail
    /\ UNCHANGED <<cluster, cache, cloud, queued>>

\* An application with policy n replaced; the applications with this one so.
Holding(a, n, h) == [a EXCEPT !.policies = [@ EXCEPT ![n] = h]]
WithPolicy(n, h) == [apps EXCEPT ![app] = Holding(apps[app], n, h)]

NextPolicy(n) ==
    /\ todo' = todo \ {n}
    /\ UNCHANGED <<cur, pc, mem, st, resolved, hosts, app, existing, tok, fresh>>

\* DeleteAccessPolicy; one that is gone, or whose application is, counts as
\* deleted.  A failure ends the synchronisation.
\* Mutant: a failure is skipped.
DeletePolicySkipping ==
    /\ pc = "prune"
    /\ \E n \in todo :
         /\ \/ apps' = (IF apps[app] # None THEN WithPolicy(n, None) ELSE apps) /\ UNCHANGED used
            \/ Spend("fault") /\ UNCHANGED apps
         /\ NextPolicy(n)
    /\ UNCHANGED <<cluster, cache, tokens, certs, mtlsHosts, serial, queued>>

DeletePolicy ==
    /\ pc = "prune"
    /\ \E n \in todo :
         \/ /\ apps' = IF apps[app] # None THEN WithPolicy(n, None) ELSE apps
            /\ \/ NextPolicy(n) /\ UNCHANGED used
               \/ Spend("fault") /\ PoliciesFail        \* the answer is lost
         \/ Spend("fault") /\ PoliciesFail /\ UNCHANGED apps
    /\ UNCHANGED <<cluster, cache, tokens, certs, mtlsHosts, serial, queued>>

\* Mutant: the second loop visits the policies of the listing as well.
PrunedListed ==
    /\ pc = "prune" /\ todo = {}
    /\ pc' = "upsert" /\ todo' = Wanted \cup {n \in PolicyNames : existing[n] # None}
    /\ UNCHANGED <<cluster, cache, cloud, queued, cur, mem, st, resolved, hosts, app,
                   existing, tok, fresh, used>>

Pruned ==
    /\ pc = "prune" /\ todo = {}
    /\ pc' = "upsert" /\ todo' = Wanted
    /\ UNCHANGED <<cluster, cache, cloud, queued, cur, mem, st, resolved, hosts, app,
                   existing, tok, fresh, used>>

\* The policies the listing showed as they should be are skipped, the others
\* are updated by their identifier, or created.
UpToDate(n) == existing[n] # None /\ AccessPolicyEqual(existing[n], mem.spec.policies[n])

SkipPolicy ==
    /\ pc = "upsert"
    /\ \E n \in todo : UpToDate(n) /\ NextPolicy(n)
    /\ UNCHANGED <<cluster, cache, cloud, queued, used>>

\* The call fails when the application, or the policy to update, is gone.
WritePolicy ==
    /\ pc = "upsert"
    /\ \E n \in todo :
         LET there == apps[app] # None /\ (existing[n] # None => apps[app].policies[n] # None)
         IN  /\ ~UpToDate(n)
             /\ \/ /\ there
                   /\ apps' = WithPolicy(n, Sent(mem.spec.policies[n]))
                   /\ \/ NextPolicy(n) /\ UNCHANGED used
                      \/ Spend("fault") /\ PoliciesFail  \* the answer is lost
                \/ ~there /\ PoliciesFail /\ UNCHANGED <<apps, used>>
                \/ Spend("fault") /\ PoliciesFail /\ UNCHANGED apps
    /\ UNCHANGED <<cluster, cache, tokens, certs, mtlsHosts, serial, queued>>

PoliciesSynced ==
    /\ pc = "upsert" /\ todo = {}
    /\ st' = With(st, "PoliciesAttached", "True")
    /\ pc' = "token" /\ todo' = mem.spec.tokens
    /\ UNCHANGED <<cluster, cache, cloud, queued, cur, mem, resolved, hosts, app,
                   existing, tok, fresh, used>>

-----------------------------------------------------------------------------
(* Service tokens *)

\* A token fails: the others are not tried, the reconcile goes on.
TokensFail ==
    /\ pc' = "cert" /\ st' = With(st, "ServiceTokensReady", "False")
    /\ todo' = {} /\ tok' = None /\ fresh' = NoToken
    /\ UNCHANGED <<cur, mem, resolved, hosts, app, existing>>

\* The token with identifier i goes into the status.
TokenIs(t, i) ==
    /\ st' = SetToken(st, t, i)
    /\ pc' = "token" /\ todo' = todo \ {t} /\ tok' = None /\ fresh' = NoToken
    /\ UNCHANGED <<cur, mem, resolved, hosts, app, existing>>

Valid(t) == tokens[t] # None /\ ~tokens[t].expired

\* EnsureServiceToken, the lookup: a token that has not expired is taken as it
\* is, its secret can no longer be had.  fresh.id is the token to rotate, 0 if
\* one is to be created.
FindToken ==
    /\ pc = "token"
    /\ \E t \in todo :
         \/ /\ Valid(t)
            /\ TokenIs(t, tokens[t].id) /\ UNCHANGED used
         \/ /\ ~Valid(t)
            /\ pc' = "mint" /\ tok' = t
            /\ fresh' = IF tokens[t] = None THEN NoToken ELSE [NoToken EXCEPT !.id = tokens[t].id]
            /\ UNCHANGED <<cur, mem, st, resolved, hosts, app, existing, todo, used>>
         \/ Spend("fault") /\ TokensFail
    /\ UNCHANGED <<cluster, cache, cloud, queued>>

Created(i, s) == [id |-> i, secret |-> s, expired |-> FALSE, by |-> cur]

\* Rotation changes the secret.  Whether it also renews the expiry is
\* Cloudflare's affair: the answer names none, and RefreshServiceToken, the
\* call that renews it, is never made.
Rotated(k, s, e) == [k EXCEPT !.secret = s, !.expired = e]

\* Secrets that neither Cloudflare nor any Secret of the cluster holds for t.
Unused(t) ==
    {s \in Secrets : /\ tokens[t] # None => tokens[t].secret # s
                     /\ \A o \in Resources : secrets[o][t] # s}

\* What CreateServiceToken or RotateServiceToken may make of the token the loop
\* is at; one revoked since the lookup cannot be rotated.
Rotatable == tokens[tok] # None /\ tokens[tok].id = fresh.id
Mintable(s) ==
    IF fresh.id = 0 THEN {Created(serial + 1, s)}
    ELSE {Rotated(tokens[tok], s, e) : e \in BOOLEAN}

\* Cloudflare shows the secret once.
MintToken ==
    /\ pc = "mint"
    /\ \/ /\ IF fresh.id = 0 THEN serial < MaxIDs /\ serial' = serial + 1
             ELSE Rotatable /\ serial' = serial
          /\ \E s \in Unused(tok) : \E new \in Mintable(s) :
               /\ \A r \in Unused(tok) : s <= r
               /\ tokens' = [tokens EXCEPT ![tok] = new]
               /\ \/ /\ pc' = "store" /\ fresh' = [id |-> new.id, secret |-> s]
                     /\ UNCHANGED <<cur, mem, st, resolved, hosts, app, existing, todo,
                                    tok, used>>
                  \/ Spend("lost") /\ TokensFail        \* the answer is lost
       \/ fresh.id # 0 /\ ~Rotatable /\ TokensFail /\ UNCHANGED <<tokens, serial, used>>
       \/ Spend("fault") /\ TokensFail /\ UNCHANGED <<tokens, serial>>
    /\ UNCHANGED <<cluster, cache, apps, certs, mtlsHosts, queued>>

\* The Secrets with the fresh secret stored.
Stored == [secrets EXCEPT ![cur] = [@ EXCEPT ![tok] = fresh.secret]]

\* WriteSecret creates or updates the Secret, and may fail, on a stale copy
\* for one.
\* Mutant: a Secret that exists is kept.
StoreSecretOnce ==
    /\ pc = "store"
    /\ secrets' = IF secrets[cur][tok] = 0 THEN Stored ELSE secrets
    /\ TokenIs(tok, fresh.id)
    /\ UNCHANGED <<crs, routes, granted, ca, cache, cloud, queued, used>>

StoreSecret ==
    /\ pc = "store"
    /\ \/ /\ secrets' = Stored
          /\ \/ TokenIs(tok, fresh.id) /\ UNCHANGED used
             \/ Spend("fault") /\ TokensFail            \* the answer is lost
       \/ Spend("lost") /\ TokensFail /\ UNCHANGED secrets
    /\ UNCHANGED <<crs, routes, granted, ca, cache, cloud, queued>>

TokensReady ==
    /\ pc = "token" /\ todo = {}
    /\ st' = IF mem.spec.tokens # {} THEN With(st, "ServiceTokensReady", "True") ELSE st
    /\ pc' = "cert"
    /\ UNCHANGED <<cluster, cache, cloud, queued, cur, mem, locals, used>>

-----------------------------------------------------------------------------
(* mTLS *)

MTLSFails == Continue("finish", With(st, "MTLSConfigured", "False"))

\* configureMTLS, the CA's Secret, and EnsureMTLSCertificate, the lookup by
\* name.
FindCertificate ==
    LET c == mem.spec.mtls IN
    /\ pc = "cert"
    /\ \/ c = None /\ Continue("finish", st) /\ UNCHANGED used
       \/ /\ c # None /\ ca /\ certs[c] # None
          /\ Continue("associate", SetCert(st, certs[c].id))
          /\ UNCHANGED used
       \/ /\ c # None /\ ca /\ certs[c] = None
          /\ Continue("upload", st)
          /\ UNCHANGED used
       \/ c # None /\ ~ca /\ MTLSFails /\ UNCHANGED used
       \/ c # None /\ Spend("fault") /\ MTLSFails
    /\ UNCHANGED <<cluster, cache, cloud, queued>>

UploadCertificate ==
    /\ pc = "upload"
    /\ \/ /\ serial < MaxIDs
          /\ certs' = [certs EXCEPT ![mem.spec.mtls] = [id |-> serial + 1, by |-> cur]]
          /\ serial' = serial + 1
          /\ \/ Continue("associate", SetCert(st, serial + 1)) /\ UNCHANGED used
             \/ Spend("fault") /\ MTLSFails             \* the answer is lost
       \/ Spend("fault") /\ MTLSFails /\ UNCHANGED <<certs, serial>>
    /\ UNCHANGED <<cluster, cache, apps, tokens, mtlsHosts, queued>>

\* UpdateMTLSHostnames, unless there are none.
AssociateHostnames ==
    /\ pc = "associate"
    /\ \/ /\ mtlsHosts' = mtlsHosts \cup hosts
          /\ Continue("finish", With(st, "MTLSConfigured", "True"))
          /\ UNCHANGED used
       \/ hosts # {} /\ Spend("fault") /\ MTLSFails /\ UNCHANGED mtlsHosts
    /\ UNCHANGED <<cluster, cache, apps, tokens, certs, serial, queued>>

-----------------------------------------------------------------------------
(* Status *)

\* NewAccessPolicyReadyCondition.
ReadyOf(conds, hasTokens) ==
    LET needed == {"CredentialsValid", "TargetsResolved", "ApplicationCreated",
                   "PoliciesAttached"}
                  \cup (IF hasTokens THEN {"ServiceTokensReady"} ELSE {})
    IN  IF \A c \in needed : conds[c] = "True" THEN "True"
        ELSE IF \E c \in needed : conds[c] \notin {"None", "True"} THEN "False"
        ELSE "Unknown"

Finish ==
    /\ pc = "finish"
    /\ Continue("status",
         With([st EXCEPT !.accepted = resolved, !.observedGen = mem.gen],
              "Ready", ReadyOf(st.conds, mem.spec.tokens # {})))
    /\ UNCHANGED <<cluster, cache, cloud, queued, used>>

\* updateStatus re-reads the informer's copy: a copy with this status needs no
\* write, an old copy is a conflict.
UpdateStatus ==
    /\ pc = "status"
    /\ \/ /\ cache[cur].exists /\ cache[cur].status # st /\ cache[cur] = crs[cur]
          /\ crs' = [crs EXCEPT ![cur] = Reporting(crs[cur], st)]
          /\ UNCHANGED used
       \/ /\ ~(cache[cur].exists /\ cache[cur].status # st /\ cache[cur] = crs[cur])
          /\ UNCHANGED <<crs, used>>
       \/ Spend("fault") /\ UNCHANGED crs
    /\ Return(TRUE)
    /\ UNCHANGED <<cache, routes, granted, ca, secrets, cloud>>

-----------------------------------------------------------------------------
(* reconcileDelete *)

\* Without credentials the finalizer goes and nothing is cleaned up.
ResolveForDeletion ==
    /\ pc = "wipe"
    /\ \/ HasCredentials(mem.spec) /\ Continue("deleteApp", st) /\ UNCHANGED used
       \/ ~HasCredentials(mem.spec) /\ Continue("unfinalize", st) /\ UNCHANGED used
       \/ Spend("fault") /\ Continue("unfinalize", st)
    /\ UNCHANGED <<cluster, cache, cloud, queued>>

\* Applications without the one the status names; it may be gone already.
AppDeleted ==
    [i \in Ids |-> IF i = st.app THEN None ELSE apps[i]]

\* Each call is made once; failures are only logged.
\* Mutant: without an identifier the call is made all the same, and its error
\* returned.
DeleteApplicationAlways ==
    /\ pc = "deleteApp"
    /\ \/ /\ st.app # 0
          /\ apps' = AppDeleted
          /\ pc' = "revoke" /\ todo' = {t \in TokenNames : st.tokens[t] # 0}
          /\ UNCHANGED <<queued, cur, mem, st, resolved, hosts, app, existing, tok, fresh>>
       \/ st.app = 0 /\ Return(TRUE) /\ UNCHANGED apps
    /\ UNCHANGED <<cluster, cache, tokens, certs, mtlsHosts, serial, used>>

DeleteApplication ==
    /\ pc = "deleteApp"
    /\ \/ apps' = AppDeleted /\ UNCHANGED used
       \/ Spend("fault") /\ apps' \in {apps, AppDeleted}
    /\ pc' = "revoke" /\ todo' = {t \in TokenNames : st.tokens[t] # 0}
    /\ UNCHANGED <<cluster, cache, tokens, certs, mtlsHosts, serial, queued, cur, mem, st,
                   resolved, hosts, app, existing, tok, fresh>>

Revoked(t) ==
    IF tokens[t] # None /\ tokens[t].id = st.tokens[t] THEN [tokens EXCEPT ![t] = None]
    ELSE tokens

RevokeToken ==
    /\ pc = "revoke"
    /\ \E t \in todo :
         /\ \/ tokens' = Revoked(t) /\ UNCHANGED used
            \/ Spend("fault") /\ tokens' \in {tokens, Revoked(t)}
         /\ todo' = todo \ {t}
    /\ UNCHANGED <<cluster, cache, apps, certs, mtlsHosts, serial, queued, cur, pc, mem, st,
                   resolved, hosts, app, existing, tok, fresh>>

CertDeleted ==
    [c \in CertNames |-> IF certs[c] # None /\ certs[c].id = st.cert THEN None ELSE certs[c]]

DeleteCertificate ==
    /\ pc = "revoke" /\ todo = {}
    /\ \/ certs' = CertDeleted /\ UNCHANGED used
       \/ Spend("fault") /\ certs' \in {certs, CertDeleted}
    /\ pc' = "unfinalize"
    /\ UNCHANGED <<cluster, cache, apps, tokens, mtlsHosts, serial, queued, cur, mem, st, locals>>

RemoveFinalizer ==
    /\ pc = "unfinalize"
    /\ \/ /\ crs[cur].exists
          /\ crs' = [crs EXCEPT ![cur] = Gone(crs[cur])]
          /\ Return(FALSE)
          /\ UNCHANGED used
       \/ ~crs[cur].exists /\ Return(TRUE) /\ UNCHANGED <<crs, used>>
       \/ Spend("fault") /\ Return(TRUE) /\ UNCHANGED crs
    /\ UNCHANGED <<cache, routes, granted, ca, secrets, cloud>>

-----------------------------------------------------------------------------
(* The informers, the process, the user, Cloudflare's dashboard *)

\* GenerationOrDeletionPredicate.  Events of routes, grants and Secrets also
\* enqueue the resource, which the requeue after every reconcile has already
\* put on the queue.
Enqueues(old, new) ==
    \/ old.exists # new.exists
    \/ old.gen # new.gen
    \/ ~old.deleting /\ new.deleting

SyncCache(o) ==
    /\ cache[o] # crs[o]
    /\ cache' = [cache EXCEPT ![o] = crs[o]]
    /\ queued' = IF Enqueues(cache[o], crs[o]) THEN queued \cup {o} ELSE queued
    /\ UNCHANGED <<cluster, cloud, job, used>>

\* The process dies and restarts: what it had in memory is lost, the
\* informers list everything again.
Crash ==
    /\ Spend(IF pc = "store" THEN "lost" ELSE "crash")
    /\ queued' = {o \in Resources : crs[o].exists}
    /\ Rest
    /\ cache' = crs
    /\ UNCHANGED <<cluster, cloud>>

EditSpec(o) ==
    /\ crs[o].exists
    /\ Spend("spec")
    /\ \E s \in SpecsOf[o] \ {crs[o].spec} : crs' = [crs EXCEPT ![o] = Edited(crs[o], s)]
    /\ UNCHANGED <<cache, routes, granted, ca, secrets, cloud, queued, job>>

DeleteObject(o) ==
    /\ crs[o].exists /\ ~crs[o].deleting
    /\ Spend("delete")
    /\ crs' = [crs EXCEPT ![o] = Terminating(crs[o])]
    /\ UNCHANGED <<cache, routes, granted, ca, secrets, cloud, queued, job>>

\* Routes, grants and the CA's Secret come and go; this is the informers' view
\* of them.
ChangeCluster ==
    /\ Spend("routes")
    /\ \/ routes' \in RouteStates \ {routes} /\ UNCHANGED <<granted, ca>>
       \/ granted' = ~granted /\ UNCHANGED <<routes, ca>>
       \/ ca' = ~ca /\ UNCHANGED <<routes, granted>>
    /\ UNCHANGED <<crs, cache, secrets, cloud, queued, job>>

\* An application of somebody else or moved, a policy somebody has rewritten.
Others(n, d) == [name |-> n, domain |-> d, cors |-> "none", policies |-> NoPolicies, by |-> None]
Moved(a, d) == [a EXCEPT !.domain = d]
Spoiled == [rules |-> {}, precedence |-> 0]

\* Somebody adds an application or deletes one, moves it to another domain,
\* deletes or rewrites one of its policies.
ExternalApplication ==
    /\ Spend("external")
    /\ \/ /\ serial < MaxIDs
          /\ \E n \in AppNames, d \in Domains :
               apps' = [apps EXCEPT ![serial + 1] = Others(n, d)]
          /\ serial' = serial + 1
       \/ /\ \E i \in Ids :
               /\ apps[i] # None
               /\ \/ apps' = [apps EXCEPT ![i] = None]
                  \/ \E d \in Domains : apps' = [apps EXCEPT ![i] = Moved(apps[i], d)]
                  \/ \E n \in PolicyNames, h \in {None, Spoiled} :
                       /\ apps[i].policies[n] # None
                       /\ apps' = [apps EXCEPT ![i] = Holding(apps[i], n, h)]
          /\ UNCHANGED serial
    /\ UNCHANGED <<cluster, cache, tokens, certs, mtlsHosts, queued, job>>

\* Somebody revokes a token or deletes a certificate.
ExternalCredential ==
    /\ Spend("external")
    /\ \/ /\ \E t \in TokenNames : tokens[t] # None /\ tokens' = [tokens EXCEPT ![t] = None]
          /\ UNCHANGED certs
       \/ /\ \E c \in CertNames : certs[c] # None /\ certs' = [certs EXCEPT ![c] = None]
          /\ UNCHANGED tokens
    /\ UNCHANGED <<cluster, cache, apps, mtlsHosts, serial, queued, job>>

\* Somebody deletes a Secret.
DeleteSecret ==
    /\ Spend("lost")
    /\ \E o \in Resources, t \in TokenNames :
         /\ secrets[o][t] # 0
         /\ secrets' = [secrets EXCEPT ![o] = [@ EXCEPT ![t] = 0]]
    /\ UNCHANGED <<crs, routes, granted, ca, cache, cloud, queued, job>>

\* The API server's garbage collector takes the Secrets of a resource that is
\* gone: WriteSecret made the resource their controller owner.
CollectSecrets(o) ==
    /\ ~crs[o].exists /\ secrets[o] # [t \in TokenNames |-> 0]
    /\ secrets' = [secrets EXCEPT ![o] = [t \in TokenNames |-> 0]]
    /\ UNCHANGED <<crs, routes, granted, ca, cache, cloud, queued, job, used>>

\* The duration of a token has passed.
Expired(k) == [k EXCEPT !.expired = TRUE]
ExpireToken ==
    /\ Spend("expire")
    /\ \E t \in TokenNames :
         /\ Valid(t)
         /\ tokens' = [tokens EXCEPT ![t] = Expired(tokens[t])]
    /\ UNCHANGED <<cluster, cache, apps, certs, mtlsHosts, serial, queued, job>>

-----------------------------------------------------------------------------
Work ==
    \/ AddFinalizer \/ ResolveCredentials \/ ResolveTargets \/ FindApplication
    \/ CreateApplication \/ UpdateApplication \/ ListPolicies \/ DeletePolicy \/ Pruned
    \/ SkipPolicy \/ WritePolicy \/ PoliciesSynced \/ FindToken \/ MintToken
    \/ StoreSecret \/ TokensReady \/ FindCertificate \/ UploadCertificate
    \/ AssociateHostnames \/ Finish \/ UpdateStatus \/ ResolveForDeletion
    \/ DeleteApplication \/ RevokeToken \/ DeleteCertificate \/ RemoveFinalizer

Reconcile == Work \/ \E o \in Resources : Fetch(o)

Environment ==
    \/ \E o \in Resources : SyncCache(o) \/ EditSpec(o) \/ DeleteObject(o) \/ CollectSecrets(o)
    \/ Crash \/ ChangeCluster \/ ExternalApplication \/ ExternalCredential \/ DeleteSecret
    \/ ExpireToken

Next == Reconcile \/ Environment

Spec == Init /\ [][Next]_vars

\* The worker finishes what it started, the queue, first in first out, serves
\* every resource on it, and informers catch up.
Fairness ==
    /\ WF_vars(Work)
    /\ \A o \in Resources : SF_vars(Fetch(o)) /\ WF_vars(SyncCache(o))

-----------------------------------------------------------------------------
(* Safety *)

\* No two resources ever ask for an application, a token or a certificate of
\* the same name.
NamesApart ==
    \A o, p \in Resources : o # p => \A s \in SpecsOf[o], r \in SpecsOf[p] :
        /\ s.name # r.name
        /\ s.tokens \cap r.tokens = {}
        /\ s.mtls = None \/ s.mtls # r.mtls

\* While SyncPolicies writes the policies of the spec, none of those it listed
\* and the spec has dropped is left in the application, even when a delete
\* fails or the application is changed by others meanwhile.
OldPoliciesGone ==
    pc = "upsert" /\ apps[app] # None =>
        \A n \in PolicyNames \ Wanted : existing[n] # None => apps[app].policies[n] = None

\* The Secret a resource has for its token holds the secret Cloudflare accepts,
\* but for the moment before it is written: through expiry, any number of
\* rotations, revocation by others, edits, deletion, failing calls and crashes
\* (EnsureServiceToken).  It takes one of four losses to break it: the answer of
\* the call that made the secret, the write of the Secret, the process between
\* the two, or the Secret itself.
SecretsCurrent ==
    NamesApart /\ used["lost"] = 0 =>
        \A t \in TokenNames :
            tokens[t] # None /\ crs[tokens[t].by].exists /\ ~(pc = "store" /\ tok = t) =>
                secrets[tokens[t].by][t] = tokens[t].secret

\* A resource that exists is on the queue or under reconciliation: no early
\* return, error path or event the predicate drops makes the controller forget
\* it (the results of Reconcile, GenerationOrDeletionPredicate).
NoneForgotten == \A o \in Resources : crs[o].exists => o \in queued \/ cur = o

(* What a step may never do *)

\* What the status of a resource names as its own.
Lists(o, i) ==
    LET s == crs[o].status IN
    i # 0 /\ (s.app = i \/ s.cert = i \/ \E t \in TokenNames : s.tokens[t] = i)

\* A reconcile changes or deletes no application, token or certificate that
\* another resource has in its status, however old the copies and identifiers
\* it works from, if the resources use different names.
OthersKept ==
    [][NamesApart /\ Reconcile => \A p \in Resources \ {cur} :
         /\ \A i \in Ids : apps[i] # None /\ Lists(p, i) => apps'[i] = apps[i]
         /\ \A t \in TokenNames :
              tokens[t] # None /\ Lists(p, tokens[t].id) => tokens'[t] = tokens[t]
         /\ \A c \in CertNames :
              certs[c] # None /\ Lists(p, certs[c].id) => certs'[c] = certs[c]]_vars

\* The finalizer protocol: what cfgate makes for a resource is made while the
\* finalizer is stored, before the cleanup, never after it.
Phase(o) ==
    IF ~crs[o].exists THEN "released" ELSE IF crs[o].finalizer THEN "held" ELSE "new"
OwnedBy(o) ==
    {i \in Ids : apps[i] # None /\ apps[i].by = o}
    \cup {tokens[t].id : t \in {u \in TokenNames : tokens[u] # None /\ tokens[u].by = o}}
    \cup {certs[c].id : c \in {d \in CertNames : certs[d] # None /\ certs[d].by = o}}

Protocol == INSTANCE FinalizerProtocol
    WITH Owners <- Resources, Things <- Nat,
         phase <- [o \in Resources |-> Phase(o)], owned <- [o \in Resources |-> OwnedBy(o)]
HeldWhileOwned == Protocol!Spec

(* Liveness *)

\* A deleted resource goes, whatever fails in its cleanup.
DeletionCompletes ==
    \A o \in Resources : crs[o].deleting ~> ~crs[o].exists

\* What the resource asks for can be had.
HostsOf(o) == ExtractHostnames(Resolvable(crs[o].spec))
Applicable(o) ==
    LET s == crs[o].spec IN
    /\ crs[o].exists /\ HasCredentials(s) /\ ValidKinds(s)
    /\ Resolvable(s) = s.targets
    /\ s.domain # None \/ HostsOf(o) # {}

Applied(o) ==
    LET s == crs[o].spec
        r == crs[o].status
        a == apps[r.app] IN
    /\ r.conds["Ready"] = "True" /\ r.observedGen = crs[o].gen /\ r.accepted = s.targets
    /\ r.app # 0 /\ a # None
    /\ a.name = s.name /\ a.cors = SentCORS(s.cors)
    /\ a.domain = s.domain \/ (s.domain = None /\ a.domain \in HostsOf(o))
    /\ \A n \in PolicyNames :
         a.policies[n] = IF s.policies[n] = None THEN None ELSE Sent(s.policies[n])
    /\ \A t \in s.tokens : tokens[t] # None /\ r.tokens[t] = tokens[t].id
    /\ s.mtls # None /\ ca => certs[s.mtls] # None /\ r.cert = certs[s.mtls].id

\* After the last disturbance the account holds what the spec asks for and the
\* status says so: drift, lost answers and crashes are repaired.  A token is
\* there, but may stay expired, and rotated at every requeue, for ever.
AccessConverges ==
    <>[](\A o \in Resources : Applicable(o) => Applied(o))

\* ... and then the reconciler only looks: it rewrites nothing at Cloudflare
\* that is already right.
Settles ==
    <>[][~(WritePolicy \/ UpdateApplication)]_vars

-----------------------------------------------------------------------------
(* What the repository says of the tokens, and the code does not keep *)

=============================================================================
