----------------------- MODULE CloudflareAccessProofs -----------------------
(* Proofs about the CloudflareAccessPolicy reconciler. *)
EXTENDS CloudflareAccess, TLAPS

-----------------------------------------------------------------------------
(* Types *)

Values == {"None", "True", "False", "Unknown"}

\* The budget stays a function to numbers.
LEMMA SpendType ==
    ASSUME NEW k, used \in [Kinds -> Nat], Spend(k)
    PROVE  used' \in [Kinds -> Nat]
BY DEF Spend, Kinds

\* A status stays a status, whatever is noted in it.
LEMMA StatusTypes ==
    /\ \A s \in Statuses, c \in Conditions, v \in Values : With(s, c, v) \in Statuses
    /\ \A s \in Statuses, i \in Nat : SetApp(s, i) \in Statuses /\ SetCert(s, i) \in Statuses
    /\ \A s \in Statuses, t \in TokenNames, i \in Nat : SetToken(s, t, i) \in Statuses
    /\ NoStatus \in Statuses
<1>1. ASSUME NEW s \in Statuses, NEW c \in Conditions, NEW v \in Values
      PROVE  With(s, c, v) \in Statuses
  <2>1. [s.conds EXCEPT ![c] = v] \in [Conditions -> Values]
    BY DEF Statuses, Values
  <2> QED
    BY <2>1 DEF With, Statuses, Values
<1>2. \A s \in Statuses, i \in Nat : SetApp(s, i) \in Statuses /\ SetCert(s, i) \in Statuses
  BY DEF SetApp, SetCert, Statuses
<1>3. ASSUME NEW s \in Statuses, NEW t \in TokenNames, NEW i \in Nat
      PROVE  SetToken(s, t, i) \in Statuses
  <2>1. [s.tokens EXCEPT ![t] = i] \in [TokenNames -> Nat]
    BY DEF Statuses
  <2> QED
    BY <2>1 DEF SetToken, Statuses
<1>4. NoStatus \in Statuses
  BY DEF NoStatus, Statuses
<1> QED
  BY <1>1, <1>2, <1>3, <1>4

\* A resource stays a resource, whoever writes it.
LEMMA ObjectTypes ==
    /\ \A s \in Specs : NewObject(s) \in Objects
    /\ \A o \in Objects : /\ Finalized(o) \in Objects /\ Gone(o) \in Objects
                          /\ Terminating(o) \in Objects
    /\ \A o \in Objects, s \in Statuses : Reporting(o, s) \in Objects
    /\ \A o \in Objects, s \in Specs : Edited(o, s) \in Objects
<1>1. \A s \in Specs : NewObject(s) \in Objects
  BY StatusTypes DEF NewObject, Objects
<1>2. \A o \in Objects : Finalized(o) \in Objects /\ Gone(o) \in Objects
  BY DEF Finalized, Gone, Objects
<1>3. \A o \in Objects : Terminating(o) \in Objects
  BY DEF Terminating, Objects
<1>4. \A o \in Objects, s \in Statuses : Reporting(o, s) \in Objects
  BY DEF Reporting, Objects
<1>5. ASSUME NEW o \in Objects, NEW s \in Specs PROVE Edited(o, s) \in Objects
  <2> DEFINE n == o.gen + 1
  <2>1. n \in Nat
    BY DEF Objects
  <2>2. Edited(o, s) = [o EXCEPT !.spec = s, !.gen = n]
    BY DEF Edited
  <2> HIDE DEF n
  <2> QED
    BY <2>1, <2>2 DEF Objects
<1> QED
  BY <1>1, <1>2, <1>3, <1>4, <1>5

\* The hostname of an application is there when ensureApplication needs it.
LEMMA DomainType ==
    ASSUME NEW s \in Specs, hosts \in SUBSET Domains
    PROVE  (s.domain # None \/ hosts # {}) <=> Domain(s) \in Domains
<1>1. s.domain \in Domains \cup {None}
  BY DEF Specs
<1>2. CASE s.domain # None
  BY <1>1, <1>2 DEF Domain
<1>3. CASE s.domain = None /\ hosts = {}
  BY <1>3, DomainsAssumption DEF Domain
<1>4. CASE s.domain = None /\ hosts # {}
  <2>1. \E d \in hosts : \A e \in hosts : d <= e
    BY <1>4, DomainsAssumption
  <2>2. Domain(s) = CHOOSE d \in hosts : \A e \in hosts : d <= e
    BY <1>4 DEF Domain
  <2>3. Domain(s) \in hosts
    BY <2>1, <2>2
  <2> QED
    BY <1>4, <2>3
<1> QED
  BY <1>2, <1>3, <1>4

\* What a policy is sent as, and an application with it.
LEMMA AppTypes ==
    /\ NoPolicies \in [PolicyNames -> Held \cup {None}]
    /\ \A p \in Rules : Sent(p) \in Held
    /\ Spoiled \in Held
    /\ \A a \in Applications, n \in PolicyNames, h \in Held \cup {None} :
         Holding(a, n, h) \in Applications
    /\ \A a \in Applications, d \in Domains : Moved(a, d) \in Applications
    /\ \A n \in AppNames, d \in Domains : Others(n, d) \in Applications
<1>1. NoPolicies \in [PolicyNames -> Held \cup {None}] /\ Spoiled \in Held
  BY DEF NoPolicies, Spoiled, Held
<1>2. ASSUME NEW p \in Rules PROVE Sent(p) \in Held
  <2>1. PolicyParams(p).rules = p.rules \ {"ipListByName", "emailListByName"}
    BY DEF PolicyParams, ConvertAccessRules, Rules
  <2>2. AccessRulesToAPI(PolicyParams(p).rules) \in SUBSET RuleKinds /\ p.precedence \in Nat
    BY <2>1 DEF AccessRulesToAPI, Rules
  <2> QED
    BY <2>2 DEF Sent, Held
<1>3. ASSUME NEW a \in Applications, NEW n \in PolicyNames, NEW h \in Held \cup {None}
      PROVE  Holding(a, n, h) \in Applications
  <2>1. [a.policies EXCEPT ![n] = h] \in [PolicyNames -> Held \cup {None}]
    BY DEF Applications
  <2> QED
    BY <2>1 DEF Holding, Applications
<1>4. \A a \in Applications, d \in Domains : Moved(a, d) \in Applications
  BY DEF Moved, Applications
<1>5. \A n \in AppNames, d \in Domains : Others(n, d) \in Applications
  BY <1>1 DEF Others, Applications
<1> QED
  BY <1>1, <1>2, <1>3, <1>4, <1>5

\* The application EnsureApplication asks for is well-typed.
LEMMA DesiredType ==
    ASSUME mem \in Objects, hosts \in SUBSET Domains,
           mem.spec.domain # None \/ hosts # {},
           NEW p \in [PolicyNames -> Held \cup {None}], NEW b \in Resources \cup {None}
    PROVE  Desired(p, b) \in Applications
<1>1. mem.spec \in Specs /\ mem.spec.name \in AppNames
  BY DEF Objects, Specs
<1>2. Domain(mem.spec) \in Domains
  BY <1>1, DomainType
<1>3. SentCORS(mem.spec.cors) \in {"none", "set"}
  BY DEF SentCORS
<1> QED
  BY <1>1, <1>2, <1>3 DEF Desired, Applications

\* A token that is created or rotated is well-typed.
LEMMA TokenTypes ==
    /\ \A i \in Nat \ {0}, s \in Secrets : cur \in Resources => Created(i, s) \in Tokens
    /\ \A k \in Tokens, s \in Secrets, e \in BOOLEAN : Rotated(k, s, e) \in Tokens
    /\ \A k \in Tokens : Expired(k) \in Tokens
BY DEF Created, Rotated, Expired, Tokens

\* The initial states are well-typed.
LEMMA TypeInit == Init => TypeOK
<1> SUFFICES ASSUME Init PROVE TypeOK
  OBVIOUS
<1>1. crs \in [Resources -> Objects]
  <2>1. PICK f \in [Resources -> UNION {SpecsOf[o] : o \in Resources}] :
          /\ \A o \in Resources : f[o] \in SpecsOf[o]
          /\ crs = [o \in Resources |-> NewObject(f[o])]
    BY DEF Init
  <2>2. \A o \in Resources : f[o] \in Specs
    BY <2>1, SpecsAssumption
  <2> QED
    BY <2>1, <2>2, ObjectTypes
<1>2. cache \in [Resources -> Objects]
  BY <1>1 DEF Init
<1>3. /\ st \in Statuses /\ existing \in [PolicyNames -> Held \cup {None}]
      /\ secrets \in [Resources -> [TokenNames -> Nat]]
  BY StatusTypes, AppTypes DEF Init, Resting
<1>4. /\ apps \in [Ids -> Applications \cup {None}]
      /\ tokens \in [TokenNames -> Tokens \cup {None}]
      /\ certs \in [CertNames -> Certificates \cup {None}]
      /\ serial \in 0..MaxIDs /\ used \in [Kinds -> Nat]
  BY BoundAssumption DEF Init
<1> QED
  BY <1>1, <1>2, <1>3, <1>4 DEF Init, Resting, TypeOK, Steps, NoToken

\* What a reconcile has in hand while it is under way.
LEMMA Fields ==
    ASSUME TypeOK
    PROVE  /\ \A o \in Resources : /\ crs[o] \in Objects /\ crs[o].status \in Statuses
                                   /\ cache[o] \in Objects /\ cache[o].status \in Statuses
           /\ \A o \in Objects : /\ o.spec \in Specs /\ o.gen \in Nat
                                 /\ o.spec.tokens \in SUBSET TokenNames
                                 /\ o.spec.mtls \in CertNames \cup {None}
                                 /\ o.spec.targets \in SUBSET Targets
           /\ \A i \in Ids : apps[i] # None => /\ apps[i] \in Applications
                                               /\ apps[i].policies \in [PolicyNames -> Held \cup {None}]
                                               /\ apps[i].by \in Resources \cup {None}
           /\ \A t \in TokenNames : tokens[t] # None => /\ tokens[t] \in Tokens
                                                        /\ tokens[t].id \in Nat \ {0}
           /\ \A c \in CertNames : certs[c] # None => certs[c].id \in Nat \ {0}
           /\ \A t \in Targets : routes[t].hosts \in SUBSET Domains
           /\ serial \in Nat /\ (serial < MaxIDs => serial + 1 \in Ids /\ serial + 1 \in 0..MaxIDs)
           /\ Ids \subseteq Nat
<1>1. \A o \in Resources : /\ crs[o] \in Objects /\ crs[o].status \in Statuses
                           /\ cache[o] \in Objects /\ cache[o].status \in Statuses
  BY DEF TypeOK, Objects
<1>2. \A o \in Objects : /\ o.spec \in Specs /\ o.gen \in Nat
                         /\ o.spec.tokens \in SUBSET TokenNames
                         /\ o.spec.mtls \in CertNames \cup {None}
                         /\ o.spec.targets \in SUBSET Targets
  BY DEF Objects, Specs
<1>3. \A i \in Ids : apps[i] # None => /\ apps[i] \in Applications
                                       /\ apps[i].policies \in [PolicyNames -> Held \cup {None}]
                                       /\ apps[i].by \in Resources \cup {None}
  <2>1. \A i \in Ids : apps[i] # None => apps[i] \in Applications
    BY DEF TypeOK
  <2> QED
    BY <2>1 DEF Applications
<1>4. /\ \A t \in TokenNames : tokens[t] # None => /\ tokens[t] \in Tokens
                                                   /\ tokens[t].id \in Nat \ {0}
      /\ \A c \in CertNames : certs[c] # None => certs[c].id \in Nat \ {0}
  BY DEF TypeOK, Tokens, Certificates
<1>5. \A t \in Targets : routes[t].hosts \in SUBSET Domains
  <2>1. routes \in [Targets -> [there: BOOLEAN, hosts: SUBSET Domains]]
    BY TargetsAssumption DEF TypeOK
  <2> QED
    BY <2>1
<1>6. serial \in Nat /\ (serial < MaxIDs => serial + 1 \in Ids /\ serial + 1 \in 0..MaxIDs)
  BY BoundAssumption DEF TypeOK, Ids
<1>7. Ids \subseteq Nat
  BY BoundAssumption DEF Ids
<1> QED
  BY <1>1, <1>2, <1>3, <1>4, <1>5, <1>6, <1>7


\* TypeOK has two parts: the cluster and the account, and the worker.
WorldOK ==
    /\ crs \in [Resources -> Objects] /\ cache \in [Resources -> Objects]
    /\ routes \in RouteStates /\ granted \in BOOLEAN /\ ca \in BOOLEAN
    /\ secrets \in [Resources -> [TokenNames -> Nat]]
    /\ apps \in [Ids -> Applications \cup {None}]
    /\ tokens \in [TokenNames -> Tokens \cup {None}]
    /\ certs \in [CertNames -> Certificates \cup {None}]
    /\ mtlsHosts \in SUBSET Domains
    /\ serial \in 0..MaxIDs
    /\ queued \in SUBSET Resources
    /\ used \in [Kinds -> Nat]
JobOK ==
    /\ pc \in Steps
    /\ IF pc = "idle" THEN cur = None /\ mem = None
       ELSE cur \in Resources /\ mem \in Objects
    /\ st \in Statuses
    /\ resolved \in SUBSET Targets /\ hosts \in SUBSET Domains
    /\ app \in Nat /\ (pc \in {"update", "list", "prune", "upsert"} => app \in Ids)
    /\ existing \in [PolicyNames -> Held \cup {None}]
    /\ todo \in SUBSET (PolicyNames \cup TokenNames)
    /\ pc \in {"create", "update"} => mem.spec.domain # None \/ hosts # {}
    /\ pc \in {"prune", "upsert"} => todo \subseteq PolicyNames
    /\ pc = "upsert" => \A n \in todo : mem.spec.policies[n] # None
    /\ pc \in {"token", "mint", "store", "revoke"} => todo \subseteq TokenNames
    /\ IF pc \in {"mint", "store"} THEN tok \in todo \cap TokenNames ELSE tok = None
    /\ fresh \in [id: Nat, secret: Nat]

\* The types of the world and those of the reconcile under way.
LEMMA Parts == TypeOK <=> WorldOK /\ JobOK
BY DEF TypeOK, WorldOK, JobOK

\* A reconcile that ends leaves no locals behind.
LEMMA RestTypes == ASSUME Rest PROVE JobOK'
<1>1. st' \in Statuses /\ existing' \in [PolicyNames -> Held \cup {None}]
  BY StatusTypes, AppTypes DEF Rest
<1>2. fresh' \in [id: Nat, secret: Nat]
  BY DEF Rest, NoToken
<1> QED
  BY <1>1, <1>2 DEF Rest, JobOK, Steps

\* Every reconcile ends with the worker at rest.
LEMMA ReturnTypes ==
    ASSUME TypeOK, pc # "idle", NEW b, Return(b)
    PROVE  JobOK' /\ queued' \in SUBSET Resources
BY RestTypes DEF Return, TypeOK

\* The steps at which nothing is known of the locals but their types.
Plain == {"credentials", "targets", "find", "list", "cert", "upload", "associate", "finish",
          "status", "wipe", "deleteApp", "unfinalize"}

\* A reconcile that goes on keeps the resource and the spec it read.
LEMMA ContinueTypes ==
    ASSUME TypeOK, pc \notin {"idle", "mint", "store"}, NEW p \in Plain \ {"list"},
           NEW s \in Statuses, Continue(p, s)
    PROVE  JobOK'
BY DEF Continue, TypeOK, JobOK, Plain, Steps, locals

\* Noting a condition is always possible.
LEMMA NotedTypes ==
    ASSUME NEW s \in Statuses, NEW v \in {"True", "False", "Unknown"}
    PROVE  /\ With(s, "CredentialsValid", v) \in Statuses
           /\ With(s, "TargetsResolved", v) \in Statuses
           /\ With(s, "ReferenceGrantValid", v) \in Statuses
           /\ With(s, "ApplicationCreated", v) \in Statuses
           /\ With(s, "PoliciesAttached", v) \in Statuses
           /\ With(s, "ServiceTokensReady", v) \in Statuses
           /\ With(s, "MTLSConfigured", v) \in Statuses
           /\ With(s, "Ready", v) \in Statuses
BY StatusTypes DEF Conditions, Values

\* The ways in which a phase of the reconcile ends.
LEMMA PhaseTypes ==
    ASSUME TypeOK, pc # "idle"
    PROVE  /\ pc \notin {"mint", "store"} /\ (ApplicationFails \/ PoliciesFail \/ MTLSFails) => JobOK'
           /\ pc \notin {"mint", "store"} => \A i \in Ids : ApplicationIs(i) => JobOK'
           /\ TokensFail => JobOK'
           /\ \A t \in TokenNames, i \in Nat : todo \subseteq TokenNames /\ TokenIs(t, i) => JobOK'
<1>0. st \in Statuses
  BY DEF TypeOK
<1>1. ASSUME pc \notin {"mint", "store"}, ApplicationFails \/ PoliciesFail \/ MTLSFails
      PROVE  JobOK'
  BY <1>0, <1>1, NotedTypes, ContinueTypes DEF ApplicationFails, PoliciesFail, MTLSFails, Plain
<1>2. ASSUME pc \notin {"mint", "store"}, NEW i \in Ids, ApplicationIs(i) PROVE JobOK'
  <2>1. i \in Nat /\ st' \in Statuses
    BY <1>0, <1>2, NotedTypes, StatusTypes, Fields DEF ApplicationIs
  <2> QED
    BY <1>2, <2>1 DEF ApplicationIs, TypeOK, JobOK, Steps
<1>3. ASSUME TokensFail PROVE JobOK'
  <2>1. st' \in Statuses /\ fresh' \in [id: Nat, secret: Nat]
    BY <1>0, <1>3, NotedTypes DEF TokensFail, NoToken
  <2> QED
    BY <1>3, <2>1 DEF TokensFail, TypeOK, JobOK, Steps
<1>4. ASSUME NEW t \in TokenNames, NEW i \in Nat, todo \subseteq TokenNames, TokenIs(t, i)
      PROVE  JobOK'
  <2>1. st' \in Statuses /\ fresh' \in [id: Nat, secret: Nat]
    BY <1>0, <1>4, StatusTypes DEF TokenIs, NoToken
  <2> QED
    BY <1>4, <2>1 DEF TokenIs, TypeOK, JobOK, Steps
<1> QED
  BY <1>1, <1>2, <1>3, <1>4

\* Every step of the controller and of its environment keeps the types.
LEMMA TypeStep == TypeOK /\ [Next]_vars => TypeOK'
<1> SUFFICES ASSUME TypeOK, [Next]_vars PROVE WorldOK' /\ JobOK'
  BY Parts DEF TypeOK, WorldOK, JobOK
<1>0. WorldOK /\ JobOK /\ st \in Statuses
  BY Parts DEF TypeOK
<1> USE SpendType
<1>1. CASE \E o \in Resources : Fetch(o)
  <2>1. PICK o \in Resources : Fetch(o)
    BY <1>1
  <2>2. cache[o] \in Objects /\ cache[o].status \in Statuses
    BY Fields
  <2>3. Path(cache[o]) \in {"idle", "finalize", "credentials", "wipe", "unfinalize"}
    <3>1. /\ cache[o].exists \in BOOLEAN /\ cache[o].deleting \in BOOLEAN
          /\ cache[o].finalizer \in BOOLEAN
      BY <2>2 DEF Objects
    <3> QED
      BY <3>1 DEF Path
  <2>4. JobOK'
    BY <2>1, <2>2, <2>3, <1>0 DEF JobOK, Fetch, Steps, locals
  <2> QED
    BY <2>1, <2>4, <1>0 DEF WorldOK, Fetch, cluster, cloud
<1>2. CASE AddFinalizer
  <2>1. crs' \in [Resources -> Objects] /\ used' \in [Kinds -> Nat]
    BY <1>2, ObjectTypes, Fields DEF TypeOK, AddFinalizer
  <2>2. JobOK' /\ queued' \in SUBSET Resources
    BY <1>2, ReturnTypes DEF AddFinalizer
  <2> QED
    BY <1>0, <1>2, <2>1, <2>2 DEF WorldOK, AddFinalizer, cloud
<1>3. CASE ResolveCredentials
  <2>1. \E v \in {"True", "False"} :
          \/ Continue("targets", With(st, "CredentialsValid", v))
          \/ Continue("status", With(st, "CredentialsValid", v))
    BY <1>3 DEF ResolveCredentials
  <2>2. JobOK'
    BY <1>0, <1>3, <2>1, NotedTypes, ContinueTypes DEF ResolveCredentials, Plain
  <2> QED
    BY <1>0, <1>3, <2>2 DEF WorldOK, ResolveCredentials, cluster, cloud
<1>4. CASE ResolveTargets
  <2> DEFINE r == Resolvable(mem.spec)
  <2>1. r \in SUBSET Targets /\ ExtractHostnames(r) \in SUBSET Domains
    <3>1. mem \in Objects /\ mem.spec.targets \in SUBSET Targets
      BY <1>4, Fields DEF ResolveTargets, TypeOK
    <3> QED
      BY <3>1, Fields DEF Resolvable, ExtractHostnames
  <2>2. ASSUME NEW v \in {"True", "False"}
        PROVE  /\ With(st, "TargetsResolved", v) \in Statuses
               /\ With(With(st, "TargetsResolved", v), "ReferenceGrantValid", "False") \in Statuses
    BY <1>0, NotedTypes
  <2>3. \/ \E s \in Statuses : Continue("status", s)
        \/ /\ pc' = "find" /\ st' \in Statuses
           /\ resolved' = r /\ hosts' = ExtractHostnames(r)
           /\ UNCHANGED <<cur, mem, app, existing, todo, tok, fresh>>
    BY <1>4, <2>2 DEF ResolveTargets
  <2>4. JobOK'
    BY <1>0, <1>4, <2>1, <2>3, ContinueTypes DEF JobOK, ResolveTargets, Plain, Steps
  <2> QED
    BY <1>0, <1>4, <2>4 DEF WorldOK, ResolveTargets, cluster, cloud
<1>5. CASE FindApplication
  <2>1. Domain(mem.spec) # None => mem.spec.domain # None \/ hosts # {}
    BY DEF Domain
  <2>2. JobOK'
    <3>1. CASE Domain(mem.spec) # None /\ pc' = "create" /\ UNCHANGED <<cur, mem, st, locals>>
      BY <1>0, <1>5, <2>1, <3>1 DEF JobOK, FindApplication, Steps, locals
    <3>2. CASE /\ Domain(mem.spec) # None
               /\ \E i \in Named(mem.spec.name) :
                    /\ pc' = "update" /\ app' = i
                    /\ UNCHANGED <<cur, mem, st, resolved, hosts, existing, todo, tok, fresh>>
      BY <1>0, <1>5, <2>1, <3>2, Fields DEF JobOK, FindApplication, Named, Steps
    <3>3. CASE (\E i \in Ids : ApplicationIs(i)) \/ ApplicationFails
      BY <1>5, <3>3, PhaseTypes DEF FindApplication
    <3> QED
      BY <1>5, <3>1, <3>2, <3>3 DEF FindApplication, Named
  <2> QED
    BY <1>0, <1>5, <2>2 DEF WorldOK, FindApplication, cluster, cloud
<1>6. CASE CreateApplication
  <2>1. Desired(NoPolicies, cur) \in Applications
    BY <1>0, <1>6, DesiredType, AppTypes DEF JobOK, CreateApplication
  <2>2. apps' \in [Ids -> Applications \cup {None}] /\ serial' \in 0..MaxIDs
    BY <1>0, <1>6, <2>1, Fields DEF WorldOK, CreateApplication
  <2>3. JobOK'
    BY <1>6, Fields, PhaseTypes DEF CreateApplication
  <2>4. used' \in [Kinds -> Nat]
    BY <1>0, <1>6 DEF WorldOK, CreateApplication
  <2> QED
    BY <1>0, <1>6, <2>2, <2>3, <2>4 DEF WorldOK, CreateApplication, cluster
<1>7. CASE UpdateApplication
  <2>1. app \in Ids
    BY <1>0, <1>7 DEF JobOK, UpdateApplication
  <2>2. apps[app] # None => Desired(apps[app].policies, apps[app].by) \in Applications
    BY <1>0, <1>7, <2>1, DesiredType, Fields DEF JobOK, UpdateApplication
  <2>3. apps' \in [Ids -> Applications \cup {None}]
    BY <1>0, <1>7, <2>1, <2>2 DEF WorldOK, UpdateApplication
  <2>4. JobOK'
    BY <1>7, <2>1, PhaseTypes DEF UpdateApplication
  <2>5. used' \in [Kinds -> Nat]
    BY <1>0, <1>7 DEF WorldOK, UpdateApplication
  <2> QED
    BY <1>0, <1>7, <2>3, <2>4, <2>5 DEF WorldOK, UpdateApplication, cluster
<1>8. CASE ListPolicies
  <2>1. app \in Ids
    BY <1>0, <1>8 DEF JobOK, ListPolicies
  <2>2. JobOK'
    <3>1. CASE PoliciesFail
      BY <1>8, <3>1, PhaseTypes DEF ListPolicies
    <3>2. CASE /\ apps[app] # None
               /\ existing' = apps[app].policies
               /\ todo' = {n \in PolicyNames \ Wanted : apps[app].policies[n] # None}
               /\ pc' = "prune"
               /\ UNCHANGED <<cur, mem, st, resolved, hosts, app, tok, fresh, used>>
      BY <1>0, <1>8, <2>1, <3>2, Fields DEF JobOK, ListPolicies, Steps
    <3> QED
      BY <1>8, <3>1, <3>2 DEF ListPolicies
  <2>3. used' \in [Kinds -> Nat]
    BY <1>0, <1>8 DEF WorldOK, ListPolicies
  <2> QED
    BY <1>0, <1>8, <2>2, <2>3 DEF WorldOK, ListPolicies, cluster, cloud
<1>9. CASE DeletePolicy
  <2>1. app \in Ids /\ todo \subseteq PolicyNames
    BY <1>0, <1>9 DEF JobOK, DeletePolicy
  <2>2. ASSUME NEW n \in todo, apps[app] # None
        PROVE  WithPolicy(n, None) \in [Ids -> Applications \cup {None}]
    <3>1. Holding(apps[app], n, None) \in Applications
      BY <2>1, <2>2, Fields, AppTypes
    <3> QED
      BY <1>0, <2>1, <3>1 DEF WorldOK, WithPolicy
  <2>3. apps' \in [Ids -> Applications \cup {None}]
    BY <1>0, <1>9, <2>2 DEF WorldOK, DeletePolicy
  <2>4. JobOK'
    <3>1. CASE PoliciesFail
      BY <1>9, <3>1, PhaseTypes DEF DeletePolicy
    <3>2. CASE \E n \in todo : NextPolicy(n)
      BY <1>0, <1>9, <3>2 DEF JobOK, NextPolicy, DeletePolicy
    <3> QED
      BY <1>9, <3>1, <3>2 DEF DeletePolicy
  <2>5. used' \in [Kinds -> Nat]
    BY <1>0, <1>9 DEF WorldOK, DeletePolicy
  <2> QED
    BY <1>0, <1>9, <2>3, <2>4, <2>5 DEF WorldOK, DeletePolicy, cluster
<1>10. CASE Pruned
  <2>1. JobOK'
    BY <1>0, <1>10 DEF JobOK, Pruned, Wanted, Steps
  <2> QED
    BY <1>0, <1>10, <2>1 DEF WorldOK, Pruned, cluster, cloud
<1>11. CASE SkipPolicy
  <2>1. JobOK'
    BY <1>0, <1>11 DEF JobOK, SkipPolicy, NextPolicy
  <2> QED
    BY <1>0, <1>11, <2>1 DEF WorldOK, SkipPolicy, cluster, cloud
<1>12. CASE WritePolicy
  <2>1. /\ app \in Ids /\ todo \subseteq PolicyNames /\ mem \in Objects
        /\ \A n \in todo : mem.spec.policies[n] # None
    BY <1>0, <1>12 DEF JobOK, WritePolicy
  <2>2. ASSUME NEW n \in todo, apps[app] # None
        PROVE  WithPolicy(n, Sent(mem.spec.policies[n])) \in [Ids -> Applications \cup {None}]
    <3>1. mem.spec.policies[n] \in Rules
      BY <2>1 DEF Objects, Specs
    <3>2. Holding(apps[app], n, Sent(mem.spec.policies[n])) \in Applications
      BY <2>1, <2>2, <3>1, Fields, AppTypes
    <3> QED
      BY <1>0, <2>1, <3>2 DEF WorldOK, WithPolicy
  <2>3. apps' \in [Ids -> Applications \cup {None}]
    BY <1>0, <1>12, <2>2 DEF WorldOK, WritePolicy
  <2>4. JobOK'
    <3>1. CASE PoliciesFail
      BY <1>12, <3>1, PhaseTypes DEF WritePolicy
    <3>2. CASE \E n \in todo : NextPolicy(n)
      BY <1>0, <1>12, <3>2 DEF JobOK, NextPolicy, WritePolicy
    <3> QED
      BY <1>12, <3>1, <3>2 DEF WritePolicy
  <2>5. used' \in [Kinds -> Nat]
    BY <1>0, <1>12 DEF WorldOK, WritePolicy
  <2> QED
    BY <1>0, <1>12, <2>3, <2>4, <2>5 DEF WorldOK, WritePolicy, cluster
<1>13. CASE PoliciesSynced
  <2>1. st' \in Statuses /\ mem \in Objects
    BY <1>0, <1>13, NotedTypes DEF JobOK, PoliciesSynced
  <2>2. JobOK'
    BY <1>0, <1>13, <2>1, Fields DEF JobOK, PoliciesSynced, Steps
  <2> QED
    BY <1>0, <1>13, <2>2 DEF WorldOK, PoliciesSynced, cluster, cloud
<1>14. CASE FindToken
  <2>1. JobOK'
    <3>1. CASE TokensFail
      BY <1>14, <3>1, PhaseTypes DEF FindToken
    <3>2. CASE \E t \in todo : Valid(t) /\ TokenIs(t, tokens[t].id)
      <4>1. todo \subseteq TokenNames
        BY <1>0, <1>14 DEF JobOK, FindToken
      <4> QED
        BY <1>14, <3>2, <4>1, Fields, PhaseTypes DEF FindToken, Valid
    <3>3. CASE \E t \in todo :
                 /\ pc' = "mint" /\ tok' = t
                 /\ fresh' = IF tokens[t] = None THEN NoToken ELSE [NoToken EXCEPT !.id = tokens[t].id]
                 /\ UNCHANGED <<cur, mem, st, resolved, hosts, app, existing, todo, used>>
      <4>1. todo \subseteq TokenNames
        BY <1>0, <1>14 DEF JobOK, FindToken
      <4>2. fresh' \in [id: Nat, secret: Nat]
        BY <3>3, <4>1, Fields DEF NoToken
      <4> QED
        BY <1>0, <1>14, <3>3, <4>1, <4>2 DEF JobOK, FindToken, Steps
    <3> QED
      BY <1>14, <3>1, <3>2, <3>3 DEF FindToken
  <2>2. used' \in [Kinds -> Nat]
    BY <1>0, <1>14 DEF WorldOK, FindToken
  <2> QED
    BY <1>0, <1>14, <2>1, <2>2 DEF WorldOK, FindToken, cluster, cloud
<1>15. CASE MintToken
  <2>1. tok \in TokenNames /\ cur \in Resources /\ pc = "mint"
    BY <1>0, <1>15 DEF JobOK, MintToken
  <2>2. ASSUME NEW s \in Secrets, NEW new \in Mintable(s), fresh.id # 0 => Rotatable
        PROVE  new \in Tokens
    <3>1. serial + 1 \in Nat \ {0}
      BY Fields
    <3> QED
      BY <2>1, <2>2, <3>1, TokenTypes, Fields DEF Mintable, Rotatable
  <2>3. \/ /\ fresh.id # 0 => Rotatable
           /\ (serial' = serial + 1 /\ serial < MaxIDs) \/ serial' = serial
           /\ \E s \in Secrets : \E new \in Mintable(s) :
                /\ tokens' = [tokens EXCEPT ![tok] = new]
                /\ \/ /\ pc' = "store" /\ fresh' = [id |-> new.id, secret |-> s]
                      /\ UNCHANGED <<cur, mem, st, resolved, hosts, app, existing, todo, tok, used>>
                   \/ TokensFail
        \/ UNCHANGED <<tokens, serial>> /\ TokensFail
    BY <1>15 DEF MintToken, Unused
  <2>4. tokens' \in [TokenNames -> Tokens \cup {None}] /\ serial' \in 0..MaxIDs
    BY <1>0, <2>1, <2>2, <2>3, Fields DEF WorldOK
  <2>5. JobOK'
    <3>1. CASE TokensFail
      BY <2>1, <3>1, PhaseTypes
    <3>2. CASE ~TokensFail
      <4>1. PICK s \in Secrets, new \in Tokens :
              /\ pc' = "store" /\ fresh' = [id |-> new.id, secret |-> s]
              /\ UNCHANGED <<cur, mem, st, resolved, hosts, app, existing, todo, tok>>
        BY <2>2, <2>3, <3>2
      <4>2. fresh' \in [id: Nat, secret: Nat]
        BY <4>1, BoundAssumption DEF Tokens
      <4> QED
        BY <1>0, <2>1, <4>1, <4>2 DEF JobOK, Steps
    <3> QED
      BY <3>1, <3>2
  <2>6. used' \in [Kinds -> Nat]
    BY <1>0, <1>15 DEF WorldOK, MintToken
  <2> QED
    BY <1>0, <1>15, <2>4, <2>5, <2>6 DEF WorldOK, MintToken, cluster
<1>16. CASE StoreSecret
  <2>1. tok \in TokenNames /\ todo \subseteq TokenNames /\ cur \in Resources /\ pc = "store" /\ fresh.id \in Nat /\ fresh.secret \in Nat
    BY <1>0, <1>16 DEF JobOK, StoreSecret
  <2>2. Stored \in [Resources -> [TokenNames -> Nat]]
    <3>1. [secrets[cur] EXCEPT ![tok] = fresh.secret] \in [TokenNames -> Nat]
      BY <1>0, <2>1 DEF WorldOK
    <3> QED
      BY <1>0, <2>1, <3>1 DEF WorldOK, Stored
  <2>3. secrets' \in [Resources -> [TokenNames -> Nat]] /\ used' \in [Kinds -> Nat]
    BY <1>0, <1>16, <2>2 DEF WorldOK, StoreSecret
  <2>4. JobOK'
    BY <1>16, <2>1, PhaseTypes DEF StoreSecret
  <2> QED
    BY <1>0, <1>16, <2>3, <2>4 DEF WorldOK, StoreSecret, cloud
<1>17. CASE TokensReady
  <2>1. st' \in Statuses
    BY <1>0, <1>17, NotedTypes DEF TokensReady
  <2>2. JobOK'
    BY <1>0, <1>17, <2>1 DEF JobOK, TokensReady, Steps, locals
  <2> QED
    BY <1>0, <1>17, <2>2 DEF WorldOK, TokensReady, cluster, cloud
<1>18. CASE FindCertificate
  <2>1. mem.spec.mtls \in CertNames \cup {None} /\ pc = "cert"
    BY <1>0, <1>18, Fields DEF JobOK, FindCertificate
  <2>2. \/ MTLSFails
        \/ \E p \in {"finish", "associate", "upload"}, s \in Statuses : Continue(p, s)
    BY <1>0, <1>18, <2>1, StatusTypes, Fields DEF FindCertificate
  <2>3. JobOK'
    BY <2>1, <2>2, ContinueTypes, PhaseTypes DEF Plain
  <2>4. used' \in [Kinds -> Nat]
    BY <1>0, <1>18 DEF WorldOK, FindCertificate
  <2> QED
    BY <1>0, <1>18, <2>3, <2>4 DEF WorldOK, FindCertificate, cluster, cloud
<1>19. CASE UploadCertificate
  <2>1. cur \in Resources /\ pc = "upload" /\ serial + 1 \in Nat \ {0}
    BY <1>0, <1>19, Fields DEF JobOK, UploadCertificate
  <2>2. [id |-> serial + 1, by |-> cur] \in Certificates
    BY <2>1 DEF Certificates
  <2>3. certs' \in [CertNames -> Certificates \cup {None}] /\ serial' \in 0..MaxIDs
    BY <1>0, <1>19, <2>2, Fields DEF WorldOK, UploadCertificate
  <2>4. MTLSFails \/ \E s \in Statuses : Continue("associate", s)
    BY <1>0, <1>19, <2>1, StatusTypes DEF UploadCertificate
  <2>5. JobOK'
    BY <2>1, <2>4, ContinueTypes, PhaseTypes DEF Plain
  <2>6. used' \in [Kinds -> Nat]
    BY <1>0, <1>19 DEF WorldOK, UploadCertificate
  <2> QED
    BY <1>0, <1>19, <2>3, <2>5, <2>6 DEF WorldOK, UploadCertificate, cluster
<1>20. CASE AssociateHostnames
  <2>1. MTLSFails \/ \E s \in Statuses : Continue("finish", s)
    BY <1>0, <1>20, NotedTypes DEF AssociateHostnames
  <2>2. JobOK'
    BY <1>20, <2>1, ContinueTypes, PhaseTypes DEF AssociateHostnames, Plain
  <2>3. used' \in [Kinds -> Nat] /\ mtlsHosts' \in SUBSET Domains
    BY <1>0, <1>20 DEF WorldOK, JobOK, AssociateHostnames
  <2> QED
    BY <1>0, <1>20, <2>2, <2>3 DEF WorldOK, AssociateHostnames, cluster
<1>21. CASE Finish
  <2>1. mem.gen \in Nat /\ resolved \in SUBSET Targets
    BY <1>0, <1>21, Fields DEF JobOK, Finish
  <2>2. [st EXCEPT !.accepted = resolved, !.observedGen = mem.gen] \in Statuses
    BY <1>0, <2>1 DEF Statuses
  <2>3. \A c, h : ReadyOf(c, h) \in {"True", "False", "Unknown"}
    BY DEF ReadyOf
  <2>4. \E s \in Statuses : Continue("status", s)
    BY <1>21, <2>2, <2>3, NotedTypes DEF Finish
  <2>5. JobOK'
    BY <1>21, <2>4, ContinueTypes DEF Finish, Plain
  <2> QED
    BY <1>0, <1>21, <2>5 DEF WorldOK, Finish, cluster, cloud
<1>22. CASE UpdateStatus
  <2>1. crs' \in [Resources -> Objects] /\ used' \in [Kinds -> Nat]
    BY <1>22, ObjectTypes, Fields DEF TypeOK, UpdateStatus
  <2>2. JobOK' /\ queued' \in SUBSET Resources
    BY <1>22, ReturnTypes DEF UpdateStatus
  <2> QED
    BY <1>0, <1>22, <2>1, <2>2 DEF WorldOK, UpdateStatus, cloud
<1>23. CASE ResolveForDeletion
  <2>1. JobOK'
    BY <1>0, <1>23, ContinueTypes DEF ResolveForDeletion, Plain
  <2>2. used' \in [Kinds -> Nat]
    BY <1>0, <1>23 DEF WorldOK, ResolveForDeletion
  <2> QED
    BY <1>0, <1>23, <2>1, <2>2 DEF WorldOK, ResolveForDeletion, cluster, cloud
<1>24. CASE DeleteApplication
  <2>1. apps' \in [Ids -> Applications \cup {None}]
    BY <1>0, <1>24 DEF WorldOK, DeleteApplication, AppDeleted
  <2>2. JobOK'
    BY <1>0, <1>24 DEF JobOK, DeleteApplication, Steps
  <2>3. used' \in [Kinds -> Nat]
    BY <1>0, <1>24 DEF WorldOK, DeleteApplication
  <2> QED
    BY <1>0, <1>24, <2>1, <2>2, <2>3 DEF WorldOK, DeleteApplication, cluster
<1>25. CASE RevokeToken
  <2>1. tokens' \in [TokenNames -> Tokens \cup {None}]
    BY <1>0, <1>25 DEF WorldOK, JobOK, RevokeToken, Revoked
  <2>2. JobOK'
    BY <1>0, <1>25 DEF JobOK, RevokeToken
  <2>3. used' \in [Kinds -> Nat]
    BY <1>0, <1>25 DEF WorldOK, RevokeToken
  <2> QED
    BY <1>0, <1>25, <2>1, <2>2, <2>3 DEF WorldOK, RevokeToken, cluster
<1>26. CASE DeleteCertificate
  <2>1. certs' \in [CertNames -> Certificates \cup {None}]
    BY <1>0, <1>26 DEF WorldOK, DeleteCertificate, CertDeleted
  <2>2. JobOK'
    BY <1>0, <1>26 DEF JobOK, DeleteCertificate, Steps, locals
  <2>3. used' \in [Kinds -> Nat]
    BY <1>0, <1>26 DEF WorldOK, DeleteCertificate
  <2> QED
    BY <1>0, <1>26, <2>1, <2>2, <2>3 DEF WorldOK, DeleteCertificate, cluster
<1>27. CASE RemoveFinalizer
  <2>1. crs' \in [Resources -> Objects] /\ used' \in [Kinds -> Nat]
    <3>1. cur \in Resources /\ Gone(crs[cur]) \in Objects
      BY <1>0, <1>27, ObjectTypes, Fields DEF JobOK, RemoveFinalizer
    <3>2. crs' = crs \/ crs' = [crs EXCEPT ![cur] = Gone(crs[cur])]
      BY <1>27 DEF RemoveFinalizer
    <3>3. used' \in [Kinds -> Nat]
      BY <1>0, <1>27 DEF WorldOK, RemoveFinalizer
    <3> QED
      BY <1>0, <3>1, <3>2, <3>3 DEF WorldOK
  <2>2. JobOK' /\ queued' \in SUBSET Resources
    BY <1>27, ReturnTypes DEF RemoveFinalizer
  <2> QED
    BY <1>0, <1>27, <2>1, <2>2 DEF WorldOK, RemoveFinalizer, cloud
<1>28. CASE \E o \in Resources : SyncCache(o)
  <2>1. JobOK'
    BY <1>0, <1>28 DEF JobOK, SyncCache, job, locals
  <2> QED
    BY <1>0, <1>28, <2>1 DEF WorldOK, SyncCache, cluster, cloud
<1>29. CASE Crash
  BY <1>0, <1>29, RestTypes DEF WorldOK, Crash, cluster, cloud
<1>30. CASE \E o \in Resources : EditSpec(o) \/ DeleteObject(o)
  <2>1. PICK o \in Resources : EditSpec(o) \/ DeleteObject(o)
    BY <1>30
  <2>2. \E v \in Objects : crs' = [crs EXCEPT ![o] = v]
    BY <2>1, ObjectTypes, Fields, SpecsAssumption DEF EditSpec, DeleteObject
  <2>3. crs' \in [Resources -> Objects] /\ used' \in [Kinds -> Nat]
    BY <1>0, <2>1, <2>2 DEF WorldOK, EditSpec, DeleteObject
  <2>4. JobOK'
    BY <1>0, <2>1 DEF JobOK, EditSpec, DeleteObject, job, locals
  <2> QED
    BY <1>0, <2>1, <2>3, <2>4 DEF WorldOK, EditSpec, DeleteObject, cloud
<1>31. CASE ChangeCluster
  <2>1. JobOK'
    BY <1>0, <1>31 DEF JobOK, ChangeCluster, job, locals
  <2> QED
    BY <1>0, <1>31, <2>1 DEF WorldOK, ChangeCluster, cloud
<1>32. CASE ExternalApplication
  <2>1. JobOK'
    BY <1>0, <1>32 DEF JobOK, ExternalApplication, job, locals
  <2>2. \E i \in Ids, v \in Applications \cup {None} : apps' = [apps EXCEPT ![i] = v]
    BY <1>32, AppTypes, Fields DEF ExternalApplication
  <2>3. /\ apps' \in [Ids -> Applications \cup {None}] /\ serial' \in 0..MaxIDs
        /\ used' \in [Kinds -> Nat]
    BY <1>0, <1>32, <2>2, Fields DEF WorldOK, ExternalApplication
  <2> QED
    BY <1>0, <1>32, <2>1, <2>3 DEF WorldOK, ExternalApplication, cluster
<1>33. CASE ExternalCredential
  <2>1. JobOK'
    BY <1>0, <1>33 DEF JobOK, ExternalCredential, job, locals
  <2>2. /\ tokens' \in [TokenNames -> Tokens \cup {None}]
        /\ certs' \in [CertNames -> Certificates \cup {None}]
    BY <1>0, <1>33 DEF WorldOK, ExternalCredential
  <2> QED
    BY <1>0, <1>33, <2>1, <2>2 DEF WorldOK, ExternalCredential, cluster
<1>34. CASE ExpireToken
  <2>1. JobOK'
    BY <1>0, <1>34 DEF JobOK, ExpireToken, job, locals
  <2>2. tokens' \in [TokenNames -> Tokens \cup {None}] /\ used' \in [Kinds -> Nat]
    BY <1>0, <1>34, TokenTypes, Fields DEF WorldOK, ExpireToken, Valid
  <2> QED
    BY <1>0, <1>34, <2>1, <2>2 DEF WorldOK, ExpireToken, cluster
<1>35. CASE DeleteSecret \/ \E o \in Resources : CollectSecrets(o)
  <2>1. JobOK'
    BY <1>0, <1>35 DEF JobOK, DeleteSecret, CollectSecrets, job, locals
  <2>2. /\ \A o \in Resources, t \in TokenNames : [secrets[o] EXCEPT ![t] = 0] \in [TokenNames -> Nat]
        /\ [t \in TokenNames |-> 0] \in [TokenNames -> Nat]
    BY <1>0 DEF WorldOK
  <2>3. \E o \in Resources, v \in [TokenNames -> Nat] : secrets' = [secrets EXCEPT ![o] = v]
    BY <1>35, <2>2 DEF DeleteSecret, CollectSecrets
  <2>4. secrets' \in [Resources -> [TokenNames -> Nat]] /\ used' \in [Kinds -> Nat]
    BY <1>0, <1>35, <2>3 DEF WorldOK, DeleteSecret, CollectSecrets
  <2> QED
    BY <1>0, <1>35, <2>1, <2>4 DEF WorldOK, DeleteSecret, CollectSecrets, cloud
<1>36. CASE UNCHANGED vars
  BY <1>0, <1>36 DEF WorldOK, JobOK, vars, cluster, cloud, job, locals
<1> QED
  BY <1>1, <1>2, <1>3, <1>4, <1>5, <1>6, <1>7, <1>8, <1>9, <1>10, <1>11, <1>12, <1>13, <1>14,
     <1>15, <1>16, <1>17, <1>18, <1>19, <1>20, <1>21, <1>22, <1>23, <1>24, <1>25, <1>26, <1>27,
     <1>28, <1>29, <1>30, <1>31, <1>32, <1>33, <1>34, <1>35, <1>36
     DEF Next, Reconcile, Environment, Work

\* Every state of the reconciler is well-typed: an application has a hostname
\* when it is created or updated, a policy that is written is one of the spec,
\* a token that is made is one the loop is at, whatever fails in between.
THEOREM TypeCorrect == Spec => []TypeOK
BY TypeInit, TypeStep, PTL DEF Spec

-----------------------------------------------------------------------------
(* Old policies go first *)

\* While the unwanted policies are deleted, those the loop has visited are gone,
\* and they stay away: only policies of the spec are written, and others only
\* change what is there.
PruneInv ==
    pc \in {"prune", "upsert"} /\ apps[app] # None =>
        \A n \in PolicyNames \ Wanted :
            existing[n] # None /\ (pc = "prune" => n \notin todo) => apps[app].policies[n] = None

\* Every step keeps the old policies out of force while new ones are written.
LEMMA PruneStep == TypeOK /\ PruneInv /\ [Next]_vars => PruneInv'
<1> SUFFICES ASSUME TypeOK, PruneInv, [Next]_vars, pc' \in {"prune", "upsert"}, apps'[app'] # None
             PROVE  \A n \in PolicyNames \ Wanted' :
                      existing'[n] # None /\ (pc' = "prune" => n \notin todo') =>
                          apps'[app'].policies[n] = None
  BY DEF PruneInv
<1>0. apps \in [Ids -> Applications \cup {None}]
  BY DEF TypeOK
<1>1. CASE UNCHANGED <<pc, app, mem, existing, todo, apps>>
  BY <1>1 DEF PruneInv, Wanted
<1>2. CASE ListPolicies
  <2>1. apps' = apps /\ app' = app
    BY <1>2 DEF ListPolicies, PoliciesFail, Continue, cloud, locals
  <2>2. pc' = "prune" /\ existing' = apps[app].policies /\ mem' = mem
        /\ todo' = {n \in PolicyNames \ Wanted : apps[app].policies[n] # None}
    BY <1>2 DEF ListPolicies, PoliciesFail, Continue
  <2> QED
    BY <2>1, <2>2 DEF Wanted
<1>3. CASE DeletePolicy
  <2>1. PICK n \in todo : /\ apps' = IF apps[app] # None THEN WithPolicy(n, None) ELSE apps
                          /\ NextPolicy(n)
    BY <1>3 DEF DeletePolicy, PoliciesFail, Continue
  <2>2. /\ pc = "prune" /\ app \in Ids /\ todo \subseteq PolicyNames
        /\ pc' = pc /\ app' = app /\ mem' = mem /\ existing' = existing /\ todo' = todo \ {n}
    BY <1>3, <2>1 DEF DeletePolicy, NextPolicy, TypeOK
  <2>3. apps[app] # None
    BY <2>1, <2>2
  <2>4. apps'[app].policies = [apps[app].policies EXCEPT ![n] = None]
    BY <1>0, <2>1, <2>2, <2>3 DEF WithPolicy, Holding, Applications
  <2>5. apps[app].policies \in [PolicyNames -> Held \cup {None}]
    BY <2>2, <2>3, Fields
  <2> QED
    BY <2>2, <2>3, <2>4, <2>5 DEF PruneInv, Wanted
<1>4. CASE Pruned
  BY <1>4 DEF Pruned, PruneInv, Wanted, cloud
<1>5. CASE SkipPolicy
  BY <1>5 DEF SkipPolicy, NextPolicy, PruneInv, Wanted, cloud
<1>6. CASE WritePolicy
  <2>1. PICK n \in todo : /\ apps' = WithPolicy(n, Sent(mem.spec.policies[n])) /\ apps[app] # None
                          /\ NextPolicy(n)
    BY <1>6 DEF WritePolicy, PoliciesFail, Continue
  <2>2. /\ pc = "upsert" /\ app \in Ids /\ n \in PolicyNames /\ n \in Wanted
        /\ pc' = pc /\ app' = app /\ mem' = mem /\ existing' = existing
    BY <1>6, <2>1 DEF WritePolicy, NextPolicy, TypeOK, Wanted
  <2>3. apps'[app].policies = [apps[app].policies EXCEPT ![n] = Sent(mem.spec.policies[n])]
    BY <1>0, <2>1, <2>2 DEF WithPolicy, Holding, Applications
  <2>4. apps[app].policies \in [PolicyNames -> Held \cup {None}]
    BY <2>1, <2>2, Fields
  <2> QED
    BY <2>1, <2>2, <2>3, <2>4 DEF PruneInv, Wanted
<1>7. CASE ExternalApplication
  <2>1. UNCHANGED <<pc, app, mem, existing, todo>>
    BY <1>7 DEF ExternalApplication, job, locals
  <2>2. app \in Ids
    BY <2>1 DEF TypeOK
  <2>3. ASSUME NEW n \in PolicyNames, apps'[app].policies[n] # None
        PROVE  apps[app] # None /\ apps[app].policies[n] # None
    <3>1. CASE \E m \in AppNames, d \in Domains : apps' = [apps EXCEPT ![serial + 1] = Others(m, d)]
      BY <1>0, <2>1, <2>2, <2>3, <3>1 DEF Others, NoPolicies
    <3>2. CASE \E i \in Ids : apps[i] # None /\ apps' = [apps EXCEPT ![i] = None]
      BY <1>0, <2>1, <2>2, <2>3, <3>2
    <3>3. CASE \E i \in Ids, d \in Domains : apps[i] # None /\ apps' = [apps EXCEPT ![i] = Moved(apps[i], d)]
      BY <1>0, <2>1, <2>2, <2>3, <3>3 DEF Moved, Applications
    <3>4. CASE \E i \in Ids, m \in PolicyNames, h \in {None, Spoiled} :
                 /\ apps[i] # None /\ apps[i].policies[m] # None
                 /\ apps' = [apps EXCEPT ![i] = Holding(apps[i], m, h)]
      BY <1>0, <2>1, <2>2, <2>3, <3>4 DEF Holding, Applications
    <3> QED
      BY <1>7, <3>1, <3>2, <3>3, <3>4 DEF ExternalApplication
  <2> QED
    BY <2>1, <2>3 DEF PruneInv, Wanted
<1>8. CASE /\ ~UNCHANGED <<pc, app, mem, existing, todo, apps>>
           /\ ~(ListPolicies \/ DeletePolicy \/ Pruned \/ SkipPolicy \/ WritePolicy \/ ExternalApplication)
  <2>1. Reconcile \/ Crash
    BY <1>8 DEF Next, Environment, vars, SyncCache, EditSpec, DeleteObject, ChangeCluster,
         DeleteSecret, CollectSecrets,
         ExternalCredential, ExpireToken, cloud, job, locals
  <2>2. ASSUME NEW o \in Resources, Fetch(o) PROVE FALSE
    BY <1>8, <2>2 DEF Fetch, Path, cloud, locals
  <2> QED
    BY <1>8, <2>1, <2>2
       DEF Reconcile, Work, Rest, Return, Continue, Crash, AddFinalizer, ResolveCredentials,
           ResolveTargets, FindApplication, CreateApplication, UpdateApplication, ApplicationIs,
           ApplicationFails, PoliciesSynced, FindToken, TokenIs, TokensFail, MintToken,
           StoreSecret, TokensReady, FindCertificate, MTLSFails, UploadCertificate,
           AssociateHostnames, Finish, UpdateStatus, ResolveForDeletion, DeleteApplication,
           RevokeToken, DeleteCertificate, RemoveFinalizer
<1> QED
  BY <1>1, <1>2, <1>3, <1>4, <1>5, <1>6, <1>7, <1>8

\* SyncPolicies never leaves an old policy in force beside the new ones, for
\* any policies, failures, crashes and edits by others.
THEOREM OldPoliciesSafe == Spec => []OldPoliciesGone
<1>1. Init => PruneInv
  BY DEF Init, Resting, PruneInv
<1>2. PruneInv => OldPoliciesGone
  BY DEF PruneInv, OldPoliciesGone
<1> QED
  BY <1>1, <1>2, TypeInit, TypeStep, PruneStep, PTL DEF Spec

-----------------------------------------------------------------------------
(* The finalizer protocol *)

\* The steps of the full path, on which things are made, and of the cleanup.
Making == {"credentials", "targets", "find", "create", "update", "list", "prune", "upsert",
           "token", "mint", "store", "cert", "upload", "associate", "finish", "status"}
Cleaning == {"wipe", "deleteApp", "revoke", "unfinalize"}

\* The copy in the cache may be old, but a deletion it shows has happened, and
\* a finalizer it shows without one is still there: only a cleanup, which
\* starts from a copy that shows the deletion, takes it away.
FinInv ==
    /\ \A o \in Resources :
         /\ crs[o].finalizer => crs[o].exists
         /\ cache[o].deleting => crs[o].deleting
         /\ cache[o].finalizer /\ ~cache[o].deleting => crs[o].finalizer
    /\ pc \in Cleaning => cache[cur].deleting
    /\ pc \in Making => crs[cur].finalizer

\* What the writers of a resource do to the fields the protocol is about.
LEMMA ObjectFields ==
    ASSUME NEW o \in Objects
    PROVE  /\ Finalized(o).finalizer /\ Finalized(o).exists = o.exists
           /\ Finalized(o).deleting = o.deleting
           /\ \A s \in Statuses : /\ Reporting(o, s).finalizer = o.finalizer
                                  /\ Reporting(o, s).exists = o.exists
                                  /\ Reporting(o, s).deleting = o.deleting
           /\ ~Gone(o).finalizer /\ ~Gone(o).exists /\ Gone(o).deleting = o.deleting
           /\ \A s \in Specs : /\ Edited(o, s).finalizer = o.finalizer
                               /\ Edited(o, s).exists = o.exists
                               /\ Edited(o, s).deleting = o.deleting
           /\ Terminating(o).finalizer = o.finalizer /\ Terminating(o).exists = o.finalizer
           /\ Terminating(o).deleting
BY DEF Finalized, Reporting, Gone, Edited, Terminating, Objects

\* Who writes the resources on the API server.
LEMMA ObjectWrites ==
    ASSUME TypeOK, [Next]_vars, crs' # crs
    PROVE  \/ /\ AddFinalizer /\ cur \in Resources /\ crs[cur].exists /\ ~crs[cur].deleting
              /\ crs' = [crs EXCEPT ![cur] = Finalized(crs[cur])]
           \/ /\ UpdateStatus /\ cur \in Resources
              /\ crs' = [crs EXCEPT ![cur] = Reporting(crs[cur], st)]
           \/ /\ RemoveFinalizer /\ cur \in Resources /\ crs[cur].exists
              /\ crs' = [crs EXCEPT ![cur] = Gone(crs[cur])]
           \/ \E o \in Resources, s \in Specs :
                EditSpec(o) /\ crs' = [crs EXCEPT ![o] = Edited(crs[o], s)]
           \/ \E o \in Resources :
                /\ DeleteObject(o) /\ crs[o].exists
                /\ crs' = [crs EXCEPT ![o] = Terminating(crs[o])]
<1>1. CASE AddFinalizer \/ UpdateStatus \/ RemoveFinalizer
  BY <1>1 DEF TypeOK, AddFinalizer, UpdateStatus, RemoveFinalizer
<1>2. CASE \E o \in Resources : EditSpec(o)
  BY <1>2, SpecsAssumption DEF EditSpec
<1>3. CASE \E o \in Resources : DeleteObject(o)
  BY <1>3 DEF DeleteObject
<1> QED
  BY <1>1, <1>2, <1>3
     DEF Next, Reconcile, Environment, Work, vars, cluster, Fetch, ResolveCredentials,
         ResolveTargets, FindApplication, CreateApplication, UpdateApplication, ListPolicies,
         DeletePolicy, Pruned, SkipPolicy, WritePolicy, PoliciesSynced, FindToken, MintToken,
         StoreSecret, TokensReady, FindCertificate, UploadCertificate, AssociateHostnames,
         Finish, ResolveForDeletion, DeleteApplication, RevokeToken, DeleteCertificate,
         SyncCache, Crash, ChangeCluster,
         DeleteSecret, CollectSecrets, ExternalApplication, ExternalCredential, ExpireToken

\* How the worker goes from one path to the other.
LEMMA PathSteps ==
    ASSUME TypeOK, [Next]_vars
    PROVE  \/ pc' = pc /\ cur' = cur
           \/ pc' = "idle"
           \/ /\ \E o \in Resources : Fetch(o) /\ cur' = o /\ pc' = Path(cache[o])
              /\ cache' = cache /\ crs' = crs
           \/ pc \in Making /\ pc' \in Making /\ cur' = cur /\ crs' = crs
           \/ pc \in Cleaning /\ pc' \in Cleaning /\ cur' = cur /\ cache' = cache
<1>1. CASE Environment \/ UNCHANGED vars
  BY <1>1 DEF Environment, SyncCache, EditSpec, DeleteObject, Crash, Rest, ChangeCluster,
         DeleteSecret, CollectSecrets,
       ExternalApplication, ExternalCredential, ExpireToken, vars, job
<1>2. CASE \E o \in Resources : Fetch(o)
  BY <1>2 DEF Fetch, cluster
<1>3. CASE \/ AddFinalizer \/ ResolveCredentials \/ ResolveTargets \/ FindApplication
           \/ CreateApplication \/ UpdateApplication \/ ListPolicies \/ DeletePolicy \/ Pruned
           \/ SkipPolicy \/ WritePolicy \/ PoliciesSynced
  BY <1>3 DEF Making, cluster, Return, Rest, Continue, AddFinalizer, ResolveCredentials, ResolveTargets, FindApplication,
       ApplicationIs, ApplicationFails, CreateApplication, UpdateApplication, ListPolicies,
       DeletePolicy, PoliciesFail, NextPolicy, Pruned, SkipPolicy, WritePolicy, PoliciesSynced
<1>4. CASE \/ FindToken \/ MintToken \/ StoreSecret \/ TokensReady \/ FindCertificate
           \/ UploadCertificate \/ AssociateHostnames \/ Finish \/ UpdateStatus
  BY <1>4 DEF Making, cluster, Return, Rest, Continue, FindToken, TokenIs, TokensFail, MintToken, StoreSecret, TokensReady,
       FindCertificate, MTLSFails, UploadCertificate, AssociateHostnames, Finish, UpdateStatus
<1>5. CASE ResolveForDeletion \/ DeleteApplication \/ RevokeToken \/ DeleteCertificate \/ RemoveFinalizer
  BY <1>5 DEF Cleaning, Return, Rest, Continue, ResolveForDeletion, DeleteApplication,
       RevokeToken, DeleteCertificate, RemoveFinalizer
<1> QED
  BY <1>1, <1>2, <1>3, <1>4, <1>5 DEF Next, Reconcile, Work

\* The cache only ever gets what the API server has.
LEMMA CacheWrites ==
    ASSUME TypeOK, [Next]_vars, cache' # cache
    PROVE  crs' = crs /\ \A o \in Resources : cache'[o] \in {cache[o], crs[o]}
<1>1. CASE \E o \in Resources : SyncCache(o)
  BY <1>1 DEF TypeOK, SyncCache, cluster
<1>2. CASE Crash
  BY <1>2 DEF Crash, cluster
<1> QED
  BY <1>1, <1>2
     DEF Next, Reconcile, Environment, Work, vars, Fetch, AddFinalizer, ResolveCredentials,
         ResolveTargets, FindApplication, CreateApplication, UpdateApplication, ListPolicies,
         DeletePolicy, Pruned, SkipPolicy, WritePolicy, PoliciesSynced, FindToken, MintToken,
         StoreSecret, TokensReady, FindCertificate, UploadCertificate, AssociateHostnames,
         Finish, UpdateStatus, ResolveForDeletion, DeleteApplication, RevokeToken,
         DeleteCertificate, RemoveFinalizer, EditSpec, DeleteObject, ChangeCluster,
         DeleteSecret, CollectSecrets,
         ExternalApplication, ExternalCredential, ExpireToken

\* Every step keeps what the copies and the reconcile under way say true.
LEMMA FinStep == TypeOK /\ FinInv /\ [Next]_vars => FinInv'
<1> SUFFICES ASSUME TypeOK, FinInv, [Next]_vars PROVE FinInv'
  OBVIOUS
<1>0. /\ crs \in [Resources -> Objects] /\ cache \in [Resources -> Objects]
      /\ st \in Statuses /\ (pc # "idle" => cur \in Resources)
  BY DEF TypeOK
<1>1. ASSUME NEW o \in Resources
      PROVE  /\ crs'[o].finalizer => crs'[o].exists
             /\ crs[o].deleting => crs'[o].deleting
             /\ crs[o].finalizer /\ ~(pc = "unfinalize" /\ cur = o) => crs'[o].finalizer
  <2>1. CASE crs' = crs
    BY <2>1 DEF FinInv
  <2>2. CASE crs' # crs
    <3>0. crs[o] \in Objects
      BY <1>0
    <3>1. CASE /\ AddFinalizer /\ cur \in Resources /\ crs[cur].exists
               /\ crs' = [crs EXCEPT ![cur] = Finalized(crs[cur])]
      BY <1>0, <3>0, <3>1, ObjectFields DEF FinInv
    <3>2. CASE /\ UpdateStatus /\ cur \in Resources
               /\ crs' = [crs EXCEPT ![cur] = Reporting(crs[cur], st)]
      BY <1>0, <3>0, <3>2, ObjectFields DEF FinInv
    <3>3. CASE /\ RemoveFinalizer /\ cur \in Resources
               /\ crs' = [crs EXCEPT ![cur] = Gone(crs[cur])]
      <4>1. pc = "unfinalize"
        BY <3>3 DEF RemoveFinalizer
      <4> QED
        BY <1>0, <3>0, <3>3, <4>1, ObjectFields DEF FinInv
    <3>4. CASE \E p \in Resources, s \in Specs : crs' = [crs EXCEPT ![p] = Edited(crs[p], s)]
      BY <1>0, <3>0, <3>4, ObjectFields DEF FinInv
    <3>5. CASE \E p \in Resources : crs' = [crs EXCEPT ![p] = Terminating(crs[p])]
      BY <1>0, <3>0, <3>5, ObjectFields DEF FinInv
    <3> QED
      BY <2>2, <3>1, <3>2, <3>3, <3>4, <3>5, ObjectWrites
  <2> QED
    BY <2>1, <2>2
<1>2. ASSUME NEW o \in Resources
      PROVE  /\ cache'[o].deleting => crs'[o].deleting
             /\ cache[o].deleting => cache'[o].deleting
             /\ cache'[o].finalizer /\ ~cache'[o].deleting => crs'[o].finalizer
  <2>1. CASE cache' = cache
    <3>1. pc = "unfinalize" => cache[cur].deleting
      BY DEF FinInv, Cleaning
    <3> QED
      BY <1>1, <2>1, <3>1 DEF FinInv
  <2>2. CASE cache' # cache
    BY <2>2, CacheWrites DEF FinInv
  <2> QED
    BY <2>1, <2>2
<1>3. ASSUME NEW o \in Resources
      PROVE  /\ Path(cache[o]) \in Cleaning => cache[o].deleting
             /\ Path(cache[o]) \in Making => cache[o].finalizer /\ ~cache[o].deleting
  <2>1. /\ cache[o].exists \in BOOLEAN /\ cache[o].deleting \in BOOLEAN
        /\ cache[o].finalizer \in BOOLEAN
    BY <1>0 DEF Objects
  <2> QED
    BY <2>1 DEF Path, Cleaning, Making
<1>4. "idle" \notin Cleaning /\ "idle" \notin Making /\ Cleaning \cap Making = {}
      /\ "unfinalize" \notin Making
  BY DEF Cleaning, Making
<1>5. pc' \in Cleaning => cache'[cur'].deleting
  BY <1>0, <1>2, <1>3, <1>4, PathSteps DEF FinInv
<1>6. pc' \in Making => crs'[cur'].finalizer
  BY <1>0, <1>1, <1>3, <1>4, PathSteps DEF FinInv
<1> QED
  BY <1>1, <1>2, <1>5, <1>6 DEF FinInv

\* Who still owns something owned it before, if each application, token and
\* certificate of his is an old one.
LEMMA OwnedShrinks ==
    ASSUME NEW o,
           \A i \in Ids : apps'[i] # None /\ apps'[i].by = o => apps[i] # None /\ apps[i].by = o,
           \A t \in TokenNames : tokens'[t] # None /\ tokens'[t].by = o =>
               tokens[t] # None /\ tokens[t].by = o /\ tokens[t].id = tokens'[t].id,
           \A c \in CertNames : certs'[c] # None /\ certs'[c].by = o =>
               certs[c] # None /\ certs[c].by = o /\ certs[c].id = certs'[c].id
    PROVE  OwnedBy(o)' \subseteq OwnedBy(o)
BY DEF OwnedBy

\* What a resource owns has numbers for identifiers.
LEMMA OwnedType ==
    ASSUME TypeOK', NEW o
    PROVE  OwnedBy(o)' \in SUBSET Nat
<1>1. /\ \A t \in TokenNames : tokens'[t] # None => tokens'[t].id \in Nat
      /\ \A c \in CertNames : certs'[c] # None => certs'[c].id \in Nat
  BY DEF TypeOK, Tokens, Certificates
<1>2. Ids \subseteq Nat
  BY BoundAssumption DEF Ids
<1> QED
  BY <1>1, <1>2 DEF OwnedBy

\* Only the steps that make something give it an owner.
LEMMA OwnersStep ==
    ASSUME TypeOK, [Next]_vars, NEW o \in Resources,
           ~((CreateApplication \/ MintToken \/ UploadCertificate) /\ o = cur)
    PROVE  OwnedBy(o)' \subseteq OwnedBy(o)
<1>0. /\ apps \in [Ids -> Applications \cup {None}]
      /\ tokens \in [TokenNames -> Tokens \cup {None}]
      /\ certs \in [CertNames -> Certificates \cup {None}]
      /\ o # None
  BY NoneAssumption DEF TypeOK
<1>1. ASSUME NEW i \in Ids, apps'[i] # None, apps'[i].by = o PROVE apps[i] # None /\ apps[i].by = o
  <2>1. CASE apps' = apps
    BY <1>1, <2>1
  <2>2. CASE CreateApplication
    BY <1>0, <1>1, <2>2 DEF CreateApplication, Desired
  <2>3. CASE UpdateApplication
    BY <1>0, <1>1, <2>3 DEF UpdateApplication, Desired
  <2>4. CASE DeletePolicy \/ WritePolicy
    <3>1. app \in Ids
      BY <2>4 DEF TypeOK, DeletePolicy, WritePolicy
    <3>2. apps' = apps \/ (apps[app] # None /\ \E n, h : apps' = [apps EXCEPT ![app] = Holding(apps[app], n, h)])
      BY <2>4 DEF DeletePolicy, WritePolicy, WithPolicy
    <3> QED
      BY <1>0, <1>1, <3>1, <3>2 DEF Holding, Applications
  <2>5. CASE DeleteApplication
    BY <1>0, <1>1, <2>5 DEF DeleteApplication, AppDeleted
  <2>6. CASE ExternalApplication
    <3>1. CASE \E m \in AppNames, d \in Domains : apps' = [apps EXCEPT ![serial + 1] = Others(m, d)]
      BY <1>0, <1>1, <3>1 DEF Others
    <3>2. CASE \E j \in Ids : apps[j] # None /\ apps' = [apps EXCEPT ![j] = None]
      BY <1>0, <1>1, <3>2
    <3>3. CASE \E j \in Ids, d \in Domains : apps[j] # None /\ apps' = [apps EXCEPT ![j] = Moved(apps[j], d)]
      BY <1>0, <1>1, <3>3 DEF Moved, Applications
    <3>4. CASE \E j \in Ids, n \in PolicyNames, h \in {None, Spoiled} :
                 apps[j] # None /\ apps' = [apps EXCEPT ![j] = Holding(apps[j], n, h)]
      BY <1>0, <1>1, <3>4 DEF Holding, Applications
    <3> QED
      BY <2>6, <3>1, <3>2, <3>3, <3>4 DEF ExternalApplication
  <2> QED
    BY <2>1, <2>2, <2>3, <2>4, <2>5, <2>6
       DEF Next, Reconcile, Environment, Work, vars, cloud, Fetch, AddFinalizer,
           ResolveCredentials, ResolveTargets, FindApplication, ListPolicies, Pruned, SkipPolicy,
           PoliciesSynced, FindToken, MintToken, StoreSecret, TokensReady, FindCertificate,
           UploadCertificate, AssociateHostnames, Finish, UpdateStatus, ResolveForDeletion,
           RevokeToken, DeleteCertificate, RemoveFinalizer, SyncCache, Crash, EditSpec,
           DeleteObject, ChangeCluster,
         DeleteSecret, CollectSecrets, ExternalCredential, ExpireToken
<1>2. ASSUME NEW t \in TokenNames, tokens'[t] # None, tokens'[t].by = o
      PROVE  tokens[t] # None /\ tokens[t].by = o /\ tokens[t].id = tokens'[t].id
  <2>1. CASE tokens' = tokens
    BY <1>2, <2>1
  <2>2. CASE MintToken
    <3>1. \/ tokens' = tokens
          \/ \E s : tokens' = [tokens EXCEPT ![tok] = Created(serial + 1, s)]
          \/ /\ tokens[tok] # None
             /\ \E s, e : tokens' = [tokens EXCEPT ![tok] = Rotated(tokens[tok], s, e)]
      BY <2>2 DEF MintToken, Mintable, Rotatable
    <3>2. \A s : Created(serial + 1, s).by = cur /\ o # cur
      BY <2>2 DEF Created
    <3>3. tokens[tok] \in Tokens => \A s, e :
            LET k == Rotated(tokens[tok], s, e)
            IN  k.by = tokens[tok].by /\ k.id = tokens[tok].id
      BY DEF Rotated, Tokens
    <3>4. tok \in TokenNames
      BY <2>2 DEF TypeOK, MintToken
    <3> QED
      BY <1>0, <1>2, <3>1, <3>2, <3>3, <3>4
  <2>3. CASE RevokeToken
    BY <1>0, <1>2, <2>3 DEF RevokeToken, Revoked
  <2>4. CASE ExternalCredential
    BY <1>0, <1>2, <2>4 DEF ExternalCredential
  <2>5. CASE ExpireToken
    BY <1>0, <1>2, <2>5 DEF ExpireToken, Valid, Expired, Tokens
  <2> QED
    BY <2>1, <2>2, <2>3, <2>4, <2>5
       DEF Next, Reconcile, Environment, Work, vars, cloud, Fetch, AddFinalizer,
           ResolveCredentials, ResolveTargets, FindApplication, CreateApplication,
           UpdateApplication, ListPolicies, DeletePolicy, Pruned, SkipPolicy, WritePolicy,
           PoliciesSynced, FindToken, StoreSecret, TokensReady, FindCertificate,
           UploadCertificate, AssociateHostnames, Finish, UpdateStatus, ResolveForDeletion,
           DeleteApplication, DeleteCertificate, RemoveFinalizer, SyncCache, Crash, EditSpec,
           DeleteObject, ChangeCluster,
         DeleteSecret, CollectSecrets, ExternalApplication
<1>3. ASSUME NEW c \in CertNames, certs'[c] # None, certs'[c].by = o
      PROVE  certs[c] # None /\ certs[c].by = o /\ certs[c].id = certs'[c].id
  <2>1. CASE certs' = certs
    BY <1>3, <2>1
  <2>2. CASE UploadCertificate
    BY <1>0, <1>3, <2>2 DEF UploadCertificate
  <2>3. CASE DeleteCertificate
    BY <1>0, <1>3, <2>3 DEF DeleteCertificate, CertDeleted
  <2>4. CASE ExternalCredential
    BY <1>0, <1>3, <2>4 DEF ExternalCredential
  <2> QED
    BY <2>1, <2>2, <2>3, <2>4
       DEF Next, Reconcile, Environment, Work, vars, cloud, Fetch, AddFinalizer,
           ResolveCredentials, ResolveTargets, FindApplication, CreateApplication,
           UpdateApplication, ListPolicies, DeletePolicy, Pruned, SkipPolicy, WritePolicy,
           PoliciesSynced, FindToken, MintToken, StoreSecret, TokensReady, FindCertificate,
           AssociateHostnames, Finish, UpdateStatus, ResolveForDeletion, DeleteApplication,
           RevokeToken, RemoveFinalizer, SyncCache, Crash, EditSpec, DeleteObject,
           ChangeCluster,
         DeleteSecret, CollectSecrets, ExternalApplication, ExpireToken
<1> QED
  BY <1>1, <1>2, <1>3, OwnedShrinks

\* Making something leaves the resources alone.
LEMMA MakingSteps ==
    ASSUME TypeOK, CreateApplication \/ MintToken \/ UploadCertificate
    PROVE  pc \in Making /\ cur \in Resources /\ crs' = crs
BY DEF TypeOK, CreateApplication, MintToken, UploadCertificate, Making, cluster

\* A step that writes a resource leaves the account alone.
LEMMA WritesApart ==
    ASSUME TypeOK, [Next]_vars, crs' # crs, NEW o
    PROVE  OwnedBy(o)' = OwnedBy(o)
<1>1. UNCHANGED <<apps, tokens, certs>>
  BY ObjectWrites DEF AddFinalizer, UpdateStatus, RemoveFinalizer, EditSpec, DeleteObject, cloud
<1> QED
  BY <1>1 DEF OwnedBy

\* How far a resource has come changes only as the protocol has it.
LEMMA PhaseStep ==
    ASSUME TypeOK, FinInv, [Next]_vars, crs' # crs
    PROVE  \E o \in Resources :
             /\ \A p \in Resources \ {o} : Phase(p)' = Phase(p)
             /\ \/ Phase(o)' = Phase(o)
                \/ Phase(o) = "new" /\ Phase(o)' = "held"
                \/ Phase(o) \in {"new", "held"} /\ Phase(o)' = "released"
<1>0. /\ crs \in [Resources -> Objects] /\ st \in Statuses
      /\ \A o \in Resources : /\ crs[o] \in Objects /\ crs[o].exists \in BOOLEAN
                              /\ crs[o].finalizer \in BOOLEAN
  BY DEF TypeOK, Objects
<1>1. ASSUME NEW o \in Resources, NEW v \in Objects, crs' = [crs EXCEPT ![o] = v]
      PROVE  crs'[o] = v /\ \A p \in Resources \ {o} : Phase(p)' = Phase(p)
  BY <1>0, <1>1 DEF Phase
<1>2. ASSUME NEW o \in Resources, crs[o].exists, crs' = [crs EXCEPT ![o] = Finalized(crs[o])]
      PROVE  /\ \A p \in Resources \ {o} : Phase(p)' = Phase(p)
             /\ Phase(o)' = "held" /\ Phase(o) \in {"new", "held"}
  <2>1. crs'[o] = Finalized(crs[o]) /\ \A p \in Resources \ {o} : Phase(p)' = Phase(p)
    BY <1>0, <1>1, <1>2, ObjectTypes
  <2> QED
    BY <1>0, <1>2, <2>1, ObjectFields DEF Phase
<1>3. ASSUME NEW o \in Resources, crs' = [crs EXCEPT ![o] = Reporting(crs[o], st)]
      PROVE  Phase(o)' = Phase(o) /\ \A p \in Resources \ {o} : Phase(p)' = Phase(p)
  <2>1. crs'[o] = Reporting(crs[o], st) /\ \A p \in Resources \ {o} : Phase(p)' = Phase(p)
    BY <1>0, <1>1, <1>3, ObjectTypes DEF Phase
  <2> QED
    BY <1>0, <2>1, ObjectFields DEF Phase
<1>4. ASSUME NEW o \in Resources, crs[o].exists, crs' = [crs EXCEPT ![o] = Gone(crs[o])]
      PROVE  /\ \A p \in Resources \ {o} : Phase(p)' = Phase(p)
             /\ Phase(o)' = "released" /\ Phase(o) \in {"new", "held"}
  <2>1. crs'[o] = Gone(crs[o]) /\ \A p \in Resources \ {o} : Phase(p)' = Phase(p)
    BY <1>0, <1>1, <1>4, ObjectTypes
  <2> QED
    BY <1>0, <1>4, <2>1, ObjectFields DEF Phase
<1>5. ASSUME NEW o \in Resources, NEW s \in Specs, crs' = [crs EXCEPT ![o] = Edited(crs[o], s)]
      PROVE  Phase(o)' = Phase(o) /\ \A p \in Resources \ {o} : Phase(p)' = Phase(p)
  <2>1. crs'[o] = Edited(crs[o], s) /\ \A p \in Resources \ {o} : Phase(p)' = Phase(p)
    BY <1>0, <1>1, <1>5, ObjectTypes
  <2> QED
    BY <1>0, <2>1, ObjectFields DEF Phase
<1>6. ASSUME NEW o \in Resources, crs[o].exists, crs' = [crs EXCEPT ![o] = Terminating(crs[o])]
      PROVE  /\ \A p \in Resources \ {o} : Phase(p)' = Phase(p)
             /\ Phase(o)' = Phase(o) \/ (Phase(o) \in {"new", "held"} /\ Phase(o)' = "released")
  <2>1. crs'[o] = Terminating(crs[o]) /\ \A p \in Resources \ {o} : Phase(p)' = Phase(p)
    BY <1>0, <1>1, <1>6, ObjectTypes
  <2> QED
    BY <1>0, <1>6, <2>1, ObjectFields DEF Phase
<1>7. \/ \E o \in Resources : crs[o].exists /\ crs' = [crs EXCEPT ![o] = Finalized(crs[o])]
      \/ \E o \in Resources : crs' = [crs EXCEPT ![o] = Reporting(crs[o], st)]
      \/ \E o \in Resources : crs[o].exists /\ crs' = [crs EXCEPT ![o] = Gone(crs[o])]
      \/ \E o \in Resources, s \in Specs : crs' = [crs EXCEPT ![o] = Edited(crs[o], s)]
      \/ \E o \in Resources : crs[o].exists /\ crs' = [crs EXCEPT ![o] = Terminating(crs[o])]
  BY ObjectWrites
<1> QED
  BY <1>2, <1>3, <1>4, <1>5, <1>6, <1>7

\* Each step of the reconciler is a step of the protocol, or none.
LEMMA StepRefines == TypeOK /\ TypeOK' /\ FinInv /\ [Next]_vars => [Protocol!Next]_(Protocol!vars)
<1> SUFFICES ASSUME TypeOK, TypeOK', FinInv, [Next]_vars PROVE [Protocol!Next]_(Protocol!vars)
  OBVIOUS
<1> DEFINE ph == [o \in Resources |-> Phase(o)]
           ow == [o \in Resources |-> OwnedBy(o)]
<1>1. CASE crs' # crs
  <2>1. ow' = ow
    BY <1>1, WritesApart
  <2>2. PICK o \in Resources :
          /\ \A p \in Resources \ {o} : Phase(p)' = Phase(p)
          /\ \/ Phase(o)' = Phase(o)
             \/ Phase(o) = "new" /\ Phase(o)' = "held"
             \/ Phase(o) \in {"new", "held"} /\ Phase(o)' = "released"
    BY <1>1, PhaseStep
  <2>3. CASE Phase(o)' = Phase(o)
    <3>1. ph' = ph
      BY <2>2, <2>3
    <3>2. UNCHANGED Protocol!vars
      BY <2>1, <3>1 DEF Protocol!vars
    <3> QED
      BY <3>2
  <2>4. CASE Phase(o) = "new" /\ Phase(o)' = "held"
    <3>0. \A p \in Resources : Phase(p)' = IF p = o THEN "held" ELSE Phase(p)
      BY <2>2, <2>4
    <3>1. ph' = [ph EXCEPT ![o] = "held"] /\ ph[o] = "new"
      BY <2>4, <3>0
    <3> QED
      BY <2>1, <3>1 DEF Protocol!Next, Protocol!Hold
  <2>5. CASE Phase(o) \in {"new", "held"} /\ Phase(o)' = "released"
    <3>1. ph' = [ph EXCEPT ![o] = "released"] /\ ph[o] \in {"new", "held"}
      BY <2>2, <2>5
    <3> QED
      BY <2>1, <3>1 DEF Protocol!Next, Protocol!Release
  <2> QED
    BY <2>2, <2>3, <2>4, <2>5
<1>2. CASE crs' = crs
  <2>1. ph' = ph
    BY <1>2 DEF Phase
  <2>2. ow' \in [Resources -> SUBSET Nat]
    BY OwnedType
  <2>3. CASE CreateApplication \/ MintToken \/ UploadCertificate
    <3>1. cur \in Resources /\ ph[cur] = "held"
      BY <2>3, MakingSteps DEF FinInv, Phase
    <3>2. \A p \in Resources \ {cur} : ow'[p] \subseteq ow[p]
      BY OwnersStep
    <3> QED
      BY <2>1, <2>2, <3>1, <3>2 DEF Protocol!Next, Protocol!Work, Protocol!OnlyLose
  <2>4. CASE ~(CreateApplication \/ MintToken \/ UploadCertificate)
    <3>1. \A p \in Resources : ow'[p] \subseteq ow[p]
      BY <2>4, OwnersStep
    <3> QED
      BY <2>1, <2>2, <3>1 DEF Protocol!Next, Protocol!Lose, Protocol!OnlyLose
  <2> QED
    BY <2>3, <2>4
<1> QED
  BY <1>1, <1>2

\* The reconciler implements the finalizer protocol: for any number of
\* resources, with old copies, lost answers and crashes, nothing is made at
\* Cloudflare for a resource before its finalizer is stored or after it went.
THEOREM Refinement == Spec => HeldWhileOwned
<1>1. Init => Protocol!Init
  <2> SUFFICES ASSUME Init PROVE Protocol!Init
    OBVIOUS
  <2>1. ASSUME NEW o \in Resources PROVE Phase(o) = "new"
    BY DEF Init, NewObject, Phase
  <2>2. ASSUME NEW o \in Resources PROVE OwnedBy(o) = {}
    <3>1. /\ \A i \in Ids : apps[i] = None
          /\ \A u \in TokenNames : tokens[u] = None
          /\ \A d \in CertNames : certs[d] = None
      BY DEF Init
    <3> QED
      BY <3>1 DEF OwnedBy
  <2> QED
    BY <2>1, <2>2 DEF Protocol!Init
<1>2. Init => FinInv
  <2> SUFFICES ASSUME Init PROVE FinInv
    OBVIOUS
  <2>1. \A o \in Resources : ~crs[o].finalizer /\ ~cache[o].deleting /\ ~cache[o].finalizer
    <3>1. PICK f : crs = [o \in Resources |-> NewObject(f[o])] /\ cache = crs
      BY DEF Init
    <3> QED
      BY <3>1 DEF NewObject
  <2> QED
    BY <2>1 DEF Init, Resting, FinInv, Making, Cleaning
<1> QED
  BY <1>1, <1>2, TypeInit, TypeStep, FinStep, StepRefines, PTL
     DEF Spec, HeldWhileOwned, Protocol!Spec

-----------------------------------------------------------------------------
(* The work queue *)

\* A copy that makes Reconcile drop the key is right: the resource is gone.
ServedInv ==
    /\ NoneForgotten
    /\ \A o \in Resources :
         /\ crs[o].exists => cache[o].exists
         /\ crs[o].exists /\ crs[o].deleting => crs[o].finalizer
         /\ cache[o].exists /\ cache[o].deleting => cache[o].finalizer

\* How a resource may come to be neither on the queue nor under reconciliation.
LEMMA QueueStep ==
    ASSUME TypeOK, [Next]_vars, NEW o \in Resources
    PROVE  \/ o \in queued' \/ cur' = o
           \/ o \notin queued /\ cur # o
           \/ Fetch(o) /\ Path(cache[o]) = "idle"
           \/ RemoveFinalizer /\ ~crs'[o].exists
           \/ ~crs[o].exists
<1>0. crs \in [Resources -> Objects] /\ (pc # "idle" => cur \in Resources)
  BY DEF TypeOK
<1>1. CASE \E p \in Resources : Fetch(p)
  <2>1. PICK p \in Resources : Fetch(p)
    BY <1>1
  <2>2. pc = "idle" /\ cur # o
    BY <2>1, NoneAssumption DEF Fetch, TypeOK
  <2> QED
    BY <2>1, <2>2 DEF Fetch
<1>2. CASE RemoveFinalizer
  BY <1>0, <1>2, ObjectFields DEF RemoveFinalizer, Return
<1>3. CASE AddFinalizer \/ UpdateStatus
  BY <1>3 DEF AddFinalizer, UpdateStatus, Return
<1>4. CASE \/ ResolveCredentials \/ ResolveTargets \/ FindApplication \/ CreateApplication
           \/ UpdateApplication \/ ListPolicies \/ DeletePolicy \/ Pruned \/ SkipPolicy
           \/ WritePolicy \/ PoliciesSynced
  BY <1>4 DEF ResolveCredentials, ResolveTargets, FindApplication, CreateApplication,
     UpdateApplication, ListPolicies, DeletePolicy, Pruned, SkipPolicy, WritePolicy,
     PoliciesSynced, Continue, ApplicationIs, ApplicationFails, PoliciesFail, NextPolicy
<1>5. CASE \/ FindToken \/ MintToken \/ StoreSecret \/ TokensReady \/ FindCertificate
           \/ UploadCertificate \/ AssociateHostnames \/ Finish \/ ResolveForDeletion
           \/ DeleteApplication \/ RevokeToken \/ DeleteCertificate
  BY <1>5 DEF FindToken, MintToken, StoreSecret, TokensReady, FindCertificate,
     UploadCertificate, AssociateHostnames, Finish, ResolveForDeletion, DeleteApplication,
     RevokeToken, DeleteCertificate, Continue, TokenIs, TokensFail, MTLSFails
<1>6. CASE Environment \/ UNCHANGED vars
  BY <1>6 DEF Environment, SyncCache, EditSpec, DeleteObject, Crash, ChangeCluster,
         DeleteSecret, CollectSecrets,
     ExternalApplication, ExternalCredential, ExpireToken, vars, job
<1> QED
  BY <1>1, <1>2, <1>3, <1>4, <1>5, <1>6 DEF Next, Reconcile, Work

\* Every step keeps the resources in sight, and what the copies of them say true.
LEMMA ServedStep == TypeOK /\ ServedInv /\ [Next]_vars => ServedInv'
<1> SUFFICES ASSUME TypeOK, ServedInv, [Next]_vars, NEW o \in Resources
             PROVE  /\ crs'[o].exists => o \in queued' \/ cur' = o
                    /\ crs'[o].exists => cache'[o].exists
                    /\ crs'[o].exists /\ crs'[o].deleting => crs'[o].finalizer
                    /\ cache'[o].exists /\ cache'[o].deleting => cache'[o].finalizer
  BY DEF ServedInv, NoneForgotten
<1>0. /\ crs \in [Resources -> Objects] /\ cache[o] \in Objects /\ crs[o] \in Objects
      /\ st \in Statuses
  BY DEF TypeOK
<1>1. /\ crs'[o].exists => crs[o].exists
      /\ crs'[o].exists /\ crs'[o].deleting => crs'[o].finalizer
  <2>1. CASE crs' = crs
    BY <2>1 DEF ServedInv
  <2>2. CASE crs' # crs
    <3>1. \/ crs'[o] = crs[o]
          \/ crs[o].exists /\ crs'[o] = Finalized(crs[o])
          \/ crs'[o] = Reporting(crs[o], st)
          \/ crs'[o] = Gone(crs[o])
          \/ \E s \in Specs : crs'[o] = Edited(crs[o], s)
          \/ crs[o].exists /\ crs'[o] = Terminating(crs[o])
      BY <1>0, <2>2, ObjectWrites
    <3> QED
      BY <1>0, <3>1, ObjectFields DEF ServedInv
  <2> QED
    BY <2>1, <2>2
<1>2. /\ crs'[o].exists => cache'[o].exists
      /\ cache'[o].exists /\ cache'[o].deleting => cache'[o].finalizer
  BY <1>1, CacheWrites DEF ServedInv
<1>3. Path(cache[o]) = "idle" => ~crs[o].exists
  <2>1. /\ cache[o].exists \in BOOLEAN /\ cache[o].deleting \in BOOLEAN
        /\ cache[o].finalizer \in BOOLEAN
    BY <1>0 DEF Objects
  <2> QED
    BY <2>1 DEF Path, ServedInv
<1>4. crs'[o].exists => o \in queued' \/ cur' = o
  BY <1>1, <1>3, QueueStep DEF ServedInv, NoneForgotten
<1> QED
  BY <1>1, <1>2, <1>4

\* A resource that exists is on the queue or under reconciliation at any time,
\* although copies lag, calls fail, the process dies and the event filter drops
\* what changes no generation.
THEOREM ServedSafe == Spec => []NoneForgotten
<1>1. Init => ServedInv
  <2> SUFFICES ASSUME Init PROVE ServedInv
    OBVIOUS
  <2>1. PICK f : crs = [o \in Resources |-> NewObject(f[o])]
    BY DEF Init
  <2>2. \A o \in Resources : crs[o].exists /\ ~crs[o].deleting
    BY <2>1 DEF NewObject
  <2> QED
    BY <2>2 DEF Init, Resting, ServedInv, NoneForgotten
<1>2. ServedInv => NoneForgotten
  BY DEF ServedInv
<1> QED
  BY <1>1, <1>2, ServedStep, TypeCorrect, PTL DEF Spec

-----------------------------------------------------------------------------
(* Conversions *)

\* Which writes are repeated for ever: what syncPolicies has just written, it
\* finds equal in the next listing unless the spec has approval groups or a list
\* given by its identifier, which the client never sends; what ensureApplication
\* has just written, it finds up to date unless corsHeaders is all-default.
THEOREM WritesSettle ==
    ASSUME mem \in Objects
    PROVE  /\ \A p \in Rules : AccessPolicyEqual(Sent(p), p) <=>
                ~p.groups /\ p.rules \cap {"ipList", "emailList"} = {}
           /\ \A ps, by : NeedsUpdate(Desired(ps, by)) <=> mem.spec.cors = "empty"
<1>1. ASSUME NEW p \in Rules
      PROVE  AccessPolicyEqual(Sent(p), p) <=>
               ~p.groups /\ p.rules \cap {"ipList", "emailList"} = {}
  <2> DEFINE r == ConvertAccessRules(p.rules)
  <2>0. p.groups \in BOOLEAN /\ p = [rules |-> p.rules, groups |-> p.groups, precedence |-> p.precedence]
    BY DEF Rules
  <2>1. PolicyParams(p) = [rules |-> r, groups |-> p.groups, precedence |-> p.precedence]
    BY <2>0 DEF PolicyParams
  <2>2. Listed(Sent(p)) =
          [rules |-> AccessRulesToAPI(r), groups |-> FALSE, precedence |-> p.precedence]
    BY <2>1 DEF Listed, Sent
  <2>3. AccessRulesToAPI(r) = r <=> p.rules \cap {"ipList", "emailList"} = {}
    <3>1. AccessRulesToAPI(r) = r <=> r \cap {"ipList", "emailList"} = {}
      BY DEF AccessRulesToAPI
    <3>2. r \cap {"ipList", "emailList"} = p.rules \cap {"ipList", "emailList"}
      BY DEF ConvertAccessRules
    <3> QED
      BY <3>1, <3>2
  <2> HIDE DEF r
  <2>4. AccessPolicyEqual(Sent(p), p) <=> AccessRulesToAPI(r) = r /\ p.groups = FALSE
    <3>1. \A a, b, g, k :
            [rules |-> a, groups |-> FALSE, precedence |-> k] = [rules |-> b, groups |-> g, precedence |-> k]
              <=> a = b /\ g = FALSE
      OBVIOUS
    <3> QED
      BY <2>1, <2>2, <3>1 DEF AccessPolicyEqual
  <2> QED
    BY <2>0, <2>3, <2>4
<1>2. mem.spec.cors \in {"none", "empty", "set"}
  BY DEF Objects, Specs
<1> QED
  BY <1>1, <1>2 DEF NeedsUpdate, Desired, SentCORS
=============================================================================
