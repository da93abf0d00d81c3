-------------------- MODULE CloudflareAccessNamesProofs --------------------
(***************************************************************************)
(* Proofs about what the CloudflareAccessPolicy reconciler finds by name   *)
(* and later touches by identifier: a resource gets at the applications,   *)
(* tokens and certificates of the names in its own specs only, and the     *)
(* secret of a token is stored for the resource that uses it.              *)
(***************************************************************************)
EXTENDS CloudflareAccessProofs

-----------------------------------------------------------------------------
(* The specs in use *)

\* However old a copy is, its spec is one of the resource's; the loops over
\* tokens and the upload are about names of the spec that was read; and a token
\* has a name its resource has asked for.
SpecInv ==
    /\ \A o \in Resources : crs[o].spec \in SpecsOf[o] /\ cache[o].spec \in SpecsOf[o]
    /\ pc # "idle" => mem.spec \in SpecsOf[cur]
    /\ pc \in {"token", "mint", "store"} => todo \subseteq mem.spec.tokens
    /\ pc = "upload" => mem.spec.mtls # None
    /\ \A t \in TokenNames : tokens[t] # None =>
         \E s \in SpecsOf[tokens[t].by] : t \in s.tokens

\* What the writers of a resource do to its spec and its status.
LEMMA ObjectData ==
    ASSUME NEW o \in Objects
    PROVE  /\ Finalized(o).spec = o.spec /\ Finalized(o).status = o.status
           /\ Gone(o).spec = o.spec /\ Gone(o).status = o.status
           /\ Terminating(o).spec = o.spec /\ Terminating(o).status = o.status
           /\ \A s \in Statuses : Reporting(o, s).spec = o.spec /\ Reporting(o, s).status = s
           /\ \A s \in Specs : Edited(o, s).spec = s /\ Edited(o, s).status = o.status
BY DEF Finalized, Reporting, Gone, Edited, Terminating, Objects

\* A reconcile works on the resource it has read to its end.
LEMMA ReadOnce ==
    ASSUME TypeOK, [Next]_vars
    PROVE  \/ mem' = mem /\ cur' = cur /\ (pc' = "idle" <=> pc = "idle")
           \/ pc' = "idle"
           \/ \E o \in Resources :
                /\ Fetch(o) /\ cur' = o /\ mem' = cache[o] /\ st' = cache[o].status
                /\ pc' = Path(cache[o])
                /\ UNCHANGED <<crs, cache, cloud, locals>>
<1>1. CASE Environment \/ UNCHANGED vars
  BY <1>1 DEF Environment, SyncCache, EditSpec, DeleteObject, Crash, Rest, ChangeCluster,
         DeleteSecret, CollectSecrets,
       ExternalApplication, ExternalCredential, ExpireToken, vars, job
<1>2. CASE \E o \in Resources : Fetch(o)
  BY <1>2 DEF Fetch, cluster
<1>3. CASE \/ AddFinalizer \/ ResolveCredentials \/ ResolveTargets \/ FindApplication
           \/ CreateApplication \/ UpdateApplication \/ ListPolicies \/ DeletePolicy \/ Pruned
           \/ SkipPolicy \/ WritePolicy \/ PoliciesSynced
  BY <1>3 DEF Return, Rest, Continue, AddFinalizer, ResolveCredentials, ResolveTargets,
       FindApplication, ApplicationIs, ApplicationFails, CreateApplication, UpdateApplication,
       ListPolicies, DeletePolicy, PoliciesFail, NextPolicy, Pruned, SkipPolicy, WritePolicy,
       PoliciesSynced
<1>4. CASE \/ FindToken \/ MintToken \/ StoreSecret \/ TokensReady \/ FindCertificate
           \/ UploadCertificate \/ AssociateHostnames \/ Finish \/ UpdateStatus
  BY <1>4 DEF Return, Rest, Continue, FindToken, TokenIs, TokensFail, MintToken, StoreSecret,
       TokensReady, FindCertificate, MTLSFails, UploadCertificate, AssociateHostnames, Finish,
       UpdateStatus
<1>5. CASE ResolveForDeletion \/ DeleteApplication \/ RevokeToken \/ DeleteCertificate \/ RemoveFinalizer
  BY <1>5 DEF Return, Rest, Continue, ResolveForDeletion, DeleteApplication, RevokeToken,
       DeleteCertificate, RemoveFinalizer
<1> QED
  BY <1>1, <1>2, <1>3, <1>4, <1>5 DEF Next, Reconcile, Work

\* The copies keep specs of their resource.
LEMMA SpecsKept ==
    ASSUME TypeOK, SpecInv, [Next]_vars, NEW o \in Resources
    PROVE  crs'[o].spec \in SpecsOf[o] /\ cache'[o].spec \in SpecsOf[o]
<1>0. /\ crs \in [Resources -> Objects] /\ crs[o] \in Objects /\ st \in Statuses
      /\ SpecsOf[o] \subseteq Specs
  BY SpecsAssumption DEF TypeOK
<1>1. crs'[o].spec \in SpecsOf[o]
  <2>1. CASE crs' = crs
    BY <2>1 DEF SpecInv
  <2>2. CASE \E p \in Resources : EditSpec(p)
    <3>1. PICK p \in Resources : EditSpec(p)
      BY <2>2
    <3>2. PICK s \in SpecsOf[p] : crs' = [crs EXCEPT ![p] = Edited(crs[p], s)]
      BY <3>1 DEF EditSpec
    <3>3. s \in Specs
      BY <3>2, SpecsAssumption
    <3> QED
      BY <1>0, <3>2, <3>3, ObjectData DEF SpecInv
  <2>3. CASE crs' # crs /\ ~\E p \in Resources : EditSpec(p)
    <3>1. \E p \in Resources : \/ crs' = [crs EXCEPT ![p] = Finalized(crs[p])]
                               \/ crs' = [crs EXCEPT ![p] = Reporting(crs[p], st)]
                               \/ crs' = [crs EXCEPT ![p] = Gone(crs[p])]
                               \/ crs' = [crs EXCEPT ![p] = Terminating(crs[p])]
      BY <2>3, ObjectWrites
    <3> QED
      BY <1>0, <3>1, ObjectData DEF SpecInv
  <2> QED
    BY <2>1, <2>2, <2>3
<1>2. cache'[o].spec \in SpecsOf[o]
  <2>1. CASE cache' = cache
    BY <2>1 DEF SpecInv
  <2>2. CASE cache' # cache
    BY <2>2, CacheWrites DEF SpecInv
  <2> QED
    BY <2>1, <2>2
<1> QED
  BY <1>1, <1>2

\* Who changes the tokens, and how.
LEMMA TokenWrites ==
    ASSUME TypeOK, [Next]_vars, NEW t \in TokenNames, tokens'[t] # tokens[t]
    PROVE  \/ tokens'[t] = None
           \/ /\ ExpireToken /\ tokens[t] # None /\ tokens'[t] = Expired(tokens[t])
           \/ /\ MintToken /\ t = tok /\ UNCHANGED <<apps, certs>>
              /\ \/ serial' = serial + 1 /\ \E s : tokens'[t] = Created(serial + 1, s)
                 \/ tokens[t] # None /\ \E s, e : tokens'[t] = Rotated(tokens[t], s, e)
<1>0. tokens \in [TokenNames -> Tokens \cup {None}]
  BY DEF TypeOK
<1>1. CASE MintToken
  <2>1. \/ tokens' = tokens
        \/ /\ serial' = serial + 1
           /\ \E s : tokens' = [tokens EXCEPT ![tok] = Created(serial + 1, s)]
        \/ /\ tokens[tok] # None
           /\ \E s, e : tokens' = [tokens EXCEPT ![tok] = Rotated(tokens[tok], s, e)]
    BY <1>1 DEF MintToken, Mintable, Rotatable
  <2>2. tok \in TokenNames /\ UNCHANGED <<apps, certs>>
    BY <1>1 DEF MintToken, TypeOK
  <2> QED
    BY <1>0, <1>1, <2>1, <2>2
<1>2. CASE RevokeToken
  BY <1>0, <1>2 DEF RevokeToken, Revoked
<1>3. CASE ExternalCredential
  BY <1>0, <1>3 DEF ExternalCredential
<1>4. CASE ExpireToken
  BY <1>0, <1>4 DEF ExpireToken, Valid
<1> QED
  BY <1>1, <1>2, <1>3, <1>4
     DEF Next, Reconcile, Environment, Work, vars, cloud, Fetch, AddFinalizer,
         ResolveCredentials, ResolveTargets, FindApplication, CreateApplication,
         UpdateApplication, ListPolicies, DeletePolicy, Pruned, SkipPolicy, WritePolicy,
         PoliciesSynced, FindToken, StoreSecret, TokensReady, FindCertificate,
         UploadCertificate, AssociateHostnames, Finish, UpdateStatus, ResolveForDeletion,
         DeleteApplication, DeleteCertificate, RemoveFinalizer, SyncCache, Crash, EditSpec,
         DeleteObject, ChangeCluster,
         DeleteSecret, CollectSecrets, ExternalApplication

\* What is written about a token of Cloudflare's.
LEMMA TokenFields ==
    /\ \A i, s : Created(i, s).id = i /\ Created(i, s).secret = s /\ Created(i, s).by = cur
    /\ \A k \in Tokens : \A s, e : /\ Rotated(k, s, e).id = k.id /\ Rotated(k, s, e).by = k.by
                                  /\ Rotated(k, s, e).secret = s
    /\ \A k \in Tokens : /\ Expired(k).id = k.id /\ Expired(k).by = k.by
                         /\ Expired(k).secret = k.secret
BY DEF Created, Rotated, Expired, Tokens

\* Every step keeps to the specs.
LEMMA SpecStep == TypeOK /\ SpecInv /\ [Next]_vars => SpecInv'
<1> SUFFICES ASSUME TypeOK, SpecInv, [Next]_vars PROVE SpecInv'
  OBVIOUS
<1>1. \A o \in Resources : crs'[o].spec \in SpecsOf[o] /\ cache'[o].spec \in SpecsOf[o]
  BY SpecsKept
<1>2. pc' # "idle" => mem'.spec \in SpecsOf[cur']
  BY ReadOnce DEF SpecInv
<1>3. /\ pc' \in {"token", "mint", "store"} => todo' \subseteq mem'.spec.tokens
      /\ pc' = "upload" => mem'.spec.mtls # None
  <2>1. CASE \E o \in Resources : Fetch(o)
    <3>1. PICK o \in Resources : Fetch(o)
      BY <2>1
    <3>2. /\ cache[o].exists \in BOOLEAN /\ cache[o].deleting \in BOOLEAN
          /\ cache[o].finalizer \in BOOLEAN
      BY DEF TypeOK, Objects
    <3>3. Path(cache[o]) \in {"idle", "finalize", "credentials", "wipe", "unfinalize"}
      BY <3>2 DEF Path
    <3> QED
      BY <3>1, <3>3 DEF Fetch
  <2>2. CASE Environment \/ UNCHANGED vars
    BY <2>2 DEF SpecInv, Environment, SyncCache, EditSpec, DeleteObject, Crash, Rest, ChangeCluster,
         DeleteSecret, CollectSecrets,
         ExternalApplication, ExternalCredential, ExpireToken, vars, job, locals
  <2>3. CASE \/ AddFinalizer \/ ResolveCredentials \/ ResolveTargets \/ FindApplication
             \/ CreateApplication \/ UpdateApplication \/ ListPolicies \/ DeletePolicy \/ Pruned
             \/ SkipPolicy \/ WritePolicy \/ PoliciesSynced
    BY <2>3 DEF Return, Rest, Continue, AddFinalizer, ResolveCredentials, ResolveTargets,
         FindApplication, ApplicationIs, ApplicationFails, CreateApplication, UpdateApplication,
         ListPolicies, DeletePolicy, PoliciesFail, NextPolicy, Pruned, SkipPolicy, WritePolicy,
         PoliciesSynced
  <2>4. CASE FindToken \/ MintToken \/ StoreSecret
    BY <2>4 DEF SpecInv, FindToken, TokenIs, TokensFail, MintToken, StoreSecret
  <2>5. CASE \/ TokensReady \/ FindCertificate \/ UploadCertificate \/ AssociateHostnames
             \/ Finish \/ UpdateStatus
    BY <2>5 DEF Return, Rest, Continue, TokensReady, FindCertificate, MTLSFails,
         UploadCertificate, AssociateHostnames, Finish, UpdateStatus
  <2>6. CASE ResolveForDeletion \/ DeleteApplication \/ RevokeToken \/ DeleteCertificate \/ RemoveFinalizer
    BY <2>6 DEF Return, Rest, Continue, ResolveForDeletion, DeleteApplication, RevokeToken,
         DeleteCertificate, RemoveFinalizer
  <2> QED
    BY <2>1, <2>2, <2>3, <2>4, <2>5, <2>6 DEF Next, Reconcile, Work
<1>4. ASSUME NEW t \in TokenNames, tokens'[t] # None
      PROVE  \E s \in SpecsOf[tokens'[t].by] : t \in s.tokens
  <2>1. CASE tokens'[t] = tokens[t]
    BY <1>4, <2>1 DEF SpecInv
  <2>2. CASE tokens[t] # None /\ tokens'[t].by = tokens[t].by
    BY <2>2 DEF SpecInv
  <2>3. CASE MintToken /\ t = tok /\ \E s : tokens'[t] = Created(serial + 1, s)
    <3>1. pc = "mint" /\ tok \in todo
      BY <2>3 DEF MintToken, TypeOK
    <3>2. t \in mem.spec.tokens /\ mem.spec \in SpecsOf[cur]
      BY <2>3, <3>1 DEF SpecInv
    <3> QED
      BY <2>3, <3>2, TokenFields
  <2>4. tokens[t] # None => tokens[t] \in Tokens
    BY DEF TypeOK
  <2> QED
    BY <1>4, <2>1, <2>2, <2>3, <2>4, TokenWrites, TokenFields
<1> QED
  BY <1>1, <1>2, <1>3, <1>4 DEF SpecInv

-----------------------------------------------------------------------------
(* Identifiers *)

\* An identifier is handed out once: it names one application, one token or one
\* certificate.
FreshIds ==
    /\ \A i \in Ids : apps[i] # None => i <= serial
    /\ \A t \in TokenNames : tokens[t] # None =>
         /\ tokens[t].id <= serial
         /\ tokens[t].id \in Ids => apps[tokens[t].id] = None
         /\ \A u \in TokenNames : tokens[u] # None /\ tokens[u].id = tokens[t].id => u = t
         /\ \A c \in CertNames : certs[c] # None => certs[c].id # tokens[t].id
    /\ \A c \in CertNames : certs[c] # None =>
         /\ certs[c].id <= serial
         /\ certs[c].id \in Ids => apps[certs[c].id] = None
         /\ \A d \in CertNames : certs[d] # None /\ certs[d].id = certs[c].id => d = c

\* Whatever has identifier i has a name that resource p asks for in one of its
\* specs.
NamedFor(p, i) ==
    /\ i <= serial
    /\ i \in Ids /\ apps[i] # None => \E s \in SpecsOf[p] : s.name = apps[i].name
    /\ \A t \in TokenNames :
         tokens[t] # None /\ tokens[t].id = i => \E s \in SpecsOf[p] : t \in s.tokens
    /\ \A c \in CertNames :
         certs[c] # None /\ certs[c].id = i => \E s \in SpecsOf[p] : s.mtls = c

\* The identifiers of a status, and those a reconcile has in hand.
IdsOf(s) == {s.app, s.cert} \cup {s.tokens[t] : t \in TokenNames}
InHand == IdsOf(st) \cup {app, fresh.id}

\* The identifiers a resource has in its status, in an old copy of it or in the
\* locals of its reconcile are its own; and what is about to be updated has the
\* name it was found by.
ClaimInv ==
    /\ \A o \in Resources :
         \A i \in IdsOf(crs[o].status) \cup IdsOf(cache[o].status) : NamedFor(o, i)
    /\ pc = "idle" => app = 0 /\ fresh.id = 0
    /\ pc # "idle" => \A i \in InHand : NamedFor(cur, i)
    /\ pc = "update" /\ apps[app] # None => apps[app].name = mem.spec.name

\* Who makes or changes applications, and what becomes of their names.
LEMMA AppWrites ==
    ASSUME TypeOK, ClaimInv, [Next]_vars, NEW i \in Ids, apps'[i] # apps[i], apps'[i] # None
    PROVE  \/ apps[i] # None /\ apps'[i].name = apps[i].name
           \/ /\ i = serial + 1 /\ serial' = serial + 1 /\ UNCHANGED <<tokens, certs>>
              /\ CreateApplication => apps'[i].name = mem.spec.name
<1>0. /\ apps \in [Ids -> Applications \cup {None}]
      /\ \A p, b : Desired(p, b).name = mem.spec.name
      /\ \A a \in Applications : \A n, h : Holding(a, n, h).name = a.name
      /\ \A a \in Applications : \A d : Moved(a, d).name = a.name
  BY DEF TypeOK, Desired, Holding, Moved, Applications
<1>1. CASE CreateApplication
  BY <1>0, <1>1 DEF CreateApplication, Desired
<1>2. CASE UpdateApplication
  <2>1. /\ pc = "update" /\ app \in Ids /\ apps[app] # None
        /\ apps' = [apps EXCEPT ![app] = Desired(apps[app].policies, apps[app].by)]
    BY <1>2 DEF UpdateApplication, TypeOK
  <2>2. apps[app].name = mem.spec.name /\ i = app /\ apps[app] \in Applications
    BY <1>0, <2>1 DEF ClaimInv
  <2> QED
    BY <1>0, <2>1, <2>2
<1>3. CASE DeletePolicy \/ WritePolicy
  <2>1. app \in Ids
    BY <1>3 DEF TypeOK, DeletePolicy, WritePolicy
  <2>2. /\ apps[app] # None
        /\ \E n, h : apps' = [apps EXCEPT ![app] = Holding(apps[app], n, h)]
    BY <1>3 DEF DeletePolicy, WritePolicy, WithPolicy
  <2> QED
    BY <1>0, <2>1, <2>2
<1>4. CASE DeleteApplication
  BY <1>0, <1>4 DEF DeleteApplication, AppDeleted
<1>5. CASE ExternalApplication
  <2>1. CASE /\ \E m \in AppNames, d \in Domains : apps' = [apps EXCEPT ![serial + 1] = Others(m, d)]
             /\ serial' = serial + 1
    <3>1. ~CreateApplication /\ UNCHANGED <<tokens, certs>>
      <4>1. ASSUME CreateApplication PROVE FALSE
        <5>1. pc' # pc
          BY <4>1 DEF CreateApplication, ApplicationIs, ApplicationFails, Continue
        <5> QED
          BY <1>5, <5>1 DEF ExternalApplication, job
      <4> QED
        BY <1>5, <4>1 DEF ExternalApplication
    <3> QED
      BY <1>0, <2>1, <3>1
  <2>2. CASE \E j \in Ids : apps[j] # None /\ apps' = [apps EXCEPT ![j] = None]
    BY <1>0, <2>2
  <2>3. CASE \E j \in Ids, d \in Domains : apps[j] # None /\ apps' = [apps EXCEPT ![j] = Moved(apps[j], d)]
    BY <1>0, <2>3
  <2>4. CASE \E j \in Ids, n \in PolicyNames, h \in {None, Spoiled} :
               apps[j] # None /\ apps' = [apps EXCEPT ![j] = Holding(apps[j], n, h)]
    BY <1>0, <2>4
  <2> QED
    BY <1>5, <2>1, <2>2, <2>3, <2>4 DEF ExternalApplication
<1> QED
  BY <1>1, <1>2, <1>3, <1>4, <1>5
     DEF Next, Reconcile, Environment, Work, vars, cloud, Fetch, AddFinalizer,
         ResolveCredentials, ResolveTargets, FindApplication, ListPolicies, Pruned, SkipPolicy,
         PoliciesSynced, FindToken, MintToken, StoreSecret, TokensReady, FindCertificate,
         UploadCertificate, AssociateHostnames, Finish, UpdateStatus, ResolveForDeletion,
         RevokeToken, DeleteCertificate, RemoveFinalizer, SyncCache, Crash, EditSpec,
         DeleteObject, ChangeCluster,
         DeleteSecret, CollectSecrets, ExternalCredential, ExpireToken

\* Who makes or deletes certificates.
LEMMA CertWrites ==
    ASSUME TypeOK, [Next]_vars, NEW c \in CertNames, certs'[c] # certs[c], certs'[c] # None
    PROVE  /\ UploadCertificate /\ c = mem.spec.mtls
           /\ certs'[c].id = serial + 1 /\ serial' = serial + 1 /\ UNCHANGED <<apps, tokens>>
<1>0. certs \in [CertNames -> Certificates \cup {None}]
  BY DEF TypeOK
<1>1. CASE UploadCertificate
  BY <1>0, <1>1 DEF UploadCertificate
<1>2. CASE DeleteCertificate
  BY <1>0, <1>2 DEF DeleteCertificate, CertDeleted
<1>3. CASE ExternalCredential
  BY <1>0, <1>3 DEF ExternalCredential
<1> QED
  BY <1>1, <1>2, <1>3
     DEF Next, Reconcile, Environment, Work, vars, cloud, Fetch, AddFinalizer,
         ResolveCredentials, ResolveTargets, FindApplication, CreateApplication,
         UpdateApplication, ListPolicies, DeletePolicy, Pruned, SkipPolicy, WritePolicy,
         PoliciesSynced, FindToken, MintToken, StoreSecret, TokensReady, FindCertificate,
         AssociateHostnames, Finish, UpdateStatus, ResolveForDeletion, DeleteApplication,
         RevokeToken, RemoveFinalizer, SyncCache, Crash, EditSpec, DeleteObject,
         ChangeCluster,
         DeleteSecret, CollectSecrets, ExternalApplication, ExpireToken

\* The serial number only grows, one at a time.
LEMMA SerialSteps ==
    ASSUME TypeOK, [Next]_vars
    PROVE  serial \in Nat /\ serial' \in {serial, serial + 1} /\ serial <= serial'
<1>1. serial \in Nat
  BY BoundAssumption DEF TypeOK
<1>2. serial' \in {serial, serial + 1}
  BY DEF Next, Reconcile, Environment, Work, vars, cloud, Fetch, AddFinalizer,
         ResolveCredentials, ResolveTargets, FindApplication, CreateApplication,
         UpdateApplication, ListPolicies, DeletePolicy, Pruned, SkipPolicy, WritePolicy,
         PoliciesSynced, FindToken, MintToken, StoreSecret, TokensReady, FindCertificate,
         UploadCertificate, AssociateHostnames, Finish, UpdateStatus, ResolveForDeletion,
         DeleteApplication, RevokeToken, DeleteCertificate, RemoveFinalizer, SyncCache, Crash,
         EditSpec, DeleteObject, ChangeCluster,
         DeleteSecret, CollectSecrets, ExternalApplication, ExternalCredential,
         ExpireToken
<1> QED
  BY <1>1, <1>2

\* What is in the account after a step was there before, under the same name
\* and identifier, or has the identifier just handed out, and then it is the
\* only thing that is new.
LEMMA AccountSteps ==
    ASSUME TypeOK, ClaimInv, [Next]_vars
    PROVE  /\ \A i \in Ids : apps'[i] # None =>
                \/ apps[i] # None /\ apps'[i].name = apps[i].name
                \/ i = serial + 1 /\ serial' = serial + 1 /\ UNCHANGED <<tokens, certs>>
           /\ \A t \in TokenNames : tokens'[t] # None =>
                \/ tokens[t] # None /\ tokens'[t].id = tokens[t].id
                \/ /\ tokens'[t].id = serial + 1 /\ serial' = serial + 1 /\ UNCHANGED <<apps, certs>>
                   /\ \A u \in TokenNames \ {t} : tokens'[u] = tokens[u]
           /\ \A c \in CertNames : certs'[c] # None =>
                \/ certs'[c] = certs[c]
                \/ /\ certs'[c].id = serial + 1 /\ serial' = serial + 1 /\ UNCHANGED <<apps, tokens>>
                   /\ \A d \in CertNames \ {c} : certs'[d] = certs[d]
<1>1. ASSUME NEW i \in Ids, apps'[i] # None
      PROVE  \/ apps[i] # None /\ apps'[i].name = apps[i].name
             \/ i = serial + 1 /\ serial' = serial + 1 /\ UNCHANGED <<tokens, certs>>
  BY <1>1, AppWrites
<1>2. ASSUME NEW t \in TokenNames, tokens'[t] # None
      PROVE  \/ tokens[t] # None /\ tokens'[t].id = tokens[t].id
             \/ /\ tokens'[t].id = serial + 1 /\ serial' = serial + 1 /\ UNCHANGED <<apps, certs>>
                /\ \A u \in TokenNames \ {t} : tokens'[u] = tokens[u]
  <2>1. tokens[t] # None => tokens[t] \in Tokens
    BY DEF TypeOK
  <2>2. CASE /\ MintToken /\ t = tok /\ serial' = serial + 1
             /\ \E s : tokens'[t] = Created(serial + 1, s)
    <3>1. tokens \in [TokenNames -> Tokens \cup {None}] /\ UNCHANGED <<apps, certs>>
      BY <2>2 DEF TypeOK, MintToken
    <3>2. \A u \in TokenNames \ {t} : tokens'[u] = tokens[u]
      BY <2>2, <3>1 DEF MintToken
    <3> QED
      BY <2>2, <3>1, <3>2, TokenFields
  <2>3. CASE tokens'[t] = tokens[t]
    BY <1>2, <2>3
  <2> QED
    BY <1>2, <2>1, <2>2, <2>3, TokenWrites, TokenFields
<1>3. ASSUME NEW c \in CertNames, certs'[c] # None
      PROVE  \/ certs'[c] = certs[c]
             \/ /\ certs'[c].id = serial + 1 /\ serial' = serial + 1 /\ UNCHANGED <<apps, tokens>>
                /\ \A d \in CertNames \ {c} : certs'[d] = certs[d]
  <2>1. CASE certs'[c] # certs[c]
    <3>1. /\ UploadCertificate /\ c = mem.spec.mtls /\ certs'[c].id = serial + 1
          /\ serial' = serial + 1 /\ UNCHANGED <<apps, tokens>>
      BY <1>3, <2>1, CertWrites
    <3>2. certs \in [CertNames -> Certificates \cup {None}]
      BY DEF TypeOK
    <3>3. \A d \in CertNames \ {c} : certs'[d] = certs[d]
      BY <3>1, <3>2 DEF UploadCertificate
    <3> QED
      BY <3>1, <3>3
  <2> QED
    BY <2>1
<1> QED
  BY <1>1, <1>2, <1>3

\* Identifiers stay unique.
LEMMA FreshStep == TypeOK /\ TypeOK' /\ ClaimInv /\ FreshIds /\ [Next]_vars => FreshIds'
<1> SUFFICES ASSUME TypeOK, TypeOK', ClaimInv, FreshIds, [Next]_vars PROVE FreshIds'
  OBVIOUS
<1>0. /\ serial \in Nat /\ serial' \in Nat /\ serial <= serial' /\ Ids \subseteq Nat
      /\ \A t \in TokenNames : tokens[t] # None => tokens[t].id \in Nat
      /\ \A c \in CertNames : certs[c] # None => certs[c].id \in Nat
  BY SerialSteps, Fields
<1>1. ASSUME NEW i \in Ids, apps'[i] # None PROVE i <= serial'
  BY <1>0, <1>1, AccountSteps DEF FreshIds
<1>2. ASSUME NEW t \in TokenNames, tokens'[t] # None
      PROVE  /\ tokens'[t].id <= serial'
             /\ tokens'[t].id \in Ids => apps'[tokens'[t].id] = None
             /\ \A u \in TokenNames : tokens'[u] # None /\ tokens'[u].id = tokens'[t].id => u = t
             /\ \A c \in CertNames : certs'[c] # None => certs'[c].id # tokens'[t].id
  <2>1. CASE tokens[t] # None /\ tokens'[t].id = tokens[t].id
    <3>1. tokens[t].id \in Nat /\ tokens[t].id <= serial
      BY <1>0, <2>1 DEF FreshIds
    <3>2. ASSUME NEW i \in Ids, i = tokens[t].id PROVE apps'[i] = None
      BY <1>0, <2>1, <3>1, <3>2, AccountSteps DEF FreshIds
    <3>3. ASSUME NEW u \in TokenNames, tokens'[u] # None, tokens'[u].id = tokens'[t].id PROVE u = t
      BY <1>0, <2>1, <3>1, <3>3, AccountSteps DEF FreshIds
    <3>4. ASSUME NEW c \in CertNames, certs'[c] # None PROVE certs'[c].id # tokens'[t].id
      BY <1>0, <2>1, <3>1, <3>4, AccountSteps DEF FreshIds
    <3> QED
      BY <1>0, <2>1, <3>1, <3>2, <3>3, <3>4
  <2>2. CASE /\ tokens'[t].id = serial + 1 /\ serial' = serial + 1 /\ UNCHANGED <<apps, certs>>
             /\ \A u \in TokenNames \ {t} : tokens'[u] = tokens[u]
    BY <1>0, <2>2 DEF FreshIds
  <2> QED
    BY <1>2, <2>1, <2>2, AccountSteps
<1>3. ASSUME NEW c \in CertNames, certs'[c] # None
      PROVE  /\ certs'[c].id <= serial'
             /\ certs'[c].id \in Ids => apps'[certs'[c].id] = None
             /\ \A d \in CertNames : certs'[d] # None /\ certs'[d].id = certs'[c].id => d = c
  <2>1. CASE certs'[c] = certs[c]
    <3>1. certs[c].id \in Nat /\ certs[c].id <= serial
      BY <1>0, <1>3, <2>1 DEF FreshIds
    <3>2. ASSUME NEW i \in Ids, i = certs[c].id PROVE apps'[i] = None
      BY <1>0, <1>3, <2>1, <3>1, <3>2, AccountSteps DEF FreshIds
    <3>3. ASSUME NEW d \in CertNames, certs'[d] # None, certs'[d].id = certs'[c].id PROVE d = c
      BY <1>0, <1>3, <2>1, <3>1, <3>3, AccountSteps DEF FreshIds
    <3> QED
      BY <1>0, <1>3, <2>1, <3>1, <3>2, <3>3
  <2>2. CASE /\ certs'[c].id = serial + 1 /\ serial' = serial + 1 /\ UNCHANGED <<apps, tokens>>
             /\ \A d \in CertNames \ {c} : certs'[d] = certs[d]
    BY <1>0, <2>2 DEF FreshIds
  <2> QED
    BY <1>3, <2>1, <2>2, AccountSteps
<1> QED
  BY <1>1, <1>2, <1>3 DEF FreshIds

\* What an identifier stands for keeps its name as long as it is there, and
\* no other thing gets the identifier.
LEMMA NamedStays ==
    ASSUME TypeOK, TypeOK', ClaimInv, [Next]_vars, NEW p, NEW i \in Nat, NamedFor(p, i)
    PROVE  NamedFor(p, i)'
<1>0. serial \in Nat /\ serial' \in Nat /\ serial <= serial' /\ i <= serial
  BY SerialSteps DEF NamedFor
<1>1. ASSUME i \in Ids, apps'[i] # None PROVE \E s \in SpecsOf[p] : s.name = apps'[i].name
  BY <1>0, <1>1, AccountSteps DEF NamedFor
<1>2. ASSUME NEW t \in TokenNames, tokens'[t] # None, tokens'[t].id = i
      PROVE  \E s \in SpecsOf[p] : t \in s.tokens
  BY <1>0, <1>2, AccountSteps DEF NamedFor
<1>3. ASSUME NEW c \in CertNames, certs'[c] # None, certs'[c].id = i
      PROVE  \E s \in SpecsOf[p] : s.mtls = c
  BY <1>0, <1>3, AccountSteps DEF NamedFor
<1> QED
  BY <1>0, <1>1, <1>2, <1>3 DEF NamedFor

\* What the reconcile under way has found or made by a name of its spec.
Findable ==
    {i \in Ids : apps[i] # None /\ apps[i].name = mem.spec.name}
    \cup {tokens[t].id : t \in {u \in mem.spec.tokens : tokens[u] # None}}
    \cup {certs[c].id : c \in {d \in CertNames : d = mem.spec.mtls /\ certs[d] # None}}

\* It is named for the resource; an identifier names nothing else.
LEMMA FoundNamed ==
    ASSUME TypeOK', SpecInv', FreshIds', pc' # "idle", NEW i \in Findable'
    PROVE  NamedFor(cur, i)'
<1>0. /\ mem'.spec \in SpecsOf[cur'] /\ mem'.spec.tokens \subseteq TokenNames
      /\ \A t \in TokenNames : tokens'[t] # None => tokens'[t].id \in Nat
      /\ \A c \in CertNames : certs'[c] # None => certs'[c].id \in Nat
  BY DEF SpecInv, TypeOK, Objects, Specs, Tokens, Certificates
<1>1. CASE i \in Ids /\ apps'[i] # None /\ apps'[i].name = mem'.spec.name
  BY <1>0, <1>1 DEF NamedFor, FreshIds
<1>2. CASE \E t \in mem'.spec.tokens : tokens'[t] # None /\ i = tokens'[t].id
  BY <1>0, <1>2 DEF NamedFor, FreshIds
<1>3. CASE \E c \in CertNames : c = mem'.spec.mtls /\ certs'[c] # None /\ i = certs'[c].id
  BY <1>0, <1>3 DEF NamedFor, FreshIds
<1> QED
  BY <1>1, <1>2, <1>3 DEF Findable

\* What becomes of the identifiers of a status when something is noted in it.
LEMMA StatusIds ==
    ASSUME NEW s \in Statuses
    PROVE  /\ \A c, v : IdsOf(With(s, c, v)) = IdsOf(s)
           /\ \A i : IdsOf(SetApp(s, i)) \subseteq IdsOf(s) \cup {i}
           /\ \A i : IdsOf(SetCert(s, i)) \subseteq IdsOf(s) \cup {i}
           /\ \A t \in TokenNames : \A i : IdsOf(SetToken(s, t, i)) \subseteq IdsOf(s) \cup {i}
<1>1. ASSUME NEW c, NEW v PROVE IdsOf(With(s, c, v)) = IdsOf(s)
  <2>1. /\ With(s, c, v).app = s.app /\ With(s, c, v).cert = s.cert
        /\ With(s, c, v).tokens = s.tokens
    BY DEF With, Statuses
  <2> QED
    BY <2>1 DEF IdsOf
<1>2. ASSUME NEW i PROVE IdsOf(SetApp(s, i)) \subseteq IdsOf(s) \cup {i}
  BY DEF SetApp, IdsOf, Statuses
<1>3. ASSUME NEW i PROVE IdsOf(SetCert(s, i)) \subseteq IdsOf(s) \cup {i}
  BY DEF SetCert, IdsOf, Statuses
<1>4. ASSUME NEW t \in TokenNames, NEW i PROVE IdsOf(SetToken(s, t, i)) \subseteq IdsOf(s) \cup {i}
  <2>1. /\ SetToken(s, t, i).app = s.app /\ SetToken(s, t, i).cert = s.cert
        /\ \A u \in TokenNames : SetToken(s, t, i).tokens[u] \in {s.tokens[u], i}
    BY DEF SetToken, Statuses
  <2> QED
    BY <2>1 DEF IdsOf
<1> QED
  BY <1>1, <1>2, <1>3, <1>4

\* Minting a token fails, or leaves the token's identifier and secret in hand.
LEMMA MintOutcomes ==
    ASSUME TypeOK, MintToken
    PROVE  \/ TokensFail /\ (Spend("lost") \/ UNCHANGED tokens)
           \/ /\ pc' = "store" /\ UNCHANGED <<cur, mem, st, app, tok>>
              /\ \E k \in Tokens :
                   /\ tokens' = [tokens EXCEPT ![tok] = k]
                   /\ fresh' = [id |-> k.id, secret |-> k.secret]
                   /\ k.by = cur \/ (tokens[tok] # None /\ k.by = tokens[tok].by)
<1>1. CASE TokensFail
  BY <1>1 DEF MintToken, TokensFail
<1>2. CASE ~TokensFail
  <2>0. tok \in TokenNames /\ cur \in Resources /\ serial + 1 \in Nat \ {0}
    BY Fields DEF MintToken, TypeOK
  <2>1. tokens[tok] # None => tokens[tok] \in Tokens
    BY <2>0 DEF TypeOK
  <2>2. PICK s \in Secrets : \E k \in Mintable(s) :
          /\ fresh.id # 0 => Rotatable
          /\ pc' = "store" /\ UNCHANGED <<cur, mem, st, app, tok>>
          /\ tokens' = [tokens EXCEPT ![tok] = k] /\ fresh' = [id |-> k.id, secret |-> s]
    BY <1>2 DEF MintToken, Unused
  <2>3. PICK k \in Mintable(s) :
          /\ fresh.id # 0 => Rotatable
          /\ pc' = "store" /\ UNCHANGED <<cur, mem, st, app, tok>>
          /\ tokens' = [tokens EXCEPT ![tok] = k] /\ fresh' = [id |-> k.id, secret |-> s]
    BY <2>2
  <2>4. /\ k \in Tokens /\ k.secret = s
        /\ k.by = cur \/ (tokens[tok] # None /\ k.by = tokens[tok].by)
    BY <2>0, <2>1, <2>3, TokenTypes, TokenFields DEF Mintable, Rotatable
  <2> QED
    BY <2>3, <2>4
<1> QED
  BY <1>1, <1>2

\* The identifiers a reconcile gets in hand are those of what it finds or makes
\* by a name of its spec.
LEMMA HandSteps ==
    ASSUME TypeOK, TypeOK', SpecInv, ClaimInv, [Next]_vars, pc # "idle", pc' # "idle"
    PROVE  InHand' \subseteq InHand \cup {0} \cup Findable'
<1>0. /\ st \in Statuses /\ mem \in Objects /\ mem.spec \in Specs
      /\ mem.spec.tokens \subseteq TokenNames /\ mem.spec.mtls \in CertNames \cup {None}
      /\ apps \in [Ids -> Applications \cup {None}]
      /\ tokens \in [TokenNames -> Tokens \cup {None}]
      /\ certs \in [CertNames -> Certificates \cup {None}]
      /\ NoToken.id = 0
  BY Fields DEF TypeOK, NoToken
<1>00. IdsOf(st)' = IdsOf(st')
  BY DEF IdsOf
<1>1. CASE IdsOf(st)' = IdsOf(st) /\ app' = app /\ fresh'.id \in {fresh.id, 0}
  BY <1>1 DEF InHand
<1>2. ASSUME NEW i, ApplicationIs(i), i \in Findable' PROVE InHand' \subseteq InHand \cup Findable'
  <2>1. st' = SetApp(With(st, "ApplicationCreated", "True"), i) /\ app' = i /\ fresh' = fresh
    BY <1>2 DEF ApplicationIs
  <2>2. With(st, "ApplicationCreated", "True") \in Statuses
    BY <1>0, NotedTypes
  <2>3. IdsOf(st)' \subseteq IdsOf(st) \cup {i}
    BY <1>0, <1>00, <2>1, <2>2, StatusIds
  <2> QED
    BY <1>2, <2>1, <2>3 DEF InHand
<1>3. ASSUME NEW t \in TokenNames, NEW i, TokenIs(t, i), i \in InHand \cup Findable'
      PROVE  InHand' \subseteq InHand \cup {0} \cup Findable'
  <2>1. st' = SetToken(st, t, i) /\ app' = app /\ fresh' = NoToken
    BY <1>3 DEF TokenIs
  <2>2. IdsOf(st)' \subseteq IdsOf(st) \cup {i}
    BY <1>0, <1>00, <2>1, StatusIds
  <2> QED
    BY <1>0, <1>3, <2>1, <2>2 DEF InHand
<1>4. ASSUME NEW i, Continue("associate", SetCert(st, i)), i \in Findable'
      PROVE  InHand' \subseteq InHand \cup Findable'
  <2>1. st' = SetCert(st, i) /\ app' = app /\ fresh' = fresh
    BY <1>4 DEF Continue, locals
  <2>2. IdsOf(st)' \subseteq IdsOf(st) \cup {i}
    BY <1>0, <1>00, <2>1, StatusIds
  <2> QED
    BY <1>4, <2>1, <2>2 DEF InHand
<1>5. ASSUME ApplicationFails \/ PoliciesFail \/ MTLSFails \/ TokensFail
      PROVE  IdsOf(st)' = IdsOf(st) /\ app' = app /\ fresh'.id \in {fresh.id, 0}
  <2>1. st' = With(st, "ApplicationCreated", "False") \/ st' = With(st, "PoliciesAttached", "False")
        \/ st' = With(st, "MTLSConfigured", "False") \/ st' = With(st, "ServiceTokensReady", "False")
    BY <1>5 DEF ApplicationFails, PoliciesFail, MTLSFails, TokensFail, Continue
  <2>2. app' = app /\ fresh'.id \in {fresh.id, 0}
    BY <1>0, <1>5 DEF ApplicationFails, PoliciesFail, MTLSFails, TokensFail, Continue, locals
  <2> QED
    BY <1>0, <1>00, <2>1, <2>2, StatusIds
<1>6. CASE UNCHANGED <<st, app, fresh>>
  BY <1>6 DEF InHand, IdsOf
<1>7. CASE Environment \/ UNCHANGED vars
  BY <1>6, <1>7 DEF Environment, SyncCache, EditSpec, DeleteObject, Crash, Rest, ChangeCluster,
         DeleteSecret, CollectSecrets,
       ExternalApplication, ExternalCredential, ExpireToken, vars, job, locals
<1>8. CASE \E o \in Resources : Fetch(o)
  BY <1>8 DEF Fetch
<1>9. CASE AddFinalizer \/ UpdateStatus \/ RemoveFinalizer
  BY <1>9 DEF AddFinalizer, UpdateStatus, RemoveFinalizer, Return, Rest
<1>10. CASE \/ ListPolicies \/ DeletePolicy \/ Pruned \/ SkipPolicy \/ WritePolicy
            \/ ResolveForDeletion \/ DeleteApplication \/ RevokeToken \/ DeleteCertificate
  BY <1>1, <1>5, <1>6, <1>10 DEF ListPolicies, DeletePolicy, Pruned, SkipPolicy, WritePolicy, NextPolicy,
       ResolveForDeletion, Continue, DeleteApplication, RevokeToken, DeleteCertificate, locals
<1>11. CASE ResolveCredentials \/ ResolveTargets \/ PoliciesSynced \/ TokensReady \/ AssociateHostnames
  <2>1. UNCHANGED <<app, fresh>>
    BY <1>11 DEF ResolveCredentials, ResolveTargets, PoliciesSynced, TokensReady,
         AssociateHostnames, MTLSFails, Continue, locals
  <2>2. ASSUME NEW s \in Statuses, NEW c, NEW v PROVE IdsOf(With(s, c, v)) = IdsOf(s)
    BY StatusIds
  <2>3. /\ With(st, "TargetsResolved", "False") \in Statuses
        /\ With(st, "TargetsResolved", "True") \in Statuses
    BY <1>0, NotedTypes
  <2>4. IdsOf(st') = IdsOf(st)
    BY <1>0, <1>11, <2>2, <2>3 DEF ResolveCredentials, ResolveTargets, PoliciesSynced, TokensReady,
         AssociateHostnames, MTLSFails, Continue
  <2> QED
    BY <1>1, <2>1, <2>4 DEF IdsOf
<1>12. CASE Finish
  <2>1. /\ st' = With([st EXCEPT !.accepted = resolved, !.observedGen = mem.gen],
                      "Ready", ReadyOf(st.conds, mem.spec.tokens # {}))
        /\ UNCHANGED <<app, fresh>>
    BY <1>12 DEF Finish, Continue, locals
  <2>2. /\ st'.app = st.app /\ st'.cert = st.cert /\ st'.tokens = st.tokens
    BY <1>0, <2>1 DEF With, Statuses
  <2> QED
    BY <1>1, <2>1, <2>2 DEF IdsOf
<1>13. CASE FindApplication
  <2>1. \A i \in Named(mem.spec.name) : mem' = mem => i \in Findable'
    BY <1>13 DEF FindApplication, Named, Findable, cloud
  <2>2. CASE \E i \in Named(mem.spec.name) : ApplicationIs(i)
    BY <1>2, <2>1, <2>2 DEF ApplicationIs
  <2>3. CASE \E i \in Named(mem.spec.name) : app' = i /\ UNCHANGED <<st, fresh, mem>>
    BY <2>1, <2>3 DEF InHand, IdsOf
  <2> QED
    BY <1>1, <1>5, <1>6, <1>13, <2>2, <2>3 DEF FindApplication, locals
<1>14. CASE CreateApplication
  <2>1. CASE ApplicationFails
    BY <1>1, <1>5, <2>1
  <2>2. CASE ApplicationIs(serial + 1)
    <3>1. serial + 1 \in Ids /\ apps' = [apps EXCEPT ![serial + 1] = Desired(NoPolicies, cur)]
          /\ mem' = mem
      BY <1>14, <2>2, Fields DEF CreateApplication, ApplicationIs, ApplicationFails, Continue
    <3>2. apps'[serial + 1] # None /\ apps'[serial + 1].name = mem.spec.name
      <4>1. Desired(NoPolicies, cur) \in Applications
        BY <1>14, AppTypes, DesiredType DEF CreateApplication, TypeOK
      <4> QED
        BY <1>0, <3>1, <4>1, NullAssumption DEF Desired
    <3>3. serial + 1 \in Findable'
      BY <3>1, <3>2 DEF Findable
    <3> QED
      BY <1>2, <2>2, <3>3
  <2> QED
    BY <1>14, <2>1, <2>2 DEF CreateApplication
<1>15. CASE UpdateApplication
  <2>1. CASE ApplicationFails
    BY <1>1, <1>5, <2>1
  <2>2. CASE ApplicationIs(app)
    <3>1. st' = SetApp(With(st, "ApplicationCreated", "True"), app) /\ app' = app /\ fresh' = fresh
      BY <2>2 DEF ApplicationIs
    <3>2. With(st, "ApplicationCreated", "True") \in Statuses
      BY <1>0, NotedTypes
    <3>3. IdsOf(st)' \subseteq IdsOf(st) \cup {app}
      BY <1>0, <1>00, <3>1, <3>2, StatusIds
    <3> QED
      BY <3>1, <3>3 DEF InHand
  <2> QED
    BY <1>15, <2>1, <2>2 DEF UpdateApplication
<1>16. CASE FindToken
  <2>0. pc = "token" /\ todo \subseteq mem.spec.tokens /\ UNCHANGED tokens
    BY <1>16 DEF FindToken, SpecInv, cloud
  <2>1. \A t \in todo : tokens[t] # None /\ mem' = mem => tokens[t].id \in Findable'
    BY <2>0 DEF Findable
  <2>2. CASE \E t \in todo : tokens[t] # None /\ TokenIs(t, tokens[t].id)
    BY <1>0, <1>3, <2>0, <2>1, <2>2 DEF TokenIs
  <2>3. CASE /\ UNCHANGED <<st, app, mem>>
             /\ fresh' = NoToken \/ \E t \in todo : tokens[t] # None /\ fresh' = [NoToken EXCEPT !.id = tokens[t].id]
    <3>1. fresh'.id = 0 \/ fresh'.id \in Findable'
      BY <1>0, <2>1, <2>3 DEF NoToken
    <3> QED
      BY <2>3, <3>1 DEF InHand, IdsOf
  <2> QED
    BY <1>1, <1>5, <1>16, <2>2, <2>3 DEF FindToken, Valid
<1>17. CASE MintToken
  <2>1. CASE TokensFail
    BY <1>1, <1>5, <2>1
  <2>2. CASE ~TokensFail
    <3>0. pc = "mint" /\ tok \in todo /\ tok \in TokenNames /\ todo \subseteq mem.spec.tokens
      BY <1>17 DEF MintToken, TypeOK, SpecInv
    <3>1. /\ UNCHANGED <<st, app, mem>> /\ fresh'.id = tokens'[tok].id /\ tokens'[tok] # None
      BY <1>0, <1>17, <2>2, <3>0, MintOutcomes, NullAssumption
    <3>2. fresh'.id \in Findable'
      BY <3>0, <3>1 DEF Findable
    <3> QED
      BY <3>1, <3>2 DEF InHand, IdsOf
  <2> QED
    BY <2>1, <2>2
<1>18. CASE StoreSecret
  <2>1. tok \in TokenNames
    BY <1>18 DEF StoreSecret, TypeOK
  <2>2. CASE TokenIs(tok, fresh.id)
    BY <1>3, <2>1, <2>2 DEF InHand
  <2> QED
    BY <1>1, <1>5, <1>18, <2>2 DEF StoreSecret
<1>19. CASE FindCertificate
  <2>1. CASE mem.spec.mtls # None /\ certs[mem.spec.mtls] # None
             /\ Continue("associate", SetCert(st, certs[mem.spec.mtls].id))
    <3>1. certs[mem.spec.mtls].id \in Findable'
      BY <1>0, <1>19, <2>1 DEF FindCertificate, Continue, Findable, cloud
    <3> QED
      BY <1>4, <2>1, <3>1
  <2>2. CASE Continue("finish", st) \/ Continue("upload", st)
    BY <1>6, <2>2 DEF Continue, locals
  <2> QED
    BY <1>1, <1>5, <1>19, <2>1, <2>2 DEF FindCertificate
<1>20. CASE UploadCertificate
  <2>1. CASE MTLSFails
    BY <1>1, <1>5, <2>1
  <2>2. CASE ~MTLSFails
    <3>0. mem.spec.mtls \in CertNames /\ serial + 1 \in Nat \ {0} /\ cur \in Resources
      BY <1>0, <1>20, Fields DEF UploadCertificate, SpecInv, TypeOK
    <3>1. /\ certs' = [certs EXCEPT ![mem.spec.mtls] = [id |-> serial + 1, by |-> cur]]
          /\ Continue("associate", SetCert(st, serial + 1))
      BY <1>20, <2>2 DEF UploadCertificate
    <3>2. certs'[mem.spec.mtls] # None /\ certs'[mem.spec.mtls].id = serial + 1 /\ mem' = mem
      <4>1. [id |-> serial + 1, by |-> cur] \in Certificates
        BY <3>0 DEF Certificates
      <4> QED
        BY <1>0, <3>0, <3>1, <4>1, NullAssumption DEF Continue
    <3>3. serial + 1 \in Findable'
      BY <3>0, <3>2 DEF Findable
    <3> QED
      BY <1>4, <3>1, <3>3
  <2> QED
    BY <2>1, <2>2
<1> QED
  BY <1>7, <1>8, <1>9, <1>10, <1>11, <1>12, <1>13, <1>14, <1>15, <1>16, <1>17, <1>18, <1>19, <1>20
     DEF Next, Reconcile, Work

\* Identifiers are numbers, and 0, which stands for none, names nothing.
LEMMA IdTypes ==
    ASSUME TypeOK
    PROVE  /\ \A s \in Statuses : IdsOf(s) \subseteq Nat
           /\ InHand \subseteq Nat
<1>1. ASSUME NEW s \in Statuses PROVE IdsOf(s) \subseteq Nat
  BY DEF IdsOf, Statuses
<1> QED
  BY <1>1 DEF TypeOK, InHand

\* 0 is everybody's.
LEMMA ZeroNamed == ASSUME TypeOK', NEW p PROVE NamedFor(p, 0)'
<1>1. /\ 0 <= serial' /\ 0 \notin Ids
      /\ \A t \in TokenNames : tokens'[t] # None => tokens'[t].id # 0
      /\ \A c \in CertNames : certs'[c] # None => certs'[c].id # 0
  BY BoundAssumption DEF TypeOK, Ids, Tokens, Certificates
<1> QED
  BY <1>1 DEF NamedFor

\* The identifiers in the statuses stay the resource's own.
LEMMA StatusesNamed ==
    ASSUME TypeOK, TypeOK', ClaimInv, [Next]_vars, NEW o \in Resources,
           NEW i \in IdsOf(crs'[o].status) \cup IdsOf(cache'[o].status)
    PROVE  NamedFor(o, i)'
<1>0. /\ crs \in [Resources -> Objects] /\ crs[o] \in Objects /\ cache[o] \in Objects
      /\ crs[o].status \in Statuses /\ cache[o].status \in Statuses /\ st \in Statuses
  BY Fields DEF TypeOK
<1>1. IdsOf(crs'[o].status) \subseteq IdsOf(crs[o].status)
      \/ (pc # "idle" /\ cur = o /\ crs'[o].status = st)
  <2>1. CASE crs' = crs
    BY <2>1
  <2>2. CASE UpdateStatus /\ crs' = [crs EXCEPT ![cur] = Reporting(crs[cur], st)]
    BY <1>0, <2>2, ObjectData DEF UpdateStatus
  <2>3. CASE \/ \E p \in Resources : \/ crs' = [crs EXCEPT ![p] = Finalized(crs[p])]
                                     \/ crs' = [crs EXCEPT ![p] = Gone(crs[p])]
                                     \/ crs' = [crs EXCEPT ![p] = Terminating(crs[p])]
             \/ \E p \in Resources, s \in Specs : crs' = [crs EXCEPT ![p] = Edited(crs[p], s)]
    <3>1. crs'[o].status = crs[o].status
      BY <1>0, <2>3, ObjectData
    <3> QED
      BY <3>1
  <2> QED
    BY <2>1, <2>2, <2>3, ObjectWrites
<1>2. IdsOf(cache'[o].status) \subseteq IdsOf(cache[o].status) \cup IdsOf(crs[o].status)
  BY CacheWrites
<1>3. i \in Nat /\ NamedFor(o, i)
  <2>1. CASE i \in IdsOf(crs[o].status) \cup IdsOf(cache[o].status)
    BY <1>0, <2>1, IdTypes DEF ClaimInv
  <2>2. CASE pc # "idle" /\ cur = o /\ i \in IdsOf(st)
    BY <1>0, <2>2, IdTypes DEF ClaimInv, InHand
  <2> QED
    BY <1>1, <1>2, <2>1, <2>2
<1> QED
  BY <1>3, NamedStays

\* What a reconcile has in hand stays its resource's own.
LEMMA HandNamed ==
    ASSUME TypeOK, TypeOK', SpecInv, SpecInv', FreshIds, FreshIds', ClaimInv, [Next]_vars,
           pc' # "idle", NEW i \in InHand'
    PROVE  NamedFor(cur, i)'
<1>1. PICK o \in Resources : o = cur'
  BY DEF TypeOK
<1>2. NamedFor(o, i)' => NamedFor(cur, i)'
  BY <1>1 DEF NamedFor
<1>3. CASE i = 0
  BY <1>2, <1>3, ZeroNamed
<1>4. CASE i \in Findable'
  BY <1>4, FoundNamed
<1>5. CASE pc # "idle" /\ cur' = cur /\ i \in InHand
  <2>1. NamedFor(o, i) /\ i \in Nat
    BY <1>1, <1>5, IdTypes DEF ClaimInv
  <2> QED
    BY <1>2, <2>1, NamedStays
<1>6. CASE pc = "idle"
  <2>1. /\ o = cur' /\ st' = cache[o].status /\ UNCHANGED <<app, fresh>>
    BY <1>1, <1>6, ReadOnce DEF locals
  <2>2. app = 0 /\ fresh.id = 0
    BY <1>6 DEF ClaimInv
  <2>3. i \in IdsOf(cache[o].status) \/ i = 0
    BY <2>1, <2>2 DEF InHand, IdsOf
  <2>4. CASE i \in IdsOf(cache[o].status)
    <3>1. NamedFor(o, i) /\ i \in Nat
      BY <2>4, Fields, IdTypes DEF ClaimInv
    <3> QED
      BY <1>2, <3>1, NamedStays
  <2> QED
    BY <1>3, <2>3, <2>4
<1>7. CASE pc # "idle"
  <2>1. cur' = cur
    BY <1>7, ReadOnce DEF Fetch
  <2> QED
    BY <1>3, <1>4, <1>5, <1>7, <2>1, HandSteps
<1> QED
  BY <1>6, <1>7

\* The application about to be updated keeps the name it was found by.
LEMMA UpdateNamed ==
    ASSUME TypeOK, TypeOK', ClaimInv, [Next]_vars, pc' = "update", apps'[app'] # None
    PROVE  apps'[app'].name = mem'.spec.name
<1>1. CASE FindApplication
  BY <1>1 DEF FindApplication, Named, ApplicationIs, ApplicationFails, Continue, cloud
<1>2. CASE pc = "update" /\ UNCHANGED <<app, mem>>
  <2>1. app \in Ids /\ app <= serial /\ serial \in Nat
    <3>1. cur \in Resources /\ app \in InHand
      BY <1>2 DEF TypeOK, InHand
    <3> QED
      BY <1>2, <3>1, Fields DEF TypeOK, ClaimInv, NamedFor
  <2>2. app \in Nat
    BY <2>1, Fields
  <2>3. apps[app] # None /\ apps'[app].name = apps[app].name
    BY <1>2, <2>1, <2>2, AccountSteps
  <2> QED
    BY <1>2, <2>3 DEF ClaimInv
<1>3. CASE Environment \/ UNCHANGED vars
  BY <1>2, <1>3 DEF Environment, SyncCache, EditSpec, DeleteObject, Crash, Rest, ChangeCluster,
         DeleteSecret, CollectSecrets,
       ExternalApplication, ExternalCredential, ExpireToken, vars, job, locals
<1>4. CASE \E o \in Resources : Fetch(o)
  <2>1. PICK o \in Resources : Fetch(o)
    BY <1>4
  <2>2. /\ cache[o].exists \in BOOLEAN /\ cache[o].deleting \in BOOLEAN
        /\ cache[o].finalizer \in BOOLEAN
    BY DEF TypeOK, Objects
  <2> QED
    BY <2>1, <2>2 DEF Fetch, Path
<1>5. CASE Work /\ ~FindApplication
  <2>1. pc' # "update"
    BY <1>5 DEF Work, Return, Rest, Continue, AddFinalizer, ResolveCredentials, ResolveTargets,
         ApplicationIs, ApplicationFails, CreateApplication, UpdateApplication, ListPolicies,
         DeletePolicy, PoliciesFail, NextPolicy, Pruned, SkipPolicy, WritePolicy, PoliciesSynced,
         FindToken, TokenIs, TokensFail, MintToken, StoreSecret, TokensReady, FindCertificate,
         MTLSFails, UploadCertificate, AssociateHostnames, Finish, UpdateStatus,
         ResolveForDeletion, DeleteApplication, RevokeToken, DeleteCertificate, RemoveFinalizer
  <2> QED
    BY <2>1
<1> QED
  BY <1>1, <1>3, <1>4, <1>5 DEF Next, Reconcile

\* A reconcile that ends forgets the identifiers it had in hand.
LEMMA IdleForgets ==
    ASSUME TypeOK, ClaimInv, [Next]_vars, pc' = "idle"
    PROVE  app' = 0 /\ fresh'.id = 0
<1>1. CASE Environment \/ UNCHANGED vars
  BY <1>1 DEF ClaimInv, NoToken, Environment, SyncCache, EditSpec, DeleteObject, Crash, Rest, ChangeCluster,
         DeleteSecret, CollectSecrets,
       ExternalApplication, ExternalCredential, ExpireToken, vars, job, locals
<1>2. CASE \E o \in Resources : Fetch(o)
  BY <1>2 DEF ClaimInv, Fetch, locals
<1>3. CASE AddFinalizer \/ UpdateStatus \/ RemoveFinalizer
  BY <1>3 DEF AddFinalizer, UpdateStatus, RemoveFinalizer, Return, Rest, NoToken
<1>4. CASE Work /\ ~(AddFinalizer \/ UpdateStatus \/ RemoveFinalizer)
  <2>1. pc' # "idle"
    BY <1>4 DEF Work, Continue, ResolveCredentials, ResolveTargets, FindApplication,
         ApplicationIs, ApplicationFails, CreateApplication, UpdateApplication, ListPolicies,
         DeletePolicy, PoliciesFail, NextPolicy, Pruned, SkipPolicy, WritePolicy, PoliciesSynced,
         FindToken, TokenIs, TokensFail, MintToken, StoreSecret, TokensReady, FindCertificate,
         MTLSFails, UploadCertificate, AssociateHostnames, Finish,
         ResolveForDeletion, DeleteApplication, RevokeToken, DeleteCertificate
  <2> QED
    BY <1>4, <2>1
<1> QED
  BY <1>1, <1>2, <1>3, <1>4 DEF Next, Reconcile

\* Every step keeps identifiers to the resources they are named for.
LEMMA ClaimStep ==
    TypeOK /\ TypeOK' /\ SpecInv /\ SpecInv' /\ FreshIds /\ FreshIds' /\ ClaimInv /\ [Next]_vars
    => ClaimInv'
<1> SUFFICES ASSUME TypeOK, TypeOK', SpecInv, SpecInv', FreshIds, FreshIds', ClaimInv, [Next]_vars
             PROVE  ClaimInv'
  OBVIOUS
<1>1. ASSUME NEW o \in Resources, NEW i \in (IdsOf(crs[o].status) \cup IdsOf(cache[o].status))'
      PROVE  NamedFor(o, i)'
  <2>1. i \in IdsOf(crs'[o].status) \cup IdsOf(cache'[o].status)
    BY <1>1 DEF IdsOf
  <2> QED
    BY <2>1, StatusesNamed
<1> QED
  BY <1>1, HandNamed, UpdateNamed, IdleForgets DEF ClaimInv

\* The invariant that carries the proofs: the specs, the identifiers and who
\* holds them.
NamesInv == TypeOK /\ SpecInv /\ FreshIds /\ ClaimInv

\* It holds at the start, when nothing has an identifier.
LEMMA NamesInit == Init => NamesInv
<1> SUFFICES ASSUME Init PROVE NamesInv
  OBVIOUS
<1>1. TypeOK
  BY TypeInit
<1>2. \A o \in Resources : /\ crs[o].spec \in SpecsOf[o] /\ cache[o] = crs[o]
                           /\ crs[o].status = NoStatus
  <2>1. PICK f : /\ \A o \in Resources : f[o] \in SpecsOf[o]
                 /\ crs = [o \in Resources |-> NewObject(f[o])] /\ cache = crs
    BY DEF Init
  <2> QED
    BY <2>1 DEF NewObject
<1>3. /\ pc = "idle" /\ app = 0 /\ fresh.id = 0
      /\ \A i \in Ids : apps[i] = None
      /\ \A t \in TokenNames : tokens[t] = None
      /\ \A c \in CertNames : certs[c] = None
  BY DEF Init, Resting, NoToken
<1>4. SpecInv
  BY <1>2, <1>3 DEF SpecInv
<1>5. FreshIds
  BY <1>3 DEF FreshIds
<1>6. ClaimInv
  <2>1. \A p : NamedFor(p, 0)
    BY <1>3 DEF Init, NamedFor
  <2>2. IdsOf(NoStatus) \subseteq {0}
    BY DEF IdsOf, NoStatus
  <2> QED
    BY <1>2, <1>3, <2>1, <2>2 DEF ClaimInv
<1> QED
  BY <1>1, <1>4, <1>5, <1>6 DEF NamesInv

\* It is inductive.
LEMMA NamesStep == NamesInv /\ [Next]_vars => NamesInv'
BY TypeStep, SpecStep, FreshStep, ClaimStep DEF NamesInv

-----------------------------------------------------------------------------
(* The things of others *)

\* What a status lists is among its identifiers.
LEMMA ListedNamed ==
    ASSUME NamesInv, NEW p \in Resources, NEW i, Lists(p, i)
    PROVE  NamedFor(p, i)
<1>1. i \in IdsOf(crs[p].status)
  BY DEF Lists, IdsOf
<1> QED
  BY <1>1 DEF NamesInv, ClaimInv

\* With names kept apart no identifier in hand is listed by another resource.
LEMMA HandsApart ==
    ASSUME NamesInv, NamesApart, pc # "idle", NEW p \in Resources \ {cur}
    PROVE  /\ \A i \in Ids : apps[i] # None /\ Lists(p, i) => i \notin InHand
           /\ \A t \in TokenNames : tokens[t] # None /\ Lists(p, tokens[t].id) =>
                tokens[t].id \notin InHand /\ t \notin mem.spec.tokens
           /\ \A c \in CertNames : certs[c] # None /\ Lists(p, certs[c].id) =>
                certs[c].id \notin InHand /\ c # mem.spec.mtls
<1>0. /\ cur \in Resources /\ mem.spec \in SpecsOf[cur]
      /\ \A i \in InHand : NamedFor(cur, i)
      /\ p \in Resources /\ p # cur
  BY DEF NamesInv, TypeOK, SpecInv, ClaimInv
<1>1. \A s \in SpecsOf[cur], r \in SpecsOf[p] :
        /\ s.name # r.name /\ s.tokens \cap r.tokens = {} /\ (s.mtls = None \/ s.mtls # r.mtls)
  BY <1>0 DEF NamesApart
<1>2. ASSUME NEW i \in Ids, apps[i] # None, Lists(p, i), i \in InHand PROVE FALSE
  <2>1. NamedFor(p, i) /\ NamedFor(cur, i)
    BY <1>0, <1>2, ListedNamed
  <2> QED
    BY <1>1, <1>2, <2>1 DEF NamedFor
<1>3. ASSUME NEW t \in TokenNames, tokens[t] # None, Lists(p, tokens[t].id)
      PROVE  tokens[t].id \notin InHand /\ t \notin mem.spec.tokens
  <2>1. NamedFor(p, tokens[t].id)
    BY <1>0, <1>3, ListedNamed
  <2>2. \E r \in SpecsOf[p] : t \in r.tokens
    BY <1>3, <2>1 DEF NamedFor
  <2>3. tokens[t].id \in InHand => \E s \in SpecsOf[cur] : t \in s.tokens
    BY <1>0, <1>3 DEF NamedFor
  <2> QED
    BY <1>0, <1>1, <2>2, <2>3
<1>4. ASSUME NEW c \in CertNames, certs[c] # None, Lists(p, certs[c].id)
      PROVE  certs[c].id \notin InHand /\ c # mem.spec.mtls
  <2>1. NamedFor(p, certs[c].id)
    BY <1>0, <1>4, ListedNamed
  <2>2. \E r \in SpecsOf[p] : r.mtls = c
    BY <1>4, <2>1 DEF NamedFor
  <2>3. certs[c].id \in InHand => \E s \in SpecsOf[cur] : s.mtls = c
    BY <1>0, <1>4 DEF NamedFor
  <2>4. c # None
    BY NoneAssumption
  <2> QED
    BY <1>0, <1>1, <2>2, <2>3, <2>4
<1> QED
  BY <1>2, <1>3, <1>4

\* A reconcile changes what it has in hand, or has the name of in its spec.
LEMMA ReconcileWrites ==
    ASSUME NamesInv, Reconcile
    PROVE  /\ \A i \in Ids : apps[i] # None /\ apps'[i] # apps[i] => i \in InHand
           /\ \A t \in TokenNames : tokens[t] # None /\ tokens'[t] # tokens[t] =>
                tokens[t].id \in InHand \/ t \in mem.spec.tokens
           /\ \A c \in CertNames : certs[c] # None /\ certs'[c] # certs[c] =>
                certs[c].id \in InHand \/ c = mem.spec.mtls
<1>0. /\ TypeOK /\ serial \in Nat /\ Ids \subseteq Nat
      /\ apps \in [Ids -> Applications \cup {None}]
      /\ tokens \in [TokenNames -> Tokens \cup {None}]
      /\ certs \in [CertNames -> Certificates \cup {None}]
  BY Fields DEF NamesInv, TypeOK
<1>1. ASSUME NEW i \in Ids, apps[i] # None, apps'[i] # apps[i] PROVE i \in InHand
  <2>1. CASE CreateApplication
    <3>1. i <= serial /\ i \in Nat
      BY <1>0, <1>1 DEF NamesInv, FreshIds
    <3> QED
      BY <1>0, <1>1, <2>1, <3>1 DEF CreateApplication
  <2>2. CASE UpdateApplication \/ DeletePolicy \/ WritePolicy
    <3>1. i = app
      BY <1>0, <1>1, <2>2 DEF UpdateApplication, DeletePolicy, WritePolicy, WithPolicy
    <3> QED
      BY <3>1 DEF InHand
  <2>3. CASE DeleteApplication
    BY <1>0, <1>1, <2>3 DEF DeleteApplication, AppDeleted, InHand, IdsOf
  <2> QED
    BY <1>1, <2>1, <2>2, <2>3
       DEF Reconcile, Work, cloud, Fetch, AddFinalizer,
           ResolveCredentials, ResolveTargets, FindApplication, ListPolicies, Pruned, SkipPolicy,
           PoliciesSynced, FindToken, MintToken, StoreSecret, TokensReady, FindCertificate,
           UploadCertificate, AssociateHostnames, Finish, UpdateStatus, ResolveForDeletion,
           RevokeToken, DeleteCertificate, RemoveFinalizer
<1>2. ASSUME NEW t \in TokenNames, tokens[t] # None, tokens'[t] # tokens[t]
      PROVE  tokens[t].id \in InHand \/ t \in mem.spec.tokens
  <2>1. CASE MintToken
    <3>1. tok \in todo /\ todo \subseteq mem.spec.tokens
      BY <1>0, <2>1 DEF MintToken, TypeOK, NamesInv, SpecInv
    <3> QED
      BY <1>0, <1>2, <2>1, <3>1 DEF MintToken, TypeOK
  <2>2. CASE RevokeToken
    <3>1. tokens[t].id = st.tokens[t]
      BY <1>0, <1>2, <2>2 DEF RevokeToken, Revoked
    <3> QED
      BY <3>1 DEF InHand, IdsOf
  <2> QED
    BY <1>2, <2>1, <2>2
       DEF Reconcile, Work, cloud, Fetch, AddFinalizer,
           ResolveCredentials, ResolveTargets, FindApplication, CreateApplication,
           UpdateApplication, ListPolicies, DeletePolicy, Pruned, SkipPolicy, WritePolicy,
           PoliciesSynced, FindToken, StoreSecret, TokensReady, FindCertificate,
           UploadCertificate, AssociateHostnames, Finish, UpdateStatus, ResolveForDeletion,
           DeleteApplication, DeleteCertificate, RemoveFinalizer
<1>3. ASSUME NEW c \in CertNames, certs[c] # None, certs'[c] # certs[c]
      PROVE  certs[c].id \in InHand \/ c = mem.spec.mtls
  <2>1. CASE UploadCertificate
    BY <1>0, <1>3, <2>1 DEF UploadCertificate
  <2>2. CASE DeleteCertificate
    <3>1. certs[c].id = st.cert
      BY <1>0, <1>3, <2>2 DEF DeleteCertificate, CertDeleted
    <3> QED
      BY <3>1 DEF InHand, IdsOf
  <2> QED
    BY <1>3, <2>1, <2>2
       DEF Reconcile, Work, cloud, Fetch, AddFinalizer,
           ResolveCredentials, ResolveTargets, FindApplication, CreateApplication,
           UpdateApplication, ListPolicies, DeletePolicy, Pruned, SkipPolicy, WritePolicy,
           PoliciesSynced, FindToken, MintToken, StoreSecret, TokensReady, FindCertificate,
           AssociateHostnames, Finish, UpdateStatus, ResolveForDeletion, DeleteApplication,
           RevokeToken, RemoveFinalizer
<1> QED
  BY <1>1, <1>2, <1>3

\* However old the copies and identifiers a reconcile works from, and after any
\* crashes, lost answers, edits and deletions, it neither changes nor deletes
\* what another resource has in its status, for any resources with names apart.
THEOREM OthersSafe == Spec => OthersKept
<1> DEFINE Kept ==
      NamesApart /\ Reconcile => \A p \in Resources \ {cur} :
         /\ \A i \in Ids : apps[i] # None /\ Lists(p, i) => apps'[i] = apps[i]
         /\ \A t \in TokenNames :
              tokens[t] # None /\ Lists(p, tokens[t].id) => tokens'[t] = tokens[t]
         /\ \A c \in CertNames :
              certs[c] # None /\ Lists(p, certs[c].id) => certs'[c] = certs[c]
<1>1. NamesInv /\ [Next]_vars => [Kept]_vars
  <2> SUFFICES ASSUME NamesInv, NamesApart, Reconcile, NEW p \in Resources \ {cur}
               PROVE  /\ \A i \in Ids : apps[i] # None /\ Lists(p, i) => apps'[i] = apps[i]
                      /\ \A t \in TokenNames :
                           tokens[t] # None /\ Lists(p, tokens[t].id) => tokens'[t] = tokens[t]
                      /\ \A c \in CertNames :
                           certs[c] # None /\ Lists(p, certs[c].id) => certs'[c] = certs[c]
    OBVIOUS
  <2>1. CASE pc # "idle"
    BY <2>1, HandsApart, ReconcileWrites
  <2>2. CASE pc = "idle"
    <3>1. UNCHANGED cloud
      BY <2>2 DEF Reconcile, Work, Fetch, AddFinalizer, ResolveCredentials, ResolveTargets,
           FindApplication, CreateApplication, UpdateApplication, ListPolicies, DeletePolicy,
           Pruned, SkipPolicy, WritePolicy, PoliciesSynced, FindToken, MintToken, StoreSecret,
           TokensReady, FindCertificate, UploadCertificate, AssociateHostnames, Finish,
           UpdateStatus, ResolveForDeletion, DeleteApplication, RevokeToken, DeleteCertificate,
           RemoveFinalizer
    <3> QED
      BY <3>1 DEF cloud
  <2> QED
    BY <2>1, <2>2
<1> QED
  BY <1>1, NamesInit, NamesStep, PTL DEF Spec, OthersKept

-----------------------------------------------------------------------------
(* The secrets of the tokens *)

\* No secret has been lost so far, and names are apart.
Quiet == NamesApart /\ used["lost"] = 0

\* Between the rotation of a token and the write of the Secret the worker has
\* the token's secret in hand, for the resource the token was made for, unless
\* somebody has revoked the token meanwhile.
SecretInv ==
    Quiet =>
      /\ \A t \in TokenNames :
           tokens[t] # None /\ crs[tokens[t].by].exists /\ ~(pc = "store" /\ tok = t) =>
             secrets[tokens[t].by][t] = tokens[t].secret
      /\ pc = "store" /\ tokens[tok] # None =>
           tokens[tok].by = cur /\ fresh.secret = tokens[tok].secret

\* What is spent stays spent.
LEMMA QuietBefore ==
    ASSUME TypeOK, [Next]_vars, Quiet'
    PROVE  Quiet /\ ~Spend("lost")
<1>1. \A k \in Kinds : used[k] \in Nat
  BY DEF TypeOK
<1>2. ASSUME NEW k \in Kinds, Spend(k)
      PROVE  (\A j \in Kinds \ {k, "any"} : used'[j] = used[j]) /\ (k # "any" => used'[k] = used[k] + 1)
  <2>1. used \in [Kinds -> Nat]
    BY DEF TypeOK
  <2> QED
    BY <1>2, <2>1 DEF Spend, Kinds
<1>3. ~Spend("lost")
  BY <1>1, <1>2 DEF Quiet, Kinds
<1>4. used' = used \/ \E k \in Kinds \ {"lost", "any"} : Spend(k)
  BY <1>3 DEF Kinds, Next, Reconcile, Environment, Work, vars, Fetch, AddFinalizer,
         ResolveCredentials, ResolveTargets, FindApplication, CreateApplication,
         UpdateApplication, ListPolicies, DeletePolicy, Pruned, SkipPolicy, WritePolicy,
         PoliciesSynced, FindToken, MintToken, StoreSecret, TokensReady, FindCertificate,
         UploadCertificate, AssociateHostnames, Finish, UpdateStatus, ResolveForDeletion,
         DeleteApplication, RevokeToken, DeleteCertificate, RemoveFinalizer, SyncCache, Crash,
         EditSpec, DeleteObject, ChangeCluster, DeleteSecret, CollectSecrets,
         ExternalApplication, ExternalCredential, ExpireToken
<1>5. used'["lost"] = used["lost"]
  BY <1>2, <1>4 DEF Kinds
<1> QED
  BY <1>3, <1>5 DEF Quiet, NamesApart

\* A resource that is gone does not come back.
LEMMA GoneStays ==
    ASSUME TypeOK, [Next]_vars, NEW o \in Resources, crs'[o].exists
    PROVE  crs[o].exists
<1>1. \A p \in Resources : crs[p] \in Objects
  BY DEF TypeOK
<1>2. crs \in [Resources -> Objects] /\ st \in Statuses
  BY DEF TypeOK
<1>3. CASE crs' = crs
  BY <1>3
<1>4. CASE \E p \in Resources : crs[p].exists /\ \E v : crs' = [crs EXCEPT ![p] = v]
  BY <1>2, <1>4
<1>5. CASE UpdateStatus /\ cur \in Resources /\ crs' = [crs EXCEPT ![cur] = Reporting(crs[cur], st)]
  BY <1>1, <1>2, <1>5, ObjectFields
<1>6. CASE \E p \in Resources, s \in Specs : crs' = [crs EXCEPT ![p] = Edited(crs[p], s)]
  BY <1>1, <1>2, <1>6, ObjectFields
<1> QED
  BY <1>3, <1>4, <1>5, <1>6, ObjectWrites

\* A token is rotated by the resource it was made for.
LEMMA MintedForSelf ==
    ASSUME TypeOK, SpecInv, NamesApart, pc = "mint", tokens[tok] # None
    PROVE  tokens[tok].by = cur
<1>1. /\ tok \in todo /\ tok \in TokenNames /\ tok \in mem.spec.tokens
      /\ cur \in Resources /\ mem.spec \in SpecsOf[cur]
  BY DEF TypeOK, SpecInv
<1>2. tokens[tok].by \in Resources
  BY <1>1 DEF TypeOK, Tokens
<1>3. \E s \in SpecsOf[tokens[tok].by] : tok \in s.tokens
  BY <1>1 DEF SpecInv
<1> QED
  BY <1>1, <1>2, <1>3 DEF NamesApart

\* The Secrets are written for the token the loop is at, or collected.
LEMMA SecretWrites ==
    ASSUME TypeOK, [Next]_vars, secrets' # secrets, ~Spend("lost")
    PROVE  \/ StoreSecret /\ secrets' = Stored
           \/ \E o \in Resources : CollectSecrets(o)
BY DEF Next, Reconcile, Environment, Work, vars, cluster, Fetch, AddFinalizer,
       ResolveCredentials, ResolveTargets, FindApplication, CreateApplication,
       UpdateApplication, ListPolicies, DeletePolicy, Pruned, SkipPolicy, WritePolicy,
       PoliciesSynced, FindToken, MintToken, StoreSecret, TokensReady, FindCertificate,
       UploadCertificate, AssociateHostnames, Finish, UpdateStatus, ResolveForDeletion,
       DeleteApplication, RevokeToken, DeleteCertificate, RemoveFinalizer, SyncCache, Crash,
       EditSpec, DeleteObject, ChangeCluster, DeleteSecret, ExternalApplication,
       ExternalCredential, ExpireToken

\* The worker is between rotation and write until the write.
LEMMA StoreSteps ==
    ASSUME TypeOK, [Next]_vars, ~Spend("lost")
    PROVE  /\ pc = "store" => StoreSecret \/ UNCHANGED <<cur, pc, tok, fresh>>
           /\ pc' = "store" => MintToken \/ (pc = "store" /\ UNCHANGED <<cur, tok, fresh>>)
<1>1. CASE Environment \/ UNCHANGED vars
  BY <1>1 DEF Environment, SyncCache, EditSpec, DeleteObject, Crash, Rest, ChangeCluster,
       DeleteSecret, CollectSecrets, ExternalApplication, ExternalCredential, ExpireToken,
       vars, job, locals
<1>2. CASE \E o \in Resources : Fetch(o)
  <2>1. PICK o \in Resources : Fetch(o)
    BY <1>2
  <2>2. /\ cache[o].exists \in BOOLEAN /\ cache[o].deleting \in BOOLEAN
        /\ cache[o].finalizer \in BOOLEAN
    BY DEF TypeOK, Objects
  <2> QED
    BY <2>1, <2>2 DEF Fetch, Path
<1>3. CASE Work /\ ~MintToken /\ ~StoreSecret
  <2>1. pc # "store"
    BY <1>3 DEF Work, AddFinalizer, ResolveCredentials, ResolveTargets, FindApplication,
         CreateApplication, UpdateApplication, ListPolicies, DeletePolicy, Pruned, SkipPolicy,
         WritePolicy, PoliciesSynced, FindToken, TokensReady, FindCertificate,
         UploadCertificate, AssociateHostnames, Finish, UpdateStatus, ResolveForDeletion,
         DeleteApplication, RevokeToken, DeleteCertificate, RemoveFinalizer
  <2>2. pc' # "store"
    BY <1>3 DEF Work, Return, Rest, Continue, AddFinalizer, ResolveCredentials, ResolveTargets,
         FindApplication, ApplicationIs, ApplicationFails, CreateApplication, UpdateApplication,
         ListPolicies, DeletePolicy, PoliciesFail, NextPolicy, Pruned, SkipPolicy, WritePolicy,
         PoliciesSynced, FindToken, TokenIs, TokensFail, TokensReady, FindCertificate,
         MTLSFails, UploadCertificate, AssociateHostnames, Finish, UpdateStatus,
         ResolveForDeletion, DeleteApplication, RevokeToken, DeleteCertificate, RemoveFinalizer
  <2> QED
    BY <2>1, <2>2
<1>4. CASE MintToken
  BY <1>4 DEF MintToken
<1>5. CASE StoreSecret
  BY <1>5 DEF StoreSecret, TokenIs, TokensFail
<1> QED
  BY <1>1, <1>2, <1>3, <1>4, <1>5 DEF Next, Reconcile

\* Every step keeps the stored secrets current.
LEMMA SecretStep == TypeOK /\ TypeOK' /\ SpecInv /\ SecretInv /\ [Next]_vars => SecretInv'
<1> SUFFICES ASSUME TypeOK, TypeOK', SpecInv, SecretInv, [Next]_vars, Quiet'
             PROVE  /\ \A t \in TokenNames :
                         tokens'[t] # None /\ crs'[tokens'[t].by].exists /\ ~(pc' = "store" /\ tok' = t)
                           => secrets'[tokens'[t].by][t] = tokens'[t].secret
                    /\ pc' = "store" /\ tokens'[tok'] # None =>
                         tokens'[tok'].by = cur' /\ fresh'.secret = tokens'[tok'].secret
  BY DEF SecretInv
<1>0. Quiet /\ ~Spend("lost") /\ NamesApart
  BY QuietBefore DEF Quiet
<1>1. /\ tokens \in [TokenNames -> Tokens \cup {None}]
      /\ secrets \in [Resources -> [TokenNames -> Nat]]
      /\ \A t \in TokenNames : tokens[t] # None => tokens[t] \in Tokens /\ tokens[t].by \in Resources
  BY DEF TypeOK, Tokens
<1>2. /\ \A t \in TokenNames :
           tokens[t] # None /\ crs[tokens[t].by].exists /\ ~(pc = "store" /\ tok = t) =>
             secrets[tokens[t].by][t] = tokens[t].secret
      /\ pc = "store" /\ tokens[tok] # None =>
           tokens[tok].by = cur /\ fresh.secret = tokens[tok].secret
  BY <1>0 DEF SecretInv
<1>3. CASE MintToken
  <2>0. /\ pc = "mint" /\ tok \in TokenNames /\ cur \in Resources
        /\ secrets' = secrets /\ crs' = crs
    BY <1>3 DEF MintToken, TypeOK, cluster
  <2>1. CASE TokensFail /\ UNCHANGED tokens
    BY <1>2, <2>0, <2>1 DEF TokensFail
  <2>2. CASE pc' = "store" /\ ~TokensFail
    <3>1. PICK k \in Tokens :
            /\ tokens' = [tokens EXCEPT ![tok] = k] /\ UNCHANGED <<cur, tok>>
            /\ fresh' = [id |-> k.id, secret |-> k.secret]
            /\ k.by = cur \/ (tokens[tok] # None /\ k.by = tokens[tok].by)
      BY <1>3, <2>2, MintOutcomes
    <3>2. k.by = cur
      BY <1>0, <2>0, <3>1, MintedForSelf
    <3>3. tokens'[tok] = k /\ k # None /\ \A t \in TokenNames \ {tok} : tokens'[t] = tokens[t]
      BY <1>1, <2>0, <3>1, NullAssumption
    <3> QED
      BY <1>2, <2>0, <2>2, <3>1, <3>2, <3>3
  <2> QED
    BY <1>0, <1>3, <2>1, <2>2, MintOutcomes DEF TokensFail
<1>4. CASE StoreSecret
  <2>0. /\ pc = "store" /\ tok \in TokenNames /\ cur \in Resources
        /\ tokens' = tokens /\ crs' = crs /\ secrets' = Stored /\ pc' # "store"
    BY <1>0, <1>4 DEF StoreSecret, TokenIs, TokensFail, TypeOK, cloud
  <2>1. \A o \in Resources, t \in TokenNames :
          secrets'[o][t] = IF o = cur /\ t = tok THEN fresh.secret ELSE secrets[o][t]
    BY <1>1, <2>0 DEF Stored
  <2>2. \A t \in TokenNames \ {tok} : tokens[t] # None /\ crs[tokens[t].by].exists =>
          secrets'[tokens[t].by][t] = tokens[t].secret
    BY <1>1, <1>2, <2>1
  <2>3. tokens[tok] # None => secrets'[tokens[tok].by][tok] = tokens[tok].secret
    BY <1>2, <2>0, <2>1
  <2> QED
    BY <2>0, <2>2, <2>3
<1>5. CASE ~MintToken /\ ~StoreSecret
  <2>1. \A o \in Resources : crs'[o].exists => crs[o].exists /\ secrets'[o] = secrets[o]
    <3>1. CASE secrets' = secrets
      BY <3>1, GoneStays
    <3>2. CASE \E o \in Resources : CollectSecrets(o)
      BY <1>1, <3>2 DEF CollectSecrets
    <3> QED
      BY <1>0, <1>5, <3>1, <3>2, SecretWrites
  <2>2. /\ pc = "store" => UNCHANGED <<cur, pc, tok, fresh>>
        /\ pc' = "store" => pc = "store"
    BY <1>0, <1>5, StoreSteps
  <2>3. ASSUME NEW t \in TokenNames, tokens'[t] # None
        PROVE  /\ tokens[t] # None /\ tokens'[t].by = tokens[t].by
               /\ tokens'[t].secret = tokens[t].secret
    BY <1>1, <1>5, <2>3, TokenWrites, TokenFields
  <2>4. pc = "store" => tok \in TokenNames
    BY DEF TypeOK
  <2> QED
    BY <1>1, <1>2, <2>1, <2>2, <2>3, <2>4
<1> QED
  BY <1>3, <1>4, <1>5

\* The Secret of each token whose resource is there holds the secret Cloudflare
\* accepts, for any number of resources and tokens, with expiries, rotations,
\* revocations, edits, deletions, crashes, failing calls and old copies in any
\* order, until the answer that showed the secret, the write of the Secret or
\* the Secret itself is lost.
THEOREM SecretsSafe == Spec => []SecretsCurrent
<1>1. Init => SecretInv
  BY DEF Init, Resting, SecretInv
<1>2. SecretInv => SecretsCurrent
  BY DEF SecretInv, SecretsCurrent, Quiet
<1>3. NamesInv => TypeOK /\ SpecInv
  BY DEF NamesInv
<1> QED
  BY <1>1, <1>2, <1>3, NamesInit, NamesStep, SecretStep, PTL DEF Spec
=============================================================================
