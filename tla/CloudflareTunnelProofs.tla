----------------------- MODULE CloudflareTunnelProofs -----------------------
(* Theorems about CloudflareTunnel, for all values of its constants. *)
EXTENDS CloudflareTunnel, TLAPS

-----------------------------------------------------------------------------
(* Lemmas about the operators the actions are built from. *)

\* Setting conditions keeps a status a status, and leaves the identifier alone.
LEMMA ConditionTypes ==
    ASSUME NEW s \in Statuses, NEW c \in Conditions
    PROVE  /\ Failed(s, c) \in Statuses /\ Failed(s, c).tunnelID = s.tunnelID
           /\ Passed(s, c) \in Statuses /\ Passed(s, c).tunnelID = s.tunnelID
BY DEF Statuses, Failed, Passed, Conditions

\* Decoding a server's status over one in memory gives a status.
LEMMA DecodeType ==
    ASSUME NEW a \in Statuses, NEW b \in Statuses
    PROVE  Decode(a, b) \in Statuses
BY DEF Statuses, Decode

\* A resource without a status has a well-typed one.
LEMMA NoStatusType == NoStatus \in Statuses
BY DEF NoStatus, Statuses, Conditions

\* A resource the user has just created is a well-typed object.
LEMMA NewObjectType ==
    ASSUME NEW s \in Specs PROVE NewObject(s) \in Objects
BY NoStatusType DEF NewObject, Objects

\* A step of the reconciler that Reconcile may start with.
LEMMA PathType ==
    ASSUME NEW o \in Objects PROVE Path(o) \in Steps
BY DEF Path, Steps, Objects

\* Spending an event of the budget keeps the counters natural numbers.
LEMMA SpendType ==
    ASSUME NEW k \in Kinds, used \in [Kinds -> Nat], Spend(k)
    PROVE  used' \in [Kinds -> Nat]
BY DEF Spend, Kinds

\* What Reconcile leaves in memory after syncConfiguration.
LEMMA SyncTypes ==
    ASSUME NEW s \in Statuses, NEW m, m.gen \in Nat
    PROVE  /\ SyncOK(m, s) => st' \in Statuses /\ pc' = "status"
           /\ SyncError(s) => st' \in Statuses /\ pc' = "status"
<1>1. SyncOK(m, s) => st' \in Statuses /\ pc' = "status"
  <2> DEFINE t == [Passed(s, "ConfigurationSynced") EXCEPT !.fresh = TRUE]
  <2>1. t \in Statuses
    BY DEF Passed, Statuses, Conditions
  <2>2. [Passed(t, "Ready") EXCEPT !.observedGen = m.gen] \in Statuses
    BY <2>1, ConditionTypes DEF Statuses, Conditions
  <2> QED
    BY <2>1, <2>2 DEF SyncOK
<1>2. SyncError(s) => st' \in Statuses /\ pc' = "status"
  <2>1. [s EXCEPT !.conds = [@ EXCEPT !["ConfigurationSynced"] = "False"],
                  !.fresh = TRUE] \in Statuses
    BY DEF Statuses, Conditions
  <2> QED
    BY <2>1, ConditionTypes DEF SyncError, Conditions
<1> QED
  BY <1>1, <1>2

\* Deleting a tunnel leaves a well-typed account.
LEMMA DeletedType ==
    ASSUME NEW i, cf \in [TunnelIDs -> Tunnels]
    PROVE  Deleted(i) \in [TunnelIDs -> Tunnels]
BY DEF Deleted, Tunnels

\* The initial states are well-typed.
LEMMA TypeInit == Init => TypeOK
<1> SUFFICES ASSUME Init PROVE TypeOK
  OBVIOUS
<1> USE DEF Init
<1>1. obj \in Objects /\ cache \in Objects
  BY NewObjectType
<1>2. cf \in [TunnelIDs -> Tunnels]
  BY DEF Fresh, Unused, Tunnels
<1>3. QED
  BY <1>1, <1>2, NoStatusType DEF TypeOK, Steps, ChildStates, Kinds

\* Every step of the controller and of its environment keeps the types.
LEMMA TypeNext == TypeOK /\ [Next]_vars => TypeOK'
<1> SUFFICES ASSUME TypeOK, [Next]_vars PROVE TypeOK'
  OBVIOUS
<1> USE DEF TypeOK, Steps
<1>1. CASE Fetch
  <2>1. cache.status \in Statuses
    BY DEF Objects
  <2>2. Path(cache) \in Steps
    BY PathType
  <2>3. CASE Path(cache) = "idle"
    BY <1>1, <2>3, NoStatusType DEF Fetch, Return, server, informers, history
  <2>4. CASE Path(cache) # "idle"
    <3>1. /\ pc' \in Steps /\ pc' # "idle" /\ pc' \notin {"push", "clear", "patch"}
          /\ guard' \in BOOLEAN /\ queued' \in BOOLEAN
      BY <1>1, <2>2, <2>4 DEF Fetch, Path
    <3> QED
      BY <1>1, <2>1, <2>4, <3>1 DEF Fetch, server, informers, history
  <2> QED
    BY <2>3, <2>4
<1>2. CASE AddFinalizer
  <2>1. obj' \in Objects
    BY <1>2 DEF AddFinalizer, Objects
  <2>2. used' \in [Kinds -> Nat]
    BY <1>2, SpendType DEF AddFinalizer, Kinds
  <2> QED
    BY <1>2, <2>1, <2>2, NoStatusType DEF AddFinalizer, Return, informers, history
<1>3. CASE ValidateCredentials
  BY <1>3, ConditionTypes DEF ValidateCredentials, Fails, Spend, Conditions, server, informers, history, Kinds
<1>4. CASE FindTunnel
  BY <1>4, ConditionTypes DEF FindTunnel, Fails, Adopted, Spend, Conditions, server, informers, history, Kinds, Statuses
<1>5. CASE CreateTunnel
  <2>1. mem \in Objects /\ mem.spec.name \in Names
    BY <1>5 DEF CreateTunnel, Objects, Specs
  <2>2. cf' \in [TunnelIDs -> Tunnels] /\ created' \in SUBSET TunnelIDs
    BY <1>5, <2>1 DEF CreateTunnel, Fresh, Tunnels
  <2>3. st' \in Statuses
    BY <1>5, ConditionTypes DEF CreateTunnel, Fails, Adopted, Conditions, Statuses
  <2>4. used' \in [Kinds -> Nat] /\ pc' \in {"secret", "status"}
    BY <1>5, SpendType DEF CreateTunnel, Fails, Kinds
  <2> QED
    BY <1>5, <2>1, <2>2, <2>3, <2>4 DEF CreateTunnel, informers
<1>6. CASE WriteSecret
  BY <1>6, ConditionTypes DEF WriteSecret, Fails, Spend, Written, Conditions, informers, history, Kinds, ChildStates, Statuses
<1>7. CASE WriteDeployment
  BY <1>7, ConditionTypes DEF WriteDeployment, Fails, Spend, Written, Conditions, informers, history, Kinds, ChildStates, Objects
<1>8. CASE CollectIngressRules
  <2>1. mem \in Objects /\ mem.gen \in Nat /\ mem.spec.fallback \in Fallbacks
    BY <1>8 DEF CollectIngressRules, Objects, Specs
  <2>2. want' \in Configs
    BY <1>8, <2>1 DEF CollectIngressRules, Collected, Config, Configs
  <2>3. st' \in Statuses /\ pc' \in {"status", "push"}
    BY <1>8, <2>1, SyncTypes DEF CollectIngressRules
  <2>4. used' \in [Kinds -> Nat]
    BY <1>8, SpendType DEF CollectIngressRules, Kinds
  <2> QED
    BY <1>8, <2>1, <2>2, <2>3, <2>4 DEF CollectIngressRules, server, informers, history
<1>9. CASE PushConfiguration
  <2>1. want \in Configs /\ Hash(want) \in Hashes
    BY <1>9 DEF PushConfiguration, Hashes
  <2>2. cf' \in [TunnelIDs -> Tunnels] /\ pushed' \in SUBSET Hashes
    BY <1>9, <2>1 DEF PushConfiguration, Tunnels
  <2>3. st' \in Statuses /\ pc' \in {"status", "patch", "clear"}
    <3>1. mem.gen \in Nat
      BY <1>9 DEF PushConfiguration, Objects
    <3> QED
      BY <1>9, <3>1, SyncTypes DEF PushConfiguration
  <2>4. used' \in [Kinds -> Nat]
    BY <1>9, SpendType DEF PushConfiguration, Kinds
  <2> QED
    BY <1>9, <2>1, <2>2, <2>3, <2>4 DEF PushConfiguration, informers
<1>10. CASE ClearTunnelID
  <2> DEFINE cleared == [st EXCEPT !.tunnelID = None]
  <2>1. cleared \in Statuses
    BY DEF Statuses
  <2>2. st' \in Statuses /\ pc' = "status"
    <3>1. mem.gen \in Nat
      BY <1>10 DEF ClearTunnelID, Objects
    <3> QED
      BY <1>10, <2>1, <3>1, SyncTypes DEF ClearTunnelID
  <2>3. obj' \in Objects
    BY <1>10, <2>1 DEF ClearTunnelID, Objects
  <2>4. used' \in [Kinds -> Nat]
    BY <1>10, SpendType DEF ClearTunnelID, Kinds
  <2> QED
    BY <1>10, <2>2, <2>3, <2>4 DEF ClearTunnelID, informers, history
<1>11. CASE PatchConfigHash
  <2>1. want \in Configs /\ Hash(want) \in Hashes
    BY <1>11 DEF PatchConfigHash, Hashes
  <2>2. obj' \in Objects /\ mem' \in Objects
    BY <1>11, <2>1 DEF PatchConfigHash, Objects
  <2>3. st' \in Statuses /\ pc' = "status"
    <3>1. mem.gen \in Nat /\ obj.gen \in Nat /\ obj.status \in Statuses
      BY <1>11 DEF PatchConfigHash, Objects
    <3>2. Decode(obj.status, st) \in Statuses
      BY <3>1, DecodeType
    <3> QED
      BY <1>11, <3>1, <3>2, SyncTypes DEF PatchConfigHash
  <2>4. used' \in [Kinds -> Nat]
    BY <1>11, SpendType DEF PatchConfigHash, Kinds
  <2> QED
    BY <1>11, <2>2, <2>3, <2>4 DEF PatchConfigHash, informers, history
<1>12. CASE UpdateStatus
  <2>1. obj' \in Objects
    BY <1>12 DEF UpdateStatus, Objects
  <2>2. used' \in [Kinds -> Nat]
    BY <1>12, SpendType DEF UpdateStatus, Kinds
  <2> QED
    BY <1>12, <2>1, <2>2, NoStatusType DEF UpdateStatus, Return, informers, history
<1>13. CASE DeleteTunnel
  <2>1. cf' \in [TunnelIDs -> Tunnels]
    BY <1>13, DeletedType DEF DeleteTunnel
  <2> QED
    BY <1>13, <2>1, NoStatusType DEF DeleteTunnel, Unfinalize, Return, informers
<1>14. CASE RemoveFinalizer
  <2>1. obj' \in Objects
    BY <1>14 DEF RemoveFinalizer, Objects
  <2>2. used' \in [Kinds -> Nat]
    BY <1>14, SpendType DEF RemoveFinalizer, Kinds
  <2> QED
    BY <1>14, <2>1, <2>2, NoStatusType DEF RemoveFinalizer, Return, informers, history
<1>15. CASE SyncCache \/ SyncRoutes \/ SyncChildren
  BY <1>15 DEF SyncCache, SyncRoutes, SyncChildren, server, history
<1>16. CASE Age
  <2>1. obj' \in Objects /\ cache' \in Objects
    BY <1>16 DEF Age, Objects, Statuses
  <2> QED
    BY <1>16, <2>1 DEF Age, worker, history
<1>17. CASE BudgetElapses
  BY <1>17 DEF BudgetElapses, server, informers, worker, history
<1>18. CASE Crash
  <2>1. used' \in [Kinds -> Nat]
    BY <1>18, SpendType DEF Crash, Kinds
  <2> QED
    BY <1>18, <2>1, NoStatusType DEF Crash, Return, server, history
<1>19. CASE EditSpec
  <2>1. obj' \in Objects
    <3>1. PICK sp \in Specs : obj' = [obj EXCEPT !.spec = sp, !.gen = @ + 1]
      BY <1>19 DEF EditSpec
    <3>2. obj.gen + 1 \in Nat \ {0}
      BY DEF Objects
    <3> QED
      BY <3>1, <3>2 DEF Objects
  <2>2. used' \in [Kinds -> Nat]
    BY <1>19, SpendType DEF EditSpec, Kinds
  <2> QED
    BY <1>19, <2>1, <2>2 DEF EditSpec, informers, worker, history
<1>20. CASE DeleteObject
  <2>1. obj' \in Objects
    <3>1. PICK policy \in BOOLEAN :
            obj' = [obj EXCEPT !.orphan = policy, !.deleting = TRUE,
                               !.exists = obj.finalizer]
      BY <1>20 DEF DeleteObject
    <3> QED
      BY <3>1 DEF Objects
  <2>2. used' \in [Kinds -> Nat]
    BY <1>20, SpendType DEF DeleteObject, Kinds
  <2> QED
    BY <1>20, <2>1, <2>2 DEF DeleteObject, informers, worker, history
<1>21. CASE ChangeRoutes
  BY <1>21, SpendType DEF ChangeRoutes, Kinds, informers, worker, history
<1>22. CASE ExternalDelete
  <2>1. cf' \in [TunnelIDs -> Tunnels]
    BY <1>22, DeletedType DEF ExternalDelete
  <2>2. used' \in [Kinds -> Nat]
    BY <1>22, SpendType DEF ExternalDelete, Kinds
  <2> QED
    BY <1>22, <2>1, <2>2 DEF ExternalDelete, informers, worker, history
<1>23. CASE UNCHANGED vars
  BY <1>23 DEF vars
<1> QED
  BY <1>1, <1>2, <1>3, <1>4, <1>5, <1>6, <1>7, <1>8, <1>9, <1>10, <1>11, <1>12,
     <1>13, <1>14, <1>15, <1>16, <1>17, <1>18, <1>19, <1>20, <1>21, <1>22, <1>23
     DEF Next, Reconcile, Environment

\* The variables keep their types: in particular every hash stored or pushed
\* is the digest of a configuration, and a reconcile that is about to push
\* or to store a hash has collected a configuration.
THEOREM TypeCorrect == Spec => []TypeOK
<1>1. QED
  BY TypeInit, TypeNext, PTL DEF Spec

-----------------------------------------------------------------------------
(* HashNeverAhead *)

\* Every step keeps the stored hash, and the one about to be stored, behind
\* the configurations Cloudflare accepted.
LEMMA HashNext == TypeOK /\ HashInv /\ [Next]_vars => HashInv'
<1> SUFFICES ASSUME TypeOK, HashInv, [Next]_vars PROVE HashInv'
  OBVIOUS
<1> USE DEF HashInv, HashNeverAhead
<1>1. CASE Fetch
  <2>1. pc' # "patch"
    BY <1>1 DEF Fetch, Return, Path, TypeOK, Objects
  <2> QED
    BY <1>1, <2>1 DEF Fetch, server, history
<1>2. CASE AddFinalizer \/ UpdateStatus \/ RemoveFinalizer
  <2>1. pc' = "idle" /\ obj'.hash = obj.hash /\ pushed' = pushed
    BY <1>2 DEF AddFinalizer, UpdateStatus, RemoveFinalizer, Return, history, TypeOK, Objects
  <2> QED
    BY <2>1
<1>3. CASE ValidateCredentials \/ FindTunnel \/ CreateTunnel
  BY <1>3 DEF ValidateCredentials, FindTunnel, CreateTunnel, Fails, server, history
<1>4. CASE WriteSecret \/ WriteDeployment
  BY <1>4 DEF WriteSecret, WriteDeployment, Fails, history
<1>5. CASE CollectIngressRules
  BY <1>5 DEF CollectIngressRules, SyncOK, SyncError, server, history
<1>6. CASE PushConfiguration
  BY <1>6 DEF PushConfiguration, SyncError
<1>7. CASE ClearTunnelID
  <2>1. pc' = "status" /\ obj'.hash = obj.hash /\ pushed' = pushed
    BY <1>7 DEF ClearTunnelID, SyncError, history, TypeOK, Objects
  <2> QED
    BY <2>1
<1>8. CASE PatchConfigHash
  <2>1. pc' = "status" /\ pushed' = pushed /\ obj'.hash \in {obj.hash, Hash(want)}
    BY <1>8 DEF PatchConfigHash, SyncOK, history, TypeOK, Objects
  <2> QED
    BY <1>8, <2>1 DEF PatchConfigHash
<1>9. CASE DeleteTunnel
  BY <1>9 DEF DeleteTunnel, Unfinalize, Return
<1>10. CASE SyncCache \/ SyncRoutes \/ SyncChildren \/ BudgetElapses
  BY <1>10 DEF SyncCache, SyncRoutes, SyncChildren, BudgetElapses, server, worker, history
<1>11. CASE Crash
  BY <1>11 DEF Crash, Return, server, history
<1>12. CASE Age \/ EditSpec \/ DeleteObject
  <2>1. /\ obj'.hash = obj.hash /\ pushed' = pushed
        /\ pc' = pc /\ want' = want
    BY <1>12 DEF Age, EditSpec, DeleteObject, worker, history, TypeOK, Objects
  <2> QED
    BY <2>1
<1>13. CASE ChangeRoutes \/ ExternalDelete
  BY <1>13 DEF ChangeRoutes, ExternalDelete, worker, history
<1>14. CASE UNCHANGED vars
  BY <1>14 DEF vars
<1> QED
  BY <1>1, <1>2, <1>3, <1>4, <1>5, <1>6, <1>7, <1>8, <1>9, <1>10, <1>11, <1>12,
     <1>13, <1>14 DEF Next, Reconcile, Environment

\* The config-hash annotation never runs ahead of Cloudflare: a hash that is
\* stored was accepted before, under every failure, crash and interleaving.
THEOREM HashSafe == Spec => []HashNeverAhead
<1>1. Init => HashInv
  BY DEF Init, HashInv, HashNeverAhead, NewObject
<1>2. HashInv => HashNeverAhead
  BY DEF HashInv
<1> QED
  BY <1>1, <1>2, HashNext, TypeCorrect, PTL DEF Spec

-----------------------------------------------------------------------------
(* UniqueLiveTunnel *)

\* What an action that creates no tunnel may do to the account.
OnlyDeletes ==
    \A i \in TunnelIDs : Live(i)' => Live(i) /\ cf'[i].name = cf[i].name

\* Deleting a tunnel makes no tunnel live and renames none.
LEMMA DeletedOnly ==
    ASSUME TypeOK, NEW k, cf' = Deleted(k) PROVE OnlyDeletes
BY DEF TypeOK, Deleted, OnlyDeletes, Live, Tunnels

\* Every step keeps one live tunnel per name, and the lookup before a create
\* true until the create.
LEMMA UniqueNext == TypeOK /\ UniqueInv /\ [Next]_vars => UniqueInv'
<1> SUFFICES ASSUME TypeOK, UniqueInv, [Next]_vars PROVE UniqueInv'
  OBVIOUS
<1>0. ASSUME OnlyDeletes, pc' = "create" => pc = "create" /\ mem' = mem
      PROVE  UniqueInv'
  BY <1>0 DEF UniqueInv, UniqueLiveTunnel, OnlyDeletes, Live
<1>a. cf' = cf => OnlyDeletes
  BY DEF OnlyDeletes, Live
<1>1. CASE Fetch
  <2>1. pc' # "create"
    BY <1>1 DEF Fetch, Return, Path, TypeOK, Objects
  <2> QED
    BY <1>0, <1>a, <1>1, <2>1 DEF Fetch, server
<1>2. CASE AddFinalizer \/ UpdateStatus \/ RemoveFinalizer
  BY <1>0, <1>a, <1>2 DEF AddFinalizer, UpdateStatus, RemoveFinalizer, Return
<1>3. CASE ValidateCredentials
  BY <1>0, <1>a, <1>3 DEF ValidateCredentials, Fails, server
<1>4. CASE FindTunnel
  BY <1>4 DEF FindTunnel, Fails, server, UniqueInv, UniqueLiveTunnel, Live
<1>5. CASE CreateTunnel
  <2>1. pc' # "create"
    BY <1>5 DEF CreateTunnel, Fails
  <2>2. CASE cf' = cf
    BY <1>0, <1>a, <2>1, <2>2
  <2>3. ASSUME NEW k \in TunnelIDs, cf' = [cf EXCEPT ![k] = Fresh(mem.spec.name)]
        PROVE  UniqueInv'
    <3>1. \A i \in TunnelIDs : Live(i) => cf[i].name # mem.spec.name
      BY <1>5 DEF CreateTunnel, UniqueInv
    <3>2. cf'[k].name = mem.spec.name
      BY <2>3 DEF TypeOK, Fresh
    <3>3. \A i \in TunnelIDs : i # k => cf'[i] = cf[i]
      BY <2>3 DEF TypeOK
    <3> QED
      BY <2>1, <3>1, <3>2, <3>3 DEF UniqueInv, UniqueLiveTunnel, Live
  <2> QED
    BY <1>5, <2>2, <2>3 DEF CreateTunnel
<1>6. CASE WriteSecret \/ WriteDeployment
  BY <1>0, <1>a, <1>6 DEF WriteSecret, WriteDeployment, Fails
<1>7. CASE CollectIngressRules
  BY <1>0, <1>a, <1>7 DEF CollectIngressRules, SyncOK, SyncError, server
<1>8. CASE PushConfiguration
  <2>1. OnlyDeletes
    BY <1>8, <1>a DEF PushConfiguration, TypeOK, OnlyDeletes, Live, Tunnels
  <2>2. pc' # "create"
    BY <1>8 DEF PushConfiguration, SyncError
  <2> QED
    BY <1>0, <2>1, <2>2
<1>9. CASE ClearTunnelID \/ PatchConfigHash
  BY <1>0, <1>a, <1>9 DEF ClearTunnelID, PatchConfigHash, SyncOK, SyncError
<1>10. CASE DeleteTunnel
  <2>1. OnlyDeletes
    BY <1>10, <1>a, DeletedOnly DEF DeleteTunnel
  <2>2. pc' # "create"
    BY <1>10 DEF DeleteTunnel, Unfinalize, Return
  <2> QED
    BY <1>0, <2>1, <2>2
<1>11. CASE SyncCache \/ SyncRoutes \/ SyncChildren \/ BudgetElapses
  BY <1>0, <1>a, <1>11 DEF SyncCache, SyncRoutes, SyncChildren, BudgetElapses, server, worker
<1>12. CASE Crash
  BY <1>0, <1>a, <1>12 DEF Crash, Return, server
<1>13. CASE Age \/ EditSpec \/ DeleteObject \/ ChangeRoutes
  BY <1>0, <1>a, <1>13 DEF Age, EditSpec, DeleteObject, ChangeRoutes, worker
<1>14. CASE ExternalDelete
  BY <1>0, <1>14, DeletedOnly DEF ExternalDelete, worker
<1>15. CASE UNCHANGED vars
  BY <1>0, <1>a, <1>15 DEF vars
<1> QED
  BY <1>1, <1>2, <1>3, <1>4, <1>5, <1>6, <1>7, <1>8, <1>9, <1>10, <1>11, <1>12,
     <1>13, <1>14, <1>15 DEF Next, Reconcile, Environment

\* However often the controller loses an answer or dies after CreateTunnel, it
\* never makes a second live tunnel of the same name.
THEOREM UniqueSafe == Spec => []UniqueLiveTunnel
<1>1. Init => UniqueInv
  BY DEF Init, UniqueInv, UniqueLiveTunnel, Live, Unused
<1>2. UniqueInv => UniqueLiveTunnel
  BY DEF UniqueInv
<1> QED
  BY <1>1, <1>2, UniqueNext, TypeCorrect, PTL DEF Spec

-----------------------------------------------------------------------------
(* CleanupGuaranteed *)

\* What every step does to the object: the finalizer goes only with it.
LEMMA FinalizerNext ==
    ASSUME TypeOK, [Next]_vars, FinalizerKept PROVE FinalizerKept'
<1> USE DEF FinalizerKept, TypeOK, Objects
<1>1. CASE UNCHANGED obj
  BY <1>1
<1>2. CASE AddFinalizer \/ UpdateStatus \/ RemoveFinalizer
  BY <1>2 DEF AddFinalizer, UpdateStatus, RemoveFinalizer
<1>3. CASE ClearTunnelID
  BY <1>3 DEF ClearTunnelID
<1>4. CASE PatchConfigHash
  BY <1>4 DEF PatchConfigHash
<1>5. CASE Age
  BY <1>5 DEF Age
<1>6. CASE EditSpec
  BY <1>6 DEF EditSpec
<1>7. CASE DeleteObject
  BY <1>7 DEF DeleteObject
<1> QED
  BY <1>1, <1>2, <1>3, <1>4, <1>5, <1>6, <1>7 DEF Next, Reconcile, Environment,
     Fetch, ValidateCredentials, FindTunnel, CreateTunnel, WriteSecret,
     WriteDeployment, CollectIngressRules, PushConfiguration, DeleteTunnel,
     SyncCache, SyncRoutes, SyncChildren, BudgetElapses, Crash, ChangeRoutes,
     ExternalDelete, server, vars

\* Nothing is made before the finalizer has been seen.
Made == created # {} \/ children.secret # None \/ children.deployment # 0

\* Every step keeps the finalizer on an object that something was made for.
LEMMA CleanupNext == TypeOK /\ CleanupInv /\ [Next]_vars => CleanupInv'
<1> SUFFICES ASSUME TypeOK, CleanupInv, [Next]_vars PROVE CleanupInv'
  OBVIOUS
<1> DEFINE Before == {"validate", "ensure", "create", "secret", "deployment"}
<1>1. CASE FinalizerKept
  BY <1>1, FinalizerNext DEF CleanupInv, CleanupGuaranteed, FinalizerKept
<1>2. CASE ~FinalizerKept
  <2>1. /\ obj.exists /\ ~obj.finalizer
        /\ ~(cache.exists /\ cache.finalizer)
        /\ pc \notin Before
        /\ ~Made
    BY <1>2 DEF CleanupInv, CleanupGuaranteed, FinalizerKept, Made
  <2>2. pc' \notin Before
    BY <2>1 DEF Next, Reconcile, Environment, Fetch, Path, Return, AddFinalizer,
       ValidateCredentials, FindTunnel, CreateTunnel, WriteSecret, WriteDeployment,
       CollectIngressRules, SyncOK, SyncError, PushConfiguration, ClearTunnelID,
       PatchConfigHash, UpdateStatus, DeleteTunnel, Unfinalize, RemoveFinalizer,
       SyncCache, SyncRoutes, SyncChildren, Age, BudgetElapses, Crash, EditSpec,
       DeleteObject, ChangeRoutes, ExternalDelete, worker, vars, TypeOK, Objects
  <2>3. ~Made'
    BY <2>1 DEF Made, Next, Reconcile, Environment, Fetch, AddFinalizer,
       ValidateCredentials, FindTunnel, CreateTunnel, WriteSecret, WriteDeployment,
       CollectIngressRules, PushConfiguration, ClearTunnelID, PatchConfigHash,
       UpdateStatus, DeleteTunnel, RemoveFinalizer, SyncCache, SyncRoutes,
       SyncChildren, Age, BudgetElapses, Crash, EditSpec, DeleteObject,
       ChangeRoutes, ExternalDelete, server, history, vars
  <2>4. cache'.exists /\ cache'.finalizer => FinalizerKept'
    <3>1. CASE cache' = obj
      BY <2>1, <3>1
    <3>2. CASE cache'.exists = cache.exists /\ cache'.finalizer = cache.finalizer
      BY <2>1, <3>2
    <3> QED
      BY <3>1, <3>2 DEF Next, Reconcile, Environment, Fetch, AddFinalizer,
       ValidateCredentials, FindTunnel, CreateTunnel, WriteSecret, WriteDeployment,
       CollectIngressRules, PushConfiguration, ClearTunnelID, PatchConfigHash,
       UpdateStatus, DeleteTunnel, RemoveFinalizer, SyncCache, SyncRoutes,
       SyncChildren, Age, BudgetElapses, Crash, EditSpec, DeleteObject,
       ChangeRoutes, ExternalDelete, informers, vars, TypeOK, Objects
  <2> QED
    BY <2>2, <2>3, <2>4 DEF CleanupInv, CleanupGuaranteed, Made
<1> QED
  BY <1>1, <1>2

\* Whatever the controller made at Cloudflare or in the cluster, the object that
\* asked for it carries the finalizer or is already gone.
THEOREM CleanupSafe == Spec => []CleanupGuaranteed
<1>1. Init => CleanupInv
  BY DEF Init, CleanupInv, CleanupGuaranteed, FinalizerKept, NewObject
<1>2. CleanupInv => CleanupGuaranteed
  BY DEF CleanupInv
<1> QED
  BY <1>1, <1>2, CleanupNext, TypeCorrect, PTL DEF Spec

-----------------------------------------------------------------------------
(* CleanupBeforeRemoval *)

\* Every step that leads to the removal of the finalizer has dealt with the
\* tunnel; no tunnel comes back to life in between.
LEMMA RemovalNext == TypeOK /\ CleanupBeforeRemoval /\ [Next]_vars => CleanupBeforeRemoval'
<1> SUFFICES ASSUME TypeOK, CleanupBeforeRemoval, [Next]_vars, pc' = "unfinalize"
             PROVE  CleanupBeforeRemoval'
  BY DEF CleanupBeforeRemoval
<1>1. CASE DeleteTunnel
  <2>1. CASE mem.orphan \/ st.tunnelID = None
    BY <1>1, <2>1 DEF DeleteTunnel, Unfinalize, Return, CleanupBeforeRemoval
  <2>2. CASE ~mem.orphan /\ st.tunnelID # None
    <3>1. st.tunnelID \in TunnelIDs
      BY <2>2 DEF TypeOK, Statuses
    <3>2. st' = st /\ (cf' = Deleted(st.tunnelID) \/ warned')
      BY <1>1, <2>2 DEF DeleteTunnel, Unfinalize, Return
    <3>3. cf' = Deleted(st.tunnelID) => ~Live(st.tunnelID)'
      BY <3>1, <3>2 DEF Deleted, Live, TypeOK, Tunnels
    <3> QED
      BY <3>2, <3>3 DEF CleanupBeforeRemoval, Live
  <2> QED
    BY <2>1, <2>2
<1>2. CASE ~DeleteTunnel
  <2>1. pc = "unfinalize" /\ mem' = mem /\ st' = st /\ (warned => warned')
    BY <1>2 DEF Next, Reconcile, Environment, Fetch, Path, Return, AddFinalizer,
       ValidateCredentials, Fails, FindTunnel, CreateTunnel, WriteSecret, WriteDeployment,
       CollectIngressRules, SyncOK, SyncError, PushConfiguration, ClearTunnelID,
       PatchConfigHash, UpdateStatus, RemoveFinalizer,
       SyncCache, SyncRoutes, SyncChildren, Age, BudgetElapses, Crash, EditSpec,
       DeleteObject, ChangeRoutes, ExternalDelete, worker, history, vars, TypeOK, Objects
  <2>2. st.tunnelID \in TunnelIDs \cup {None}
    BY DEF TypeOK, Statuses
  <2>3. cf' = cf \/ ExternalDelete
    BY <1>2, <2>1 DEF Next, Reconcile, Environment, Fetch, AddFinalizer,
       ValidateCredentials, FindTunnel, CreateTunnel, WriteSecret, WriteDeployment,
       CollectIngressRules, PushConfiguration, ClearTunnelID, PatchConfigHash,
       UpdateStatus, RemoveFinalizer, SyncCache, SyncRoutes, SyncChildren, Age,
       BudgetElapses, Crash, EditSpec, DeleteObject, ChangeRoutes, server, vars
  <2>4. \A i \in TunnelIDs : Live(i)' => Live(i)
    BY <2>3, DeletedOnly DEF ExternalDelete, OnlyDeletes, Live
  <2> QED
    BY <2>1, <2>2, <2>4 DEF CleanupBeforeRemoval, Live
<1> QED
  BY <1>1, <1>2

\* The finalizer is about to go only when the known tunnel is deleted, or the
\* policy is orphan, or a warning says that it may remain.
THEOREM RemovalSafe == Spec => []CleanupBeforeRemoval
<1>1. Init => CleanupBeforeRemoval
  BY DEF Init, CleanupBeforeRemoval
<1> QED
  BY <1>1, RemovalNext, TypeCorrect, PTL DEF Spec

-----------------------------------------------------------------------------
(* OrphanRespected *)

\* Every step keeps the deletion policy in the copies equal to the object's.
LEMMA OrphanNext == TypeOK /\ OrphanInv /\ [Next]_vars => OrphanInv'
<1> SUFFICES ASSUME TypeOK, OrphanInv, [Next]_vars PROVE OrphanInv'
  OBVIOUS
<1> USE DEF OrphanInv
<1>1. CASE Fetch
  <2>1. pc' = "delete" => mem' = cache /\ cache.deleting
    BY <1>1 DEF Fetch, Return, Path, TypeOK, Objects
  <2> QED
    BY <1>1, <2>1 DEF Fetch, server, informers
<1>2. CASE DeleteObject
  <2>1. ~obj.deleting
    BY <1>2 DEF DeleteObject
  <2> QED
    BY <1>2, <2>1 DEF DeleteObject, informers, worker
<1>3. CASE SyncCache \/ Crash
  BY <1>3 DEF SyncCache, Crash, Return, server
<1>4. CASE Age
  <2>1. /\ obj'.deleting = obj.deleting /\ obj'.orphan = obj.orphan
        /\ cache'.deleting = cache.deleting /\ cache'.orphan = cache.orphan
    BY <1>4 DEF Age, TypeOK, Objects
  <2> QED
    BY <1>4, <2>1 DEF Age, worker
<1>5. CASE ~(Fetch \/ DeleteObject \/ SyncCache \/ Crash \/ Age)
  <2>1. cache' = cache /\ (pc' = "delete" => pc = "delete" /\ mem' = mem)
    BY <1>5 DEF Next, Reconcile, Environment, AddFinalizer,
       ValidateCredentials, Fails, FindTunnel, CreateTunnel, WriteSecret, WriteDeployment,
       CollectIngressRules, SyncOK, SyncError, PushConfiguration, ClearTunnelID,
       PatchConfigHash, UpdateStatus, DeleteTunnel, Unfinalize, RemoveFinalizer, Return,
       SyncRoutes, SyncChildren, BudgetElapses, EditSpec, ChangeRoutes, ExternalDelete,
       informers, worker, vars
  <2>2. obj'.deleting = obj.deleting /\ obj'.orphan = obj.orphan
    BY <1>5 DEF Next, Reconcile, Environment, AddFinalizer,
       ValidateCredentials, FindTunnel, CreateTunnel, WriteSecret, WriteDeployment,
       CollectIngressRules, PushConfiguration, ClearTunnelID,
       PatchConfigHash, UpdateStatus, DeleteTunnel, RemoveFinalizer,
       SyncRoutes, SyncChildren, BudgetElapses, EditSpec, ChangeRoutes, ExternalDelete,
       server, vars, TypeOK, Objects
  <2> QED
    BY <2>1, <2>2
<1> QED
  BY <1>1, <1>2, <1>3, <1>4, <1>5

\* A tunnel goes only through DeleteTunnel, and only without the orphan policy.
LEMMA OrphanStep ==
    ASSUME TypeOK, OrphanInv, Reconcile, obj.orphan
    PROVE  \A i \in TunnelIDs : Live(i) => Live(i)'
<1>1. CASE DeleteTunnel
  <2>1. mem.orphan
    BY <1>1 DEF DeleteTunnel, OrphanInv
  <2> QED
    BY <1>1, <2>1 DEF DeleteTunnel, Live
<1>2. CASE CreateTunnel
  BY <1>2 DEF CreateTunnel, Live, Unused, TypeOK, Fresh
<1>3. CASE PushConfiguration
  BY <1>3 DEF PushConfiguration, Live, TypeOK, Tunnels
<1>4. CASE UNCHANGED cf
  BY <1>4 DEF Live
<1> QED
  BY <1>1, <1>2, <1>3, <1>4 DEF Reconcile, Fetch, AddFinalizer, ValidateCredentials,
     FindTunnel, WriteSecret, WriteDeployment, CollectIngressRules, ClearTunnelID,
     PatchConfigHash, UpdateStatus, RemoveFinalizer, server

\* No step of the controller deletes a tunnel of a resource whose deletion
\* policy is orphan, however old the copies are it works from.
THEOREM OrphanSafe == Spec => OrphanRespected
<1>1. Init => OrphanInv
  BY DEF Init, OrphanInv, NewObject
<1>2. TypeOK /\ OrphanInv /\ [Next]_vars =>
        [Reconcile /\ obj.orphan => \A i \in TunnelIDs : Live(i) => Live(i)']_vars
  BY OrphanStep
<1> QED
  BY <1>1, <1>2, OrphanNext, TypeCorrect, PTL DEF Spec, OrphanRespected

-----------------------------------------------------------------------------
(* ConnectorBeforeReady *)

\* Conditions other than Ready leave Ready alone; a failed phase clears it.
LEMMA ReadyKept ==
    ASSUME NEW s \in Statuses, NEW c \in Conditions
    PROVE  /\ Failed(s, c).conds["Ready"] = "False"
           /\ c # "Ready" => Passed(s, c).conds["Ready"] = s.conds["Ready"]
BY DEF Failed, Passed, Statuses, Conditions

\* The actions that touch neither the children nor any copy of the status.
LEMMA ConnectorFrame ==
    ASSUME ConnectorInv, children' = children, obj' = obj, cache' = cache,
           st'.conds["Ready"] = "True" => st.conds["Ready"] = "True",
           pc' \notin {"secret", "deployment", "collect", "push", "clear", "patch"}
    PROVE  ConnectorInv'
BY DEF ConnectorInv, ConnectorBeforeReady, Connected

\* Every step keeps each copy of a Ready status behind the connector.
LEMMA ConnectorNext == TypeOK /\ ConnectorInv /\ [Next]_vars => ConnectorInv'
<1> SUFFICES ASSUME TypeOK, ConnectorInv, [Next]_vars PROVE ConnectorInv'
  OBVIOUS
<1> USE NoneAssumption
<1>0. ASSUME Connected, Connected', pc' \notin {"secret"} PROVE ConnectorInv'
  BY <1>0 DEF ConnectorInv, ConnectorBeforeReady, Connected
<1>1. CASE Fetch
  <2>1. CASE Path(cache) = "collect"
    <3>1. Connected
      BY <2>1 DEF Path, LifecycleUnchanged, Healthy, ConnectorInv, TypeOK, Objects
    <3> QED
      BY <1>0, <1>1, <2>1, <3>1 DEF Fetch, Connected, server
  <2>2. CASE Path(cache) = "idle"
    <3>1. pc' = "idle" /\ st' = NoStatus
      BY <1>1, <2>2 DEF Fetch, Return
    <3> QED
      BY <1>1, <3>1, ConnectorFrame DEF Fetch, NoStatus, server, informers, Conditions
  <2>3. CASE Path(cache) \in {"delete", "finalize", "validate"}
    <3>1. pc' \in {"delete", "finalize", "validate"} /\ st' = cache.status
      BY <1>1, <2>3 DEF Fetch
    <3> QED
      BY <1>1, <3>1 DEF Fetch, server, informers, ConnectorInv,
         ConnectorBeforeReady, Connected
  <2> QED
    BY <2>1, <2>2, <2>3 DEF Path, TypeOK, Objects
<1>2. CASE AddFinalizer \/ RemoveFinalizer \/ UpdateStatus
  <2>1. /\ obj'.status \in {obj.status, st} /\ children' = children /\ cache' = cache
        /\ pc' = "idle" /\ st' = NoStatus
    BY <1>2 DEF AddFinalizer, RemoveFinalizer, UpdateStatus, Return, informers, TypeOK, Objects
  <2> QED
    BY <2>1 DEF ConnectorInv, ConnectorBeforeReady, Connected, NoStatus, Conditions
<1>3. CASE ValidateCredentials
  <2>1. st'.conds["Ready"] = "True" => st.conds["Ready"] = "True"
    BY <1>3, ReadyKept DEF ValidateCredentials, Fails, Conditions, TypeOK
  <2> QED
    BY <1>3, <2>1, ConnectorFrame DEF ValidateCredentials, Fails, server, informers
<1>4. CASE FindTunnel \/ CreateTunnel
  <2>1. ASSUME NEW i \in TunnelIDs, st' = Adopted(i)
        PROVE  st'.tunnelID = i /\ st'.conds["Ready"] = st.conds["Ready"]
    BY <2>1, ReadyKept, ConditionTypes DEF Adopted, Conditions, TypeOK, Statuses
  <2>2. Failed(st, "TunnelReady").conds["Ready"] = "False"
    BY ReadyKept DEF Conditions, TypeOK
  <2>3. \/ pc' = "create" /\ st' = st
        \/ pc' = "status" /\ st' = Failed(st, "TunnelReady")
        \/ pc' = "secret" /\ \E i \in TunnelIDs : st' = Adopted(i)
    BY <1>4 DEF FindTunnel, CreateTunnel, Fails
  <2>4. children' = children /\ obj' = obj /\ cache' = cache
    BY <1>4 DEF FindTunnel, CreateTunnel, server, informers
  <2> QED
    BY <2>1, <2>2, <2>3, <2>4 DEF ConnectorInv, ConnectorBeforeReady, Connected
<1>5. CASE WriteSecret
  <2>1. st.tunnelID # None
    BY <1>5 DEF WriteSecret, ConnectorInv
  <2>2. obj' = obj /\ cache' = cache
    BY <1>5 DEF WriteSecret, informers
  <2>3. CASE children' = children /\ st' = Failed(st, "CloudflaredDeployed") /\ pc' = "status"
    <3>1. st'.conds["Ready"] = "False"
      BY <2>3, ReadyKept DEF Conditions, TypeOK
    <3> QED
      BY <2>2, <2>3, <3>1, ConnectorFrame
  <2>4. CASE /\ children' = [children EXCEPT !.secret =
                   Written(childCache.secret, @, None, st.tunnelID)]
             /\ st' = st /\ pc' = "deployment"
    <3>1. children'.secret # None /\ children'.deployment = children.deployment
      BY <2>1, <2>4 DEF Written, TypeOK, ChildStates
    <3> QED
      BY <2>2, <2>4, <3>1 DEF ConnectorInv, ConnectorBeforeReady, Connected
  <2> QED
    BY <1>5, <2>3, <2>4 DEF WriteSecret, Fails
<1>6. CASE WriteDeployment
  <2>1. children.secret # None /\ mem.gen # 0
    BY <1>6 DEF WriteDeployment, ConnectorInv, TypeOK, Objects
  <2>2. obj' = obj /\ cache' = cache
    BY <1>6 DEF WriteDeployment, informers
  <2>3. CASE children' = children /\ st' = Failed(st, "CloudflaredDeployed") /\ pc' = "status"
    <3>1. st'.conds["Ready"] = "False"
      BY <2>3, ReadyKept DEF Conditions, TypeOK
    <3> QED
      BY <2>2, <2>3, <3>1, ConnectorFrame
  <2>4. CASE /\ children' = [children EXCEPT !.deployment =
                   Written(childCache.deployment, @, 0, mem.gen)]
             /\ pc' = "collect"
    <3>1. Connected'
      BY <2>1, <2>4 DEF Written, TypeOK, ChildStates, Connected
    <3> QED
      BY <2>2, <2>4, <3>1 DEF ConnectorInv, ConnectorBeforeReady, Connected
  <2> QED
    BY <1>6, <2>3, <2>4 DEF WriteDeployment, Fails
<1>7. CASE CollectIngressRules \/ PushConfiguration \/ ClearTunnelID \/ PatchConfigHash
  <2>1. Connected /\ children' = children
    BY <1>7 DEF CollectIngressRules, PushConfiguration, ClearTunnelID,
       PatchConfigHash, ConnectorInv, server
  <2>2. pc' # "secret"
    BY <1>7 DEF CollectIngressRules, PushConfiguration, ClearTunnelID,
       PatchConfigHash, SyncOK, SyncError
  <2> QED
    BY <1>0, <2>1, <2>2 DEF Connected
<1>8. CASE DeleteTunnel
  <2>1. pc' \in {"idle", "unfinalize"} /\ st' \in {st, NoStatus}
    BY <1>8 DEF DeleteTunnel, Unfinalize, Return
  <2> QED
    BY <1>8, <2>1, ConnectorFrame DEF DeleteTunnel, informers, NoStatus, Conditions
<1>9. CASE SyncCache \/ Crash
  <2>1. /\ cache' = obj /\ children' = children /\ obj' = obj
        /\ (pc' = pc /\ st' = st) \/ (pc' = "idle" /\ st' = NoStatus)
    BY <1>9 DEF SyncCache, Crash, Return, server
  <2> QED
    BY <2>1 DEF ConnectorInv, ConnectorBeforeReady, Connected, NoStatus, Conditions
<1>10. CASE Age
  <2>1. /\ obj'.status.conds = obj.status.conds /\ cache'.status.conds = cache.status.conds
        /\ children' = children /\ pc' = pc /\ st' = st
    BY <1>10 DEF Age, worker, TypeOK, Objects, Statuses
  <2> QED
    BY <2>1 DEF ConnectorInv, ConnectorBeforeReady, Connected
<1>11. CASE EditSpec \/ DeleteObject
  <2>1. /\ obj'.status = obj.status /\ cache' = cache
        /\ children' = children /\ pc' = pc /\ st' = st
    BY <1>11 DEF EditSpec, DeleteObject, worker, informers, TypeOK, Objects
  <2> QED
    BY <2>1 DEF ConnectorInv, ConnectorBeforeReady, Connected
<1>12. CASE SyncRoutes \/ SyncChildren \/ BudgetElapses \/ ChangeRoutes \/ ExternalDelete
            \/ UNCHANGED vars
  <2>1. /\ obj' = obj /\ cache' = cache /\ children' = children
        /\ pc' = pc /\ st' = st
    BY <1>12 DEF SyncRoutes, SyncChildren, BudgetElapses, ChangeRoutes, ExternalDelete,
       server, informers, worker, vars
  <2> QED
    BY <2>1 DEF ConnectorInv, ConnectorBeforeReady, Connected
<1> QED
  BY <1>1, <1>2, <1>3, <1>4, <1>5, <1>6, <1>7, <1>8, <1>9, <1>10, <1>11, <1>12
     DEF Next, Reconcile, Environment

\* Ready=True is published only after the token Secret and the Deployment were
\* written, whatever stale status a cache or a server's answer brings back.
THEOREM ConnectorSafe == Spec => []ConnectorBeforeReady
<1>1. Init => ConnectorInv
  BY DEF Init, ConnectorInv, ConnectorBeforeReady, Connected, NewObject, NoStatus,
     Conditions
<1>2. ConnectorInv => ConnectorBeforeReady
  BY DEF ConnectorInv
<1> QED
  BY <1>1, <1>2, ConnectorNext, TypeCorrect, PTL DEF Spec

-----------------------------------------------------------------------------
(* The finalizer protocol *)

\* The cache may be old, but a deletion it shows has happened, and a finalizer
\* it shows without one is still stored; so a tunnel is created only while the
\* object has the finalizer.
HoldInv ==
    /\ obj.finalizer => obj.exists
    /\ cache.deleting => obj.deleting
    /\ cache.finalizer /\ ~cache.deleting => obj.finalizer
    /\ pc \in {"delete", "unfinalize"} => cache.deleting
    /\ pc \in {"validate", "ensure", "create"} => obj.finalizer

\* What a step may do to the fields of the object the protocol is about.
Same(o) == obj'.exists = o.exists /\ obj'.finalizer = o.finalizer /\ obj'.deleting = o.deleting

\* What a step may do to the resource on the API server.
LEMMA ObjectStep ==
    ASSUME TypeOK, [Next]_vars
    PROVE  \/ Same(obj)
           \/ /\ AddFinalizer /\ obj.exists /\ obj'.exists /\ obj'.finalizer
              /\ obj'.deleting = obj.deleting
           \/ /\ RemoveFinalizer /\ obj.exists /\ ~obj'.exists /\ ~obj'.finalizer
              /\ obj'.deleting = obj.deleting
           \/ /\ DeleteObject /\ obj.exists /\ obj'.deleting
              /\ obj'.finalizer = obj.finalizer /\ obj'.exists = obj.finalizer
<1> USE DEF TypeOK, Objects, Same
<1>1. CASE UNCHANGED obj
  BY <1>1
<1>2. CASE AddFinalizer
  BY <1>2 DEF AddFinalizer
<1>3. CASE RemoveFinalizer
  BY <1>3 DEF RemoveFinalizer
<1>4. CASE DeleteObject
  BY <1>4 DEF DeleteObject
<1>5. CASE UpdateStatus \/ ClearTunnelID \/ PatchConfigHash \/ Age
  BY <1>5 DEF UpdateStatus, ClearTunnelID, PatchConfigHash, Age
<1>6. CASE EditSpec
  BY <1>6 DEF EditSpec
<1> QED
  BY <1>1, <1>2, <1>3, <1>4, <1>5, <1>6 DEF Next, Reconcile, Environment,
     Fetch, ValidateCredentials, FindTunnel, CreateTunnel, WriteSecret,
     WriteDeployment, CollectIngressRules, PushConfiguration, DeleteTunnel,
     SyncCache, SyncRoutes, SyncChildren, BudgetElapses, Crash, ChangeRoutes,
     ExternalDelete, server, vars

\* The cache only ever gets what the API server has.
LEMMA CacheStep ==
    ASSUME TypeOK, [Next]_vars
    PROVE  \/ /\ cache'.exists = cache.exists
              /\ cache'.deleting = cache.deleting /\ cache'.finalizer = cache.finalizer
           \/ cache' = obj /\ obj' = obj
BY DEF Next, Reconcile, Environment, Fetch, AddFinalizer, ValidateCredentials, FindTunnel,
   CreateTunnel, WriteSecret, WriteDeployment, CollectIngressRules, PushConfiguration,
   ClearTunnelID, PatchConfigHash, UpdateStatus, DeleteTunnel, RemoveFinalizer, SyncCache,
   SyncRoutes, SyncChildren, Age, BudgetElapses, Crash, EditSpec, DeleteObject, ChangeRoutes,
   ExternalDelete, server, informers, vars, TypeOK, Objects

\* How the worker gets to the steps HoldInv speaks of.
LEMMA WorkerStep ==
    ASSUME TypeOK, [Next]_vars
    PROVE  \/ pc' = pc
           \/ pc' \notin {"validate", "ensure", "create", "delete", "unfinalize"}
           \/ Fetch /\ pc' = Path(cache) /\ cache' = cache /\ obj' = obj
           \/ pc \in {"validate", "ensure"} /\ pc' \in {"ensure", "create"} /\ obj' = obj
           \/ pc = "delete" /\ pc' = "unfinalize" /\ cache' = cache
BY DEF Next, Reconcile, Environment, Fetch, Return, AddFinalizer, ValidateCredentials,
   FindTunnel, CreateTunnel, Fails, WriteSecret, WriteDeployment, CollectIngressRules, SyncOK,
   SyncError, PushConfiguration, ClearTunnelID, PatchConfigHash, UpdateStatus, DeleteTunnel,
   Unfinalize, RemoveFinalizer, SyncCache, SyncRoutes, SyncChildren, Age, BudgetElapses,
   Crash, EditSpec, DeleteObject, ChangeRoutes, ExternalDelete, server, informers, worker, vars

\* Every step keeps what the copies and the reconcile under way say true.
LEMMA HoldNext == TypeOK /\ HoldInv /\ [Next]_vars => HoldInv'
<1> SUFFICES ASSUME TypeOK, HoldInv, [Next]_vars PROVE HoldInv'
  OBVIOUS
<1>1. /\ obj'.finalizer => obj'.exists
      /\ obj.deleting => obj'.deleting
      /\ obj.finalizer /\ pc # "unfinalize" => obj'.finalizer
  <2>1. RemoveFinalizer => pc = "unfinalize"
    BY DEF RemoveFinalizer
  <2> QED
    BY <2>1, ObjectStep DEF HoldInv, Same
<1>2. /\ cache'.deleting => obj'.deleting
      /\ cache.deleting => cache'.deleting
      /\ cache'.finalizer /\ ~cache'.deleting => obj'.finalizer
  BY <1>1, CacheStep DEF HoldInv
<1>3. /\ Path(cache) \in {"delete", "unfinalize"} => cache.deleting
      /\ Path(cache) \in {"validate", "ensure", "create"} => cache.finalizer /\ ~cache.deleting
  <2>1. cache.exists \in BOOLEAN /\ cache.deleting \in BOOLEAN /\ cache.finalizer \in BOOLEAN
    BY DEF TypeOK, Objects
  <2> QED
    BY <2>1 DEF Path
<1>4. pc' \in {"delete", "unfinalize"} => cache'.deleting
  BY <1>2, <1>3, WorkerStep DEF HoldInv
<1>5. pc' \in {"validate", "ensure", "create"} => obj'.finalizer
  BY <1>1, <1>3, WorkerStep DEF HoldInv
<1> QED
  BY <1>1, <1>2, <1>4, <1>5 DEF HoldInv

\* Only CreateTunnel makes something.
LEMMA OwnedStep ==
    ASSUME TypeOK, [Next]_vars, ~CreateTunnel PROVE Owned' \subseteq Owned
<1>1. created' = created
  BY DEF Next, Reconcile, Environment, Fetch, AddFinalizer, ValidateCredentials, FindTunnel,
     WriteSecret, WriteDeployment, CollectIngressRules, PushConfiguration, ClearTunnelID,
     PatchConfigHash, UpdateStatus, DeleteTunnel, RemoveFinalizer, SyncCache, SyncRoutes,
     SyncChildren, Age, BudgetElapses, Crash, EditSpec, DeleteObject, ChangeRoutes,
     ExternalDelete, history, vars
<1>2. \A i \in TunnelIDs : Live(i)' => Live(i)
  <2>1. CASE cf' = cf
    BY <2>1 DEF Live
  <2>2. CASE \E k : cf' = Deleted(k)
    BY <2>2, DeletedOnly DEF OnlyDeletes
  <2>3. CASE PushConfiguration
    BY <2>3 DEF PushConfiguration, Live, TypeOK, Tunnels
  <2> QED
    BY <2>1, <2>2, <2>3
       DEF Next, Reconcile, Environment, Fetch, AddFinalizer, ValidateCredentials, FindTunnel,
           WriteSecret, WriteDeployment, CollectIngressRules, ClearTunnelID, PatchConfigHash,
           UpdateStatus, DeleteTunnel, RemoveFinalizer, SyncCache, SyncRoutes, SyncChildren,
           Age, BudgetElapses, Crash, EditSpec, DeleteObject, ChangeRoutes, ExternalDelete,
           server, vars
<1> QED
  BY <1>1, <1>2 DEF Owned, TypeOK

\* A step that takes the object further leaves the account alone.
LEMMA AccountApart ==
    ASSUME AddFinalizer \/ RemoveFinalizer \/ DeleteObject PROVE Owned' = Owned
BY DEF AddFinalizer, RemoveFinalizer, DeleteObject, history, Owned, Live

\* Each step of the reconciler is a step of the protocol, or none.
LEMMA StepRefines == TypeOK /\ TypeOK' /\ HoldInv /\ [Next]_vars => [Protocol!Next]_(Protocol!vars)
<1> SUFFICES ASSUME TypeOK, TypeOK', HoldInv, [Next]_vars PROVE [Protocol!Next]_(Protocol!vars)
  OBVIOUS
<1> DEFINE ph == [o \in {"tunnel"} |-> Phase]
           ow == [o \in {"tunnel"} |-> Owned]
<1>0. obj.exists \in BOOLEAN /\ obj.finalizer \in BOOLEAN
  BY DEF TypeOK, Objects
<1>1. CASE Same(obj)
  <2>1. Phase' = Phase
    BY <1>1 DEF Same, Phase
  <2>2. ow' \in [{"tunnel"} -> SUBSET TunnelIDs]
    BY DEF TypeOK, Owned
  <2>3. CASE CreateTunnel
    <3>1. ph["tunnel"] = "held" /\ ph' = ph
      BY <2>1, <2>3 DEF CreateTunnel, HoldInv, Phase
    <3> QED
      BY <2>2, <3>1 DEF Protocol!Next, Protocol!Work, Protocol!OnlyLose
  <2>4. CASE ~CreateTunnel
    <3>1. ow'["tunnel"] \subseteq ow["tunnel"] /\ ph' = ph
      BY <2>1, <2>4, OwnedStep
    <3> QED
      BY <2>2, <3>1 DEF Protocol!Next, Protocol!Lose, Protocol!OnlyLose
  <2> QED
    BY <2>3, <2>4
<1>2. CASE AddFinalizer /\ obj.exists /\ obj'.exists /\ obj'.finalizer
  <2>1. ow' = ow
    BY <1>2, AccountApart
  <2>2. CASE obj.finalizer
    <3>1. ph' = ph
      BY <1>2, <2>2 DEF Phase
    <3>2. UNCHANGED Protocol!vars
      BY <2>1, <3>1 DEF Protocol!vars
    <3> QED
      BY <3>2
  <2>3. CASE ~obj.finalizer
    <3>1. ph' = [ph EXCEPT !["tunnel"] = "held"] /\ ph["tunnel"] = "new"
      BY <1>2, <2>3 DEF Phase
    <3> QED
      BY <2>1, <3>1 DEF Protocol!Next, Protocol!Hold
  <2> QED
    BY <1>0, <2>2, <2>3
<1>3. CASE (RemoveFinalizer \/ DeleteObject) /\ obj.exists /\ ~obj'.exists
  <2>1. ow' = ow
    BY <1>3, AccountApart
  <2>2. ph' = [ph EXCEPT !["tunnel"] = "released"] /\ ph["tunnel"] \in {"new", "held"}
    BY <1>3 DEF Phase
  <2> QED
    BY <2>1, <2>2 DEF Protocol!Next, Protocol!Release
<1>4. CASE DeleteObject /\ obj.exists /\ obj'.exists /\ obj.finalizer /\ obj'.finalizer
  <2>1. ow' = ow
    BY <1>4, AccountApart
  <2>2. ph' = ph
    BY <1>4 DEF Phase
  <2>3. UNCHANGED Protocol!vars
    BY <2>1, <2>2 DEF Protocol!vars
  <2> QED
    BY <2>3
<1> QED
  BY <1>0, <1>1, <1>2, <1>3, <1>4, ObjectStep

\* The tunnel reconciler implements the finalizer protocol: a tunnel is created
\* only while the finalizer is stored, whatever the age of the copies and
\* wherever calls fail or the process dies.
THEOREM Refinement == Spec => HeldWhileOwned
<1>1. Init => Protocol!Init
  <2> SUFFICES ASSUME Init PROVE Protocol!Init
    OBVIOUS
  <2>1. Phase = "new" /\ Owned = {}
    BY DEF Init, NewObject, Phase, Owned
  <2> QED
    BY <2>1 DEF Protocol!Init
<1>2. Init => HoldInv
  BY DEF Init, HoldInv, NewObject
<1> QED
  BY <1>1, <1>2, TypeInit, TypeNext, HoldNext, StepRefines, PTL
     DEF Spec, HeldWhileOwned, Protocol!Spec

-----------------------------------------------------------------------------
(* The work queue *)

\* How the key may come to be neither on the queue nor under reconciliation.
LEMMA QueueStep ==
    ASSUME TypeOK, [Next]_vars
    PROVE  \/ queued' \/ pc' # "idle"
           \/ pc = "idle" /\ ~queued
           \/ Fetch /\ Path(cache) = "idle"
           \/ RemoveFinalizer /\ ~obj'.exists
<1>1. CASE Fetch \/ AddFinalizer \/ UpdateStatus \/ RemoveFinalizer \/ DeleteTunnel
  BY <1>1 DEF TypeOK, Objects, Fetch, Return, AddFinalizer, UpdateStatus, RemoveFinalizer,
     DeleteTunnel, Unfinalize
<1>2. CASE \/ ValidateCredentials \/ FindTunnel \/ CreateTunnel \/ WriteSecret \/ WriteDeployment
           \/ CollectIngressRules \/ PushConfiguration \/ ClearTunnelID \/ PatchConfigHash
  BY <1>2 DEF ValidateCredentials, FindTunnel, CreateTunnel, WriteSecret, WriteDeployment,
     CollectIngressRules, PushConfiguration, ClearTunnelID, PatchConfigHash, Fails, SyncOK,
     SyncError
<1>3. CASE Environment \/ UNCHANGED vars
  BY <1>3 DEF TypeOK, Environment, SyncCache, SyncRoutes, SyncChildren, Age, BudgetElapses, Crash,
     Return, EditSpec, DeleteObject, ChangeRoutes, ExternalDelete, worker, vars
<1> QED
  BY <1>1, <1>2, <1>3 DEF Next, Reconcile

\* Every step keeps the resource in sight, and what the copies of it say true.
LEMMA ServedNext == TypeOK /\ ServedInv /\ [Next]_vars => ServedInv'
<1> SUFFICES ASSUME TypeOK, ServedInv, [Next]_vars PROVE ServedInv'
  OBVIOUS
<1>1. /\ obj'.exists => obj.exists
      /\ obj'.exists /\ obj'.deleting => obj'.finalizer
  BY ObjectStep DEF ServedInv, Same
<1>2. /\ obj'.exists => cache'.exists
      /\ cache'.exists /\ cache'.deleting => cache'.finalizer
  BY <1>1, CacheStep DEF ServedInv
<1>3. Path(cache) = "idle" => ~obj.exists
  <2>1. cache.exists \in BOOLEAN /\ cache.deleting \in BOOLEAN /\ cache.finalizer \in BOOLEAN
    BY DEF TypeOK, Objects
  <2> QED
    BY <2>1 DEF Path, ServedInv
<1>4. NoneForgotten'
  BY <1>1, <1>3, QueueStep DEF ServedInv, NoneForgotten
<1> QED
  BY <1>1, <1>2, <1>4 DEF ServedInv

\* A resource that exists is on the queue or under reconciliation at any time,
\* although copies lag, calls fail, the process dies and the event filter drops
\* what changes no generation.
THEOREM ServedSafe == Spec => []NoneForgotten
<1>1. Init => ServedInv
  BY DEF Init, ServedInv, NoneForgotten, NewObject
<1>2. ServedInv => NoneForgotten
  BY DEF ServedInv
<1> QED
  BY <1>1, <1>2, ServedNext, TypeCorrect, PTL DEF Spec
=============================================================================
