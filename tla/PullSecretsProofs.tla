-------------------------- MODULE PullSecretsProofs --------------------------
(***************************************************************************)
(* Proofs about PullSecrets, for every set of workloads, clusters and      *)
(* namespaces and every bound: type correctness, that a workload which     *)
(* never targeted the operator's own cluster leaves it alone, that the     *)
(* accounts that name a pull secret are on record, and that no Fleet       *)
(* bundle outlives the deletion of its workload.                           *)
(***************************************************************************)
EXTENDS PullSecrets, TLAPS

PassType == [w : Workloads \cup {None},
             at : {"idle", "inject", "build", "ship", "cleanup", "prune"},
             spec : [targets : SUBSET Sites, spaces : SUBSET Namespaces],
             names : SUBSET Namespaces, todo : SUBSET (Namespaces \cup Places),
             content : Content, err : BOOLEAN]

\* Only an idle worker has no workload.
Busy == pass = Idle \/ pass.w \in Workloads

Typed == TypeOK /\ pass \in PassType /\ Busy

\* All that a workload has is something it had; if the own cluster is a
\* target, it came.
ObjectWithin ==
    \A w \in Workloads :
        /\ spec[w].spaces \subseteq had[w] /\ recorded[w] \subseteq had[w]
        /\ Local \in spec[w].targets => w \in came

\* So is all that a reconcile works with.
PassWithin ==
    \A w \in Workloads : pass.w = w =>
        /\ pass.spec.spaces \subseteq had[w] /\ pass.names \subseteq had[w]
        /\ Local \in pass.spec.targets => w \in came
        /\ pass.at = "inject" => pass.todo \subseteq had[w]
        /\ pass.at = "ship" => pass.todo \subseteq pass.spec.targets \X pass.names

\* A reconcile is of a workload that exists, and its copy of the record is
\* never behind; from where the status is stored it is the record.
OnRecord ==
    \A w \in Workloads : pass.w = w =>
        /\ Running(w)
        /\ pass.at = "inject" => recorded[w] \subseteq pass.names
        /\ pass.at \in {"build", "ship", "cleanup", "prune"} => recorded[w] = pass.names
        /\ pass.at = "prune" => refs \cap pass.names \subseteq pass.todo

\* What is left of a workload's bundles is still to be cleaned up.
CleanedUp ==
    \A w \in Workloads : pass.w = w =>
        /\ pass.at = "cleanup" => Owned(w) \subseteq pass.todo
        /\ pass.at = "prune" => Owned(w) = {}

Inv ==
    /\ Typed /\ ObjectWithin /\ PassWithin /\ OnRecord /\ CleanedUp
    /\ LocalUntouched /\ RefsAreOnRecord /\ GoneLeavesNoBundle

LEMMA IdleType == Idle \in PassType /\ Idle.w \notin Workloads
BY PullSecretsAssumption DEF Idle, PassType, Content

LEMMA Initially == Init => Inv
<1> SUFFICES ASSUME Init PROVE Inv
  OBVIOUS
<1> USE PullSecretsAssumption
<1>1. PICK n \in Namespaces, t \in (SUBSET Sites) \ {{}} :
        spec = [w \in Workloads |-> [targets |-> t, spaces |-> {n}]]
  BY DEF Init
<1>2. Typed
  <2>1. spec \in [Workloads -> Specs]
    <3>1. t \in (SUBSET Sites) \ {{}} /\ {n} \in (SUBSET Namespaces) \ {{}}
      OBVIOUS
    <3>2. [targets |-> t, spaces |-> {n}] \in Specs
      BY <3>1 DEF Specs
    <3> QED BY <1>1, <3>2
  <2>2. had \in [Workloads -> SUBSET Namespaces] /\ came \subseteq Workloads
    BY <1>1 DEF Init
  <2>3. bundle \in [Workloads -> [Clusters \X Namespaces -> Content]]
    BY DEF Init, Content
  <2>4. pass \in PassType /\ pass = Idle
    BY IdleType DEF Init
  <2>5. /\ profile \in Profiles /\ cred \in Content
        /\ rotations \in 0..MaxRotations /\ edits \in 0..MaxEdits /\ faults \in 0..MaxFaults
    BY DEF Init, Content, Credential
  <2>6. /\ life \in [Workloads -> {"live", "deleting", "gone"}]
        /\ recorded \in [Workloads -> SUBSET Namespaces]
        /\ spaces \subseteq Namespaces /\ refs \subseteq Namespaces
        /\ local \in [Namespaces -> Content] /\ due \subseteq Workloads
    BY DEF Init, Content
  <2> QED BY <2>1, <2>2, <2>3, <2>4, <2>5, <2>6 DEF Typed, Busy, TypeOK, PassType, Idle
<1>3. pass.w \notin Workloads
  BY IdleType DEF Init
<1>4. ObjectWithin /\ PassWithin
  BY <1>1, <1>3 DEF ObjectWithin, PassWithin, Init
<1>5. OnRecord /\ CleanedUp
  BY <1>3 DEF OnRecord, CleanedUp
<1>6. LocalUntouched /\ RefsAreOnRecord
  BY DEF LocalUntouched, Touched, RefsAreOnRecord, Init
<1>7. GoneLeavesNoBundle
  BY DEF GoneLeavesNoBundle, Running, Init
<1> QED BY <1>2, <1>4, <1>5, <1>6, <1>7 DEF Inv

-----------------------------------------------------------------------------
(* Type correctness.                                                       *)

\* What the types of a reconcile and of the queue ask for.
PassOK ==
    /\ pass \in PassType /\ due \subseteq Workloads
    /\ pass.todo \subseteq (IF pass.at \in {"ship", "cleanup"} THEN Places ELSE Namespaces)

LEMMA OwnedType == \A w \in Workloads : Owned(w) \subseteq Places
BY DEF Owned, Places, Sites

LEMMA PassStep ==
  ASSUME Typed, NEW w \in Workloads, Step(w)
  PROVE  PassOK'
<1> USE PullSecretsAssumption
<1>0. PassOK /\ pass \in PassType /\ TypeOK
  BY DEF Typed, TypeOK, PassOK
<1>i. Idle \in PassType
  BY IdleType
<1>e. ASSUME NEW again \in BOOLEAN, pass.w = w, End(again) PROVE PassOK'
  BY <1>0, <1>e, IdleType DEF End, PassOK, Idle
<1>1. CASE Begin(w)
  <2>1. spec[w] \in Specs /\ recorded[w] \subseteq Namespaces /\ ToInject(w) \subseteq Namespaces
    BY <1>0 DEF TypeOK, ToInject, Specs
  <2> QED BY <1>0, <1>i, <1>1, <2>1 DEF Begin, PassOK, PassType, Specs, Idle
<1>2. CASE PersistStatus(w)
  <2>1. CASE Unchanged(w) /\ ~(pass.err \/ pass.names = {})
    <3>1. pass' = [pass EXCEPT !.at = "build"] /\ due' \subseteq due \cup {w} /\ pass.todo = {}
      BY <1>2, <2>1 DEF PersistStatus, Injected
    <3> QED BY <1>0, <3>1 DEF PassOK, PassType
  <2>2. CASE ~(Unchanged(w) /\ ~(pass.err \/ pass.names = {}))
    <3>1. pass.w = w /\ pass.err \in BOOLEAN
      BY <1>0, <1>2 DEF PersistStatus, Injected, At, PassType
    <3>2. (pass.err \/ Kind(w) = "helm") \in BOOLEAN
      OBVIOUS
    <3>3. End(TRUE) \/ End(pass.err \/ Kind(w) = "helm")
      BY <1>2, <2>2 DEF PersistStatus
    <3> QED BY <1>e, <3>1, <3>2, <3>3
  <2> QED BY <2>1, <2>2
<1>3. CASE BuildSecrets(w)
  <2>1. pass.spec.targets \X pass.names \subseteq Places
    BY <1>0 DEF PassType, Places
  <2>2. cred \in Content
    BY <1>0 DEF TypeOK
  <2> QED BY <1>0, <1>3, <2>1, <2>2 DEF BuildSecrets, PassOK, PassType
<1>4. CASE ReconcilePullSecrets(w)
  <2>1. (Polls(w) \/ refs' # refs) \in BOOLEAN
    OBVIOUS
  <2> QED BY <1>e, <1>4, <2>1 DEF ReconcilePullSecrets, At
<1>5. ASSUME NEW n \in Namespaces, Inject(w, n) PROVE PassOK'
  <2>1. due' = due /\ pass.at = "inject"
    BY <1>5 DEF Inject, At
  <2>2. \/ pass' = [pass EXCEPT !.todo = @ \ {n}]
        \/ pass' = [pass EXCEPT !.todo = @ \ {n}, !.names = @ \cup {n}]
    BY <1>5 DEF Inject
  <2>3. CASE pass' = [pass EXCEPT !.todo = @ \ {n}]
    BY <1>0, <2>1, <2>3 DEF PassOK, PassType
  <2>4. CASE pass' = [pass EXCEPT !.todo = @ \ {n}, !.names = @ \cup {n}]
    <3>1. pass.names \cup {n} \in SUBSET Namespaces
      BY <1>0 DEF PassType
    <3>2. pass.todo \ {n} \in SUBSET (Namespaces \cup Places)
      BY <1>0 DEF PassType
    <3>3. pass' \in PassType
      BY <1>0, <2>4, <3>1, <3>2 DEF PassType
    <3>4. pass'.at = pass.at /\ pass'.todo = pass.todo \ {n}
      BY <1>0, <2>4 DEF PassType
    <3> QED BY <1>0, <2>1, <3>3, <3>4 DEF PassOK
  <2> QED BY <2>2, <2>3, <2>4
<1>6. ASSUME NEW n \in Namespaces, DeliverLocal(w, n) PROVE PassOK'
  <2>1. CASE n \in spaces
    <3>1. /\ due' = due /\ pass.at = "ship"
          /\ pass' = [pass EXCEPT !.todo = @ \ {<<Local, n>>}]
      BY <1>6, <2>1 DEF DeliverLocal, At
    <3> QED BY <1>0, <3>1 DEF PassOK, PassType
  <2>2. CASE n \notin spaces
    BY <1>e, <1>6, <2>2 DEF DeliverLocal, At
  <2> QED BY <2>1, <2>2
<1>7. ASSUME NEW p \in Clusters \X Namespaces,
             ApplyPullSecretBundle(w, p) \/ CleanupPullSecretBundle(w, p)
      PROVE  PassOK'
  <2>1. /\ pass' = [pass EXCEPT !.todo = @ \ {p}] /\ due' = due
        /\ pass.at \in {"ship", "cleanup"}
    BY <1>7 DEF ApplyPullSecretBundle, CleanupPullSecretBundle, At
  <2> QED BY <1>0, <2>1 DEF PassOK, PassType
<1>8. CASE BeginDeletion(w)
  <2>1. spec[w] \in Specs /\ recorded[w] \subseteq Namespaces /\ OwnedBundles(w) \subseteq Places
    BY <1>0, OwnedType DEF TypeOK, OwnedBundles
  <2>2. pass' = [Idle EXCEPT !.w = w, !.at = "cleanup", !.spec = spec[w],
                             !.names = recorded[w], !.todo = OwnedBundles(w)]
        /\ due' \subseteq due
    BY <1>8 DEF BeginDeletion
  <2>3. pass' \in PassType
    BY <1>i, <2>1, <2>2 DEF PassType, Specs
  <2>4. pass'.todo = OwnedBundles(w) /\ pass'.at = "cleanup"
    BY <2>2 DEF Idle
  <2> QED BY <1>0, <2>1, <2>2, <2>3, <2>4 DEF PassOK
<1>9. CASE BeginPrune(w)
  BY <1>0, <1>9 DEF BeginPrune, Pruned, At, PassOK, PassType
<1>10. CASE RemoveFinalizer(w)
  BY <1>0, <1>i, <1>10 DEF RemoveFinalizer, PassOK, Idle
<1>11. ASSUME NEW n \in Namespaces, PruneLocalSAImagePullSecrets(w, n) PROVE PassOK'
  BY <1>0, <1>11 DEF PruneLocalSAImagePullSecrets, At, PassOK, PassType
<1> QED BY <1>1, <1>2, <1>3, <1>4, <1>5, <1>6, <1>7, <1>8, <1>9, <1>10, <1>11 DEF Step

\* What happens around the operator, and the steps in which a call fails or
\* the object changes under the reconcile.
Around ==
    \/ \E w \in Workloads :
         \/ InstallChart(w) \/ SyncSpecFromHelmOp(w) \/ DeleteAIWorkload(w)
         \/ \E n \in Namespaces : InjectFails(w, n)
         \/ EditSpec(w) \/ Delete(w)
    \/ ChangeCredentials \/ Fail \/ Restart

LEMMA NextIsEither == Next <=> Around \/ \E w \in Workloads : Step(w)
BY DEF Next, Around

LEMMA PassAround ==
  ASSUME Typed, Around
  PROVE  PassOK'
<1> USE PullSecretsAssumption
<1>0. PassOK /\ pass \in PassType /\ TypeOK
  BY DEF Typed, TypeOK, PassOK
<1>1. ASSUME NEW w \in Workloads, InstallChart(w) PROVE PassOK'
  BY <1>0, <1>1 DEF InstallChart, PassOK
<1>2. ASSUME NEW w \in Workloads, SyncSpecFromHelmOp(w) PROVE PassOK'
  <2>1. PICK n \in Namespaces : Becomes(w, [spec[w] EXCEPT !.spaces = {n}])
    BY <1>2 DEF SyncSpecFromHelmOp
  <2>2. spec'[w] \in [targets : SUBSET Sites, spaces : SUBSET Namespaces]
    BY <1>0, <2>1 DEF Becomes, TypeOK, Specs
  <2>3. recorded[w] \in SUBSET Namespaces
    BY <1>0 DEF TypeOK
  <2>4. /\ pass' = [pass EXCEPT !.spec = spec'[w], !.names = recorded[w]]
        /\ due' = due \cup {w} /\ pass.todo = {}
    BY <1>2 DEF SyncSpecFromHelmOp, Injected
  <2>5. pass' \in PassType
    BY <1>0, <2>2, <2>3, <2>4 DEF PassType
  <2>6. pass'.todo = {}
    BY <1>0, <2>4 DEF PassType
  <2> QED BY <1>0, <2>4, <2>5, <2>6 DEF PassOK
<1>3. ASSUME NEW w \in Workloads, DeleteAIWorkload(w) PROVE PassOK'
  BY <1>0, <1>3, IdleType DEF DeleteAIWorkload, PassOK, Idle
<1>4. ASSUME NEW w \in Workloads, NEW n \in Namespaces, InjectFails(w, n) PROVE PassOK'
  <2>1. due' = due /\ pass.at = "inject"
    BY <1>4 DEF InjectFails, At
  <2>2. CASE pass' = [pass EXCEPT !.todo = @ \ {n}]
    BY <1>0, <2>1, <2>2 DEF PassOK, PassType
  <2>3. CASE pass' = [pass EXCEPT !.todo = {}, !.err = TRUE]
    BY <1>0, <2>1, <2>3 DEF PassOK, PassType
  <2> QED BY <1>4, <2>2, <2>3 DEF InjectFails
<1>5. ASSUME NEW w \in Workloads, EditSpec(w) \/ Delete(w) PROVE PassOK'
  BY <1>0, <1>5 DEF EditSpec, Delete, PassOK
<1>6. CASE ChangeCredentials
  BY <1>0, <1>6 DEF ChangeCredentials, CredentialSecretToAIWorkloads, PassOK
<1>7. CASE Fail
  <2>1. pass.w \in Workloads
    BY <1>7 DEF Typed, Busy, Fail
  <2> QED BY <1>0, <1>7, <2>1, IdleType DEF Fail, End, PassOK, Idle
<1>8. CASE Restart
  BY <1>0, <1>8, IdleType DEF Restart, PassOK, Idle
<1> QED BY <1>1, <1>2, <1>3, <1>4, <1>5, <1>6, <1>7, <1>8 DEF Around

LEMMA BusyStep ==
  ASSUME Typed, Next
  PROVE  Busy'
<1>0. pass \in PassType /\ Busy
  BY DEF Typed
<1>1. ASSUME NEW w \in Workloads, Step(w) PROVE Busy'
  <2>1. CASE Begin(w) \/ BeginDeletion(w)
    BY <2>1 DEF Begin, BeginDeletion, Busy, Idle
  <2>2. CASE PersistStatus(w) \/ RemoveFinalizer(w) \/ ReconcilePullSecrets(w)
    BY <1>0, <2>2 DEF PersistStatus, Injected, RemoveFinalizer, ReconcilePullSecrets, At, End,
                      Busy, PassType
  <2>3. CASE BuildSecrets(w) \/ BeginPrune(w)
    BY <1>0, <2>3 DEF BuildSecrets, BeginPrune, At, Busy, PassType
  <2>4. ASSUME NEW n \in Namespaces, Inject(w, n) \/ PruneLocalSAImagePullSecrets(w, n)
        PROVE  Busy'
    BY <1>0, <2>4 DEF Inject, PruneLocalSAImagePullSecrets, At, Busy, PassType
  <2>5. ASSUME NEW n \in Namespaces, DeliverLocal(w, n) PROVE Busy'
    BY <1>0, <2>5 DEF DeliverLocal, End, At, Busy, PassType
  <2>6. ASSUME NEW p \in Clusters \X Namespaces,
               ApplyPullSecretBundle(w, p) \/ CleanupPullSecretBundle(w, p)
        PROVE  Busy'
    BY <1>0, <2>6 DEF ApplyPullSecretBundle, CleanupPullSecretBundle, At, Busy, PassType
  <2> QED BY <1>1, <2>1, <2>2, <2>3, <2>4, <2>5, <2>6 DEF Step
<1>2. CASE Around
  <2>1. ASSUME NEW w \in Workloads, NEW n \in Namespaces, InjectFails(w, n) PROVE Busy'
    BY <1>0, <2>1 DEF InjectFails, At, Busy, PassType
  <2>2. ASSUME NEW w \in Workloads, SyncSpecFromHelmOp(w) \/ DeleteAIWorkload(w) PROVE Busy'
    BY <1>0, <2>2 DEF SyncSpecFromHelmOp, DeleteAIWorkload, Injected, At, Busy, PassType
  <2>3. ASSUME NEW w \in Workloads, InstallChart(w) \/ EditSpec(w) \/ Delete(w) PROVE Busy'
    BY <1>0, <2>3 DEF InstallChart, EditSpec, Delete, Busy
  <2>4. CASE ChangeCredentials \/ Fail \/ Restart
    BY <1>0, <2>4 DEF ChangeCredentials, Fail, End, Restart, Busy
  <2> QED BY <1>2, <2>1, <2>2, <2>3, <2>4 DEF Around
<1> QED BY <1>1, <1>2, NextIsEither

LEMMA RestStep ==
  ASSUME Typed, NEW w \in Workloads, Step(w)
  PROVE  /\ UNCHANGED <<secret, spec, had, came, bounds>>
         /\ life' \in [Workloads -> {"live", "deleting", "gone"}]
         /\ recorded' \in [Workloads -> SUBSET Namespaces]
         /\ spaces' \subseteq Namespaces /\ refs' \subseteq Namespaces
         /\ local' \in [Namespaces -> Content]
         /\ bundle' \in [Workloads -> [Clusters \X Namespaces -> Content]]
<1>0. /\ life \in [Workloads -> {"live", "deleting", "gone"}] /\ pass \in PassType
      /\ recorded \in [Workloads -> SUBSET Namespaces]
      /\ spaces \subseteq Namespaces /\ refs \subseteq Namespaces
      /\ local \in [Namespaces -> Content] /\ cred \in Content
      /\ bundle \in [Workloads -> [Clusters \X Namespaces -> Content]]
  BY DEF Typed, TypeOK
<1>1. CASE Begin(w) \/ BeginDeletion(w) \/ BuildSecrets(w) \/ BeginPrune(w)
  BY <1>0, <1>1 DEF Begin, BeginDeletion, BuildSecrets, BeginPrune, object, own, bounds
<1>2. CASE PersistStatus(w)
  <2>1. pass.names \in SUBSET Namespaces
    BY <1>0 DEF PassType
  <2>2. UNCHANGED <<secret, object, own, bundle, bounds>>
    BY <1>2 DEF PersistStatus
  <2>3. recorded' = recorded \/ recorded' = [recorded EXCEPT ![w] = pass.names]
    BY <1>2 DEF PersistStatus
  <2>4. recorded' \in [Workloads -> SUBSET Namespaces]
    BY <1>0, <2>1, <2>3
  <2>5. UNCHANGED <<secret, bundle, bounds, life, spec, had, came, spaces, local, refs>>
    BY <2>2 DEF object, own
  <2> QED BY <1>0, <2>4, <2>5
<1>3. CASE RemoveFinalizer(w)
  BY <1>0, <1>3 DEF RemoveFinalizer, own, bounds
<1>4. CASE ReconcilePullSecrets(w)
  BY <1>0, <1>4 DEF ReconcilePullSecrets, object, bounds
<1>5. CASE \E n \in Namespaces : PruneLocalSAImagePullSecrets(w, n)
  BY <1>0, <1>5 DEF PruneLocalSAImagePullSecrets, object, bounds
<1>6. CASE \E n \in Namespaces : Inject(w, n) \/ DeliverLocal(w, n)
  <2>1. pass.content \in Content
    BY <1>0 DEF PassType
  <2> QED BY <1>0, <1>6, <2>1 DEF Inject, DeliverLocal, object, bounds
<1>7. CASE \E p \in Clusters \X Namespaces :
             ApplyPullSecretBundle(w, p) \/ CleanupPullSecretBundle(w, p)
  <2>1. pass.content \in Content /\ None \in Content
    BY <1>0 DEF PassType, Content
  <2>2. PICK p \in Clusters \X Namespaces :
          ApplyPullSecretBundle(w, p) \/ CleanupPullSecretBundle(w, p)
    BY <1>7
  <2>3. /\ UNCHANGED <<secret, object, recorded, own, due, bounds>>
        /\ \E c \in Content : bundle' = [bundle EXCEPT ![w][p] = c]
    BY <2>1, <2>2 DEF ApplyPullSecretBundle, CleanupPullSecretBundle
  <2>4. bundle' \in [Workloads -> [Clusters \X Namespaces -> Content]]
    <3> DEFINE F == [Clusters \X Namespaces -> Content]
    <3>1. PICK c \in Content : bundle' = [bundle EXCEPT ![w][p] = c]
      BY <2>3
    <3>2. bundle[w] \in F
      BY <1>0
    <3>3. [bundle[w] EXCEPT ![p] = c] \in F
      BY <3>2
    <3> HIDE DEF F
    <3>4. bundle' = [bundle EXCEPT ![w] = [bundle[w] EXCEPT ![p] = c]]
      BY <3>1
    <3>5. bundle \in [Workloads -> F]
      BY <1>0 DEF F
    <3>6. bundle' \in [Workloads -> F]
      BY <3>3, <3>4, <3>5
    <3> QED BY <3>6 DEF F
  <2> QED BY <1>0, <2>3, <2>4 DEF object, own, bounds
<1> QED BY <1>1, <1>2, <1>3, <1>4, <1>5, <1>6, <1>7 DEF Step

LEMMA RestAround ==
  ASSUME Typed, Around
  PROVE  /\ profile' \in Profiles /\ cred' \in Content
         /\ life' \in [Workloads -> {"live", "deleting", "gone"}]
         /\ spec' \in [Workloads -> Specs] /\ had' \in [Workloads -> SUBSET Namespaces]
         /\ came' \subseteq Workloads /\ spaces' \subseteq Namespaces
         /\ UNCHANGED <<recorded, local, refs, bundle>>
         /\ rotations' \in 0..MaxRotations /\ edits' \in 0..MaxEdits /\ faults' \in 0..MaxFaults
<1> USE PullSecretsAssumption
<1>0. /\ profile \in Profiles /\ cred \in Content
      /\ life \in [Workloads -> {"live", "deleting", "gone"}]
      /\ spec \in [Workloads -> Specs] /\ had \in [Workloads -> SUBSET Namespaces]
      /\ came \subseteq Workloads /\ spaces \subseteq Namespaces /\ pass \in PassType
      /\ rotations \in 0..MaxRotations /\ edits \in 0..MaxEdits /\ faults \in 0..MaxFaults
  BY DEF Typed, TypeOK
<1>b. ASSUME NEW w \in Workloads, NEW s \in Specs, Becomes(w, s)
      PROVE  /\ spec' \in [Workloads -> Specs] /\ came' \subseteq Workloads
             /\ had' \in [Workloads -> SUBSET Namespaces]
  <2>1. s.spaces \in SUBSET Namespaces
    BY DEF Specs
  <2> QED BY <1>0, <1>b, <2>1 DEF Becomes
<1>1. ASSUME NEW w \in Workloads, InstallChart(w) PROVE spaces' \subseteq Namespaces
  <2>1. spec[w].spaces \subseteq Namespaces
    BY <1>0 DEF Specs
  <2> QED BY <1>0, <1>1, <2>1 DEF InstallChart
<1>2. CASE \E w \in Workloads : InstallChart(w)
  BY <1>0, <1>1, <1>2 DEF InstallChart, secret, object, bounds
<1>3. ASSUME NEW w \in Workloads, NEW n \in Namespaces, SyncSpecFromHelmOp(w),
             Becomes(w, [spec[w] EXCEPT !.spaces = {n}])
      PROVE  /\ spec' \in [Workloads -> Specs] /\ came' \subseteq Workloads
             /\ had' \in [Workloads -> SUBSET Namespaces]
  <2>1. {n} \in (SUBSET Namespaces) \ {{}} /\ spec[w] \in Specs
    BY <1>0
  <2>2. [spec[w] EXCEPT !.spaces = {n}] \in Specs
    BY <2>1 DEF Specs
  <2> QED BY <1>b, <1>3, <2>2
<1>4. CASE \E w \in Workloads : SyncSpecFromHelmOp(w)
  <2>1. /\ spec' \in [Workloads -> Specs] /\ came' \subseteq Workloads
        /\ had' \in [Workloads -> SUBSET Namespaces]
    BY <1>3, <1>4 DEF SyncSpecFromHelmOp
  <2> QED BY <1>0, <1>4, <2>1 DEF SyncSpecFromHelmOp, secret, own
<1>5. CASE \E w \in Workloads : DeleteAIWorkload(w) \/ Delete(w)
  BY <1>0, <1>5 DEF DeleteAIWorkload, Delete, Edit, secret, own
<1>6. CASE \E w \in Workloads : EditSpec(w)
  <2>1. /\ spec' \in [Workloads -> Specs] /\ came' \subseteq Workloads
        /\ had' \in [Workloads -> SUBSET Namespaces]
    BY <1>b, <1>6 DEF EditSpec
  <2> QED BY <1>0, <1>6, <2>1 DEF EditSpec, Edit, secret, own
<1>7. CASE \E w \in Workloads, n \in Namespaces : InjectFails(w, n)
  <2>1. /\ spaces' \subseteq Namespaces /\ faults' \in 0..MaxFaults
        /\ UNCHANGED <<secret, object, recorded, local, refs, bundle, edits>>
    BY <1>0, <1>7 DEF InjectFails
  <2> QED BY <1>0, <2>1 DEF secret, object
<1>8. CASE ChangeCredentials
  BY <1>0, <1>8 DEF ChangeCredentials, object, own, bounds, Content, Credential
<1>9. CASE Fail \/ Restart
  <2>1. /\ faults' \in 0..MaxFaults
        /\ UNCHANGED <<secret, object, recorded, own, bundle, edits>>
    <3>1. CASE Fail
      BY <1>0, <3>1 DEF Fail
    <3>2. CASE Restart
      BY <1>0, <3>2 DEF Restart
    <3> QED BY <1>9, <3>1, <3>2
  <2> QED BY <1>0, <2>1 DEF secret, object, own
<1> QED BY <1>2, <1>4, <1>5, <1>6, <1>7, <1>8, <1>9 DEF Around

LEMMA TypeStep == ASSUME Typed, [Next]_vars PROVE Typed'
<1>1. CASE Next
  <2>1. PassOK'
    BY <1>1, NextIsEither, PassStep, PassAround
  <2>2. Busy'
    BY <1>1, BusyStep
  <2>3. CASE Around
    BY <2>1, <2>2, <2>3, RestAround DEF Typed, TypeOK, PassOK, PassType
  <2>4. CASE \E w \in Workloads : Step(w)
    BY <2>1, <2>2, <2>4, RestStep DEF Typed, TypeOK, PassOK, PassType, secret, bounds
  <2> QED BY <1>1, <2>3, <2>4, NextIsEither
<1>2. CASE UNCHANGED vars
  BY <1>2 DEF Typed, Busy, TypeOK, vars, secret, object, own, bounds
<1> QED BY <1>1, <1>2

-----------------------------------------------------------------------------
(* What a workload had.                                                    *)

\* Nothing that a workload had is forgotten, and what it gets is added.
LEMMA BecomesWithin ==
  ASSUME Typed, ObjectWithin, NEW w \in Workloads,
         NEW s \in [targets : SUBSET Sites, spaces : SUBSET Namespaces], Becomes(w, s),
         recorded' = recorded
  PROVE  ObjectWithin'
BY DEF Typed, TypeOK, ObjectWithin, Becomes

LEMMA ObjectStep ==
  ASSUME Inv, Next
  PROVE  ObjectWithin' /\ (\A w \in Workloads : had[w] \subseteq had'[w]) /\ came \subseteq came'
<1>0. ObjectWithin /\ PassWithin /\ Typed /\ TypeOK
  BY DEF Inv, Typed
<1>b. ASSUME NEW w \in Workloads,
             NEW s \in [targets : SUBSET Sites, spaces : SUBSET Namespaces], Becomes(w, s)
      PROVE  (\A v \in Workloads : had[v] \subseteq had'[v]) /\ came \subseteq came'
  BY <1>0, <1>b DEF Becomes, TypeOK
<1>1. ASSUME NEW w \in Workloads, PersistStatus(w)
      PROVE  ObjectWithin' /\ had' = had /\ came' = came
  <2>1. pass.w = w /\ spec' = spec /\ had' = had /\ came' = came
    BY <1>1 DEF PersistStatus, Injected, At, object
  <2>2. pass.names \subseteq had[w]
    BY <1>0, <2>1 DEF PassWithin
  <2>3. recorded' = recorded \/ recorded' = [recorded EXCEPT ![w] = pass.names]
    BY <1>1 DEF PersistStatus
  <2> QED BY <1>0, <2>1, <2>2, <2>3 DEF ObjectWithin, TypeOK
<1>2. ASSUME NEW w \in Workloads, Step(w), ~PersistStatus(w)
      PROVE  UNCHANGED <<spec, had, came, recorded>>
  BY <1>2 DEF Step, Begin, BuildSecrets, ReconcilePullSecrets, Inject, DeliverLocal,
     ApplyPullSecretBundle, BeginDeletion, BeginPrune, RemoveFinalizer,
     CleanupPullSecretBundle, PruneLocalSAImagePullSecrets, object
<1>3. ASSUME NEW w \in Workloads, EditSpec(w) \/ SyncSpecFromHelmOp(w)
      PROVE  ObjectWithin' /\ (\A v \in Workloads : had[v] \subseteq had'[v]) /\ came \subseteq came'
  <2>1. recorded' = recorded
    BY <1>3 DEF EditSpec, SyncSpecFromHelmOp
  <2>2. PICK s \in [targets : SUBSET Sites, spaces : SUBSET Namespaces] : Becomes(w, s)
    <3>1. CASE EditSpec(w)
      BY <3>1 DEF EditSpec, Specs
    <3>2. CASE SyncSpecFromHelmOp(w)
      <4>1. PICK n \in Namespaces : Becomes(w, [spec[w] EXCEPT !.spaces = {n}])
        BY <3>2 DEF SyncSpecFromHelmOp
      <4>2. spec[w] \in Specs
        BY <1>0 DEF TypeOK
      <4> QED BY <4>1, <4>2 DEF Specs
    <3> QED BY <1>3, <3>1, <3>2
  <2> QED BY <1>0, <1>b, <2>1, <2>2, BecomesWithin
<1>4. ASSUME Around, ~\E w \in Workloads : EditSpec(w) \/ SyncSpecFromHelmOp(w)
      PROVE  UNCHANGED <<spec, had, came, recorded>>
  BY <1>4 DEF Around, InstallChart, DeleteAIWorkload, InjectFails, Delete, ChangeCredentials,
     Fail, Restart, object
<1>5. ASSUME UNCHANGED <<spec, had, came, recorded>> PROVE ObjectWithin'
  BY <1>0, <1>5 DEF ObjectWithin
<1> QED BY <1>1, <1>2, <1>3, <1>4, <1>5, NextIsEither

\* A reconcile that goes on with what it had.
LEMMA SamePass ==
  ASSUME Inv, \A w \in Workloads : had[w] \subseteq had'[w], came \subseteq came',
         pass' = pass \/ pass' = Idle
  PROVE  PassWithin'
<1>1. CASE pass' = pass
  BY <1>1 DEF Inv, PassWithin
<1>2. CASE pass' = Idle
  BY <1>2, IdleType DEF PassWithin
<1> QED BY <1>1, <1>2

LEMMA PassWithinStep ==
  ASSUME Inv, Next
  PROVE  PassWithin'
<1>0. ObjectWithin /\ PassWithin /\ Typed /\ TypeOK /\ pass \in PassType
  BY DEF Inv, Typed
<1>m. (\A w \in Workloads : had[w] \subseteq had'[w]) /\ came \subseteq came' /\ ObjectWithin'
  BY ObjectStep
<1>s. ASSUME pass' = pass \/ pass' = Idle PROVE PassWithin'
  BY <1>m, <1>s, SamePass
<1>1. ASSUME NEW w \in Workloads, Begin(w) \/ BeginDeletion(w) PROVE PassWithin'
  <2>1. /\ pass'.w = w /\ pass'.spec = spec[w] /\ pass'.names = recorded[w]
        /\ pass'.at = "inject" => pass'.todo = ToInject(w)
        /\ pass'.at # "ship"
    BY <1>1 DEF Begin, BeginDeletion, Idle
  <2>2. ToInject(w) \subseteq had[w]
    BY <1>0 DEF ToInject, ObjectWithin
  <2> QED BY <1>0, <1>m, <2>1, <2>2 DEF PassWithin, ObjectWithin
<1>2. ASSUME NEW w \in Workloads, PersistStatus(w) PROVE PassWithin'
  <2>1. CASE pass' = Idle
    BY <1>s, <2>1
  <2>2. CASE pass' = [pass EXCEPT !.at = "build"]
    BY <1>0, <1>m, <2>2 DEF PassWithin, PassType
  <2> QED BY <1>2, <2>1, <2>2 DEF PersistStatus, End
<1>3. ASSUME NEW w \in Workloads, BuildSecrets(w) PROVE PassWithin'
  <2>1. pass' = [pass EXCEPT !.at = "ship", !.content = cred,
          !.todo = IF cred = None THEN {} ELSE pass.spec.targets \X pass.names]
    BY <1>3 DEF BuildSecrets
  <2> QED BY <1>0, <1>m, <2>1 DEF PassWithin, PassType
<1>4. ASSUME NEW w \in Workloads, ReconcilePullSecrets(w) \/ RemoveFinalizer(w) PROVE PassWithin'
  BY <1>s, <1>4 DEF ReconcilePullSecrets, RemoveFinalizer, End
<1>5. ASSUME NEW w \in Workloads, NEW n \in Namespaces, Inject(w, n) PROVE PassWithin'
  <2>1. n \in had[w] /\ pass.w = w /\ pass.at = "inject"
    BY <1>0, <1>5 DEF Inject, NextIs, At, PassWithin
  <2>2. \/ pass' = [pass EXCEPT !.todo = @ \ {n}]
        \/ pass' = [pass EXCEPT !.todo = @ \ {n}, !.names = @ \cup {n}]
    BY <1>5 DEF Inject
  <2>3. CASE pass' = [pass EXCEPT !.todo = @ \ {n}]
    BY <1>0, <1>m, <2>1, <2>3 DEF PassWithin, PassType
  <2>4. CASE pass' = [pass EXCEPT !.todo = @ \ {n}, !.names = @ \cup {n}]
    <3>1. /\ pass'.w = w /\ pass'.spec = pass.spec /\ pass'.at = "inject"
          /\ pass'.names = pass.names \cup {n} /\ pass'.todo = pass.todo \ {n}
      BY <1>0, <2>1, <2>4 DEF PassType
    <3> QED BY <1>0, <1>m, <2>1, <3>1 DEF PassWithin
  <2> QED BY <2>2, <2>3, <2>4
<1>6. ASSUME NEW w \in Workloads, NEW n \in Namespaces, DeliverLocal(w, n) PROVE PassWithin'
  <2>1. CASE pass' = [pass EXCEPT !.todo = @ \ {<<Local, n>>}]
    BY <1>0, <1>m, <2>1 DEF PassWithin, PassType
  <2>2. CASE pass' = Idle
    BY <1>s, <2>2
  <2> QED BY <1>6, <2>1, <2>2 DEF DeliverLocal, End
<1>7. ASSUME NEW w \in Workloads, NEW p \in Clusters \X Namespaces,
             ApplyPullSecretBundle(w, p) \/ CleanupPullSecretBundle(w, p)
      PROVE  PassWithin'
  <2>1. pass' = [pass EXCEPT !.todo = @ \ {p}]
    BY <1>7 DEF ApplyPullSecretBundle, CleanupPullSecretBundle
  <2> QED BY <1>0, <1>m, <2>1 DEF PassWithin, PassType
<1>8. ASSUME NEW w \in Workloads, BeginPrune(w) PROVE PassWithin'
  <2>1. pass' = [pass EXCEPT !.at = "prune", !.todo = Pruned(w)]
    BY <1>8 DEF BeginPrune
  <2> QED BY <1>0, <1>m, <2>1 DEF PassWithin, PassType
<1>9. ASSUME NEW w \in Workloads, NEW n \in Namespaces, PruneLocalSAImagePullSecrets(w, n)
      PROVE  PassWithin'
  <2>1. pass' = [pass EXCEPT !.todo = @ \ {n}] /\ pass.at = "prune"
    BY <1>9 DEF PruneLocalSAImagePullSecrets, At
  <2> QED BY <1>0, <1>m, <2>1 DEF PassWithin, PassType
<1>10. ASSUME NEW w \in Workloads, SyncSpecFromHelmOp(w) PROVE PassWithin'
  <2>1. /\ pass' = [pass EXCEPT !.spec = spec'[w], !.names = recorded[w]]
        /\ pass.w = w /\ pass.at = "inject" /\ pass.todo = {} /\ recorded' = recorded
    BY <1>10 DEF SyncSpecFromHelmOp, Injected, At
  <2>2. /\ pass'.w = w /\ pass'.spec = spec'[w] /\ pass'.at = "inject"
        /\ pass'.names = recorded'[w] /\ pass'.todo = {}
    BY <1>0, <2>1 DEF PassType
  <2> QED BY <1>m, <2>2 DEF PassWithin, ObjectWithin
<1>11. ASSUME NEW w \in Workloads, NEW n \in Namespaces, InjectFails(w, n) PROVE PassWithin'
  <2>1. CASE pass' = [pass EXCEPT !.todo = @ \ {n}]
    BY <1>0, <1>m, <1>11, <2>1 DEF InjectFails, At, PassWithin, PassType
  <2>2. CASE pass' = [pass EXCEPT !.todo = {}, !.err = TRUE]
    BY <1>0, <1>m, <2>2 DEF PassWithin, PassType
  <2> QED BY <1>11, <2>1, <2>2 DEF InjectFails
<1>12. ASSUME NEW w \in Workloads,
              InstallChart(w) \/ DeleteAIWorkload(w) \/ EditSpec(w) \/ Delete(w)
       PROVE  PassWithin'
  BY <1>s, <1>12 DEF InstallChart, DeleteAIWorkload, EditSpec, Delete
<1>13. CASE ChangeCredentials \/ Fail \/ Restart
  BY <1>s, <1>13 DEF ChangeCredentials, Fail, End, Restart
<1> QED BY <1>1, <1>2, <1>3, <1>4, <1>5, <1>6, <1>7, <1>8, <1>9, <1>10, <1>11, <1>12, <1>13
        DEF Next, Step

-----------------------------------------------------------------------------
(* The operator's own cluster.                                             *)

\* What a step newly touches is a namespace of a workload that came.
LEMMA TouchStep ==
  ASSUME Inv, Next, NEW n \in Touched', n \notin Touched
  PROVE  \E w \in came : n \in had[w]
<1> USE PullSecretsAssumption
<1>0. ObjectWithin /\ PassWithin /\ TypeOK
  BY DEF Inv, Typed
<1>n. n \in Namespaces
  BY TypeStep DEF Touched, Inv, Typed, TypeOK
<1>1. CASE UNCHANGED <<spaces, local, refs>>
  BY <1>1 DEF Touched
<1>2. ASSUME NEW w \in Workloads, NEW m \in Namespaces, Inject(w, m) \/ InjectFails(w, m)
      PROVE  \E v \in came : n \in had[v]
  <2>1. CASE WritesLocal
    <3>1. pass.w = w /\ pass.at = "inject" /\ m \in pass.todo
      BY <1>2 DEF Inject, InjectFails, At, NextIs
    <3>2. m \in had[w] /\ w \in came
      BY <1>0, <2>1, <3>1 DEF PassWithin, WritesLocal
    <3>3. spaces' \subseteq spaces \cup {m} /\ refs' = refs /\ \A k \in Namespaces \ {m} : local'[k] = local[k]
      BY <1>2, <1>0 DEF Inject, InjectFails, TypeOK
    <3>4. n = m
      BY <1>n, <3>3 DEF Touched
    <3> QED BY <3>2, <3>4
  <2>2. CASE ~WritesLocal
    <3>1. UNCHANGED <<spaces, local, refs>>
      BY <1>2, <2>2 DEF Inject, InjectFails
    <3> QED BY <1>1, <3>1
  <2> QED BY <2>1, <2>2
<1>3. ASSUME NEW w \in Workloads, NEW m \in Namespaces, DeliverLocal(w, m)
      PROVE  \E v \in came : n \in had[v]
  <2>1. pass.w = w /\ pass.at = "ship" /\ <<Local, m>> \in pass.todo
    BY <1>3 DEF DeliverLocal, At, NextPlace
  <2>2. Local \in pass.spec.targets /\ m \in pass.names
    BY <1>0, <2>1 DEF PassWithin
  <2>3. m \in had[w] /\ w \in came
    BY <1>0, <2>1, <2>2 DEF PassWithin
  <2>4. spaces' = spaces /\ refs' = refs /\ \A k \in Namespaces \ {m} : local'[k] = local[k]
    BY <1>0, <1>3 DEF DeliverLocal, TypeOK
  <2>5. n = m
    BY <1>n, <2>4 DEF Touched
  <2> QED BY <2>3, <2>5
<1>4. ASSUME NEW w \in Workloads, ReconcilePullSecrets(w)
      PROVE  \E v \in came : n \in had[v]
  <2>1. CASE WritesLocal
    <3>1. pass.w = w /\ spaces' = spaces /\ local' = local /\ refs' \subseteq refs \cup pass.names
      BY <1>4 DEF ReconcilePullSecrets, At
    <3>2. pass.names \subseteq had[w] /\ w \in came
      BY <1>0, <2>1, <3>1 DEF PassWithin, WritesLocal
    <3> QED BY <3>1, <3>2 DEF Touched
  <2>2. CASE ~WritesLocal
    <3>1. UNCHANGED <<spaces, local, refs>>
      BY <1>4, <2>2 DEF ReconcilePullSecrets
    <3> QED BY <1>1, <3>1
  <2> QED BY <2>1, <2>2
<1>5. ASSUME NEW w \in Workloads, InstallChart(w)
      PROVE  \E v \in came : n \in had[v]
  <2>1. /\ Local \in spec[w].targets /\ spaces' = spaces \cup spec[w].spaces
        /\ local' = local /\ refs' = refs
    BY <1>5 DEF InstallChart
  <2>2. spec[w].spaces \subseteq had[w] /\ w \in came
    BY <1>0, <2>1 DEF ObjectWithin
  <2> QED BY <2>1, <2>2 DEF Touched
<1>6. ASSUME NEW w \in Workloads, NEW m \in Namespaces, PruneLocalSAImagePullSecrets(w, m)
      PROVE  \E v \in came : n \in had[v]
  BY <1>6 DEF PruneLocalSAImagePullSecrets, Touched
<1>7. ASSUME NEW w \in Workloads,
             \/ Begin(w) \/ PersistStatus(w) \/ BuildSecrets(w)
             \/ BeginDeletion(w) \/ BeginPrune(w) \/ RemoveFinalizer(w)
             \/ \E p \in Clusters \X Namespaces :
                  ApplyPullSecretBundle(w, p) \/ CleanupPullSecretBundle(w, p)
      PROVE  UNCHANGED <<spaces, local, refs>>
  BY <1>7 DEF Begin, PersistStatus, BuildSecrets, BeginDeletion, BeginPrune, RemoveFinalizer,
              ApplyPullSecretBundle, CleanupPullSecretBundle, own
<1>8. ASSUME NEW w \in Workloads,
             SyncSpecFromHelmOp(w) \/ DeleteAIWorkload(w) \/ EditSpec(w) \/ Delete(w)
      PROVE  UNCHANGED <<spaces, local, refs>>
  BY <1>8 DEF SyncSpecFromHelmOp, DeleteAIWorkload, EditSpec, Delete, own
<1>9. ASSUME ChangeCredentials \/ Fail \/ Restart PROVE UNCHANGED <<spaces, local, refs>>
  BY <1>9 DEF ChangeCredentials, Fail, Restart, own
<1> QED BY <1>1, <1>2, <1>3, <1>4, <1>5, <1>6, <1>7, <1>8, <1>9 DEF Next, Step

LEMMA LocalStep ==
  ASSUME Inv, Next
  PROVE  LocalUntouched'
<1> SUFFICES ASSUME NEW n \in Touched' PROVE \E w \in came' : n \in had'[w]
  BY DEF LocalUntouched
<1>1. PICK w \in came : n \in had[w]
  BY TouchStep DEF Inv, LocalUntouched
<1>2. w \in Workloads
  BY DEF Inv, Typed, TypeOK
<1> QED BY <1>1, <1>2, ObjectStep

-----------------------------------------------------------------------------
(* What is on record.                                                      *)

\* A step that does not touch what OnRecord is about.
LEMMA SameRecord ==
  ASSUME Inv, recorded' = recorded, refs' = refs,
         \A w \in Workloads : pass.w = w /\ pass' # Idle /\ Running(w) => Running(w)',
         \/ pass' = Idle
         \/ /\ pass'.w = pass.w /\ pass'.at = pass.at
            /\ pass.names \subseteq pass'.names
            /\ pass.at # "inject" => pass'.names = pass.names
            /\ pass.at = "prune" => pass'.todo = pass.todo
  PROVE  OnRecord'
<1>1. CASE pass' = Idle
  BY <1>1, IdleType DEF OnRecord
<1>2. CASE pass' # Idle
  BY <1>2 DEF Inv, OnRecord
<1> QED BY <1>1, <1>2

LEMMA OnRecordStep ==
  ASSUME Inv, Next
  PROVE  OnRecord'
<1>0. OnRecord /\ Typed /\ TypeOK /\ pass \in PassType
  BY DEF Inv, Typed
<1>1. ASSUME NEW w \in Workloads, Begin(w) \/ BeginDeletion(w) PROVE OnRecord'
  <2>1. /\ pass'.w = w /\ pass'.names = recorded[w] /\ recorded' = recorded
        /\ pass'.at \in {"inject", "cleanup"}
    BY <1>1 DEF Begin, BeginDeletion, Idle
  <2>2. Running(w)'
    BY <1>1 DEF Begin, BeginDeletion, Running, object
  <2> QED BY <1>0, <2>1, <2>2 DEF OnRecord
<1>2. ASSUME NEW w \in Workloads, PersistStatus(w) PROVE OnRecord'
  <2>1. CASE pass' = Idle
    BY <2>1, IdleType DEF OnRecord
  <2>2. CASE pass' # Idle
    <3>1. /\ pass' = [pass EXCEPT !.at = "build"] /\ pass.w = w
          /\ recorded' = [recorded EXCEPT ![w] = pass.names] /\ life' = life
      BY <1>2, <2>2 DEF PersistStatus, Injected, At, End, object
    <3>2. pass'.w = w /\ pass'.at = "build" /\ pass'.names = pass.names
      BY <1>0, <3>1 DEF PassType
    <3>3. Running(w)'
      BY <1>0, <3>1 DEF OnRecord, Running
    <3> QED BY <1>0, <3>1, <3>2, <3>3 DEF OnRecord, TypeOK
  <2> QED BY <2>1, <2>2
<1>3. ASSUME NEW w \in Workloads, BuildSecrets(w) PROVE OnRecord'
  <2>1. /\ pass.w = w /\ pass.at = "build" /\ recorded' = recorded /\ life' = life
        /\ pass' = [pass EXCEPT !.at = "ship", !.content = cred,
             !.todo = IF cred = None THEN {} ELSE pass.spec.targets \X pass.names]
    BY <1>3 DEF BuildSecrets, At, object
  <2>2. pass'.w = w /\ pass'.at = "ship" /\ pass'.names = pass.names
    BY <1>0, <2>1 DEF PassType
  <2> QED BY <1>0, <2>1, <2>2 DEF OnRecord, Running
<1>4. ASSUME NEW w \in Workloads, ReconcilePullSecrets(w) \/ RemoveFinalizer(w) PROVE OnRecord'
  <2>1. pass' = Idle
    BY <1>4 DEF ReconcilePullSecrets, RemoveFinalizer, End
  <2> QED BY <2>1, IdleType DEF OnRecord
<1>5. ASSUME NEW w \in Workloads, NEW n \in Namespaces,
             Inject(w, n) \/ InjectFails(w, n) \/ DeliverLocal(w, n)
      PROVE  OnRecord'
  <2>1. recorded' = recorded /\ refs' = refs /\ life' = life
    BY <1>5 DEF Inject, InjectFails, DeliverLocal, object
  <2>2. \/ pass' = Idle
        \/ /\ pass'.w = pass.w /\ pass'.at = pass.at
           /\ pass.names \subseteq pass'.names
           /\ pass.at # "inject" => pass'.names = pass.names
           /\ pass.at = "prune" => pass'.todo = pass.todo
    <3>1. CASE Inject(w, n)
      <4>1. /\ pass.at = "inject"
            /\ \/ pass' = [pass EXCEPT !.todo = @ \ {n}]
               \/ pass' = [pass EXCEPT !.todo = @ \ {n}, !.names = @ \cup {n}]
        BY <3>1 DEF Inject, At
      <4>2. CASE pass' = [pass EXCEPT !.todo = @ \ {n}]
        <5>1. pass'.w = pass.w /\ pass'.at = pass.at /\ pass'.names = pass.names
          BY <1>0, <4>2 DEF PassType
        <5> QED BY <4>1, <5>1
      <4>3. CASE pass' = [pass EXCEPT !.todo = @ \ {n}, !.names = @ \cup {n}]
        <5>1. pass'.w = pass.w /\ pass'.at = pass.at /\ pass'.names = pass.names \cup {n}
          BY <1>0, <4>3 DEF PassType
        <5> QED BY <4>1, <5>1
      <4> QED BY <4>1, <4>2, <4>3
    <3>2. CASE InjectFails(w, n)
      BY <1>0, <3>2 DEF InjectFails, At, PassType
    <3>3. CASE DeliverLocal(w, n)
      BY <1>0, <3>3 DEF DeliverLocal, End, At, PassType
    <3> QED BY <1>5, <3>1, <3>2, <3>3
  <2> QED BY <2>1, <2>2, SameRecord DEF Running
<1>6. ASSUME NEW w \in Workloads, NEW p \in Clusters \X Namespaces,
             ApplyPullSecretBundle(w, p) \/ CleanupPullSecretBundle(w, p)
      PROVE  OnRecord'
  <2>1. /\ recorded' = recorded /\ refs' = refs /\ life' = life
        /\ pass' = [pass EXCEPT !.todo = @ \ {p}] /\ pass.at # "prune"
    BY <1>6 DEF ApplyPullSecretBundle, CleanupPullSecretBundle, At, object, own
  <2>2. pass'.w = pass.w /\ pass'.at = pass.at /\ pass'.names = pass.names
    BY <1>0, <2>1 DEF PassType
  <2> QED BY <2>1, <2>2, SameRecord DEF Running
<1>7. ASSUME NEW w \in Workloads, BeginPrune(w) PROVE OnRecord'
  <2>1. /\ pass.w = w /\ pass.at = "cleanup" /\ recorded' = recorded /\ life' = life
        /\ pass' = [pass EXCEPT !.at = "prune", !.todo = pass.names]
    BY <1>7 DEF BeginPrune, Pruned, At, object
  <2>2. /\ pass'.w = w /\ pass'.at = "prune" /\ pass'.names = pass.names
        /\ pass'.todo = pass.names
    BY <1>0, <2>1 DEF PassType
  <2> QED BY <1>0, <2>1, <2>2 DEF OnRecord, Running
<1>8. ASSUME NEW w \in Workloads, NEW n \in Namespaces, PruneLocalSAImagePullSecrets(w, n)
      PROVE  OnRecord'
  <2>1. /\ pass.w = w /\ pass.at = "prune" /\ recorded' = recorded /\ life' = life
        /\ pass' = [pass EXCEPT !.todo = @ \ {n}] /\ refs' = refs \ {n}
    BY <1>8 DEF PruneLocalSAImagePullSecrets, At, object
  <2>2. /\ pass'.w = w /\ pass'.at = "prune" /\ pass'.names = pass.names
        /\ pass'.todo = pass.todo \ {n}
    BY <1>0, <2>1 DEF PassType
  <2> QED BY <1>0, <2>1, <2>2 DEF OnRecord, Running
<1>9. ASSUME NEW w \in Workloads, SyncSpecFromHelmOp(w) PROVE OnRecord'
  <2>1. /\ pass' = [pass EXCEPT !.spec = spec'[w], !.names = recorded[w]] /\ life' = life
        /\ pass.w = w /\ pass.at = "inject" /\ recorded' = recorded
    BY <1>9 DEF SyncSpecFromHelmOp, Injected, At
  <2>2. pass'.w = w /\ pass'.at = "inject" /\ pass'.names = recorded[w]
    BY <1>0, <2>1 DEF PassType
  <2> QED BY <1>0, <2>1, <2>2 DEF OnRecord, Running
<1>10. ASSUME NEW w \in Workloads,
              InstallChart(w) \/ DeleteAIWorkload(w) \/ EditSpec(w) \/ Delete(w)
       PROVE  OnRecord'
  <2>1. recorded' = recorded /\ refs' = refs /\ (pass' = pass \/ pass' = Idle)
    BY <1>10 DEF InstallChart, DeleteAIWorkload, EditSpec, Delete, own
  <2>2. \A v \in Workloads : pass.w = v /\ pass' # Idle /\ Running(v) => Running(v)'
    BY <1>0, <1>10 DEF InstallChart, DeleteAIWorkload, EditSpec, Delete, Running, TypeOK, object
  <2> QED BY <2>1, <2>2, SameRecord
<1>11. CASE ChangeCredentials \/ Fail \/ Restart
  <2>1. /\ recorded' = recorded /\ refs' = refs /\ life' = life
        /\ pass' = pass \/ pass' = Idle
    BY <1>11 DEF ChangeCredentials, Fail, End, Restart, own, object
  <2> QED BY <2>1, SameRecord DEF Running
<1> QED BY <1>1, <1>2, <1>3, <1>4, <1>5, <1>6, <1>7, <1>8, <1>9, <1>10, <1>11 DEF Next, Step

LEMMA RefsStep ==
  ASSUME Inv, Next
  PROVE  RefsAreOnRecord'
<1>0. OnRecord /\ RefsAreOnRecord /\ Typed /\ TypeOK /\ pass \in PassType
  BY DEF Inv, Typed
\* No record shrinks: the status is stored from a copy that is not behind.
<1>r. \A w \in Workloads : recorded[w] \subseteq recorded'[w]
  <2>1. ASSUME NEW w \in Workloads, PersistStatus(w)
        PROVE  \A v \in Workloads : recorded[v] \subseteq recorded'[v]
    <3>1. recorded' = recorded \/ recorded' = [recorded EXCEPT ![w] = pass.names]
      BY <2>1 DEF PersistStatus
    <3>2. recorded[w] \subseteq pass.names
      BY <1>0, <2>1 DEF PersistStatus, Injected, At, OnRecord
    <3> QED BY <1>0, <3>1, <3>2 DEF TypeOK
  <2>2. ASSUME ~\E w \in Workloads : PersistStatus(w) PROVE recorded' = recorded
    BY <2>2 DEF Next, Step, Begin, BuildSecrets, ReconcilePullSecrets, Inject, DeliverLocal,
       ApplyPullSecretBundle, BeginDeletion, BeginPrune, RemoveFinalizer,
       CleanupPullSecretBundle, PruneLocalSAImagePullSecrets, InstallChart, InjectFails,
       SyncSpecFromHelmOp, DeleteAIWorkload, EditSpec, Delete, ChangeCredentials, Fail, Restart
  <2> QED BY <2>1, <2>2
<1>k. profile' = profile
  BY DEF Next, Step, Begin, PersistStatus, BuildSecrets, ReconcilePullSecrets, Inject,
     DeliverLocal, ApplyPullSecretBundle, BeginDeletion, BeginPrune, RemoveFinalizer,
     CleanupPullSecretBundle, PruneLocalSAImagePullSecrets, InstallChart, InjectFails,
     SyncSpecFromHelmOp, DeleteAIWorkload, EditSpec, Delete, ChangeCredentials, Fail, Restart,
     secret
\* A workload whose record counts, and still does.
<1>s. ASSUME NEW n \in Namespaces, NEW w \in Workloads, n \in recorded[w],
             Running(w)' \/ Kind(w) = "gitops"
      PROVE  \E v \in Workloads : (n \in recorded[v] /\ (Running(v) \/ Kind(v) = "gitops"))'
  BY <1>r, <1>k, <1>s DEF Kind
<1>l. ASSUME life' = life, refs' \subseteq refs PROVE RefsAreOnRecord'
  BY <1>0, <1>s, <1>l DEF RefsAreOnRecord, Running, TypeOK
<1>1. ASSUME NEW w \in Workloads, ReconcilePullSecrets(w) PROVE RefsAreOnRecord'
  <2>1. /\ pass.w = w /\ pass.at = "ship" /\ life' = life
        /\ refs' \subseteq refs \cup pass.names
    BY <1>1 DEF ReconcilePullSecrets, At, object
  <2>2. recorded[w] = pass.names /\ Running(w) /\ Running(w)'
    BY <1>0, <2>1 DEF OnRecord, Running
  <2>3. pass.names \subseteq Namespaces
    BY <1>0 DEF PassType
  <2>4. ASSUME NEW n \in refs'
        PROVE  \E v \in Workloads : (n \in recorded[v] /\ (Running(v) \/ Kind(v) = "gitops"))'
    <3>1. CASE n \in refs
      BY <1>0, <1>s, <2>1, <3>1 DEF RefsAreOnRecord, Running, TypeOK
    <3>2. CASE n \in pass.names
      BY <1>s, <2>2, <2>3, <3>2
    <3> QED BY <2>1, <3>1, <3>2
  <2> QED BY <2>4 DEF RefsAreOnRecord
<1>2. ASSUME NEW w \in Workloads, RemoveFinalizer(w) PROVE RefsAreOnRecord'
  <2>1. /\ pass.w = w /\ pass.at = "prune" /\ pass.todo = {} /\ refs' = refs
        /\ life' = [life EXCEPT ![w] = "gone"]
    BY <1>2 DEF RemoveFinalizer, At, own
  <2>2. refs \cap recorded[w] = {}
    BY <1>0, <2>1 DEF OnRecord
  <2>3. ASSUME NEW n \in refs
        PROVE  \E v \in Workloads : (n \in recorded[v] /\ (Running(v) \/ Kind(v) = "gitops"))'
    <3>1. PICK v \in Workloads : n \in recorded[v] /\ (Running(v) \/ Kind(v) = "gitops")
      BY <1>0 DEF RefsAreOnRecord
    <3>2. v # w
      BY <2>2, <3>1
    <3>3. Running(v)' \/ Kind(v) = "gitops"
      BY <1>0, <2>1, <3>1, <3>2 DEF Running, TypeOK
    <3> QED BY <1>0, <1>s, <3>1, <3>3 DEF TypeOK
  <2> QED BY <2>1, <2>3 DEF RefsAreOnRecord
<1>3. ASSUME NEW w \in Workloads, DeleteAIWorkload(w) PROVE RefsAreOnRecord'
  <2>1. Kind(w) = "gitops" /\ refs' = refs /\ life' = [life EXCEPT ![w] = "gone"]
    BY <1>3 DEF DeleteAIWorkload, own
  <2>2. ASSUME NEW v \in Workloads, Running(v) \/ Kind(v) = "gitops"
        PROVE  Running(v)' \/ Kind(v) = "gitops"
    BY <1>0, <2>1, <2>2 DEF Running, TypeOK
  <2> QED BY <1>0, <1>s, <2>1, <2>2 DEF RefsAreOnRecord, TypeOK
<1>4. ASSUME NEW w \in Workloads, Delete(w) PROVE RefsAreOnRecord'
  <2>1. refs' = refs /\ life' = [life EXCEPT ![w] = "deleting"]
    BY <1>4 DEF Delete, own
  <2>2. ASSUME NEW v \in Workloads, Running(v) PROVE Running(v)'
    BY <1>0, <2>1, <2>2 DEF Running, TypeOK
  <2> QED BY <1>0, <1>s, <2>1, <2>2 DEF RefsAreOnRecord, TypeOK
<1>5. ASSUME NEW w \in Workloads, Step(w), ~ReconcilePullSecrets(w), ~RemoveFinalizer(w)
      PROVE  life' = life /\ refs' \subseteq refs
  BY <1>5 DEF Step, Begin, PersistStatus, BuildSecrets, Inject, DeliverLocal,
     ApplyPullSecretBundle, BeginDeletion, BeginPrune, CleanupPullSecretBundle,
     PruneLocalSAImagePullSecrets, object, own
<1>6. ASSUME NEW w \in Workloads,
             \/ InstallChart(w) \/ SyncSpecFromHelmOp(w) \/ EditSpec(w)
             \/ \E n \in Namespaces : InjectFails(w, n)
      PROVE  life' = life /\ refs' \subseteq refs
  BY <1>6 DEF InstallChart, SyncSpecFromHelmOp, EditSpec, InjectFails, object, own
<1>7. ASSUME ChangeCredentials \/ Fail \/ Restart PROVE life' = life /\ refs' \subseteq refs
  BY <1>7 DEF ChangeCredentials, Fail, Restart, object, own
<1> QED BY <1>l, <1>1, <1>2, <1>3, <1>4, <1>5, <1>6, <1>7 DEF Next

-----------------------------------------------------------------------------
(* What is cleaned up.                                                     *)

LEMMA CleanedUpStep ==
  ASSUME Inv, Next
  PROVE  CleanedUp' /\ GoneLeavesNoBundle'
<1>0. /\ CleanedUp /\ GoneLeavesNoBundle /\ OnRecord /\ Typed /\ TypeOK /\ pass \in PassType
  BY DEF Inv, Typed
<1>k. profile' = profile
  BY DEF Next, Step, Begin, PersistStatus, BuildSecrets, ReconcilePullSecrets, Inject,
     DeliverLocal, ApplyPullSecretBundle, BeginDeletion, BeginPrune, RemoveFinalizer,
     CleanupPullSecretBundle, PruneLocalSAImagePullSecrets, InstallChart, InjectFails,
     SyncSpecFromHelmOp, DeleteAIWorkload, EditSpec, Delete, ChangeCredentials, Fail, Restart,
     secret
\* A step that leaves the bundles alone, and deletes no workload.
<1>s. ASSUME bundle' = bundle, \A w \in Workloads : Running(w) => Running(w)'
      PROVE  GoneLeavesNoBundle'
  BY <1>0, <1>k, <1>s DEF GoneLeavesNoBundle, Owned, Kind
<1>c. ASSUME bundle' = bundle,
             pass' = Idle \/ (pass'.w = pass.w /\ pass'.at \notin {"cleanup", "prune"})
                          \/ (pass'.w = pass.w /\ pass'.at = pass.at /\ pass.at = "prune")
      PROVE  CleanedUp'
  <2>1. CASE pass' = Idle
    BY <2>1, IdleType DEF CleanedUp
  <2>2. CASE pass' # Idle
    BY <1>0, <1>c, <2>2 DEF CleanedUp, Owned
  <2> QED BY <2>1, <2>2
<1>p. ASSUME pass' = pass, bundle' = bundle PROVE CleanedUp'
  BY <1>0, <1>p DEF CleanedUp, Owned
<1>1. ASSUME NEW w \in Workloads, Begin(w) PROVE CleanedUp' /\ GoneLeavesNoBundle'
  <2>1. bundle' = bundle /\ life' = life /\ pass'.at = "inject"
    BY <1>1 DEF Begin, Idle, object
  <2> QED BY <1>s, <2>1 DEF Running, CleanedUp
<1>2. ASSUME NEW w \in Workloads, BeginDeletion(w) PROVE CleanedUp' /\ GoneLeavesNoBundle'
  <2>1. /\ bundle' = bundle /\ life' = life /\ pass'.w = w /\ pass'.at = "cleanup"
        /\ pass'.todo = Owned(w)
    BY <1>2 DEF BeginDeletion, OwnedBundles, Idle, object
  <2> QED BY <1>s, <2>1 DEF Running, CleanedUp, Owned
<1>3. ASSUME NEW w \in Workloads, NEW p \in Clusters \X Namespaces, ApplyPullSecretBundle(w, p)
      PROVE  CleanedUp' /\ GoneLeavesNoBundle'
  <2>1. /\ pass.w = w /\ pass.at = "ship" /\ life' = life
        /\ pass' = [pass EXCEPT !.todo = @ \ {p}]
        /\ bundle' = [bundle EXCEPT ![w][p] = pass.content]
    BY <1>3 DEF ApplyPullSecretBundle, At, object
  <2>2. Running(w)
    BY <1>0, <2>1 DEF OnRecord
  <2>3. \A v \in Workloads \ {w} : bundle'[v] = bundle[v]
    BY <1>0, <2>1 DEF TypeOK
  <2>4. GoneLeavesNoBundle'
    BY <1>0, <1>k, <2>1, <2>2, <2>3 DEF GoneLeavesNoBundle, Owned, Kind, Running
  <2>5. pass'.w = w /\ pass'.at = "ship"
    BY <1>0, <2>1 DEF PassType
  <2> QED BY <2>4, <2>5 DEF CleanedUp
<1>4. ASSUME NEW w \in Workloads, NEW p \in Clusters \X Namespaces,
             CleanupPullSecretBundle(w, p)
      PROVE  CleanedUp' /\ GoneLeavesNoBundle'
  <2>1. /\ pass.w = w /\ pass.at = "cleanup" /\ life' = life
        /\ pass' = [pass EXCEPT !.todo = @ \ {p}]
        /\ bundle' = [bundle EXCEPT ![w][p] = None]
    BY <1>4 DEF CleanupPullSecretBundle, At, object
  <2>2. /\ \A v \in Workloads \ {w} : bundle'[v] = bundle[v]
        /\ bundle'[w] = [bundle[w] EXCEPT ![p] = None]
        /\ bundle[w] \in [Clusters \X Namespaces -> Content]
    BY <1>0, <2>1 DEF TypeOK
  <2>3. Owned(w)' = Owned(w) \ {p}
    BY <2>2 DEF Owned
  <2>4. \A v \in Workloads \ {w} : Owned(v)' = Owned(v)
    BY <2>2 DEF Owned
  <2>5. GoneLeavesNoBundle'
    BY <1>0, <1>k, <2>1, <2>3, <2>4 DEF GoneLeavesNoBundle, Kind, Running
  <2>6. pass'.w = w /\ pass'.at = "cleanup" /\ pass'.todo = pass.todo \ {p}
    BY <1>0, <2>1 DEF PassType
  <2>7. Owned(w)' \subseteq pass'.todo
    BY <1>0, <2>1, <2>3, <2>6 DEF CleanedUp
  <2> QED BY <2>5, <2>6, <2>7 DEF CleanedUp
<1>5. ASSUME NEW w \in Workloads, BeginPrune(w) PROVE CleanedUp' /\ GoneLeavesNoBundle'
  <2>1. /\ pass.w = w /\ pass.at = "cleanup" /\ pass.todo = {} /\ life' = life
        /\ bundle' = bundle /\ pass' = [pass EXCEPT !.at = "prune", !.todo = Pruned(w)]
    BY <1>5 DEF BeginPrune, At, object
  <2>2. Owned(w) = {} /\ Owned(w)' = Owned(w)
    BY <1>0, <2>1 DEF CleanedUp, Owned
  <2>3. pass'.w = w /\ pass'.at = "prune"
    BY <1>0, <2>1 DEF PassType
  <2> QED BY <1>s, <2>1, <2>2, <2>3 DEF Running, CleanedUp
<1>6. ASSUME NEW w \in Workloads, RemoveFinalizer(w) PROVE CleanedUp' /\ GoneLeavesNoBundle'
  <2>1. /\ pass.w = w /\ pass.at = "prune" /\ pass' = Idle /\ bundle' = bundle
        /\ life' = [life EXCEPT ![w] = "gone"]
    BY <1>6 DEF RemoveFinalizer, At
  <2>2. Owned(w) = {}
    BY <1>0, <2>1 DEF CleanedUp
  <2> QED BY <1>0, <1>c, <1>k, <2>1, <2>2
          DEF GoneLeavesNoBundle, Owned, Running, Kind, TypeOK
<1>7. ASSUME NEW w \in Workloads, DeleteAIWorkload(w) PROVE CleanedUp' /\ GoneLeavesNoBundle'
  <2>1. /\ Kind(w) = "gitops" /\ pass' = Idle /\ bundle' = bundle
        /\ life' = [life EXCEPT ![w] = "gone"]
    BY <1>7 DEF DeleteAIWorkload
  <2> QED BY <1>0, <1>c, <1>k, <2>1 DEF GoneLeavesNoBundle, Owned, Running, Kind, TypeOK
<1>8. ASSUME NEW w \in Workloads, Delete(w) PROVE CleanedUp' /\ GoneLeavesNoBundle'
  <2>1. pass' = pass /\ bundle' = bundle /\ life' = [life EXCEPT ![w] = "deleting"]
    BY <1>8 DEF Delete
  <2> QED BY <1>0, <1>p, <1>s, <2>1 DEF Running, TypeOK
<1>9. ASSUME NEW w \in Workloads,
             PersistStatus(w) \/ BuildSecrets(w) \/ ReconcilePullSecrets(w)
      PROVE  CleanedUp' /\ GoneLeavesNoBundle'
  <2>1. bundle' = bundle /\ life' = life
    BY <1>9 DEF PersistStatus, BuildSecrets, ReconcilePullSecrets, object
  <2>2. pass' = Idle \/ (pass'.w = pass.w /\ pass'.at \notin {"cleanup", "prune"})
    BY <1>0, <1>9 DEF PersistStatus, BuildSecrets, ReconcilePullSecrets, End, PassType
  <2> QED BY <1>c, <1>s, <2>1, <2>2 DEF Running
<1>10. ASSUME NEW w \in Workloads, NEW n \in Namespaces,
              \/ Inject(w, n) \/ InjectFails(w, n) \/ DeliverLocal(w, n)
              \/ PruneLocalSAImagePullSecrets(w, n)
       PROVE  CleanedUp' /\ GoneLeavesNoBundle'
  <2>1. bundle' = bundle /\ life' = life
    BY <1>10 DEF Inject, InjectFails, DeliverLocal, PruneLocalSAImagePullSecrets, object
  <2>2. CASE PruneLocalSAImagePullSecrets(w, n)
    <3>1. pass'.w = pass.w /\ pass'.at = pass.at /\ pass.at = "prune"
      BY <1>0, <2>2 DEF PruneLocalSAImagePullSecrets, At, PassType
    <3> QED BY <1>c, <1>s, <2>1, <3>1 DEF Running
  <2>3. CASE Inject(w, n) \/ InjectFails(w, n) \/ DeliverLocal(w, n)
    <3>1. pass' = Idle \/ (pass'.w = pass.w /\ pass'.at \notin {"cleanup", "prune"})
      BY <1>0, <2>3 DEF Inject, InjectFails, DeliverLocal, End, At, PassType
    <3> QED BY <1>c, <1>s, <2>1, <3>1 DEF Running
  <2> QED BY <1>10, <2>2, <2>3
<1>11. ASSUME NEW w \in Workloads, SyncSpecFromHelmOp(w) PROVE CleanedUp' /\ GoneLeavesNoBundle'
  <2>1. /\ bundle' = bundle /\ life' = life /\ pass.at = "inject"
        /\ pass' = [pass EXCEPT !.spec = spec'[w], !.names = recorded[w]]
    BY <1>11 DEF SyncSpecFromHelmOp, Injected, At
  <2>2. pass'.w = pass.w /\ pass'.at = "inject"
    BY <1>0, <2>1 DEF PassType
  <2> QED BY <1>c, <1>s, <2>1, <2>2 DEF Running
<1>12. ASSUME NEW w \in Workloads, InstallChart(w) \/ EditSpec(w)
       PROVE  CleanedUp' /\ GoneLeavesNoBundle'
  <2>1. bundle' = bundle /\ life' = life /\ pass' = pass
    BY <1>12 DEF InstallChart, EditSpec, object
  <2> QED BY <1>p, <1>s, <2>1 DEF Running
<1>13. CASE ChangeCredentials \/ Fail \/ Restart
  <2>1. bundle' = bundle /\ life' = life /\ (pass' = pass \/ pass' = Idle)
    BY <1>13 DEF ChangeCredentials, Fail, End, Restart, object
  <2> QED BY <1>c, <1>p, <1>s, <2>1 DEF Running
<1> QED BY <1>1, <1>2, <1>3, <1>4, <1>5, <1>6, <1>7, <1>8, <1>9, <1>10, <1>11, <1>12, <1>13
        DEF Next, Step

-----------------------------------------------------------------------------
(* The theorems.                                                           *)

LEMMA Invariant == Spec => []Inv
<1>1. Inv /\ [Next]_vars => Inv'
  <2> SUFFICES ASSUME Inv, [Next]_vars PROVE Inv'
    OBVIOUS
  <2>1. CASE Next
    BY <2>1, TypeStep, ObjectStep, PassWithinStep, OnRecordStep, LocalStep, RefsStep,
       CleanedUpStep DEF Inv
  <2>2. CASE UNCHANGED vars
    <3>1. Typed'
      BY <2>2, TypeStep DEF Inv
    <3>2. UNCHANGED <<profile, life, spec, had, came, recorded, spaces, local, refs, bundle, pass>>
      BY <2>2 DEF vars, secret, object, own
    <3>3. ObjectWithin' /\ PassWithin' /\ OnRecord' /\ CleanedUp'
      BY <3>2 DEF Inv, ObjectWithin, PassWithin, OnRecord, Running, CleanedUp, Owned
    <3>4. LocalUntouched' /\ RefsAreOnRecord' /\ GoneLeavesNoBundle'
      BY <3>2 DEF Inv, LocalUntouched, Touched, RefsAreOnRecord, Running, Kind,
                  GoneLeavesNoBundle, Owned
    <3> QED BY <3>1, <3>3, <3>4 DEF Inv
  <2> QED BY <2>1, <2>2
<1> QED BY Initially, <1>1, PTL DEF Spec

\* Every variable has its type, in every state of every behaviour.
THEOREM TypeCorrect == Spec => []TypeOK
<1>1. Inv => TypeOK
  BY DEF Inv, Typed
<1> QED BY <1>1, Invariant, PTL

\* The secrets, account entries and namespaces that the reconciles of
\* pullsecrets.go leave on the operator's own cluster are those of workloads
\* that had it as a target.
THEOREM LocalIsUntouched == Spec => []LocalUntouched
<1>1. Inv => LocalUntouched
  BY DEF Inv
<1> QED BY <1>1, Invariant, PTL

\* Whatever is edited between and during reconciles, the accounts that name a
\* pull secret can be found from the status of a workload, and the deletion of
\* the last such workload prunes them.
THEOREM RefsStayOnRecord == Spec => []RefsAreOnRecord
<1>1. Inv => RefsAreOnRecord
  BY DEF Inv
<1> QED BY <1>1, Invariant, PTL

\* Deletion removes every Fleet bundle with the workload's labels, also those of
\* targets and namespaces it no longer has, however often it is interrupted.
THEOREM NoBundleIsLeft == Spec => []GoneLeavesNoBundle
<1>1. Inv => GoneLeavesNoBundle
  BY DEF Inv
<1> QED BY <1>1, Invariant, PTL
=============================================================================
