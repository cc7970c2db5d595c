---------------------- MODULE BlueprintComponentsProofs ----------------------
(***************************************************************************)
(* Proofs about BlueprintComponents, for every family of blueprints and    *)
(* every bound: type correctness, that clean-up keeps what the spec it     *)
(* works on wants, that the finalizer goes last, that the status says      *)
(* Running or Failed only on answers to the current rendering, and that    *)
(* the reconciler implements ComponentRollout.                             *)
(***************************************************************************)
EXTENDS BlueprintComponents, TLAPS

\* The cells of a status: a phase for some of the keys.
Cells == UNION {[D -> Phases] : D \in SUBSET Keys}

StatusType == [phase : Phases, ready : Maybe(Reasons), cells : Cells]
StatusShape == status \in StatusType

\* What each step of a reconcile has left to do.  Clean-up has only what the spec
\* that was read does not want; a deletion belongs to an object being deleted.
Steps ==
    /\ pc \in {"idle", "delete", "deleteBundle"} => ps = None
    /\ pc \in {"render", "clean", "cleanBundle"} => ps \in Specs
    /\ pc = "render" => todo \subseteq Components
    /\ pc \in {"clean", "cleanBundle"} => todo \subseteq Keys \ DesiredHelmOpKeys(ps)
    /\ pc = "cleanBundle" => item \in Keys \ DesiredHelmOpKeys(ps)
    /\ pc \in {"delete", "deleteBundle"} => deleting /\ todo \subseteq named
    /\ pc = "deleteBundle" => item \in Components
    /\ gone => pc = "idle" /\ deleting

\* The names that a deletion has behind it.
Deleted == named \ (IF pc = "deleteBundle" THEN todo \cup {item} ELSE todo)

\* Nothing is left of them, and no HelmOp of the one that is half done.
DeletedSoFar ==
    strategy = "FleetBundle" =>
      /\ pc \in {"delete", "deleteBundle"} =>
           \A k \in Keys : Comp(k) \in Deleted => helmOps[k] = None /\ bundles[k] = None
      /\ pc = "deleteBundle" => \A k \in Keys : Comp(k) = item => helmOps[k] = None

Inv == TypeOK /\ StatusShape /\ Steps /\ DeletedSoFar /\ GoneLeavesNothingNamed

LEMMA Initially == Init => Inv
<1> SUFFICES ASSUME Init PROVE Inv
  OBVIOUS
<1> USE BlueprintAssumption
<1>1. TypeOK
  <2>1. repo \in [Components -> RepoStates]
    BY DEF Init, RepoStates
  <2>2. status.phase \in Phases /\ status.ready \in Maybe(Reasons) /\ DOMAIN status.cells \subseteq Keys
    BY DEF Init, Phases, Maybe
  <2>3. {baselines, bl} \subseteq [Keys -> Maybe(Baselines)]
    BY DEF Init, NoPass, Maybe
  <2>4. /\ published \in [Components -> Maybe(Digests)] /\ files \in [Components -> Maybe(Digests)]
        /\ helmOps \in [Keys -> Maybe(HelmOpObjects)] /\ bundles \in [Keys -> Maybe(BundleObjects)]
    BY DEF Init, Maybe
  <2>5. ps \in Maybe(Specs) /\ todo \subseteq Keys \cup Components /\ item \in Maybe(Keys \cup Components)
    BY DEF Init, NoPass, Maybe
  <2>6. {deleting, gone, young, queue, fresh} \subseteq BOOLEAN
    BY DEF Init, NoPass
  <2>7. /\ strategy \in Strategies /\ blueprint \in Blueprints /\ gitBacked \subseteq Components
        /\ spec \in Specs /\ named \subseteq Components /\ pc = "idle"
        /\ edits \in 0..MaxEdits /\ faults \in 0..MaxFaults
    BY DEF Init, NoPass
  <2> QED BY <2>1, <2>2, <2>3, <2>4, <2>5, <2>6, <2>7 DEF TypeOK
<1>2. StatusShape
  <2>1. [k \in {} |-> "Pending"] \in [{} -> Phases]
    OBVIOUS
  <2>2. [k \in {} |-> "Pending"] \in Cells
    BY <2>1 DEF Cells
  <2> QED BY <2>2 DEF Init, StatusShape, StatusType, Phases, Maybe
<1>3. Steps /\ DeletedSoFar /\ GoneLeavesNothingNamed
  BY DEF Init, NoPass, Steps, DeletedSoFar, GoneLeavesNothingNamed
<1> QED BY <1>1, <1>2, <1>3 DEF Inv

-----------------------------------------------------------------------------
(* The operators.                                                          *)

LEMMA KeyType == ASSUME NEW k \in Keys
                 PROVE  Space(k) \in Spaces /\ Comp(k) \in Components /\ k = <<Space(k), Comp(k)>>
BY DEF Keys, Space, Comp

LEMMA DigestType == ASSUME NEW s \in Specs PROVE Digest(s) \in Digests
BY DEF Specs, Digests, Digest

LEMMA DesiredType == ASSUME TypeOK, NEW s \in Specs
                     PROVE  Enabled(s) \subseteq Components /\ DesiredHelmOpKeys(s) \subseteq Keys
BY BlueprintAssumption DEF TypeOK, Specs, Enabled, DesiredHelmOpKeys, Keys

LEMMA ApplyType ==
  ASSUME NEW ho \in Maybe(HelmOpObjects), NEW d \in Digests
  PROVE  Apply(ho, d) \in HelmOpObjects /\ Apply(ho, d) # None
<1>1. CASE ho = None
  BY <1>1, NoneAssumption DEF Apply, HelmOpObjects, Generations
<1>2. CASE ho # None /\ ho.digest = d
  BY <1>2, NoneAssumption DEF Apply, Maybe
<1>3. CASE ho # None /\ ho.digest # d
  <2>1. ho \in HelmOpObjects
    BY <1>3 DEF Maybe
  <2>g. ho.generation + 1 \in Nat
    BY <2>1 DEF HelmOpObjects, Generations
  <2>2. [ho EXCEPT !.digest = d, !.generation = ho.generation + 1] \in HelmOpObjects
    BY <2>1, <2>g DEF HelmOpObjects, Generations
  <2> QED BY <1>3, <2>2, NoneAssumption DEF Apply
<1> QED BY <1>1, <1>2, <1>3

LEMMA BaselineType ==
  ASSUME NEW old \in Maybe(Baselines), NEW d \in Digests, NEW ho \in HelmOpObjects
  PROVE  UpsertRenderBaseline(old, d, ho) \in Maybe(Baselines)
<1>1. [ho EXCEPT !.digest = d] \in HelmOpObjects
  BY DEF HelmOpObjects
<1> QED BY <1>1 DEF UpsertRenderBaseline, Maybe, Baselines

LEMMA PhaseType ==
  ASSUME TypeOK, NEW s \in Specs
  PROVE  /\ GuardPhaseTransition("Failed") \in Phases
         /\ GuardPhaseTransition(DerivePhase(ComponentMatrix(s))) \in Phases
         /\ ComponentMatrix(s) \in Cells
<1>1. ComponentMatrix(s) \in [DesiredHelmOpKeys(s) -> Phases]
  BY DEF ComponentMatrix, MatrixCellPhase, Phases
<1>2. ComponentMatrix(s) \in Cells
  BY <1>1, DesiredType DEF Cells
<1> QED BY <1>2 DEF GuardPhaseTransition, DerivePhase, Phases, TypeOK

-----------------------------------------------------------------------------
(* Type correctness.                                                       *)

LEMMA WriteStatusType ==
  ASSUME TypeOK, StatusShape, NEW st \in StatusType,
         NEW b \in [Keys -> Maybe(Baselines)], NEW requeue \in BOOLEAN,
         WriteStatus(st, b, requeue)
  PROVE  status' \in StatusType /\ baselines' \in [Keys -> Maybe(Baselines)] /\ queue' \in BOOLEAN
BY DEF WriteStatus, StatusShape, TypeOK

LEMMA FailedStatus ==
  ASSUME TypeOK, StatusShape, NEW reason \in Reasons
  PROVE  [status EXCEPT !.ready = reason, !.phase = GuardPhaseTransition("Failed")] \in StatusType
<1>1. GuardPhaseTransition("Failed") \in Phases
  BY DEF TypeOK, GuardPhaseTransition, Phases
<1>2. reason \in Maybe(Reasons)
  BY DEF Maybe
<1> QED BY <1>1, <1>2 DEF StatusShape, StatusType

\* The types of what a reconcile holds in memory, and of the rest.
PassOK ==
    /\ pc \in {"idle", "render", "clean", "cleanBundle", "delete", "deleteBundle"}
    /\ ps \in Maybe(Specs) /\ todo \subseteq Keys \cup Components
    /\ item \in Maybe(Keys \cup Components) /\ bl \in [Keys -> Maybe(Baselines)]
    /\ fresh \in BOOLEAN

WorldOK ==
    /\ strategy \in Strategies /\ blueprint \in Blueprints /\ gitBacked \subseteq Components
    /\ repo \in [Components -> RepoStates]
    /\ spec \in Specs /\ named \subseteq Components
    /\ deleting \in BOOLEAN /\ gone \in BOOLEAN /\ young \in BOOLEAN
    /\ published \in [Components -> Maybe(Digests)]
    /\ edits \in 0..MaxEdits /\ faults \in 0..MaxFaults

FleetOK ==
    /\ files \in [Components -> Maybe(Digests)]
    /\ helmOps \in [Keys -> Maybe(HelmOpObjects)]
    /\ bundles \in [Keys -> Maybe(BundleObjects)]

StatusOK == status \in StatusType /\ baselines \in [Keys -> Maybe(Baselines)] /\ queue \in BOOLEAN

LEMMA TypeParts == TypeOK /\ StatusShape <=> PassOK /\ WorldOK /\ FleetOK /\ StatusOK
<1>1. status \in StatusType => /\ status.phase \in Phases /\ status.ready \in Maybe(Reasons)
                               /\ DOMAIN status.cells \subseteq Keys
  BY DEF StatusType, Cells
<1>2. /\ {deleting, gone, young, queue, fresh} \subseteq BOOLEAN
         <=> /\ deleting \in BOOLEAN /\ gone \in BOOLEAN /\ young \in BOOLEAN
             /\ queue \in BOOLEAN /\ fresh \in BOOLEAN
  OBVIOUS
<1>3. {baselines, bl} \subseteq [Keys -> Maybe(Baselines)]
        <=> baselines \in [Keys -> Maybe(Baselines)] /\ bl \in [Keys -> Maybe(Baselines)]
  OBVIOUS
<1>4. TypeOK /\ StatusShape => PassOK /\ WorldOK /\ FleetOK /\ StatusOK
  BY <1>2, <1>3 DEF TypeOK, StatusShape, PassOK, WorldOK, FleetOK, StatusOK
<1>5. PassOK /\ WorldOK /\ FleetOK /\ StatusOK => TypeOK /\ StatusShape
  BY <1>1, <1>2, <1>3 DEF TypeOK, StatusShape, PassOK, WorldOK, FleetOK, StatusOK
<1> QED BY <1>4, <1>5

LEMMA EndPassType == EndPass => PassOK'
BY DEF EndPass, PassOK, Maybe

LEMMA TypePass ==
  ASSUME Inv, PassStep
  PROVE  (PassOK /\ WorldOK /\ FleetOK /\ StatusOK)'
<1> USE BlueprintAssumption
<1>0. TypeOK /\ StatusShape /\ Steps /\ PassOK /\ WorldOK /\ FleetOK /\ StatusOK
  BY TypeParts DEF Inv
<1>w. ASSUME UNCHANGED <<static, repo, object, young, bounds>> PROVE WorldOK'
  BY <1>0, <1>w DEF WorldOK, static, object, bounds
<1>f. ASSUME UNCHANGED fleet PROVE FleetOK'
  BY <1>0, <1>f DEF FleetOK, fleet
<1>p. ASSUME UNCHANGED pass PROVE PassOK'
  BY <1>0, <1>p DEF PassOK, pass
<1>s. ASSUME UNCHANGED <<status, baselines, queue>> PROVE StatusOK'
  BY <1>0, <1>s DEF StatusOK
<1>1. CASE BlueprintNotFound
  <2>1. StatusOK'
    BY <1>0, <1>1, FailedStatus DEF BlueprintNotFound, StatusOK, Reasons
  <2> QED BY <1>w, <1>f, <1>p, <1>1, <2>1 DEF BlueprintNotFound
<1>2. CASE PopulateFleetBundleNames
  <2>1. blueprint[spec.version] \subseteq Components
    BY <1>0 DEF WorldOK, Specs
  <2>2. WorldOK'
    BY <1>0, <1>2, <2>1 DEF PopulateFleetBundleNames, WorldOK, static, bounds
  <2> QED BY <1>s, <1>f, <1>p, <1>2, <2>2 DEF PopulateFleetBundleNames
<1>3. CASE BeginPass
  <2>1. Enabled(spec) \subseteq Components
    BY <1>0, DesiredType DEF WorldOK
  <2>2. PassOK'
    BY <1>0, <1>3, <2>1 DEF BeginPass, PassOK, WorldOK, StatusOK, Maybe
  <2>3. StatusOK'
    BY <1>0, <1>3 DEF BeginPass, StatusOK
  <2> QED BY <1>w, <1>f, <1>3, <2>2, <2>3 DEF BeginPass
<1>4. ASSUME NEW c \in Components, ComponentError(c)
      PROVE  (PassOK /\ WorldOK /\ FleetOK /\ StatusOK)'
  <2>1. ReasonOf(repo[c]) \in Reasons
    BY <1>0, <1>4 DEF ComponentError, WorldOK, RepoStates, ReasonOf, Reasons
  <2>2. bl \in [Keys -> Maybe(Baselines)] /\ (repo[c] # "tooLarge") \in BOOLEAN
    BY <1>0 DEF PassOK
  <2>3. StatusOK'
    BY <1>0, <1>4, <2>1, <2>2, FailedStatus, WriteStatusType DEF ComponentError, StatusOK
  <2> QED BY <1>w, <1>f, <1>4, <2>3, EndPassType DEF ComponentError
<1>5. ASSUME NEW c \in Components, EnsureBlueprintHelmOp(c)
      PROVE  (PassOK /\ WorldOK /\ FleetOK /\ StatusOK)'
  <2> DEFINE mine == ps.targets \X {c}
             applied(k) == Apply(helmOps[k], Digest(ps))
  <2>1. ps \in Specs /\ Digest(ps) \in Digests
    BY <1>0, <1>5, DigestType DEF EnsureBlueprintHelmOp, Steps
  <2>2. \A k \in Keys : applied(k) \in HelmOpObjects
    BY <1>0, <2>1, ApplyType DEF FleetOK
  <2>3. \A k \in Keys : UpsertRenderBaseline(bl[k], Digest(ps), applied(k)) \in Maybe(Baselines)
    BY <1>0, <2>1, <2>2, BaselineType DEF PassOK
  <2>4. helmOps' = [k \in Keys |-> IF k \in mine THEN applied(k) ELSE helmOps[k]]
    BY <1>5 DEF EnsureBlueprintHelmOp
  <2>5. bl' = [k \in Keys |-> IF k \in mine
                 THEN UpsertRenderBaseline(bl[k], Digest(ps), applied(k)) ELSE bl[k]]
    BY <1>5 DEF EnsureBlueprintHelmOp
  <2> HIDE DEF mine, applied
  <2>6. helmOps' \in [Keys -> Maybe(HelmOpObjects)]
    BY <1>0, <2>2, <2>4 DEF FleetOK, Maybe
  <2>7. bl' \in [Keys -> Maybe(Baselines)]
    BY <1>0, <2>3, <2>5 DEF PassOK
  <2>8. FleetOK'
    BY <1>0, <1>5, <2>6 DEF EnsureBlueprintHelmOp, FleetOK
  <2>9. PassOK'
    BY <1>0, <1>5, <2>7 DEF EnsureBlueprintHelmOp, PassOK
  <2> QED BY <1>s, <1>w, <1>5, <2>8, <2>9 DEF EnsureBlueprintHelmOp
<1>6. ASSUME NEW c \in Components, EnsureBlueprintGitChartBundle(c)
      PROVE  (PassOK /\ WorldOK /\ FleetOK /\ StatusOK)'
  <2>1. ps \in Specs /\ Digest(ps) \in Digests
    BY <1>0, <1>6, DigestType DEF EnsureBlueprintGitChartBundle, Steps
  <2>2. [digest |-> Digest(ps), embedded |-> TRUE, state |-> "new"] \in BundleObjects
    BY <2>1 DEF BundleObjects
  <2>3. bundles' \in [Keys -> Maybe(BundleObjects)]
    BY <1>0, <1>6, <2>2 DEF EnsureBlueprintGitChartBundle, FleetOK, Maybe
  <2>4. FleetOK'
    BY <1>0, <1>6, <2>3 DEF EnsureBlueprintGitChartBundle, FleetOK
  <2>5. PassOK'
    BY <1>0, <1>6 DEF EnsureBlueprintGitChartBundle, PassOK
  <2> QED BY <1>s, <1>w, <1>6, <2>4, <2>5 DEF EnsureBlueprintGitChartBundle
<1>7. ASSUME NEW c \in Components, EnsureBlueprintGitFile(c)
      PROVE  (PassOK /\ WorldOK /\ FleetOK /\ StatusOK)'
  <2>1. ps \in Specs /\ Digest(ps) \in Digests
    BY <1>0, <1>7, DigestType DEF EnsureBlueprintGitFile, Steps
  <2>2. CASE published[c] = Digest(ps)
    <3>1. /\ todo' = todo \ {c}
          /\ UNCHANGED <<files, published, queue, bl, pc, ps, item, fresh>>
      BY <1>7, <2>2 DEF EnsureBlueprintGitFile, PublishBlueprintGitFile
    <3>2. PassOK'
      BY <1>0, <3>1 DEF PassOK
    <3> QED BY <1>s, <1>w, <1>f, <1>7, <3>1, <3>2 DEF EnsureBlueprintGitFile, fleet, object
  <2>3. CASE published[c] # Digest(ps)
    <3>1. /\ files' = [files EXCEPT ![c] = Digest(ps)] /\ queue' = TRUE
          /\ \/ /\ published' = [published EXCEPT ![c] = Digest(ps)]
                /\ bl' = baselines /\ todo' = todo \ {c}
                /\ UNCHANGED <<pc, ps, item, fresh>>
             \/ published' = published /\ EndPass
      BY <1>7, <2>3 DEF EnsureBlueprintGitFile, PublishBlueprintGitFile
    <3>2. PassOK'
      BY <1>0, <3>1, EndPassType DEF PassOK, StatusOK
    <3>3. published' \in [Components -> Maybe(Digests)] /\ files' \in [Components -> Maybe(Digests)]
      BY <1>0, <2>1, <3>1 DEF WorldOK, FleetOK, Maybe
    <3>4. WorldOK'
      BY <1>0, <1>7, <3>3 DEF EnsureBlueprintGitFile, WorldOK, static, bounds
    <3>5. FleetOK'
      BY <1>0, <1>7, <3>3 DEF EnsureBlueprintGitFile, FleetOK
    <3>6. StatusOK'
      BY <1>0, <1>7, <3>1 DEF EnsureBlueprintGitFile, StatusOK
    <3> QED BY <3>2, <3>4, <3>5, <3>6
  <2> QED BY <2>2, <2>3
<1>8. CASE RenderDone
  <2>1. ps \in Specs /\ Digest(ps) \in Digests
    BY <1>0, <1>8, DigestType DEF RenderDone, Steps
  <2>2. GitOpsBaselines \in [Keys -> Maybe(Baselines)]
    <3>1. ASSUME NEW k \in Keys, helmOps[k] # None
          PROVE  UpsertRenderBaseline(bl[k], Digest(ps), helmOps[k]) \in Maybe(Baselines)
      BY <1>0, <2>1, <3>1, BaselineType DEF FleetOK, PassOK, Maybe
    <3> QED BY <1>0, <3>1 DEF GitOpsBaselines, PassOK
  <2>3. StaleHelmOps \subseteq Keys
    BY DEF StaleHelmOps
  <2>4. PassOK'
    BY <1>0, <1>8, <2>2, <2>3 DEF RenderDone, PassOK
  <2> QED BY <1>s, <1>w, <1>f, <1>8, <2>4 DEF RenderDone
<1>9. ASSUME NEW k \in Keys, CleanupHelmOp(k)
      PROVE  (PassOK /\ WorldOK /\ FleetOK /\ StatusOK)'
  <2>1. FleetOK'
    BY <1>0, <1>9 DEF CleanupHelmOp, DeleteHelmOpIn, FleetOK, Maybe
  <2>2. PassOK'
    BY <1>0, <1>9 DEF CleanupHelmOp, PassOK, Maybe
  <2>3. StatusOK'
    BY <1>0, <1>9 DEF CleanupHelmOp, StatusOK, Maybe
  <2> QED BY <1>w, <1>9, <2>1, <2>2, <2>3 DEF CleanupHelmOp
<1>10. ASSUME NEW k \in Keys, CleanupGitFile(k)
       PROVE  (PassOK /\ WorldOK /\ FleetOK /\ StatusOK)'
  <2>1. FleetOK'
    BY <1>0, <1>10 DEF CleanupGitFile, FleetOK, Maybe
  <2>2. PassOK'
    BY <1>0, <1>10 DEF CleanupGitFile, PassOK
  <2> QED BY <1>s, <1>w, <1>10, <2>1, <2>2 DEF CleanupGitFile
<1>11. CASE CleanupBundle
  <2>1. FleetOK'
    BY <1>0, <1>11 DEF CleanupBundle, FleetOK, Maybe
  <2>2. PassOK'
    BY <1>0, <1>11 DEF CleanupBundle, PassOK, Maybe
  <2> QED BY <1>s, <1>w, <1>11, <2>1, <2>2 DEF CleanupBundle
<1>12. CASE FinishPass
  <2>1. ps \in Specs
    BY <1>0, <1>12 DEF FinishPass, Steps
  <2> DEFINE st == [phase |-> GuardPhaseTransition(DerivePhase(ComponentMatrix(ps))),
                    ready |-> "Reconciled", cells |-> ComponentMatrix(ps)]
  <2>2. st \in StatusType
    BY <1>0, <2>1, PhaseType DEF StatusType, Maybe, Reasons
  <2>3. PruneRenderBaselines \in [Keys -> Maybe(Baselines)]
    BY <1>0 DEF PruneRenderBaselines, PassOK, Maybe
  <2>4. WriteStatus(st, PruneRenderBaselines, FALSE)
    BY <1>12 DEF FinishPass
  <2> HIDE DEF st
  <2>5. StatusOK'
    BY <1>0, <2>2, <2>3, <2>4, WriteStatusType DEF StatusOK
  <2> QED BY <1>w, <1>f, <1>12, <2>5, EndPassType DEF FinishPass
<1> QED BY <1>1, <1>2, <1>3, <1>4, <1>5, <1>6, <1>7, <1>8, <1>9, <1>10, <1>11, <1>12 DEF PassStep

\* Every other step.
Elsewhere ==
    \/ DeletionStep \/ Crash \/ CallFails \/ FleetStep \/ EditSpec \/ DeleteWorkload
    \/ (\E c \in Components : RepoChange(c)) \/ GraceEnds

LEMMA NextIsEither == Next <=> PassStep \/ Elsewhere
BY DEF Next, Elsewhere

LEMMA TypeElsewhere ==
  ASSUME Inv, Elsewhere
  PROVE  (PassOK /\ WorldOK /\ FleetOK /\ StatusOK)'
<1> USE BlueprintAssumption
<1>0. TypeOK /\ StatusShape /\ Steps /\ PassOK /\ WorldOK /\ FleetOK /\ StatusOK
  BY TypeParts DEF Inv
<1>w. ASSUME UNCHANGED <<static, repo, object, young, bounds>> PROVE WorldOK'
  BY <1>0, <1>w DEF WorldOK, static, object, bounds
<1>r. ASSUME UNCHANGED <<static, repo, object, young, edits>>,
             faults' = faults \/ (faults < MaxFaults /\ faults' = faults + 1)
      PROVE  WorldOK'
  <2>1. faults' \in 0..MaxFaults
    BY <1>0, <1>r DEF WorldOK
  <2> QED BY <1>0, <1>r, <2>1 DEF WorldOK, static, object
<1>f. ASSUME UNCHANGED fleet PROVE FleetOK'
  BY <1>0, <1>f DEF FleetOK, fleet
<1>p. ASSUME UNCHANGED pass PROVE PassOK'
  BY <1>0, <1>p DEF PassOK, pass
<1>q. ASSUME UNCHANGED <<status, baselines>>, queue' \in BOOLEAN PROVE StatusOK'
  BY <1>0, <1>q DEF StatusOK
<1>s. ASSUME UNCHANGED <<status, baselines, queue>> PROVE StatusOK'
  BY <1>0, <1>s DEF StatusOK
<1>k. ASSUME NEW n \in BOOLEAN, Wake(n) PROVE queue' \in BOOLEAN
  BY <1>0, <1>k DEF Wake, StatusOK, WorldOK
<1>1. CASE BeginDeletion
  <2>1. PassOK'
    BY <1>0, <1>1 DEF BeginDeletion, PassOK, WorldOK
  <2>2. StatusOK'
    BY <1>q, <1>1 DEF BeginDeletion
  <2> QED BY <1>w, <1>f, <1>1, <2>1, <2>2 DEF BeginDeletion
<1>2. ASSUME NEW c \in Components, DeleteHelmOp(c)
      PROVE  (PassOK /\ WorldOK /\ FleetOK /\ StatusOK)'
  <2>1. helmOps' \in [Keys -> Maybe(HelmOpObjects)] /\ baselines' \in [Keys -> Maybe(Baselines)]
    BY <1>0, <1>2 DEF DeleteHelmOp, FleetOK, StatusOK, Maybe
  <2>2. FleetOK' /\ StatusOK'
    BY <1>0, <1>2, <2>1 DEF DeleteHelmOp, FleetOK, StatusOK
  <2>3. PassOK'
    BY <1>0, <1>2 DEF DeleteHelmOp, PassOK, Maybe
  <2> QED BY <1>w, <1>2, <2>2, <2>3 DEF DeleteHelmOp
<1>3. CASE DeleteBundle
  <2>1. bundles' \in [Keys -> Maybe(BundleObjects)]
    BY <1>0, <1>3 DEF DeleteBundle, BundlesWithout, FleetOK, Maybe
  <2>2. FleetOK'
    BY <1>0, <1>3, <2>1 DEF DeleteBundle, FleetOK
  <2>3. PassOK'
    BY <1>0, <1>3 DEF DeleteBundle, PassOK, Maybe
  <2> QED BY <1>w, <1>s, <1>3, <2>2, <2>3 DEF DeleteBundle
<1>4. ASSUME NEW c \in Components, DeleteGitFile(c)
      PROVE  (PassOK /\ WorldOK /\ FleetOK /\ StatusOK)'
  <2>1. files' \in [Components -> Maybe(Digests)]
    BY <1>0, <1>4 DEF DeleteGitFile, FleetOK, Maybe
  <2>2. FleetOK'
    BY <1>0, <1>4, <2>1 DEF DeleteGitFile, FleetOK
  <2>3. PassOK'
    BY <1>0, <1>4 DEF DeleteGitFile, PassOK
  <2>4. WorldOK'
    BY <1>r, <1>4 DEF DeleteGitFile
  <2> QED BY <1>s, <1>4, <2>2, <2>3, <2>4 DEF DeleteGitFile
<1>5. CASE RemoveFinalizer
  <2>1. WorldOK'
    BY <1>0, <1>5 DEF RemoveFinalizer, WorldOK, static, bounds
  <2> QED BY <1>f, <1>s, <1>5, <2>1, EndPassType DEF RemoveFinalizer
<1>6. CASE Crash
  <2>1. WorldOK'
    BY <1>r, <1>6 DEF Crash
  <2> QED BY <1>f, <1>q, <1>6, <2>1, EndPassType DEF Crash
<1>7. CASE CallFails
  <2>1. WorldOK'
    BY <1>r, <1>7 DEF CallFails
  <2> DEFINE st == IF pc = "render"
                   THEN [status EXCEPT !.ready = "ComponentReconcileFailed",
                                       !.phase = GuardPhaseTransition("Failed")]
                   ELSE status
  <2>2. st \in StatusType
    BY <1>0, FailedStatus DEF StatusShape, Reasons
  <2>3. bl \in [Keys -> Maybe(Baselines)]
    BY <1>0 DEF PassOK
  <2>4. WriteStatus(st, bl, TRUE)
    BY <1>7 DEF CallFails
  <2> HIDE DEF st
  <2>5. StatusOK'
    BY <1>0, <2>2, <2>3, <2>4, WriteStatusType DEF StatusOK
  <2> QED BY <1>f, <1>7, <2>1, <2>5, EndPassType DEF CallFails
<1>8. ASSUME NEW k \in Keys, FleetGenerate(k)
      PROVE  (PassOK /\ WorldOK /\ FleetOK /\ StatusOK)'
  <2>1. helmOps[k] \in HelmOpObjects
    BY <1>0, <1>8 DEF FleetGenerate, FleetOK, Maybe
  <2>2. [digest |-> helmOps[k].digest, embedded |-> FALSE, state |-> "new"] \in BundleObjects
    BY <2>1 DEF HelmOpObjects, BundleObjects
  <2>3. bundles' \in [Keys -> Maybe(BundleObjects)]
    BY <1>0, <1>8, <2>2 DEF FleetGenerate, FleetOK, Maybe
  <2>4. FleetOK'
    BY <1>0, <1>8, <2>3 DEF FleetGenerate, FleetOK
  <2>5. StatusOK'
    BY <1>k, <1>q, <1>8 DEF FleetGenerate
  <2> QED BY <1>w, <1>p, <1>8, <2>4, <2>5 DEF FleetGenerate
<1>9. ASSUME NEW k \in Keys, FleetReject(k)
      PROVE  (PassOK /\ WorldOK /\ FleetOK /\ StatusOK)'
  <2>1. helmOps[k] \in HelmOpObjects
    BY <1>0, <1>9 DEF FleetReject, FleetOK, Maybe
  <2>2. [helmOps[k] EXCEPT !.accepted = helmOps[k].generation] \in HelmOpObjects
    BY <2>1 DEF HelmOpObjects
  <2>3. helmOps' = [helmOps EXCEPT ![k] = [helmOps[k] EXCEPT !.accepted = helmOps[k].generation]]
    BY <1>9 DEF FleetReject
  <2>4. helmOps' \in [Keys -> Maybe(HelmOpObjects)]
    BY <1>0, <2>2, <2>3 DEF FleetOK, Maybe
  <2>5. FleetOK'
    BY <1>0, <1>9, <2>4 DEF FleetReject, FleetOK
  <2>6. WakesByName(Comp(k)) \in BOOLEAN
    BY DEF WakesByName
  <2>7. StatusOK'
    BY <1>k, <1>q, <1>9, <2>6 DEF FleetReject
  <2>8. WorldOK'
    BY <1>r, <1>9 DEF FleetReject
  <2> QED BY <1>p, <1>9, <2>5, <2>7, <2>8 DEF FleetReject
<1>10. ASSUME NEW k \in Keys, NEW state \in {"ready", "err"}, FleetRollout(k, state)
       PROVE  (PassOK /\ WorldOK /\ FleetOK /\ StatusOK)'
  <2>1. bundles[k] \in BundleObjects
    BY <1>0, <1>10 DEF FleetRollout, FleetOK, Maybe
  <2>2. [bundles[k] EXCEPT !.state = state] \in BundleObjects
    BY <2>1 DEF BundleObjects
  <2>3. bundles' = [bundles EXCEPT ![k] = [bundles[k] EXCEPT !.state = state]]
    BY <1>10 DEF FleetRollout
  <2>4. bundles' \in [Keys -> Maybe(BundleObjects)]
    BY <1>0, <2>2, <2>3 DEF FleetOK, Maybe
  <2>5. FleetOK'
    BY <1>0, <1>10, <2>4 DEF FleetRollout, FleetOK
  <2>6. WakesByBundle(k) \in BOOLEAN
    BY DEF WakesByBundle
  <2>7. StatusOK'
    BY <1>k, <1>q, <1>10, <2>6 DEF FleetRollout
  <2>8. WorldOK'
    BY <1>r, <1>10 DEF FleetRollout
  <2> QED BY <1>p, <1>10, <2>5, <2>7, <2>8 DEF FleetRollout
<1>11. ASSUME NEW c \in Components, FleetGitRepo(c)
       PROVE  (PassOK /\ WorldOK /\ FleetOK /\ StatusOK)'
  <2> DEFINE wanted(k) == files[c] # None /\ Space(k) \in files[c].targets
             helmOp(k) ==
               IF Comp(k) # c THEN helmOps[k]
               ELSE IF ~wanted(k) \/ c \in gitBacked THEN None
               ELSE Apply(helmOps[k], files[c])
             bundle(k) ==
               IF Comp(k) # c \/ (wanted(k) /\ c \notin gitBacked) THEN bundles[k]
               ELSE IF ~wanted(k) THEN None
               ELSE IF BundleRenderCurrent(k, files[c]) THEN bundles[k]
               ELSE [digest |-> files[c], embedded |-> TRUE, state |-> "new"]
  <2>1. ASSUME NEW k \in Keys, wanted(k) PROVE files[c] \in Digests
    BY <1>0, <2>1 DEF FleetOK, Maybe
  <2>2. ASSUME NEW k \in Keys PROVE helmOp(k) \in Maybe(HelmOpObjects)
    <3>1. CASE Comp(k) # c \/ ~wanted(k) \/ c \in gitBacked
      BY <1>0, <3>1 DEF FleetOK, Maybe
    <3>2. CASE Comp(k) = c /\ wanted(k) /\ c \notin gitBacked
      <4>1. Apply(helmOps[k], files[c]) \in HelmOpObjects
        BY <1>0, <2>1, <3>2, ApplyType DEF FleetOK
      <4> QED BY <3>2, <4>1 DEF Maybe
    <3> QED BY <3>1, <3>2
  <2>3. ASSUME NEW k \in Keys PROVE bundle(k) \in Maybe(BundleObjects)
    BY <1>0, <2>1 DEF FleetOK, Maybe, BundleObjects
  <2>4. /\ helmOps' = [k \in Keys |-> helmOp(k)] /\ bundles' = [k \in Keys |-> bundle(k)]
        /\ baselines' = [k \in Keys |-> IF helmOp(k) = None THEN None ELSE baselines[k]]
        /\ bl' = [k \in Keys |-> IF helmOp(k) = None THEN None ELSE bl[k]]
    BY <1>11 DEF FleetGitRepo
  <2> HIDE DEF helmOp, bundle, wanted
  <2>5. /\ helmOps' \in [Keys -> Maybe(HelmOpObjects)] /\ bundles' \in [Keys -> Maybe(BundleObjects)]
    BY <2>2, <2>3, <2>4
  <2>6. /\ baselines' \in [Keys -> Maybe(Baselines)] /\ bl' \in [Keys -> Maybe(Baselines)]
    BY <1>0, <2>4 DEF StatusOK, PassOK, Maybe
  <2>7. FleetOK'
    BY <1>0, <1>11, <2>5 DEF FleetGitRepo, FleetOK
  <2>8. PassOK'
    BY <1>0, <1>11, <2>6 DEF FleetGitRepo, PassOK
  <2>9. queue' \in BOOLEAN
    <3>1. WakesByName(c) \in BOOLEAN
      BY DEF WakesByName
    <3>2. Wake(WakesByName(c))
      BY <1>11 DEF FleetGitRepo
    <3> QED BY <1>k, <3>1, <3>2
  <2>10. StatusOK'
    BY <1>0, <1>11, <2>6, <2>9 DEF FleetGitRepo, StatusOK
  <2> QED BY <1>w, <1>11, <2>7, <2>8, <2>10 DEF FleetGitRepo
<1>12. CASE EditSpec
  <2>1. spec' \in Specs
    <3>1. spec \in Specs
      BY <1>0 DEF WorldOK
    <3>2. CASE \E v \in Versions : spec' = [spec EXCEPT !.version = v]
      BY <3>1, <3>2 DEF Specs
    <3>3. CASE \E c \in Components : spec' = [spec EXCEPT
                  !.disabled = IF c \in @ THEN @ \ {c} ELSE @ \cup {c}]
      BY <3>1, <3>3 DEF Specs
    <3>4. CASE \E t \in (SUBSET Spaces) \ {{}} : spec' = [spec EXCEPT !.targets = t]
      BY <3>1, <3>4 DEF Specs
    <3> QED BY <1>12, <3>2, <3>3, <3>4 DEF EditSpec
  <2>2. edits' \in 0..MaxEdits
    BY <1>0, <1>12 DEF EditSpec, WorldOK
  <2>3. WorldOK'
    BY <1>0, <1>12, <2>1, <2>2 DEF EditSpec, WorldOK, static
  <2>4. PassOK'
    BY <1>0, <1>12 DEF EditSpec, PassOK
  <2> QED BY <1>f, <1>q, <1>12, <2>3, <2>4 DEF EditSpec
<1>13. CASE DeleteWorkload
  <2>1. WorldOK'
    BY <1>0, <1>13 DEF DeleteWorkload, WorldOK, static, bounds
  <2>2. PassOK'
    BY <1>0, <1>13 DEF DeleteWorkload, PassOK
  <2> QED BY <1>f, <1>q, <1>13, <2>1, <2>2 DEF DeleteWorkload
<1>14. ASSUME NEW c \in Components, RepoChange(c)
       PROVE  (PassOK /\ WorldOK /\ FleetOK /\ StatusOK)'
  <2>1. repo' \in [Components -> RepoStates] /\ edits' \in 0..MaxEdits
    BY <1>0, <1>14 DEF RepoChange, WorldOK
  <2>2. WorldOK'
    BY <1>0, <1>14, <2>1 DEF RepoChange, WorldOK, static, object
  <2>3. StatusOK'
    BY <1>k, <1>q, <1>14 DEF RepoChange
  <2> QED BY <1>f, <1>p, <1>14, <2>2, <2>3 DEF RepoChange
<1>15. CASE GraceEnds
  <2>1. WorldOK'
    BY <1>0, <1>15 DEF GraceEnds, WorldOK, static, object, bounds
  <2> QED BY <1>f, <1>p, <1>s, <1>15, <2>1 DEF GraceEnds
<1> QED BY <1>1, <1>2, <1>3, <1>4, <1>5, <1>6, <1>7, <1>8, <1>9, <1>10, <1>11, <1>12, <1>13,
           <1>14, <1>15 DEF Elsewhere, DeletionStep, FleetStep

-----------------------------------------------------------------------------
(* What a reconcile has left to do.                                        *)

LEMMA NextIsLeft == ASSUME NEW x, NextIs(x) PROVE x \in todo
BY DEF NextIs

LEMMA StepsPass == ASSUME Inv, PassStep PROVE Steps'
<1>0. TypeOK /\ Steps /\ spec \in Specs
  BY DEF Inv, TypeOK
<1>e. ASSUME EndPass, gone' = gone, deleting' = deleting PROVE Steps'
  BY <1>0, <1>e DEF EndPass, Steps
<1>1. CASE BlueprintNotFound
  BY <1>0, <1>1 DEF BlueprintNotFound, Steps, object, pass, static
<1>2. CASE PopulateFleetBundleNames
  BY <1>0, <1>2 DEF PopulateFleetBundleNames, Steps, pass, static
<1>3. CASE BeginPass
  BY <1>0, <1>3, DesiredType DEF BeginPass, Steps, object, static
<1>4. ASSUME NEW c \in Components, ComponentError(c) PROVE Steps'
  BY <1>e, <1>4 DEF ComponentError, object
<1>5. ASSUME NEW c \in Components, EnsureBlueprintHelmOp(c) PROVE Steps'
  BY <1>0, <1>5 DEF EnsureBlueprintHelmOp, Steps, object
<1>6. ASSUME NEW c \in Components, EnsureBlueprintGitChartBundle(c) PROVE Steps'
  BY <1>0, <1>6 DEF EnsureBlueprintGitChartBundle, Steps, object
<1>7. ASSUME NEW c \in Components, EnsureBlueprintGitFile(c) PROVE Steps'
  <2>1. \/ todo' = todo \ {c} /\ UNCHANGED <<pc, ps, item>>
        \/ EndPass
    BY <1>7 DEF EnsureBlueprintGitFile, PublishBlueprintGitFile
  <2>2. pc = "render" /\ gone' = gone /\ deleting' = deleting
    BY <1>7 DEF EnsureBlueprintGitFile
  <2> QED BY <1>0, <1>e, <2>1, <2>2 DEF Steps
<1>8. CASE RenderDone
  <2>1. StaleHelmOps \subseteq Keys \ DesiredHelmOpKeys(ps)
    BY DEF StaleHelmOps
  <2>2. /\ pc = "render" /\ pc' = "clean" /\ todo' = StaleHelmOps
        /\ UNCHANGED <<static, ps, gone, deleting>>
    BY <1>8 DEF RenderDone, object
  <2>3. DesiredHelmOpKeys(ps)' = DesiredHelmOpKeys(ps)
    BY <2>2 DEF DesiredHelmOpKeys, Enabled, static
  <2> QED BY <1>0, <2>1, <2>2, <2>3 DEF Steps
<1>d. ASSUME UNCHANGED <<static, ps>> PROVE DesiredHelmOpKeys(ps)' = DesiredHelmOpKeys(ps)
  BY <1>d DEF DesiredHelmOpKeys, Enabled, static
<1>9. ASSUME NEW k \in Keys, CleanupHelmOp(k) PROVE Steps'
  <2>1. /\ pc = "clean" /\ pc' = "cleanBundle" /\ todo' = todo \ {k} /\ item' = k
        /\ UNCHANGED <<static, ps, gone, deleting>>
    BY <1>9 DEF CleanupHelmOp, object
  <2>2. k \in todo
    BY <1>9, NextIsLeft DEF CleanupHelmOp
  <2> QED BY <1>0, <1>d, <2>1, <2>2 DEF Steps
<1>10. ASSUME NEW k \in Keys, CleanupGitFile(k) PROVE Steps'
  <2>1. /\ pc = "clean" /\ pc' = "clean" /\ todo' = todo \ {k}
        /\ UNCHANGED <<static, ps, gone, deleting>>
    BY <1>10 DEF CleanupGitFile, object
  <2> QED BY <1>0, <1>d, <2>1 DEF Steps
<1>11. CASE CleanupBundle
  <2>1. /\ pc = "cleanBundle" /\ pc' = "clean"
        /\ UNCHANGED <<static, ps, todo, gone, deleting>>
    BY <1>11 DEF CleanupBundle, object
  <2> QED BY <1>0, <1>d, <2>1 DEF Steps
<1>12. CASE FinishPass
  BY <1>e, <1>12 DEF FinishPass, object
<1> QED BY <1>1, <1>2, <1>3, <1>4, <1>5, <1>6, <1>7, <1>8, <1>9, <1>10, <1>11, <1>12 DEF PassStep

LEMMA StepsElsewhere == ASSUME Inv, Elsewhere PROVE Steps'
<1>0. TypeOK /\ Steps /\ named \subseteq Components
  BY DEF Inv, TypeOK
<1>e. ASSUME EndPass, deleting' = deleting, gone' => deleting PROVE Steps'
  BY <1>e DEF EndPass, Steps
<1>p. ASSUME UNCHANGED <<static, object, pass>> PROVE Steps'
  BY <1>0, <1>p DEF Steps, static, object, pass, DesiredHelmOpKeys, Enabled
<1>q. ASSUME UNCHANGED <<static, named, gone, pc, ps, todo, item>>, deleting => deleting'
      PROVE  Steps'
  BY <1>0, <1>q DEF Steps, static, DesiredHelmOpKeys, Enabled
<1>1. CASE BeginDeletion
  <2>1. /\ pc = "idle" /\ deleting /\ ~gone /\ pc' = "delete" /\ todo' = named
        /\ UNCHANGED <<ps, object>>
    BY <1>1 DEF BeginDeletion
  <2> QED BY <1>0, <2>1 DEF Steps, object
<1>2. ASSUME NEW c \in Components, DeleteHelmOp(c) PROVE Steps'
  <2>1. /\ pc = "delete" /\ pc' = "deleteBundle" /\ todo' = todo \ {c} /\ item' = c
        /\ UNCHANGED <<ps, object>>
    BY <1>2 DEF DeleteHelmOp
  <2> QED BY <1>0, <2>1 DEF Steps, object
<1>3. CASE DeleteBundle
  <2>1. /\ pc = "deleteBundle" /\ pc' = "delete"
        /\ UNCHANGED <<ps, todo, object>>
    BY <1>3 DEF DeleteBundle
  <2> QED BY <1>0, <2>1 DEF Steps, object
<1>4. ASSUME NEW c \in Components, DeleteGitFile(c) PROVE Steps'
  <2>1. /\ pc = "delete" /\ pc' = "delete" /\ todo' = todo \ {c}
        /\ UNCHANGED <<ps, object>>
    BY <1>4 DEF DeleteGitFile
  <2> QED BY <1>0, <2>1 DEF Steps, object
<1>5. CASE RemoveFinalizer
  BY <1>0, <1>e, <1>5 DEF RemoveFinalizer, Steps
<1>6. CASE Crash
  BY <1>0, <1>e, <1>6 DEF Crash, Steps, object
<1>7. CASE CallFails
  BY <1>0, <1>e, <1>7 DEF CallFails, Steps, object
<1>8. ASSUME NEW k \in Keys, FleetGenerate(k) PROVE Steps'
  BY <1>p, <1>8 DEF FleetGenerate
<1>9. ASSUME NEW k \in Keys, FleetReject(k) PROVE Steps'
  BY <1>p, <1>9 DEF FleetReject
<1>10. ASSUME NEW k \in Keys, NEW state \in {"ready", "err"}, FleetRollout(k, state) PROVE Steps'
  BY <1>p, <1>10 DEF FleetRollout
<1>11. ASSUME NEW c \in Components, FleetGitRepo(c) PROVE Steps'
  BY <1>q, <1>11 DEF FleetGitRepo, object
<1>12. CASE EditSpec
  BY <1>q, <1>12 DEF EditSpec
<1>13. CASE DeleteWorkload
  BY <1>q, <1>13 DEF DeleteWorkload
<1>14. ASSUME NEW c \in Components, RepoChange(c) PROVE Steps'
  BY <1>p, <1>14 DEF RepoChange
<1>15. CASE GraceEnds
  BY <1>p, <1>15 DEF GraceEnds
<1> QED BY <1>1, <1>2, <1>3, <1>4, <1>5, <1>6, <1>7, <1>8, <1>9, <1>10, <1>11, <1>12, <1>13,
           <1>14, <1>15 DEF Elsewhere, DeletionStep, FleetStep

-----------------------------------------------------------------------------
(* Deletion.                                                               *)

\* With the GitOps strategy there is nothing to show.
LEMMA GitOpsDeletesFiles ==
  ASSUME strategy # "FleetBundle" PROVE DeletedSoFar /\ GoneLeavesNothingNamed
BY DEF DeletedSoFar, GoneLeavesNothingNamed

\* A pass that renders or cleans up is not a deletion.
LEMMA DeletedPass == ASSUME Inv, PassStep PROVE (DeletedSoFar /\ GoneLeavesNothingNamed)'
<1>0. TypeOK /\ Steps /\ DeletedSoFar /\ GoneLeavesNothingNamed
  BY DEF Inv
<1>n. ASSUME gone' = FALSE, pc' \notin {"delete", "deleteBundle"}
      PROVE  (DeletedSoFar /\ GoneLeavesNothingNamed)'
  BY <1>n DEF DeletedSoFar, GoneLeavesNothingNamed
<1>g. pc # "idle" => gone = FALSE
  BY <1>0 DEF Steps, TypeOK
<1>1. CASE BlueprintNotFound
  BY <1>0, <1>n, <1>1 DEF BlueprintNotFound, object, pass, TypeOK
<1>2. CASE PopulateFleetBundleNames
  BY <1>0, <1>n, <1>2 DEF PopulateFleetBundleNames, pass, TypeOK
<1>3. CASE BeginPass
  BY <1>0, <1>n, <1>3 DEF BeginPass, object, TypeOK
<1>4. ASSUME NEW c \in Components, ComponentError(c)
      PROVE  (DeletedSoFar /\ GoneLeavesNothingNamed)'
  BY <1>g, <1>n, <1>4 DEF ComponentError, EndPass, object
<1>5. ASSUME NEW c \in Components, EnsureBlueprintHelmOp(c)
      PROVE  (DeletedSoFar /\ GoneLeavesNothingNamed)'
  BY <1>g, <1>n, <1>5 DEF EnsureBlueprintHelmOp, object
<1>6. ASSUME NEW c \in Components, EnsureBlueprintGitChartBundle(c)
      PROVE  (DeletedSoFar /\ GoneLeavesNothingNamed)'
  BY <1>g, <1>n, <1>6 DEF EnsureBlueprintGitChartBundle, object
<1>7. ASSUME NEW c \in Components, EnsureBlueprintGitFile(c)
      PROVE  (DeletedSoFar /\ GoneLeavesNothingNamed)'
  <2>1. pc' = "render" \/ pc' = "idle"
    BY <1>7 DEF EnsureBlueprintGitFile, PublishBlueprintGitFile, EndPass
  <2> QED BY <1>g, <1>n, <1>7, <2>1 DEF EnsureBlueprintGitFile
<1>8. CASE RenderDone
  BY <1>g, <1>n, <1>8 DEF RenderDone, object
<1>9. ASSUME NEW k \in Keys, CleanupHelmOp(k)
      PROVE  (DeletedSoFar /\ GoneLeavesNothingNamed)'
  BY <1>g, <1>n, <1>9 DEF CleanupHelmOp, object
<1>10. ASSUME NEW k \in Keys, CleanupGitFile(k)
       PROVE  (DeletedSoFar /\ GoneLeavesNothingNamed)'
  BY <1>g, <1>n, <1>10 DEF CleanupGitFile, object
<1>11. CASE CleanupBundle
  BY <1>g, <1>n, <1>11 DEF CleanupBundle, object
<1>12. CASE FinishPass
  BY <1>g, <1>n, <1>12 DEF FinishPass, EndPass, object
<1> QED BY <1>1, <1>2, <1>3, <1>4, <1>5, <1>6, <1>7, <1>8, <1>9, <1>10, <1>11, <1>12 DEF PassStep

LEMMA DeletedDeletion ==
  ASSUME Inv, DeletionStep PROVE (DeletedSoFar /\ GoneLeavesNothingNamed)'
<1>0. TypeOK /\ Steps /\ DeletedSoFar /\ GoneLeavesNothingNamed
  BY DEF Inv
<1>g. pc # "idle" => gone = FALSE
  BY <1>0 DEF Steps, TypeOK
<1>1. CASE BeginDeletion
  <2>1. /\ pc' = "delete" /\ todo' = named /\ gone' = FALSE
        /\ UNCHANGED named
    BY <1>0, <1>1 DEF BeginDeletion, object, TypeOK
  <2> QED BY <2>1 DEF DeletedSoFar, GoneLeavesNothingNamed, Deleted
<1>2. ASSUME NEW c \in Components, DeleteHelmOp(c)
      PROVE  (DeletedSoFar /\ GoneLeavesNothingNamed)'
  <2>1. /\ pc = "delete" /\ pc' = "deleteBundle" /\ todo' = todo \ {c} /\ item' = c
        /\ strategy = "FleetBundle" /\ gone' = FALSE /\ c \in todo
        /\ helmOps' = [k \in Keys |-> IF Comp(k) = c THEN None ELSE helmOps[k]]
        /\ UNCHANGED <<named, bundles, strategy>>
    BY <1>g, <1>2, NextIsLeft DEF DeleteHelmOp, object, static
  <2>2. Deleted' = Deleted
    BY <2>1 DEF Deleted
  <2>3. \A k \in Keys : Comp(k) \in Deleted => helmOps[k] = None /\ bundles[k] = None
    BY <1>0, <2>1 DEF DeletedSoFar
  <2>4. DeletedSoFar'
    BY <2>1, <2>2, <2>3 DEF DeletedSoFar
  <2> QED BY <2>1, <2>4 DEF GoneLeavesNothingNamed
<1>3. CASE DeleteBundle
  <2>1. /\ pc = "deleteBundle" /\ pc' = "delete" /\ gone' = FALSE
        /\ bundles' = [k \in Keys |-> IF Comp(k) = item THEN None ELSE bundles[k]]
        /\ UNCHANGED <<named, helmOps, strategy, todo>>
    BY <1>g, <1>3 DEF DeleteBundle, BundlesWithout, object, static
  <2>2. Deleted' \subseteq Deleted \cup {item}
    BY <2>1 DEF Deleted
  <2>3. strategy = "FleetBundle" =>
          /\ \A k \in Keys : Comp(k) \in Deleted => helmOps[k] = None /\ bundles[k] = None
          /\ \A k \in Keys : Comp(k) = item => helmOps[k] = None
    BY <1>0, <2>1 DEF DeletedSoFar
  <2>4. DeletedSoFar'
    BY <2>1, <2>2, <2>3 DEF DeletedSoFar
  <2> QED BY <2>1, <2>4 DEF GoneLeavesNothingNamed
<1>4. ASSUME NEW c \in Components, DeleteGitFile(c)
      PROVE  (DeletedSoFar /\ GoneLeavesNothingNamed)'
  <2>1. strategy' = "GitOps"
    BY <1>4 DEF DeleteGitFile, static
  <2> QED BY <2>1 DEF DeletedSoFar, GoneLeavesNothingNamed
<1>5. CASE RemoveFinalizer
  <2>1. /\ pc = "delete" /\ todo = {} /\ pc' = "idle"
        /\ UNCHANGED <<named, helmOps, bundles, strategy>>
    BY <1>5 DEF RemoveFinalizer, EndPass, fleet, static
  <2>2. Deleted = named
    BY <2>1 DEF Deleted
  <2>3. strategy = "FleetBundle" =>
          \A k \in Keys : Comp(k) \in named => helmOps[k] = None /\ bundles[k] = None
    BY <1>0, <2>1, <2>2 DEF DeletedSoFar
  <2> QED BY <2>1, <2>3 DEF DeletedSoFar, GoneLeavesNothingNamed
<1> QED BY <1>1, <1>2, <1>3, <1>4, <1>5 DEF DeletionStep

\* Fleet writes only Bundles of HelmOps that exist, and of a deleted name there
\* is none.
LEMMA DeletedFleet ==
  ASSUME Inv, FleetStep PROVE (DeletedSoFar /\ GoneLeavesNothingNamed)'
<1>0. TypeOK /\ Steps /\ DeletedSoFar /\ GoneLeavesNothingNamed
  BY DEF Inv
<1>b. ASSUME NEW k \in Keys, UNCHANGED <<strategy, named, gone, pc, todo, item>>,
             helmOps[k] # None \/ bundles[k] # None,
             \A j \in Keys \ {k} : helmOps'[j] = helmOps[j] /\ bundles'[j] = bundles[j],
             helmOps[k] = None => helmOps'[k] = None
      PROVE  (DeletedSoFar /\ GoneLeavesNothingNamed)'
  <2>1. Deleted' = Deleted
    BY <1>b DEF Deleted
  <2>2. DeletedSoFar'
    BY <1>0, <1>b, <2>1 DEF DeletedSoFar
  <2>3. GoneLeavesNothingNamed'
    BY <1>0, <1>b DEF GoneLeavesNothingNamed
  <2> QED BY <2>2, <2>3
<1>1. ASSUME NEW k \in Keys, FleetGenerate(k) PROVE (DeletedSoFar /\ GoneLeavesNothingNamed)'
  <2>1. \A j \in Keys \ {k} : helmOps'[j] = helmOps[j] /\ bundles'[j] = bundles[j]
    BY <1>0, <1>1 DEF FleetGenerate, TypeOK
  <2> QED BY <1>b, <1>1, <2>1 DEF FleetGenerate, static, object, pass
<1>2. ASSUME NEW k \in Keys, FleetReject(k) PROVE (DeletedSoFar /\ GoneLeavesNothingNamed)'
  <2>1. \A j \in Keys \ {k} : helmOps'[j] = helmOps[j] /\ bundles'[j] = bundles[j]
    BY <1>0, <1>2 DEF FleetReject, TypeOK
  <2> QED BY <1>b, <1>2, <2>1 DEF FleetReject, static, object, pass
<1>3. ASSUME NEW k \in Keys, NEW state \in {"ready", "err"}, FleetRollout(k, state)
      PROVE  (DeletedSoFar /\ GoneLeavesNothingNamed)'
  <2>1. \A j \in Keys \ {k} : helmOps'[j] = helmOps[j] /\ bundles'[j] = bundles[j]
    BY <1>0, <1>3 DEF FleetRollout, TypeOK
  <2> QED BY <1>b, <1>3, <2>1 DEF FleetRollout, static, object, pass
<1>4. ASSUME NEW c \in Components, FleetGitRepo(c)
      PROVE  (DeletedSoFar /\ GoneLeavesNothingNamed)'
  <2>1. strategy' = "GitOps"
    BY <1>4 DEF FleetGitRepo, static
  <2> QED BY <2>1 DEF DeletedSoFar, GoneLeavesNothingNamed
<1> QED BY <1>1, <1>2, <1>3, <1>4 DEF FleetStep

LEMMA DeletedElsewhere ==
  ASSUME Inv, Elsewhere PROVE (DeletedSoFar /\ GoneLeavesNothingNamed)'
<1>0. TypeOK /\ Steps /\ DeletedSoFar /\ GoneLeavesNothingNamed
  BY DEF Inv
<1>e. ASSUME pc # "idle", EndPass, gone' = gone PROVE (DeletedSoFar /\ GoneLeavesNothingNamed)'
  BY <1>0, <1>e DEF EndPass, Steps, DeletedSoFar, GoneLeavesNothingNamed
<1>u. ASSUME UNCHANGED <<strategy, named, gone, pc, todo, item, helmOps, bundles>>
      PROVE  (DeletedSoFar /\ GoneLeavesNothingNamed)'
  BY <1>0, <1>u DEF DeletedSoFar, GoneLeavesNothingNamed, Deleted
<1>1. CASE Crash
  BY <1>e, <1>1 DEF Crash, object
<1>2. CASE CallFails
  BY <1>e, <1>2 DEF CallFails, object
<1>3. CASE EditSpec
  BY <1>u, <1>3 DEF EditSpec, static, fleet
<1>4. CASE DeleteWorkload
  BY <1>u, <1>4 DEF DeleteWorkload, static, fleet
<1>5. ASSUME NEW c \in Components, RepoChange(c) PROVE (DeletedSoFar /\ GoneLeavesNothingNamed)'
  BY <1>u, <1>5 DEF RepoChange, static, object, fleet, pass
<1>6. CASE GraceEnds
  BY <1>u, <1>6 DEF GraceEnds, static, object, fleet, pass
<1> QED BY <1>1, <1>2, <1>3, <1>4, <1>5, <1>6, DeletedDeletion, DeletedFleet DEF Elsewhere

-----------------------------------------------------------------------------
(* The invariant and the theorems.                                         *)

LEMMA Inductive == Inv /\ [Next]_vars => Inv'
<1> SUFFICES ASSUME Inv, [Next]_vars PROVE Inv'
  OBVIOUS
<1>1. CASE PassStep
  BY <1>1, TypePass, StepsPass, DeletedPass, TypeParts, PTL DEF Inv
<1>2. CASE Elsewhere
  BY <1>2, TypeElsewhere, StepsElsewhere, DeletedElsewhere, TypeParts, PTL DEF Inv
<1>3. CASE UNCHANGED vars
  BY <1>3 DEF Inv, vars, static, object, fleet, pass, bounds, TypeOK, StatusShape, Steps,
     DeletedSoFar, GoneLeavesNothingNamed, Deleted, DesiredHelmOpKeys, Enabled
<1> QED BY <1>1, <1>2, <1>3, NextIsEither

LEMMA Invariant == Spec => []Inv
<1>1. Init => Inv
  BY Initially
<1>2. Inv /\ [Next]_vars => Inv'
  BY Inductive
<1> QED BY <1>1, <1>2, PTL DEF Spec

\* The reconciler, Fleet and users keep every part of the state in its type.
THEOREM TypeCorrect == Spec => []TypeOK
<1>1. Inv => TypeOK
  BY DEF Inv
<1> QED BY <1>1, Invariant, PTL

\* reconcileDelete removes the finalizer only when the HelmOps and the Bundles of
\* every recorded name are gone from both workspaces, whatever Fleet did meanwhile.
THEOREM NothingNamedIsLeft == Spec => []GoneLeavesNothingNamed
<1>1. Inv => GoneLeavesNothingNamed
  BY DEF Inv
<1> QED BY <1>1, Invariant, PTL

\* Clean-up keeps what the spec it works on wants.
KeptBy(k) == /\ helmOps[k] # None => helmOps'[k] # None
             /\ bundles[k] # None => bundles'[k] # None

LEMMA PassKeeps ==
  ASSUME Inv, strategy = "FleetBundle", PassStep, ps \in Specs, NEW k \in DesiredHelmOpKeys(ps)
  PROVE  KeptBy(k)
<1>0. TypeOK /\ Steps /\ k \in Keys /\ Digest(ps) \in Digests
  BY DesiredType, DigestType DEF Inv
<1>u. ASSUME UNCHANGED <<helmOps, bundles>> PROVE KeptBy(k)
  BY <1>u DEF KeptBy
<1>1. CASE BlueprintNotFound \/ PopulateFleetBundleNames \/ BeginPass \/ RenderDone \/ FinishPass
  BY <1>u, <1>1 DEF BlueprintNotFound, PopulateFleetBundleNames, BeginPass, RenderDone,
     FinishPass, fleet
<1>2. ASSUME NEW c \in Components, ComponentError(c) PROVE KeptBy(k)
  BY <1>u, <1>2 DEF ComponentError, fleet
<1>3. ASSUME NEW c \in Components, EnsureBlueprintHelmOp(c) PROVE KeptBy(k)
  <2>1. Apply(helmOps[k], Digest(ps)) # None
    BY <1>0, ApplyType DEF TypeOK
  <2>2. bundles' = bundles
    BY <1>3 DEF EnsureBlueprintHelmOp
  <2>3. helmOps'[k] = IF k \in ps.targets \X {c} THEN Apply(helmOps[k], Digest(ps)) ELSE helmOps[k]
    BY <1>0, <1>3 DEF EnsureBlueprintHelmOp
  <2> QED BY <2>1, <2>2, <2>3 DEF KeptBy
<1>4. ASSUME NEW c \in Components, EnsureBlueprintGitChartBundle(c) PROVE KeptBy(k)
  <2> DEFINE new == [digest |-> Digest(ps), embedded |-> TRUE, state |-> "new"]
  <2>1. new \in BundleObjects
    BY <1>0 DEF BundleObjects
  <2>2. new # None
    BY <2>1, NoneAssumption
  <2>3. helmOps' = helmOps /\ bundles'[k] = IF k \notin StaleGitBundles(c) THEN bundles[k] ELSE new
    BY <1>0, <1>4 DEF EnsureBlueprintGitChartBundle
  <2> QED BY <2>2, <2>3 DEF KeptBy
<1>5. ASSUME NEW c \in Components, EnsureBlueprintGitFile(c) PROVE KeptBy(k)
  BY <1>u, <1>5 DEF EnsureBlueprintGitFile
<1>6. ASSUME NEW j \in Keys, CleanupHelmOp(j) PROVE KeptBy(k)
  <2>1. j # k
    BY <1>0, <1>6, NextIsLeft DEF CleanupHelmOp, Steps
  <2>2. helmOps'[k] = helmOps[k] /\ bundles' = bundles
    BY <1>0, <1>6, <2>1 DEF CleanupHelmOp, DeleteHelmOpIn, TypeOK
  <2> QED BY <2>2 DEF KeptBy
<1>7. ASSUME NEW j \in Keys, CleanupGitFile(j) PROVE KeptBy(k)
  BY <1>u, <1>7 DEF CleanupGitFile
<1>8. CASE CleanupBundle
  <2>1. item # k
    BY <1>0, <1>8 DEF CleanupBundle, Steps
  <2>2. helmOps' = helmOps /\ bundles'[k] = bundles[k]
    BY <1>0, <1>8, <2>1 DEF CleanupBundle, TypeOK
  <2> QED BY <2>2 DEF KeptBy
<1> QED BY <1>1, <1>2, <1>3, <1>4, <1>5, <1>6, <1>7, <1>8 DEF PassStep

LEMMA ElsewhereKeeps ==
  ASSUME Inv, strategy = "FleetBundle", Elsewhere, ps # None, NEW k \in Keys
  PROVE  KeptBy(k)
<1>0. TypeOK /\ pc \notin {"idle", "delete", "deleteBundle"}
  BY DEF Inv, Steps
<1>u. ASSUME UNCHANGED <<helmOps, bundles>> PROVE KeptBy(k)
  BY <1>u DEF KeptBy
<1>1. CASE DeletionStep
  BY <1>0, <1>1 DEF DeletionStep, BeginDeletion, DeleteBundle, RemoveFinalizer, DeleteHelmOp,
     DeleteGitFile
<1>2. CASE Crash \/ CallFails \/ EditSpec \/ DeleteWorkload \/ GraceEnds
  BY <1>u, <1>2 DEF Crash, CallFails, EditSpec, DeleteWorkload, GraceEnds, fleet
<1>3. ASSUME NEW c \in Components, RepoChange(c) PROVE KeptBy(k)
  BY <1>u, <1>3 DEF RepoChange, fleet
<1>4. ASSUME NEW j \in Keys, FleetGenerate(j) PROVE KeptBy(k)
  <2> DEFINE new == [digest |-> helmOps[j].digest, embedded |-> FALSE, state |-> "new"]
  <2>1. helmOps[j] \in HelmOpObjects
    BY <1>0, <1>4 DEF FleetGenerate, TypeOK, Maybe
  <2>2. new \in BundleObjects
    BY <2>1 DEF HelmOpObjects, BundleObjects
  <2>3. new # None
    BY <2>2, NoneAssumption
  <2>4. helmOps' = helmOps /\ (bundles'[k] = bundles[k] \/ bundles'[k] = new)
    BY <1>0, <1>4 DEF FleetGenerate, TypeOK
  <2> QED BY <2>3, <2>4 DEF KeptBy
<1>5. ASSUME NEW j \in Keys, FleetReject(j) PROVE KeptBy(k)
  <2> DEFINE new == [helmOps[j] EXCEPT !.accepted = helmOps[j].generation]
  <2>1. helmOps[j] \in HelmOpObjects
    BY <1>0, <1>5 DEF FleetReject, TypeOK, Maybe
  <2>2. new \in HelmOpObjects
    BY <2>1 DEF HelmOpObjects
  <2>3. new # None
    BY <2>2, NoneAssumption
  <2>4. helmOps' = [helmOps EXCEPT ![j] = new] /\ bundles' = bundles
    BY <1>5 DEF FleetReject
  <2>5. helmOps'[k] = helmOps[k] \/ helmOps'[k] = new
    BY <1>0, <2>4 DEF TypeOK
  <2> QED BY <2>3, <2>4, <2>5 DEF KeptBy
<1>6. ASSUME NEW j \in Keys, NEW state \in {"ready", "err"}, FleetRollout(j, state) PROVE KeptBy(k)
  <2> DEFINE new == [bundles[j] EXCEPT !.state = state]
  <2>1. bundles[j] \in BundleObjects
    BY <1>0, <1>6 DEF FleetRollout, TypeOK, Maybe
  <2>2. new \in BundleObjects
    BY <2>1 DEF BundleObjects
  <2>3. new # None
    BY <2>2, NoneAssumption
  <2>4. bundles' = [bundles EXCEPT ![j] = new] /\ helmOps' = helmOps
    BY <1>6 DEF FleetRollout
  <2>5. bundles'[k] = bundles[k] \/ bundles'[k] = new
    BY <1>0, <2>4 DEF TypeOK
  <2> QED BY <2>3, <2>4, <2>5 DEF KeptBy
<1>7. ASSUME NEW c \in Components, FleetGitRepo(c) PROVE KeptBy(k)
  BY <1>7 DEF FleetGitRepo
<1> QED BY <1>1, <1>2, <1>3, <1>4, <1>5, <1>6, <1>7 DEF Elsewhere, FleetStep

\* Neither clean-up (cleanupStaleBlueprintHelmOps, by namespace and name) nor any
\* other step of a pass takes away a HelmOp or a Bundle that the spec which the
\* pass read wants.
THEOREM DesiredIsKept == Spec => DesiredKept
<1> DEFINE Keep == strategy = "FleetBundle" /\ ps # None =>
                     \A k \in DesiredHelmOpKeys(ps) :
                        /\ helmOps[k] # None => helmOps'[k] # None
                        /\ bundles[k] # None => bundles'[k] # None
<1>1. Inv /\ [Next]_vars => [Keep]_vars
  <2> SUFFICES ASSUME Inv, Next, strategy = "FleetBundle", ps # None,
                      NEW k \in DesiredHelmOpKeys(ps)
               PROVE  KeptBy(k)
    BY DEF KeptBy
  <2>1. ps \in Specs
    BY DEF Inv, TypeOK, Maybe
  <2>2. k \in Keys
    BY <2>1, DesiredType DEF Inv
  <2> QED BY <2>1, <2>2, NextIsEither, PassKeeps, ElsewhereKeeps
<1>2. Spec => []Inv
  BY Invariant
<1> QED BY <1>1, <1>2, PTL DEF Spec, DesiredKept

-----------------------------------------------------------------------------
(* What the status says.                                                   *)

\* As long as nobody wrote the object, the pass works on its current spec.
PassIsFresh == fresh /\ Working => ps = spec

\* A baseline of the HelmOp's current generation has its digest, and Fleet rejected
\* that generation if it has answered since.
BaselineOf(b, ho) ==
    b # None =>
      /\ b.generation <= ho.generation
      /\ b.generation = ho.generation =>
           b.digest = ho.digest /\ (b.accepted # ho.accepted => ho.accepted = ho.generation)

\* Baselines, in the status and in memory, are of HelmOps that exist.
BaselinesSound ==
    /\ pc \in {"idle", "delete", "deleteBundle"} => bl = [k \in Keys |-> None]
    /\ strategy = "FleetBundle" =>
         \A k \in Keys : IF helmOps[k] = None THEN baselines[k] = None /\ bl[k] = None
                         ELSE BaselineOf(baselines[k], helmOps[k]) /\ BaselineOf(bl[k], helmOps[k])

LEMMA BaselinesInit == Init => PassIsFresh /\ BaselinesSound
<1> SUFFICES ASSUME Init PROVE PassIsFresh /\ BaselinesSound
  OBVIOUS
<1>1. /\ pc = "idle" /\ bl = [k \in Keys |-> None] /\ baselines = [k \in Keys |-> None]
      /\ helmOps = [k \in Keys |-> None]
  BY DEF Init, NoPass
<1> QED BY <1>1 DEF PassIsFresh, Working, BaselinesSound

LEMMA FreshStep == Inv /\ PassIsFresh /\ [Next]_vars => PassIsFresh'
<1> SUFFICES ASSUME Inv, PassIsFresh, [Next]_vars PROVE PassIsFresh'
  OBVIOUS
<1>a. ASSUME UNCHANGED <<spec, ps, fresh>>, Working' => Working PROVE PassIsFresh'
  BY <1>a DEF PassIsFresh
<1>e. ASSUME EndPass PROVE PassIsFresh'
  BY <1>e DEF EndPass, PassIsFresh, Working
<1>1. CASE BlueprintNotFound \/ PopulateFleetBundleNames \/ RenderDone \/ CleanupBundle
  BY <1>a, <1>1 DEF Working, BlueprintNotFound, PopulateFleetBundleNames, RenderDone, CleanupBundle,
     object, pass
<1>2. CASE BeginPass
  BY <1>2 DEF BeginPass, PassIsFresh, object
<1>3. ASSUME NEW c \in Components, \/ EnsureBlueprintHelmOp(c) \/ EnsureBlueprintGitChartBundle(c)
      PROVE PassIsFresh'
  BY <1>a, <1>3 DEF Working, EnsureBlueprintHelmOp, EnsureBlueprintGitChartBundle, object
<1>4. ASSUME NEW c \in Components, EnsureBlueprintGitFile(c) PROVE PassIsFresh'
  BY <1>a, <1>e, <1>4 DEF Working, EnsureBlueprintGitFile, PublishBlueprintGitFile
<1>5. ASSUME NEW k \in Keys, CleanupHelmOp(k) \/ CleanupGitFile(k) PROVE PassIsFresh'
  BY <1>a, <1>5 DEF Working, CleanupHelmOp, CleanupGitFile, object
<1>6. CASE FinishPass \/ RemoveFinalizer \/ Crash \/ CallFails \/ \E c \in Components : ComponentError(c)
  BY <1>e, <1>6 DEF FinishPass, RemoveFinalizer, Crash, CallFails, ComponentError
<1>7. CASE BeginDeletion \/ DeleteBundle \/ \E c \in Components : DeleteHelmOp(c) \/ DeleteGitFile(c)
  BY <1>a, <1>7 DEF Working, BeginDeletion, DeleteBundle, DeleteHelmOp, DeleteGitFile, object
<1>8. CASE FleetStep
  BY <1>a, <1>8 DEF Working, FleetStep, FleetGenerate, FleetReject, FleetRollout, FleetGitRepo, object, pass
<1>9. CASE EditSpec \/ DeleteWorkload
  <2>1. fresh' = (pc = "idle") /\ UNCHANGED <<ps, pc>>
    BY <1>9 DEF EditSpec, DeleteWorkload
  <2> QED BY <2>1 DEF PassIsFresh, Working
<1>10. CASE GraceEnds \/ \E c \in Components : RepoChange(c)
  BY <1>a, <1>10 DEF Working, GraceEnds, RepoChange, object, pass
<1>11. CASE UNCHANGED vars
  BY <1>a, <1>11 DEF Working, vars, object, pass
<1> QED BY <1>1, <1>2, <1>3, <1>4, <1>5, <1>6, <1>7, <1>8, <1>9, <1>10, <1>11
        DEF Next, PassStep, DeletionStep

\* An apply makes a new generation or none, and the baseline of this attempt is
\* taken from it.
LEMMA UpsertSound ==
  ASSUME NEW ho \in Maybe(HelmOpObjects), NEW old \in Maybe(Baselines),
         NEW other \in Maybe(Baselines), NEW d \in Digests,
         IF ho = None THEN old = None /\ other = None ELSE BaselineOf(old, ho) /\ BaselineOf(other, ho),
         NEW new, new = Apply(ho, d)
  PROVE  /\ new # None
         /\ BaselineOf(UpsertRenderBaseline(old, d, new), new) /\ BaselineOf(other, new)
<1>1. new \in HelmOpObjects /\ new # None /\ new.digest = d /\ new.generation \in Nat
  <2>1. new \in HelmOpObjects /\ new # None
    BY ApplyType
  <2>2. CASE ho = None
    BY <2>1, <2>2 DEF Apply, HelmOpObjects, Generations
  <2>3. CASE ho # None
    <3>1. ho \in HelmOpObjects
      BY <2>3 DEF Maybe
    <3> QED BY <2>1, <2>3, <3>1 DEF Apply, HelmOpObjects, Generations
  <2> QED BY <2>2, <2>3
<1>2. ASSUME NEW b \in Maybe(Baselines), IF ho = None THEN b = None ELSE BaselineOf(b, ho)
      PROVE  BaselineOf(b, new)
  <2>1. SUFFICES ASSUME b # None PROVE BaselineOf(b, new)
    BY DEF BaselineOf
  <2>2. ho # None /\ ho \in HelmOpObjects /\ b \in HelmOpObjects /\ BaselineOf(b, ho)
    BY <1>2, <2>1 DEF Maybe, Baselines
  <2>3. ho.generation \in Nat /\ b.generation \in Nat
    BY <2>2 DEF HelmOpObjects, Generations
  <2>4. CASE ho.digest = d
    <3>1. new = ho
      BY <2>2, <2>4 DEF Apply
    <3> QED BY <2>2, <3>1
  <2>5. CASE ho.digest # d
    <3>1. new.generation = ho.generation + 1
      BY <2>2, <2>5 DEF Apply, HelmOpObjects
    <3> QED BY <2>1, <2>2, <2>3, <3>1 DEF BaselineOf
  <2> QED BY <2>4, <2>5
<1>3. BaselineOf(old, new) /\ BaselineOf(other, new)
  BY <1>2
<1>4. BaselineOf([new EXCEPT !.digest = d], new)
  <2>1. [new EXCEPT !.digest = d] = new
    BY <1>1 DEF HelmOpObjects
  <2> QED BY <1>1, <2>1 DEF BaselineOf
<1> QED BY <1>1, <1>3, <1>4 DEF UpsertRenderBaseline

\* Leaving HelmOps alone and dropping baselines is always sound.
Fewer == \A k \in Keys : /\ bl'[k] \in {None, bl[k]}
                         /\ baselines'[k] \in {None, baselines[k], bl[k]}

LEMMA FewerSound ==
  ASSUME BaselinesSound, helmOps' = helmOps, strategy' = strategy, Fewer,
         pc' \in {"idle", "delete", "deleteBundle"} => bl' = [k \in Keys |-> None]
  PROVE  BaselinesSound'
<1>1. ASSUME strategy = "FleetBundle", NEW k \in Keys
      PROVE  IF helmOps[k] = None THEN baselines'[k] = None /\ bl'[k] = None
             ELSE BaselineOf(baselines'[k], helmOps[k]) /\ BaselineOf(bl'[k], helmOps[k])
  BY <1>1 DEF BaselinesSound, Fewer, BaselineOf
<1> QED BY <1>1 DEF BaselinesSound

LEMMA BaselinesPass == ASSUME Inv, BaselinesSound, PassStep PROVE BaselinesSound'
<1>0. TypeOK /\ Steps /\ {baselines, bl} \subseteq [Keys -> Maybe(Baselines)]
      /\ helmOps \in [Keys -> Maybe(HelmOpObjects)]
  BY DEF Inv, TypeOK
<1>s. strategy' = strategy
  BY DEF PassStep, BlueprintNotFound, PopulateFleetBundleNames, BeginPass, ComponentError,
     EnsureBlueprintHelmOp, EnsureBlueprintGitChartBundle, EnsureBlueprintGitFile, RenderDone,
     CleanupHelmOp, CleanupGitFile, CleanupBundle, FinishPass, static
<1>e. ASSUME EndPass PROVE pc' = "idle" /\ bl' = [k \in Keys |-> None]
  BY <1>e DEF EndPass
<1>g. ASSUME strategy # "FleetBundle", pc' \in {"render", "clean", "cleanBundle"} \/ EndPass
      PROVE  BaselinesSound'
  BY <1>s, <1>e, <1>g DEF BaselinesSound
<1>w. ASSUME NEW st, NEW b, NEW requeue, WriteStatus(st, b, requeue), EndPass, helmOps' = helmOps,
             \A k \in Keys : b[k] \in {None, bl[k]}
      PROVE  BaselinesSound'
  BY <1>s, <1>e, <1>w, FewerSound DEF WriteStatus, Fewer
<1>1. CASE BlueprintNotFound \/ PopulateFleetBundleNames
  BY <1>s, <1>1, FewerSound DEF BlueprintNotFound, PopulateFleetBundleNames, fleet, pass, Fewer,
     BaselinesSound
<1>2. CASE BeginPass
  <2>1. pc' = "render" /\ bl' = baselines /\ baselines' = baselines /\ helmOps' = helmOps
    BY <1>2 DEF BeginPass, fleet
  <2> QED BY <1>s, <2>1 DEF BaselinesSound
<1>3. ASSUME NEW c \in Components, ComponentError(c) PROVE BaselinesSound'
  <2>1. helmOps' = helmOps /\ EndPass
    BY <1>3 DEF ComponentError, fleet
  <2> QED BY <1>w, <1>3, <2>1 DEF ComponentError
<1>4. ASSUME NEW c \in Components, EnsureBlueprintHelmOp(c) PROVE BaselinesSound'
  <2>1. /\ pc = "render" /\ pc' = "render" /\ baselines' = baselines
        /\ ps \in Specs /\ Digest(ps) \in Digests
    BY <1>0, <1>4, DigestType DEF EnsureBlueprintHelmOp, Steps
  <2>2. ASSUME NEW k \in Keys, strategy = "FleetBundle"
        PROVE  IF helmOps'[k] = None THEN baselines[k] = None /\ bl'[k] = None
               ELSE BaselineOf(baselines[k], helmOps'[k]) /\ BaselineOf(bl'[k], helmOps'[k])
    <3>1. IF helmOps[k] = None THEN baselines[k] = None /\ bl[k] = None
          ELSE BaselineOf(baselines[k], helmOps[k]) /\ BaselineOf(bl[k], helmOps[k])
      BY <2>2 DEF BaselinesSound
    <3>2. CASE k \notin ps.targets \X {c}
      <4>1. helmOps'[k] = helmOps[k] /\ bl'[k] = bl[k]
        BY <1>4, <3>2 DEF EnsureBlueprintHelmOp
      <4> QED BY <3>1, <4>1
    <3>3. CASE k \in ps.targets \X {c}
      <4>1. PICK new : new = Apply(helmOps[k], Digest(ps))
        OBVIOUS
      <4>2. helmOps'[k] = new /\ bl'[k] = UpsertRenderBaseline(bl[k], Digest(ps), new)
        BY <1>4, <3>3, <4>1 DEF EnsureBlueprintHelmOp
      <4>3. PICK ho \in Maybe(HelmOpObjects), old \in Maybe(Baselines), other \in Maybe(Baselines) :
              ho = helmOps[k] /\ old = bl[k] /\ other = baselines[k]
        BY <1>0
      <4>4. /\ new # None
            /\ BaselineOf(UpsertRenderBaseline(old, Digest(ps), new), new) /\ BaselineOf(other, new)
        BY <2>1, <3>1, <4>1, <4>3, UpsertSound
      <4> QED BY <4>2, <4>3, <4>4
    <3> QED BY <3>2, <3>3
  <2> QED BY <1>s, <2>1, <2>2 DEF BaselinesSound
<1>5. ASSUME NEW c \in Components, EnsureBlueprintGitChartBundle(c) PROVE BaselinesSound'
  <2>1. /\ pc = "render" /\ pc' = pc /\ UNCHANGED <<helmOps, baselines, bl>>
    BY <1>5 DEF EnsureBlueprintGitChartBundle
  <2> QED BY <1>s, <2>1 DEF BaselinesSound
<1>6. ASSUME NEW c \in Components, EnsureBlueprintGitFile(c) PROVE BaselinesSound'
  <2>1. strategy = "GitOps" /\ (pc' = "render" \/ EndPass)
    BY <1>6 DEF EnsureBlueprintGitFile, PublishBlueprintGitFile
  <2> QED BY <1>g, <2>1
<1>7. CASE RenderDone
  <2>1. CASE strategy = "FleetBundle"
    <3>1. pc' = "clean" /\ UNCHANGED <<helmOps, baselines, bl>>
      BY <1>7, <2>1 DEF RenderDone, fleet
    <3> QED BY <1>s, <2>1, <3>1 DEF BaselinesSound
  <2>2. CASE strategy # "FleetBundle"
    BY <1>g, <1>7, <2>2 DEF RenderDone
  <2> QED BY <2>1, <2>2
<1>8. ASSUME NEW k \in Keys, CleanupHelmOp(k) PROVE BaselinesSound'
  <2>1. /\ strategy = "FleetBundle" /\ pc' = "cleanBundle" /\ helmOps' = [helmOps EXCEPT ![k] = None]
        /\ bl' = [bl EXCEPT ![k] = None] /\ baselines' = [baselines EXCEPT ![k] = None]
    BY <1>8 DEF CleanupHelmOp, DeleteHelmOpIn
  <2>2. ASSUME NEW j \in Keys
        PROVE  IF helmOps'[j] = None THEN baselines'[j] = None /\ bl'[j] = None
               ELSE BaselineOf(baselines'[j], helmOps'[j]) /\ BaselineOf(bl'[j], helmOps'[j])
    <3>1. CASE j = k
      BY <1>0, <2>1, <3>1
    <3>2. CASE j # k
      <4>1. helmOps'[j] = helmOps[j] /\ baselines'[j] = baselines[j] /\ bl'[j] = bl[j]
        BY <1>0, <2>1, <3>2
      <4> QED BY <2>1, <4>1 DEF BaselinesSound
    <3> QED BY <3>1, <3>2
  <2> QED BY <2>1, <2>2 DEF BaselinesSound
<1>9. ASSUME NEW k \in Keys, CleanupGitFile(k) PROVE BaselinesSound'
  BY <1>g, <1>9 DEF CleanupGitFile
<1>10. CASE CleanupBundle
  <2>1. pc' = "clean" /\ UNCHANGED <<helmOps, baselines, bl>>
    BY <1>10 DEF CleanupBundle
  <2> QED BY <1>s, <2>1 DEF BaselinesSound
<1>11. CASE FinishPass
  <2>1. helmOps' = helmOps /\ EndPass
    BY <1>11 DEF FinishPass, fleet
  <2>2. \A k \in Keys : PruneRenderBaselines[k] \in {None, bl[k]}
    BY DEF PruneRenderBaselines
  <2>3. PICK st : WriteStatus(st, PruneRenderBaselines, FALSE)
    BY <1>11 DEF FinishPass
  <2> QED BY <1>w, <2>1, <2>2, <2>3
<1> QED BY <1>1, <1>2, <1>3, <1>4, <1>5, <1>6, <1>7, <1>8, <1>9, <1>10, <1>11 DEF PassStep

LEMMA BaselinesElsewhere == ASSUME Inv, BaselinesSound, Elsewhere PROVE BaselinesSound'
<1>0. TypeOK /\ Steps /\ {baselines, bl} \subseteq [Keys -> Maybe(Baselines)]
      /\ helmOps \in [Keys -> Maybe(HelmOpObjects)]
  BY DEF Inv, TypeOK
<1>s. strategy' = strategy
  BY DEF Elsewhere, DeletionStep, BeginDeletion, DeleteBundle, RemoveFinalizer, DeleteHelmOp,
     DeleteGitFile, Crash, CallFails, FleetStep, FleetGenerate, FleetReject, FleetRollout,
     FleetGitRepo, EditSpec, DeleteWorkload, RepoChange, GraceEnds, static
<1>u. ASSUME UNCHANGED <<helmOps, baselines, bl>>,
             pc' = pc \/ (pc \in {"idle", "delete", "deleteBundle"})
      PROVE  BaselinesSound'
  BY <1>s, <1>u DEF BaselinesSound
<1>e. ASSUME EndPass PROVE pc' = "idle" /\ bl' = [k \in Keys |-> None]
  BY <1>e DEF EndPass
<1>1. CASE BeginDeletion \/ DeleteBundle \/ \E c \in Components : DeleteGitFile(c)
  BY <1>u, <1>1 DEF BeginDeletion, DeleteBundle, DeleteGitFile, fleet
<1>2. CASE RemoveFinalizer \/ Crash
  <2>1. EndPass /\ UNCHANGED <<helmOps, baselines>>
    BY <1>2 DEF RemoveFinalizer, Crash, fleet
  <2> QED BY <1>s, <1>e, <2>1, FewerSound DEF Fewer
<1>3. ASSUME NEW c \in Components, DeleteHelmOp(c) PROVE BaselinesSound'
  <2>1. /\ pc = "delete" /\ bl' = bl
        /\ helmOps' = [k \in Keys |-> IF Comp(k) = c THEN None ELSE helmOps[k]]
        /\ baselines' = [k \in Keys |-> IF Comp(k) = c THEN None ELSE baselines[k]]
    BY <1>3 DEF DeleteHelmOp
  <2>2. bl = [k \in Keys |-> None]
    BY <2>1 DEF BaselinesSound
  <2>3. ASSUME strategy = "FleetBundle", NEW k \in Keys
        PROVE  IF helmOps'[k] = None THEN baselines'[k] = None /\ bl'[k] = None
               ELSE BaselineOf(baselines'[k], helmOps'[k]) /\ BaselineOf(bl'[k], helmOps'[k])
    BY <2>1, <2>2, <2>3 DEF BaselinesSound
  <2> QED BY <1>s, <2>1, <2>2, <2>3 DEF BaselinesSound
<1>4. CASE CallFails
  <2>1. helmOps' = helmOps /\ EndPass /\ (baselines' = bl \/ baselines' = baselines)
    BY <1>4 DEF CallFails, WriteStatus, fleet
  <2> QED BY <1>s, <1>e, <2>1, FewerSound DEF Fewer
<1>5. ASSUME NEW k \in Keys, FleetReject(k) PROVE BaselinesSound'
  <2> DEFINE new == [helmOps[k] EXCEPT !.accepted = helmOps[k].generation]
  <2>1. /\ helmOps' = [helmOps EXCEPT ![k] = new] /\ helmOps[k] # None
        /\ UNCHANGED <<baselines, bl, pc>>
    BY <1>5 DEF FleetReject, pass
  <2>2. helmOps[k] \in HelmOpObjects
    BY <1>0, <2>1 DEF Maybe
  <2>3. /\ new \in HelmOpObjects /\ new.digest = helmOps[k].digest
        /\ new.generation = helmOps[k].generation /\ new.accepted = helmOps[k].generation
    BY <2>2 DEF HelmOpObjects
  <2>4. new # None
    BY <2>3, NoneAssumption
  <2> HIDE DEF new
  <2>5. ASSUME NEW b, BaselineOf(b, helmOps[k]) PROVE BaselineOf(b, new)
    BY <2>3, <2>5 DEF BaselineOf
  <2>6. ASSUME strategy = "FleetBundle", NEW j \in Keys
        PROVE  IF helmOps'[j] = None THEN baselines[j] = None /\ bl[j] = None
               ELSE BaselineOf(baselines[j], helmOps'[j]) /\ BaselineOf(bl[j], helmOps'[j])
    <3>1. CASE j = k
      <4>1. helmOps'[j] = new
        BY <1>0, <2>1, <3>1
      <4> QED BY <2>1, <2>4, <2>5, <2>6, <3>1, <4>1 DEF BaselinesSound
    <3>2. CASE j # k
      <4>1. helmOps'[j] = helmOps[j]
        BY <1>0, <2>1, <3>2
      <4> QED BY <2>6, <4>1 DEF BaselinesSound
    <3> QED BY <3>1, <3>2
  <2> QED BY <1>s, <2>1, <2>6 DEF BaselinesSound
<1>6. ASSUME NEW k \in Keys, FleetGenerate(k) \/ \E st \in {"ready", "err"} : FleetRollout(k, st)
      PROVE  BaselinesSound'
  BY <1>u, <1>6 DEF FleetGenerate, FleetRollout, pass
<1>7. ASSUME NEW c \in Components, FleetGitRepo(c) PROVE BaselinesSound'
  <2>1. /\ strategy = "GitOps" /\ pc' = pc
    BY <1>7 DEF FleetGitRepo
  <2>2. \A k \in Keys : bl'[k] \in {None, bl[k]}
    BY <1>7 DEF FleetGitRepo
  <2>3. bl' = [k \in Keys |-> bl'[k]]
    BY <1>7 DEF FleetGitRepo
  <2>4. ASSUME bl = [k \in Keys |-> None] PROVE bl' = [k \in Keys |-> None]
    BY <2>2, <2>3, <2>4
  <2> QED BY <1>s, <2>1, <2>4 DEF BaselinesSound
<1>8. CASE EditSpec \/ DeleteWorkload
  BY <1>u, <1>8 DEF EditSpec, DeleteWorkload, fleet
<1>9. CASE GraceEnds \/ \E c \in Components : RepoChange(c)
  BY <1>u, <1>9 DEF GraceEnds, RepoChange, fleet, pass
<1> QED BY <1>1, <1>2, <1>3, <1>4, <1>5, <1>6, <1>7, <1>8, <1>9 DEF Elsewhere, FleetStep, DeletionStep

LEMMA StatusInvariant == Spec => [](Inv /\ PassIsFresh /\ BaselinesSound)
<1>1. Inv /\ BaselinesSound /\ [Next]_vars => BaselinesSound'
  <2>1. CASE UNCHANGED vars
    BY <2>1 DEF BaselinesSound, vars, static, fleet, pass, BaselineOf
  <2> QED BY <2>1, NextIsEither, BaselinesPass, BaselinesElsewhere
<1> QED BY <1>1, Initially, Inductive, BaselinesInit, FreshStep, PTL DEF Spec

\* Only the end of a pass that nobody disturbed reports the components.
LEMMA Reported ==
  ASSUME Inv, PassIsFresh, Next, status' # status,
         status'.phase = "Running" \/ status'.ready = "Reconciled"
  PROVE  /\ status'.cells = ComponentMatrix(spec)
         /\ status'.phase = "Running" => DerivePhase(ComponentMatrix(spec)) = "Running"
<1>0. status \in StatusType
  BY DEF Inv, StatusShape
<1>1. GuardPhaseTransition("Failed") # "Running"
  BY DEF GuardPhaseTransition
<1>2. ASSUME NEW r, r # "Reconciled",
             status' = [status EXCEPT !.ready = r, !.phase = GuardPhaseTransition("Failed")]
      PROVE  FALSE
  <2>1. status'.ready = r /\ status'.phase = GuardPhaseTransition("Failed")
    BY <1>0, <1>2 DEF StatusType
  <2> QED BY <1>1, <1>2, <2>1
<1>3. ~BlueprintNotFound
  BY <1>2 DEF BlueprintNotFound
<1>4. ASSUME NEW c \in Components, ComponentError(c) PROVE FALSE
  <2>1. ReasonOf(repo[c]) # "Reconciled"
    BY <1>4 DEF ComponentError, ReasonOf, Inv, TypeOK, RepoStates
  <2> QED BY <1>2, <1>4, <2>1 DEF ComponentError, WriteStatus
<1>5. ~CallFails
  BY <1>2 DEF CallFails, WriteStatus
<1>6. FinishPass
  BY <1>3, <1>4, <1>5 DEF Next, PassStep, DeletionStep, FleetStep, PopulateFleetBundleNames,
     BeginPass, EnsureBlueprintHelmOp, EnsureBlueprintGitChartBundle, EnsureBlueprintGitFile,
     RenderDone, CleanupHelmOp, CleanupGitFile, CleanupBundle, BeginDeletion, DeleteBundle,
     RemoveFinalizer, DeleteHelmOp, DeleteGitFile, Crash, FleetGenerate, FleetReject,
     FleetRollout, FleetGitRepo, EditSpec, DeleteWorkload, RepoChange, GraceEnds
<1>7. fresh /\ status' = [phase |-> GuardPhaseTransition(DerivePhase(ComponentMatrix(ps))),
                         ready |-> "Reconciled", cells |-> ComponentMatrix(ps)]
  BY <1>6 DEF FinishPass, WriteStatus
<1>8. ps = spec
  BY <1>6, <1>7 DEF FinishPass, PassIsFresh, Working
<1>9. status'.phase = "Running" => DerivePhase(ComponentMatrix(ps)) = "Running"
  BY <1>7 DEF GuardPhaseTransition
<1> QED BY <1>7, <1>8, <1>9

\* Phase Running is never written for a spec that was edited while the pass ran,
\* nor on Bundles that are older than it (derivePhase, matrixCellPhase, and the
\* resource version of Status().Update).
THEOREM RunningHolds == Spec => RunningIsTrue
<1> DEFINE Claim == status' # status /\ status'.phase = "Running" =>
                      \A k \in DesiredHelmOpKeys(spec) :
                        BundleRenderCurrent(k, Digest(spec)) /\ bundles[k].state = "ready"
<1>1. Inv /\ PassIsFresh /\ [Next]_vars => [Claim]_vars
  <2> SUFFICES ASSUME Inv, PassIsFresh, Next, status' # status, status'.phase = "Running",
                      NEW k \in DesiredHelmOpKeys(spec)
               PROVE  BundleRenderCurrent(k, Digest(spec)) /\ bundles[k].state = "ready"
    OBVIOUS
  <2> DEFINE cells == ComponentMatrix(spec)
  <2>1. DerivePhase(cells) = "Running"
    BY Reported
  <2>2. DOMAIN cells = DesiredHelmOpKeys(spec) /\ cells[k] = MatrixCellPhase(k, Digest(spec))
    BY DEF ComponentMatrix
  <2> HIDE DEF cells
  <2>3. cells[k] = "Running"
    <3>1. {cells[j] : j \in DOMAIN cells} = {"Running"}
      BY <2>1 DEF DerivePhase
    <3> QED BY <2>2, <3>1
  <2>4. bundles[k] # None /\ bundles[k].state # "new"
    BY <2>2, <2>3 DEF MatrixCellPhase
  <2>5. BundleRenderCurrent(k, Digest(spec))
    BY <2>2, <2>3, <2>4 DEF MatrixCellPhase
  <2>6. bundles[k].state = "ready"
    BY <2>2, <2>3, <2>4, <2>5 DEF MatrixCellPhase
  <2> QED BY <2>5, <2>6
<1> QED BY <1>1, StatusInvariant, PTL DEF Spec, RunningIsTrue

\* A cell fails only on the rollout of its current Bundle or on Fleet's rejection
\* of the HelmOp as this attempt rendered it (acceptedFalseTerminal,
\* upsertRenderBaseline): an answer to an older render is never taken for one.
THEOREM FailedIsAnswered == Spec => FailedIsOwnAnswer
<1> DEFINE Claim ==
      \A k \in DOMAIN status'.cells :
         strategy = "FleetBundle" /\ status' # status /\ status'.ready = "Reconciled" /\ status'.cells[k] = "Failed" =>
            \/ BundleRenderCurrent(k, Digest(spec)) /\ bundles[k].state = "err"
            \/ /\ helmOps[k] # None /\ helmOps[k].digest = Digest(spec)
               /\ helmOps[k].accepted = helmOps[k].generation
<1>1. Inv /\ PassIsFresh /\ BaselinesSound /\ [Next]_vars => [Claim]_vars
  <2> SUFFICES ASSUME Inv, PassIsFresh, BaselinesSound, Next, NEW k \in DOMAIN status'.cells,
                      strategy = "FleetBundle", status' # status, status'.ready = "Reconciled",
                      status'.cells[k] = "Failed"
               PROVE  \/ BundleRenderCurrent(k, Digest(spec)) /\ bundles[k].state = "err"
                      \/ /\ helmOps[k] # None /\ helmOps[k].digest = Digest(spec)
                         /\ helmOps[k].accepted = helmOps[k].generation
    OBVIOUS
  <2>1. status'.cells = ComponentMatrix(spec)
    BY Reported
  <2>2. k \in DesiredHelmOpKeys(spec) /\ MatrixCellPhase(k, Digest(spec)) = "Failed"
    BY <2>1 DEF ComponentMatrix
  <2>3. k \in Keys /\ bundles[k] \in Maybe(BundleObjects) /\ helmOps[k] \in Maybe(HelmOpObjects)
    BY <2>2, DesiredType DEF Inv, TypeOK
  <2>4. CASE bundles[k] # None /\ bundles[k].state # "new"
    <3>1. bundles[k].state \in {"ready", "err"}
      BY <2>3, <2>4 DEF Maybe, BundleObjects
    <3> QED BY <2>2, <2>4, <3>1 DEF MatrixCellPhase
  <2>5. CASE ~(bundles[k] # None /\ bundles[k].state # "new")
    <3>1. AcceptedFalseTerminal(k, Digest(spec))
      BY <2>2, <2>5 DEF MatrixCellPhase
    <3>2. helmOps[k] # None /\ BaselineOf(bl[k], helmOps[k])
      BY <2>3, <3>1 DEF BaselinesSound, AcceptedFalseTerminal
    <3> QED BY <3>1, <3>2 DEF AcceptedFalseTerminal, BaselineOf
  <2> QED BY <2>4, <2>5
<1> QED BY <1>1, StatusInvariant, PTL DEF Spec, FailedIsOwnAnswer

-----------------------------------------------------------------------------
(* The refinement of ComponentRollout.                                     *)

\* The keys of a component that a specification with these targets has.
Mine(c) == ps.targets \X {c}

\* What a pass has behind it is deployed as its specification wants it, what is in
\* the way is on its list, and no git-backed component has a HelmOp.
RolloutInv ==
    Operated =>
      /\ \A k \in Keys : Comp(k) \in gitBacked => helmOps[k] = None
      /\ pc = "render" =>
           /\ todo \subseteq Enabled(ps)
           /\ \A k \in DesiredHelmOpKeys(ps) : Comp(k) \notin todo => Objects[k] = Digest(ps)
      /\ pc \in {"clean", "cleanBundle"} =>
           /\ \A k \in DesiredHelmOpKeys(ps) : Objects[k] = Digest(ps)
           /\ \A k \in Keys \ DesiredHelmOpKeys(ps) :
                Comp(k) \in gitBacked \/ Objects[k] = None \/ k \in todo
           /\ \A k \in todo : Comp(k) \notin gitBacked
      /\ pc = "cleanBundle" => Comp(item) \notin gitBacked
      /\ pc = "deleteBundle" => item \in named

\* What a step does to the objects that are deployed.
LEMMA ObjectsStay ==
  ASSUME UNCHANGED <<static, helmOps, bundles>>
  PROVE  Objects' = Objects
<1>1. \A k : Deployed(k)' = Deployed(k)
  BY DEF static, Deployed, Object, Operated
<1> QED BY <1>1 DEF Objects

LEMMA ObjectsOfFiles ==
  ASSUME ~Operated, strategy' = strategy
  PROVE  Objects' = Objects /\ Objects = [k \in Keys |-> None]
<1>1. \A k : Deployed(k)' = None /\ Deployed(k) = None
  BY DEF Deployed, Operated
<1> QED BY <1>1 DEF Objects

LEMMA ApplyDigest ==
  ASSUME NEW ho \in Maybe(HelmOpObjects), NEW d \in Digests
  PROVE  Apply(ho, d) # None /\ Apply(ho, d).digest = d
<1>1. CASE ho = None \/ (ho # None /\ ho.digest = d)
  BY <1>1, ApplyType DEF Apply
<1>2. CASE ho # None /\ ho.digest # d
  <2>1. ho \in HelmOpObjects
    BY <1>2 DEF Maybe
  <2>2. Apply(ho, d) = [ho EXCEPT !.digest = d, !.generation = @ + 1]
    BY <1>2 DEF Apply
  <2> QED BY <2>1, <2>2, ApplyType DEF HelmOpObjects
<1> QED BY <1>1, <1>2

LEMMA ObjectsMade ==
  ASSUME Inv, RolloutInv, NEW c \in Components,
         EnsureBlueprintHelmOp(c) \/ EnsureBlueprintGitChartBundle(c)
  PROVE  /\ Operated /\ pc = "render" /\ c \in todo /\ ps \in Specs
         /\ Mine(c) \subseteq DesiredHelmOpKeys(ps)
         /\ Objects' = [k \in Keys |-> IF k \in Mine(c) THEN Digest(ps) ELSE Objects[k]]
<1>0. /\ Operated /\ pc = "render" /\ c \in todo
      /\ UNCHANGED <<strategy, gitBacked>>
  BY NextIsLeft DEF EnsureBlueprintHelmOp, EnsureBlueprintGitChartBundle, Operated, static
<1>1. /\ helmOps \in [Keys -> Maybe(HelmOpObjects)] /\ bundles \in [Keys -> Maybe(BundleObjects)]
      /\ ps \in Specs /\ Digest(ps) \in Digests /\ c \in Enabled(ps)
  BY <1>0, DigestType DEF Inv, TypeOK, Steps, RolloutInv
<1>2. Mine(c) \subseteq DesiredHelmOpKeys(ps) /\ \A k \in Mine(c) : Comp(k) = c
  BY <1>1 DEF Mine, DesiredHelmOpKeys, Comp
<1>3. ASSUME NEW k \in Keys
      PROVE  Deployed(k)' = IF k \in Mine(c) THEN Digest(ps) ELSE Deployed(k)
  <2>1. CASE EnsureBlueprintHelmOp(c)
    <3>1. c \notin gitBacked /\ bundles' = bundles
      BY <2>1 DEF EnsureBlueprintHelmOp
    <3>2. helmOps'[k] = IF k \in Mine(c) THEN Apply(helmOps[k], Digest(ps)) ELSE helmOps[k]
      BY <2>1 DEF EnsureBlueprintHelmOp, Mine
    <3>3. CASE k \in Mine(c)
      <4>1. helmOps'[k] # None /\ helmOps'[k].digest = Digest(ps)
        BY <1>1, <3>2, <3>3, ApplyDigest
      <4>2. Object(k)' = helmOps'[k]
        BY <1>0, <1>2, <3>1, <3>3 DEF Object
      <4> QED BY <1>0, <3>3, <4>1, <4>2 DEF Deployed, Operated
    <3>4. CASE k \notin Mine(c)
      <4>1. Object(k)' = Object(k)
        BY <1>0, <3>1, <3>2, <3>4 DEF Object
      <4> QED BY <1>0, <3>4, <4>1 DEF Deployed, Operated
    <3> QED BY <3>3, <3>4
  <2>2. CASE EnsureBlueprintGitChartBundle(c)
    <3> DEFINE new == [digest |-> Digest(ps), embedded |-> TRUE, state |-> "new"]
    <3>1. c \in gitBacked /\ helmOps' = helmOps
      BY <2>2 DEF EnsureBlueprintGitChartBundle
    <3>2. bundles'[k] = IF k \notin StaleGitBundles(c) THEN bundles[k] ELSE new
      BY <2>2 DEF EnsureBlueprintGitChartBundle
    <3>3. new \in BundleObjects /\ new.digest = Digest(ps)
      BY <1>1 DEF BundleObjects
    <3>4. new # None
      BY <3>3, NoneAssumption
    <3> HIDE DEF new
    <3>5. CASE k \in Mine(c)
      <4>1. bundles'[k] # None /\ bundles'[k].digest = Digest(ps)
        BY <3>2, <3>3, <3>4, <3>5 DEF StaleGitBundles, Mine, BundleRenderCurrent
      <4>2. Object(k)' = bundles'[k]
        BY <1>0, <1>2, <3>1, <3>5 DEF Object
      <4> QED BY <1>0, <3>5, <4>1, <4>2 DEF Deployed, Operated
    <3>6. CASE k \notin Mine(c)
      <4>1. Object(k)' = Object(k)
        BY <1>0, <3>1, <3>2, <3>6 DEF Object, StaleGitBundles, Mine
      <4> QED BY <1>0, <3>6, <4>1 DEF Deployed, Operated
    <3> QED BY <3>5, <3>6
  <2> QED BY <2>1, <2>2
<1> QED BY <1>0, <1>1, <1>2, <1>3 DEF Objects

\* A HelmOp that is deleted, and Bundles that are deleted behind their HelmOp.
LEMMA ObjectsCleaned ==
  ASSUME Inv, RolloutInv, Operated
  PROVE  /\ \A k \in Keys : CleanupHelmOp(k) =>
              k \in todo /\ Comp(k) \notin gitBacked /\ Objects' = [Objects EXCEPT ![k] = None]
         /\ CleanupBundle => Objects' = Objects
<1>0. helmOps \in [Keys -> Maybe(HelmOpObjects)] /\ bundles \in [Keys -> Maybe(BundleObjects)]
  BY DEF Inv, TypeOK
<1>1. ASSUME NEW k \in Keys, CleanupHelmOp(k)
      PROVE  k \in todo /\ Comp(k) \notin gitBacked /\ Objects' = [Objects EXCEPT ![k] = None]
  <2>1. /\ pc = "clean" /\ k \in todo /\ bundles' = bundles /\ UNCHANGED <<strategy, gitBacked>>
        /\ helmOps' = [helmOps EXCEPT ![k] = None]
    BY <1>1, NextIsLeft DEF CleanupHelmOp, DeleteHelmOpIn, static
  <2>2. Comp(k) \notin gitBacked
    BY <2>1 DEF RolloutInv
  <2>3. ASSUME NEW j \in Keys PROVE Deployed(j)' = IF j = k THEN None ELSE Deployed(j)
    <3>1. Object(j)' = IF j = k THEN None ELSE Object(j)
      BY <1>0, <2>1, <2>2 DEF Object
    <3> QED BY <2>1, <3>1 DEF Deployed, Operated
  <2> QED BY <2>1, <2>2, <2>3 DEF Objects
<1>2. ASSUME CleanupBundle PROVE Objects' = Objects
  <2>1. /\ pc = "cleanBundle" /\ helmOps' = helmOps /\ UNCHANGED <<strategy, gitBacked>>
        /\ bundles' = [bundles EXCEPT ![item] = None]
    BY <1>2 DEF CleanupBundle, static
  <2>2. Comp(item) \notin gitBacked
    BY <2>1 DEF RolloutInv
  <2>3. ASSUME NEW j \in Keys PROVE Deployed(j)' = Deployed(j)
    <3>1. Object(j)' = Object(j)
      BY <1>0, <2>1, <2>2 DEF Object
    <3> QED BY <2>1, <3>1 DEF Deployed, Operated
  <2> QED BY <2>3 DEF Objects
<1> QED BY <1>1, <1>2

LEMMA ObjectsDeleted ==
  ASSUME Inv, RolloutInv, Operated
  PROVE  /\ \A c \in Components : DeleteHelmOp(c) =>
              /\ c \in named
              /\ \E S \in SUBSET {k \in Keys : Comp(k) \in named} :
                   Objects' = [k \in Keys |-> IF k \in S THEN None ELSE Objects[k]]
         /\ DeleteBundle =>
              \E S \in SUBSET {k \in Keys : Comp(k) \in named} :
                Objects' = [k \in Keys |-> IF k \in S THEN None ELSE Objects[k]]
<1>1. ASSUME NEW c \in Components, DeleteHelmOp(c)
      PROVE  /\ c \in named
             /\ \E S \in SUBSET {k \in Keys : Comp(k) \in named} :
                  Objects' = [k \in Keys |-> IF k \in S THEN None ELSE Objects[k]]
  <2>1. /\ c \in named /\ bundles' = bundles /\ UNCHANGED <<strategy, gitBacked>>
        /\ helmOps' = [k \in Keys |-> IF Comp(k) = c THEN None ELSE helmOps[k]]
    BY <1>1, NextIsLeft DEF DeleteHelmOp, static, Inv, Steps
  <2> DEFINE S == {k \in Keys : Comp(k) = c /\ c \notin gitBacked}
  <2>2. ASSUME NEW k \in Keys PROVE Deployed(k)' = IF k \in S THEN None ELSE Deployed(k)
    <3>1. Object(k)' = IF k \in S THEN None ELSE Object(k)
      BY <2>1 DEF Object
    <3> HIDE DEF S
    <3> QED BY <2>1, <3>1 DEF Deployed, Operated
  <2>3. Objects' = [k \in Keys |-> IF k \in S THEN None ELSE Objects[k]]
    <3> HIDE DEF S
    <3> QED BY <2>2 DEF Objects
  <2>4. S \in SUBSET {k \in Keys : Comp(k) \in named}
    BY <2>1
  <2> HIDE DEF S
  <2> QED BY <2>1, <2>3, <2>4
<1>2. ASSUME DeleteBundle
      PROVE  \E S \in SUBSET {k \in Keys : Comp(k) \in named} :
                Objects' = [k \in Keys |-> IF k \in S THEN None ELSE Objects[k]]
  <2>1. /\ item \in named /\ helmOps' = helmOps /\ UNCHANGED <<strategy, gitBacked>>
        /\ bundles' = [k \in Keys |-> IF Comp(k) = item THEN None ELSE bundles[k]]
    BY <1>2 DEF DeleteBundle, BundlesWithout, static, RolloutInv
  <2> DEFINE S == {k \in Keys : Comp(k) = item /\ item \in gitBacked}
  <2>2. ASSUME NEW k \in Keys PROVE Deployed(k)' = IF k \in S THEN None ELSE Deployed(k)
    <3>1. Object(k)' = IF k \in S THEN None ELSE Object(k)
      BY <2>1 DEF Object
    <3> HIDE DEF S
    <3> QED BY <2>1, <3>1 DEF Deployed, Operated
  <2>3. Objects' = [k \in Keys |-> IF k \in S THEN None ELSE Objects[k]]
    <3> HIDE DEF S
    <3> QED BY <2>2 DEF Objects
  <2>4. S \in SUBSET {k \in Keys : Comp(k) \in named}
    BY <2>1
  <2> HIDE DEF S
  <2> QED BY <2>3, <2>4
<1> QED BY <1>1, <1>2

\* Fleet makes and rolls out Bundles of HelmOps: no object comes or goes.
LEMMA ObjectsAtFleet ==
  ASSUME Inv, RolloutInv, Operated, FleetStep
  PROVE  /\ Objects' = Objects
         /\ \A k \in Keys : helmOps[k] = None => helmOps'[k] = None
<1>0. helmOps \in [Keys -> Maybe(HelmOpObjects)] /\ bundles \in [Keys -> Maybe(BundleObjects)]
  BY DEF Inv, TypeOK
<1>1. ASSUME NEW k \in Keys, FleetGenerate(k)
      PROVE  Objects' = Objects /\ helmOps' = helmOps
  <2>1. /\ Comp(k) \notin gitBacked /\ helmOps' = helmOps /\ UNCHANGED <<strategy, gitBacked>>
        /\ \A j \in Keys \ {k} : bundles'[j] = bundles[j]
    BY <1>0, <1>1 DEF FleetGenerate, RolloutInv, static
  <2>2. \A j \in Keys : Deployed(j)' = Deployed(j)
    BY <2>1 DEF Deployed, Object, Operated
  <2> QED BY <2>1, <2>2 DEF Objects
<1>2. ASSUME NEW k \in Keys, FleetReject(k)
      PROVE  Objects' = Objects /\ \A j \in Keys : helmOps[j] = None => helmOps'[j] = None
  <2> DEFINE new == [helmOps[k] EXCEPT !.accepted = helmOps[k].generation]
  <2>1. /\ helmOps[k] # None /\ helmOps' = [helmOps EXCEPT ![k] = new]
        /\ bundles' = bundles /\ UNCHANGED <<strategy, gitBacked>>
    BY <1>2 DEF FleetReject, static
  <2>2. helmOps[k] \in HelmOpObjects
    BY <1>0, <2>1 DEF Maybe
  <2>3. new \in HelmOpObjects /\ new.digest = helmOps[k].digest
    BY <2>2 DEF HelmOpObjects
  <2>4. new # None
    BY <2>3, NoneAssumption
  <2> HIDE DEF new
  <2>5. \A j \in Keys : helmOps'[j] = IF j = k THEN new ELSE helmOps[j]
    BY <1>0, <2>1
  <2>6. \A j \in Keys : Deployed(j)' = Deployed(j)
    BY <2>1, <2>3, <2>4, <2>5 DEF Deployed, Object, Operated
  <2> QED BY <2>1, <2>5, <2>6 DEF Objects
<1>3. ASSUME NEW k \in Keys, NEW state \in {"ready", "err"}, FleetRollout(k, state)
      PROVE  Objects' = Objects /\ helmOps' = helmOps
  <2> DEFINE new == [bundles[k] EXCEPT !.state = state]
  <2>1. /\ bundles[k] # None /\ bundles' = [bundles EXCEPT ![k] = new]
        /\ helmOps' = helmOps /\ UNCHANGED <<strategy, gitBacked>>
    BY <1>3 DEF FleetRollout, static
  <2>2. bundles[k] \in BundleObjects
    BY <1>0, <2>1 DEF Maybe
  <2>3. new \in BundleObjects /\ new.digest = bundles[k].digest
    BY <2>2 DEF BundleObjects
  <2>4. new # None
    BY <2>3, NoneAssumption
  <2> HIDE DEF new
  <2>5. \A j \in Keys : bundles'[j] = IF j = k THEN new ELSE bundles[j]
    BY <1>0, <2>1
  <2>6. \A j \in Keys : Deployed(j)' = Deployed(j)
    BY <2>1, <2>3, <2>4, <2>5 DEF Deployed, Object, Operated
  <2> QED BY <2>1, <2>6 DEF Objects
<1> QED BY <1>1, <1>2, <1>3 DEF FleetStep, FleetGitRepo, Operated

LEMMA RolloutInit == Init => RolloutInv
<1> SUFFICES ASSUME Init PROVE RolloutInv
  OBVIOUS
<1>1. pc = "idle" /\ helmOps = [k \in Keys |-> None]
  BY DEF Init, NoPass
<1> QED BY <1>1 DEF RolloutInv

\* With GitOps, and between passes, there is little to show.
LEMMA RolloutIdle ==
  ASSUME RolloutInv, UNCHANGED static, pc' \in {"idle", "delete"},
         Operated => \A k \in Keys : helmOps[k] = None => helmOps'[k] = None
  PROVE  RolloutInv'
BY DEF RolloutInv, Operated, static

LEMMA RolloutFiles ==
  ASSUME strategy' = strategy, ~Operated PROVE RolloutInv'
BY DEF RolloutInv, Operated

\* A step that leaves the pass alone and no object comes or goes.
LEMMA RolloutStay ==
  ASSUME RolloutInv, UNCHANGED <<static, named, pc, ps, todo, item>>,
         Operated => /\ Objects' = Objects
                     /\ \A k \in Keys : helmOps[k] = None => helmOps'[k] = None
  PROVE  RolloutInv'
<1>1. /\ Enabled(ps)' = Enabled(ps) /\ DesiredHelmOpKeys(ps)' = DesiredHelmOpKeys(ps)
      /\ Digest(ps)' = Digest(ps)
  BY DEF static, Enabled, DesiredHelmOpKeys, Digest
<1> QED BY <1>1 DEF RolloutInv, Operated, static

LEMMA RolloutPass ==
  ASSUME Inv, RolloutInv, PassStep PROVE RolloutInv'
<1>0. UNCHANGED static
  BY DEF PassStep, BlueprintNotFound, PopulateFleetBundleNames, BeginPass, ComponentError,
     EnsureBlueprintHelmOp, EnsureBlueprintGitChartBundle, EnsureBlueprintGitFile, RenderDone,
     CleanupHelmOp, CleanupGitFile, CleanupBundle, FinishPass
<1> SUFFICES ASSUME Operated PROVE RolloutInv'
  BY <1>0, RolloutFiles DEF static
<1>o. Operated' /\ gitBacked' = gitBacked
  BY <1>0 DEF Operated, static
<1>t. /\ helmOps \in [Keys -> Maybe(HelmOpObjects)] /\ bundles \in [Keys -> Maybe(BundleObjects)]
      /\ spec \in Specs
      /\ pc \in {"render", "clean", "cleanBundle"} => ps \in Specs
  BY DEF Inv, TypeOK, Steps
<1>d. ASSUME ps' = ps
      PROVE  /\ Enabled(ps)' = Enabled(ps) /\ DesiredHelmOpKeys(ps)' = DesiredHelmOpKeys(ps)
             /\ Digest(ps)' = Digest(ps)
  BY <1>0, <1>d DEF static, Enabled, DesiredHelmOpKeys, Digest
<1>1. CASE BlueprintNotFound \/ PopulateFleetBundleNames
  <2>1. pc' = "idle" /\ helmOps' = helmOps
    BY <1>1 DEF BlueprintNotFound, PopulateFleetBundleNames, pass, fleet
  <2> QED BY <1>0, <2>1, RolloutIdle
<1>2. CASE BeginPass
  <2>1. pc' = "render" /\ helmOps' = helmOps /\ ps' = spec /\ todo' = Enabled(spec)
    BY <1>2 DEF BeginPass, fleet
  <2>2. Enabled(ps)' = Enabled(spec) /\ DesiredHelmOpKeys(ps)' = DesiredHelmOpKeys(spec)
    BY <1>0, <2>1 DEF static, Enabled, DesiredHelmOpKeys
  <2>3. \A k \in DesiredHelmOpKeys(spec) : Comp(k) \in Enabled(spec)
    BY DEF DesiredHelmOpKeys, Comp
  <2> QED BY <1>o, <2>1, <2>2, <2>3 DEF RolloutInv
<1>3. CASE FinishPass \/ \E c \in Components : ComponentError(c)
  <2>1. pc' = "idle" /\ helmOps' = helmOps
    BY <1>3 DEF FinishPass, ComponentError, EndPass, fleet
  <2> QED BY <1>0, <2>1, RolloutIdle
<1>4. ASSUME NEW c \in Components,
             EnsureBlueprintHelmOp(c) \/ EnsureBlueprintGitChartBundle(c)
      PROVE  RolloutInv'
  <2>1. /\ pc = "render" /\ Mine(c) \subseteq DesiredHelmOpKeys(ps) /\ ps \in Specs
        /\ Objects' = [k \in Keys |-> IF k \in Mine(c) THEN Digest(ps) ELSE Objects[k]]
    BY <1>4, ObjectsMade
  <2>2. pc' = "render" /\ ps' = ps /\ todo' = todo \ {c}
    BY <1>4, <2>1 DEF EnsureBlueprintHelmOp, EnsureBlueprintGitChartBundle
  <2>3. \A k \in Keys : Comp(k) \in gitBacked => helmOps'[k] = None
    <3>1. CASE EnsureBlueprintGitChartBundle(c)
      BY <3>1 DEF EnsureBlueprintGitChartBundle, RolloutInv
    <3>2. CASE EnsureBlueprintHelmOp(c)
      <4>1. \A k \in Mine(c) : Comp(k) = c
        BY DEF Mine, Comp
      <4> QED BY <3>2, <4>1 DEF EnsureBlueprintHelmOp, RolloutInv, Mine
    <3> QED BY <1>4, <3>1, <3>2
  <2>4. DesiredHelmOpKeys(ps) \subseteq Keys
        /\ \A k \in DesiredHelmOpKeys(ps) : Comp(k) = c => k \in Mine(c)
    BY <2>1, DesiredType DEF DesiredHelmOpKeys, Mine, Comp, Inv
  <2>5. ASSUME NEW k \in DesiredHelmOpKeys(ps), Comp(k) \notin todo \ {c}
        PROVE  Objects'[k] = Digest(ps)
    <3>1. k \in Keys /\ (k \in Mine(c) \/ Objects[k] = Digest(ps))
      BY <2>1, <2>4, <2>5 DEF RolloutInv
    <3> QED BY <2>1, <3>1
  <2>6. todo \ {c} \subseteq Enabled(ps)
    BY <2>1 DEF RolloutInv
  <2> QED BY <1>o, <1>d, <2>2, <2>3, <2>5, <2>6 DEF RolloutInv
<1>5. CASE RenderDone
  <2>1. /\ pc = "render" /\ todo = {} /\ pc' = "clean" /\ ps' = ps /\ todo' = StaleHelmOps
        /\ helmOps' = helmOps /\ bundles' = bundles
    BY <1>5 DEF RenderDone, fleet
  <2>2. Objects' = Objects
    BY <1>0, <2>1, ObjectsStay
  <2>3. \A k \in DesiredHelmOpKeys(ps) : Objects[k] = Digest(ps)
    BY <2>1 DEF RolloutInv
  <2>4. ASSUME NEW k \in Keys \ DesiredHelmOpKeys(ps)
        PROVE  Comp(k) \in gitBacked \/ Objects[k] = None \/ k \in StaleHelmOps
    BY DEF StaleHelmOps, Objects, Deployed, Object
  <2>5. \A k \in StaleHelmOps : Comp(k) \notin gitBacked
    BY DEF StaleHelmOps, RolloutInv
  <2> QED BY <1>o, <1>d, <2>1, <2>2, <2>3, <2>4, <2>5 DEF RolloutInv
<1>6. ASSUME NEW k \in Keys, CleanupHelmOp(k) PROVE RolloutInv'
  <2>1. k \in todo /\ Comp(k) \notin gitBacked /\ Objects' = [Objects EXCEPT ![k] = None]
    BY <1>6, ObjectsCleaned
  <2>2. /\ pc = "clean" /\ pc' = "cleanBundle" /\ ps' = ps /\ todo' = todo \ {k} /\ item' = k
        /\ helmOps' = [helmOps EXCEPT ![k] = None]
    BY <1>6 DEF CleanupHelmOp, DeleteHelmOpIn
  <2>3. k \notin DesiredHelmOpKeys(ps) /\ DesiredHelmOpKeys(ps) \subseteq Keys
    BY <1>t, <2>1, <2>2, DesiredType DEF Inv, Steps
  <2>4. \A j \in Keys : Comp(j) \in gitBacked => helmOps'[j] = None
    BY <1>t, <2>2 DEF RolloutInv
  <2>5. \A j \in Keys : Objects'[j] = IF j = k THEN None ELSE Objects[j]
    BY <2>1 DEF Objects
  <2> QED BY <1>o, <1>d, <2>1, <2>2, <2>3, <2>4, <2>5 DEF RolloutInv
<1>7. CASE CleanupBundle
  <2>1. /\ pc = "cleanBundle" /\ pc' = "clean" /\ ps' = ps /\ todo' = todo /\ helmOps' = helmOps
    BY <1>7 DEF CleanupBundle
  <2>2. Objects' = Objects
    BY <1>7, ObjectsCleaned
  <2> QED BY <1>o, <1>d, <2>1, <2>2 DEF RolloutInv
<1> QED BY <1>1, <1>2, <1>3, <1>4, <1>5, <1>6, <1>7 DEF PassStep, EnsureBlueprintGitFile,
           CleanupGitFile, Operated

LEMMA RolloutElsewhere ==
  ASSUME Inv, RolloutInv, Elsewhere PROVE RolloutInv'
<1>0. UNCHANGED static
  BY DEF Elsewhere, DeletionStep, FleetStep, BeginDeletion, DeleteBundle, RemoveFinalizer,
     DeleteHelmOp, DeleteGitFile, Crash, CallFails, FleetGenerate, FleetReject, FleetRollout,
     FleetGitRepo, EditSpec, DeleteWorkload, RepoChange, GraceEnds
<1> SUFFICES ASSUME Operated PROVE RolloutInv'
  BY <1>0, RolloutFiles DEF static
<1>1. CASE BeginDeletion \/ RemoveFinalizer \/ Crash \/ CallFails
           \/ \E c \in Components : DeleteGitFile(c)
  <2>1. pc' \in {"idle", "delete"} /\ helmOps' = helmOps
    BY <1>1 DEF BeginDeletion, RemoveFinalizer, Crash, CallFails, DeleteGitFile, EndPass, fleet
  <2> QED BY <1>0, <2>1, RolloutIdle
<1>2. ASSUME NEW c \in Components, DeleteHelmOp(c) PROVE RolloutInv'
  <2>1. c \in named
    BY <1>2, ObjectsDeleted
  <2>2. /\ pc' = "deleteBundle" /\ item' = c /\ named' = named
        /\ helmOps' = [k \in Keys |-> IF Comp(k) = c THEN None ELSE helmOps[k]]
    BY <1>2 DEF DeleteHelmOp, object
  <2>3. \A k \in Keys : helmOps[k] = None => helmOps'[k] = None
    BY <2>2
  <2> QED BY <1>0, <2>1, <2>2, <2>3 DEF RolloutInv, Operated, static
<1>3. CASE DeleteBundle
  <2>1. pc' = "delete" /\ helmOps' = helmOps
    BY <1>3 DEF DeleteBundle
  <2> QED BY <1>0, <2>1, RolloutIdle
<1>4. CASE FleetStep
  <2>1. UNCHANGED <<named, pc, ps, todo, item>>
    BY <1>4 DEF FleetStep, FleetGenerate, FleetReject, FleetRollout, FleetGitRepo, object, pass
  <2> QED BY <1>0, <1>4, <2>1, ObjectsAtFleet, RolloutStay
<1>5. CASE EditSpec \/ DeleteWorkload \/ GraceEnds \/ \E c \in Components : RepoChange(c)
  <2>1. UNCHANGED <<named, pc, ps, todo, item, helmOps, bundles>>
    BY <1>5 DEF EditSpec, DeleteWorkload, GraceEnds, RepoChange, object, pass, fleet
  <2> QED BY <1>0, <2>1, ObjectsStay, RolloutStay
<1> QED BY <1>1, <1>2, <1>3, <1>4, <1>5 DEF Elsewhere, DeletionStep

LEMMA RolloutStep == Inv /\ RolloutInv /\ [Next]_vars => RolloutInv'
<1> SUFFICES ASSUME Inv, RolloutInv, [Next]_vars PROVE RolloutInv'
  OBVIOUS
<1>1. CASE UNCHANGED vars
  <2>1. UNCHANGED <<static, named, pc, ps, todo, item, helmOps, bundles>>
    BY <1>1 DEF vars, object, pass, fleet
  <2> QED BY <2>1, ObjectsStay, RolloutStay
<1> QED BY <1>1, NextIsEither, RolloutPass, RolloutElsewhere

-----------------------------------------------------------------------------
\* The table of a specification has its desired keys.
LEMMA TableOf ==
  ASSUME TypeOK, NEW s \in Specs
  PROVE  /\ Table(s) \in Rollout!Tables /\ Rollout!In(Table(s)) = DesiredHelmOpKeys(s)
         /\ \A k \in DesiredHelmOpKeys(s) : Table(s)[k] = Digest(s)
<1>1. Digest(s) \in Digests /\ Digest(s) # None
  BY DigestType, NoneAssumption
<1>2. DesiredHelmOpKeys(s) \subseteq Keys
  BY DesiredType
<1> QED BY <1>1, <1>2 DEF Table, Rollout!Tables, Rollout!In

\* What of the abstract state a step leaves alone.
LEMMA Unseen ==
  ASSUME UNCHANGED static
  PROVE  /\ Lasting' = Lasting
         /\ spec' = spec => Table(spec)' = Table(spec)
         /\ ps' = ps => Table(ps)' = Table(ps)
         /\ UNCHANGED <<pc, ps>> => Working' = Working /\ Plan' = Plan
         /\ ~Working /\ ~Working' => Working' = Working /\ Plan' = Plan
         /\ status' = status => LastReport' = LastReport
         /\ named' = named => Recorded' = Recorded
BY DEF static, Lasting, Table, DesiredHelmOpKeys, Enabled, Digest, Working, Plan, LastReport,
   Operated, Recorded

LEMMA Stutters ==
  ASSUME UNCHANGED <<static, object, status>>, Objects' = Objects,
         Working' = Working, Plan' = Plan
  PROVE  UNCHANGED Rollout!vars
BY Unseen DEF object, Rollout!vars, Rollout!objects, Rollout!pass, Rollout!deletion

\* A pass that ends without a new report.
LEMMA Abandons ==
  ASSUME UNCHANGED <<static, spec, named, deleting, gone, helmOps, bundles>>, Working, EndPass,
         LastReport' \in {LastReport, None}
  PROVE  Rollout!Abandon
<1>1. ~Working' /\ Plan' = [k \in Keys |-> None] /\ Working \in BOOLEAN
  BY DEF EndPass, Working, Plan
<1>2. Objects' = Objects
  BY ObjectsStay
<1> QED BY <1>1, <1>2, Unseen DEF Rollout!Abandon, Rollout!EndPass, Rollout!Nothing,
           Rollout!objects, Rollout!deletion, Working, EndPass

\* A status that calls the pass something else than reconciled, or the old one.
LEMMA NoReport ==
  ASSUME Inv, strategy' = strategy,
         \/ status' = status
         \/ \E r, p : r # "Reconciled" /\ status' = [status EXCEPT !.ready = r, !.phase = p]
  PROVE  LastReport' \in {LastReport, None}
<1>1. status \in StatusType
  BY DEF Inv, StatusShape
<1>2. status' = status \/ status'.ready # "Reconciled"
  BY <1>1 DEF StatusType
<1> QED BY <1>2 DEF LastReport, Operated

LEMMA MapPass ==
  ASSUME Inv, PassIsFresh, RolloutInv, PassStep
  PROVE  [Rollout!Next]_(Rollout!vars)
<1>0. UNCHANGED static
  BY DEF PassStep, BlueprintNotFound, PopulateFleetBundleNames, BeginPass, ComponentError,
     EnsureBlueprintHelmOp, EnsureBlueprintGitChartBundle, EnsureBlueprintGitFile, RenderDone,
     CleanupHelmOp, CleanupGitFile, CleanupBundle, FinishPass
<1>t. /\ TypeOK /\ Steps /\ spec \in Specs /\ named \subseteq Components
      /\ Working => ps \in Specs /\ Plan = Table(ps)
  BY DEF Inv, TypeOK, Steps, Working, Plan
<1> USE DEF Rollout!Next
<1>1. CASE BlueprintNotFound
  <2>1. /\ ~Working /\ ~Working' /\ UNCHANGED <<object, helmOps, bundles>>
        /\ status' = [status EXCEPT !.ready = "BlueprintNotFound",
                                    !.phase = GuardPhaseTransition("Failed")]
    BY <1>1 DEF BlueprintNotFound, pass, fleet, Working
  <2>2. LastReport' = None
    BY <2>1 DEF LastReport, Inv, StatusShape, StatusType
  <2>3. Objects' = Objects
    BY <1>0, <2>1, ObjectsStay
  <2>4. Rollout!Retract
    BY <1>0, <2>1, <2>2, <2>3, Unseen DEF Rollout!Retract, Rollout!objects, Rollout!deletion, object
  <2> QED BY <2>4
<1>2. CASE PopulateFleetBundleNames
  <2>1. /\ ~Working /\ ~Working' /\ ~deleting /\ named = {}
        /\ UNCHANGED <<spec, deleting, gone, status, helmOps, bundles>>
    BY <1>2 DEF PopulateFleetBundleNames, pass, fleet, Working
  <2>2. Objects' = Objects
    BY <1>0, <2>1, ObjectsStay
  <2>3. Recorded = {} /\ Recorded' \subseteq Keys
    BY <2>1 DEF Recorded
  <2>4. Rollout!Record
    BY <1>0, <2>1, <2>2, <2>3, Unseen DEF Rollout!Record, Rollout!objects, Rollout!pass
  <2> QED BY <2>4
<1>3. CASE BeginPass
  <2>1. /\ pc = "idle" /\ pc' = "render" /\ ps' = spec /\ ~deleting /\ named # {}
        /\ UNCHANGED <<object, status, helmOps, bundles>>
    BY <1>3 DEF BeginPass, fleet
  <2>2. Objects' = Objects
    BY <1>0, <2>1, ObjectsStay
  <2>3. ~Working /\ Working' = TRUE /\ Plan' = Table(spec)
    BY <1>0, <2>1 DEF Working, Plan, Table, static, DesiredHelmOpKeys, Enabled, Digest
  <2>4. Recorded # {}
    <3>1. PICK c \in named : c \in Components
      BY <1>t, <2>1
    <3>2. <<"fleet-local", c>> \in Recorded
      BY <3>1 DEF Recorded, Keys, Spaces, Comp
    <3> QED BY <3>2
  <2>5. Rollout!Begin
    BY <1>0, <2>1, <2>2, <2>3, <2>4, Unseen DEF Rollout!Begin, Rollout!objects, Rollout!deletion,
       object
  <2> QED BY <2>5
<1>4. ASSUME NEW c \in Components, ComponentError(c) PROVE Rollout!Abandon
  <2>1. /\ Working /\ EndPass /\ UNCHANGED <<spec, named, deleting, gone, helmOps, bundles>>
    BY <1>4 DEF ComponentError, Working, object, fleet
  <2>2. ReasonOf(repo[c]) # "Reconciled"
    BY <1>4 DEF ComponentError, ReasonOf, Inv, TypeOK, RepoStates
  <2>3. LastReport' \in {LastReport, None}
    <3>1. \/ status' = status
          \/ status' = [status EXCEPT !.ready = ReasonOf(repo[c]), !.phase = GuardPhaseTransition("Failed")]
      BY <1>4 DEF ComponentError, WriteStatus
    <3> QED BY <1>0, <2>2, <3>1, NoReport DEF static
  <2> QED BY <1>0, <2>1, <2>3, Abandons
<1>5. ASSUME NEW c \in Components,
             EnsureBlueprintHelmOp(c) \/ EnsureBlueprintGitChartBundle(c)
      PROVE  Rollout!Deploy
  <2>1. /\ Working /\ UNCHANGED <<object, status, pc, ps>>
    BY <1>5 DEF EnsureBlueprintHelmOp, EnsureBlueprintGitChartBundle, Working
  <2>2. /\ Mine(c) \subseteq DesiredHelmOpKeys(ps)
        /\ Objects' = [k \in Keys |-> IF k \in Mine(c) THEN Digest(ps) ELSE Objects[k]]
    BY <1>5, ObjectsMade
  <2>3. /\ Rollout!In(Plan) = DesiredHelmOpKeys(ps)
        /\ \A k \in DesiredHelmOpKeys(ps) : Plan[k] = Digest(ps)
    BY <1>t, <2>1, TableOf
  <2>4. Mine(c) \in SUBSET Rollout!In(Plan)
    BY <2>2, <2>3
  <2>5. Objects' = [k \in Keys |-> IF k \in Mine(c) THEN Plan[k] ELSE Objects[k]]
    BY <2>2, <2>3
  <2>6. \E S \in SUBSET Rollout!In(Plan) :
          Objects' = [k \in Keys |-> IF k \in S THEN Plan[k] ELSE Objects[k]]
    BY <2>4, <2>5
  <2> QED BY <1>0, <2>1, <2>6, Unseen DEF Rollout!Deploy, Rollout!pass, Rollout!deletion, object
<1>6. ASSUME NEW c \in Components, EnsureBlueprintGitFile(c)
      PROVE  Rollout!Abandon \/ UNCHANGED Rollout!vars
  <2>1. /\ Working
        /\ UNCHANGED <<spec, named, deleting, gone, status, helmOps, bundles>>
        /\ EndPass \/ UNCHANGED <<pc, ps>>
    BY <1>6 DEF EnsureBlueprintGitFile, PublishBlueprintGitFile, Working
  <2>2. Objects' = Objects /\ LastReport' = LastReport
    BY <1>0, <2>1, ObjectsStay, Unseen
  <2>3. CASE EndPass
    BY <1>0, <2>1, <2>2, <2>3, Abandons
  <2>4. CASE UNCHANGED <<pc, ps>>
    BY <1>0, <2>1, <2>2, <2>4, Unseen DEF Rollout!vars, Rollout!objects, Rollout!pass,
       Rollout!deletion
  <2> QED BY <2>1, <2>3, <2>4
<1>7. CASE RenderDone
  <2>1. UNCHANGED <<object, status, ps, helmOps, bundles>> /\ Working /\ Working'
    BY <1>7 DEF RenderDone, fleet, Working
  <2>2. Working' = Working /\ Plan' = Plan
    BY <1>0, <2>1, Unseen DEF Plan, Working
  <2> QED BY <1>0, <2>1, <2>2, ObjectsStay, Stutters
<1>8. ASSUME NEW k \in Keys, CleanupHelmOp(k) PROVE Rollout!Withdraw
  <2>1. Operated /\ pc = "clean" /\ pc' = "cleanBundle" /\ UNCHANGED <<object, status, ps>>
    BY <1>8 DEF CleanupHelmOp, Operated
  <2>2. Working' = Working /\ Plan' = Plan /\ Working
    BY <1>0, <2>1, Unseen DEF Plan, Working
  <2>3. k \in todo /\ Comp(k) \notin gitBacked /\ Objects' = [Objects EXCEPT ![k] = None]
    BY <1>8, <2>1, ObjectsCleaned
  <2>4. k \notin DesiredHelmOpKeys(ps)
    BY <1>t, <2>1, <2>3 DEF Steps
  <2>5. k \in Keys \ (Rollout!In(Plan) \cup Lasting)
    BY <1>t, <2>2, <2>3, <2>4, TableOf DEF Lasting
  <2> QED BY <1>0, <2>1, <2>2, <2>3, <2>5, Unseen DEF Rollout!Withdraw, Rollout!pass,
             Rollout!deletion, object
<1>9. ASSUME NEW k \in Keys, CleanupGitFile(k) PROVE UNCHANGED Rollout!vars
  <2>1. UNCHANGED <<object, status, pc, ps, helmOps, bundles>>
    BY <1>9 DEF CleanupGitFile
  <2> QED BY <1>0, <2>1, ObjectsStay, Unseen, Stutters
<1>10. CASE CleanupBundle
  <2>1. /\ pc = "cleanBundle" /\ pc' = "clean" /\ UNCHANGED <<object, status, ps>>
    BY <1>10 DEF CleanupBundle
  <2>2. Working' = Working /\ Plan' = Plan
    BY <1>0, <2>1, Unseen DEF Plan, Working
  <2>3. Objects' = Objects
    BY <1>0, <1>10, ObjectsCleaned, ObjectsOfFiles DEF static
  <2> QED BY <1>0, <2>1, <2>2, <2>3, Stutters
<1>11. CASE FinishPass
  <2>1. /\ pc = "clean" /\ todo = {} /\ Working /\ EndPass
        /\ UNCHANGED <<object, helmOps, bundles>>
    BY <1>11 DEF FinishPass, Working, fleet
  <2>2. CASE ~Operated \/ ~fresh
    <3>1. LastReport' \in {LastReport, None}
      <4>1. CASE ~Operated
        BY <1>0, <4>1 DEF LastReport, Operated, static
      <4>2. CASE ~fresh
        BY <1>0, <1>11, <4>2, Unseen DEF FinishPass, WriteStatus
      <4> QED BY <2>2, <4>1, <4>2
    <3> QED BY <1>0, <2>1, <3>1, Abandons DEF object
  <2>3. CASE Operated /\ fresh
    <3>1. ps = spec /\ Plan = Table(spec)
      BY <1>t, <2>1, <2>3 DEF PassIsFresh
    <3>2. /\ Rollout!In(Table(spec)) = DesiredHelmOpKeys(spec)
          /\ \A k \in DesiredHelmOpKeys(spec) : Table(spec)[k] = Digest(spec)
      BY <1>t, TableOf
    <3>3. /\ \A k \in Rollout!In(Plan) : Objects[k] = Plan[k]
          /\ \A k \in Keys \ Rollout!In(Plan) : Objects[k] = None \/ k \in Lasting
      BY <2>1, <2>3, <3>1, <3>2 DEF RolloutInv, Lasting
    <3>4. LastReport' = ComponentMatrix(ps)
      <4>1. status' = [phase |-> GuardPhaseTransition(DerivePhase(ComponentMatrix(ps))),
                       ready |-> "Reconciled", cells |-> ComponentMatrix(ps)]
        BY <1>11, <2>3 DEF FinishPass, WriteStatus
      <4> QED BY <1>0, <2>3, <4>1 DEF LastReport, Operated, static
    <3>5. LastReport' \in [Rollout!In(Table(spec)) -> Phases]
      BY <3>1, <3>2, <3>4 DEF ComponentMatrix, MatrixCellPhase, Phases
    <3>6. Working' = FALSE /\ Plan' = [k \in Keys |-> None]
      BY <2>1 DEF EndPass, Working, Plan
    <3>7. Objects' = Objects
      BY <1>0, <2>1, ObjectsStay
    <3>8. Rollout!Report
      BY <1>0, <2>1, <3>1, <3>3, <3>5, <3>6, <3>7, Unseen DEF Rollout!Report, Rollout!EndPass,
         Rollout!Nothing, Rollout!Complete, Rollout!objects, Rollout!deletion, object
    <3> QED BY <3>8
  <2> QED BY <2>2, <2>3
<1> HIDE DEF Rollout!Next
<1> QED BY <1>1, <1>2, <1>3, <1>4, <1>5, <1>6, <1>7, <1>8, <1>9, <1>10, <1>11
        DEF PassStep, Rollout!Next

LEMMA MapElsewhere ==
  ASSUME Inv, Inv', RolloutInv, Elsewhere
  PROVE  [Rollout!Next]_(Rollout!vars)
<1>0. UNCHANGED static
  BY DEF Elsewhere, DeletionStep, FleetStep, BeginDeletion, DeleteBundle, RemoveFinalizer,
     DeleteHelmOp, DeleteGitFile, Crash, CallFails, FleetGenerate, FleetReject, FleetRollout,
     FleetGitRepo, EditSpec, DeleteWorkload, RepoChange, GraceEnds
<1>t. TypeOK /\ Steps
  BY DEF Inv
<1>1. CASE BeginDeletion \/ \E c \in Components : DeleteGitFile(c)
  <2>1. /\ ~Working /\ ~Working' /\ UNCHANGED <<object, status, helmOps, bundles>>
    BY <1>1 DEF BeginDeletion, DeleteGitFile, fleet, Working
  <2> QED BY <1>0, <2>1, ObjectsStay, Unseen, Stutters
<1>2. ASSUME DeleteBundle \/ \E c \in Components : DeleteHelmOp(c)
      PROVE  Rollout!Remove \/ UNCHANGED Rollout!vars
  <2>1. /\ ~Working /\ ~Working' /\ UNCHANGED <<object, status>>
        /\ deleting = TRUE /\ gone = FALSE
    <3>1. /\ pc \in {"delete", "deleteBundle"} /\ pc' \in {"delete", "deleteBundle"}
          /\ UNCHANGED <<object, status>>
      BY <1>2 DEF DeleteBundle, DeleteHelmOp
    <3>2. deleting \in BOOLEAN /\ gone \in BOOLEAN
      BY <1>t DEF TypeOK
    <3> QED BY <1>t, <3>1, <3>2 DEF Steps, Working
  <2>2. CASE ~Operated
    BY <1>0, <2>1, <2>2, ObjectsOfFiles, Unseen, Stutters DEF static
  <2>3. CASE Operated
    <3>1. \E S \in SUBSET Recorded :
            Objects' = [k \in Keys |-> IF k \in S THEN None ELSE Objects[k]]
      BY <1>2, <2>3, ObjectsDeleted DEF Recorded
    <3> QED BY <1>0, <2>1, <3>1, Unseen DEF Rollout!Remove, Rollout!pass, Rollout!deletion, object
  <2> QED BY <2>2, <2>3
<1>3. ASSUME RemoveFinalizer PROVE Rollout!Leave
  <2>1. /\ ~Working /\ ~Working' /\ gone' = TRUE /\ deleting
        /\ UNCHANGED <<spec, named, deleting, status, helmOps, bundles>>
    BY <1>t, <1>3 DEF RemoveFinalizer, EndPass, Steps, Working, fleet
  <2>2. Objects' = Objects
    BY <1>0, <2>1, ObjectsStay
  <2>3. \A k \in Recorded : Objects[k] = None
    <3>1. Operated => \A k \in Recorded : helmOps[k] = None /\ bundles[k] = None
      BY <1>0, <2>1 DEF Inv, GoneLeavesNothingNamed, Operated, static, Recorded
    <3> QED BY <3>1 DEF Recorded, Objects, Deployed, Object
  <2> QED BY <1>0, <2>1, <2>2, <2>3, Unseen DEF Rollout!Leave, Rollout!objects, Rollout!pass
<1>4. ASSUME Crash PROVE Rollout!Abandon \/ UNCHANGED Rollout!vars
  <2>1. EndPass /\ UNCHANGED <<object, status, helmOps, bundles>>
    BY <1>4 DEF Crash, fleet
  <2>2. LastReport' = LastReport
    BY <1>0, <2>1, Unseen
  <2>3. CASE Working
    BY <1>0, <2>1, <2>2, <2>3, Abandons DEF object
  <2>4. CASE ~Working
    <3>1. ~Working'
      BY <2>1 DEF EndPass, Working
    <3> QED BY <1>0, <2>1, <2>4, <3>1, ObjectsStay, Unseen, Stutters
  <2> QED BY <2>3, <2>4
<1>5. ASSUME CallFails PROVE Rollout!Abandon
  <2>1. Working /\ EndPass /\ UNCHANGED <<object, helmOps, bundles>>
    BY <1>5 DEF CallFails, fleet, Working
  <2>2. \/ status' = status
        \/ status' = [status EXCEPT !.ready = "ComponentReconcileFailed",
                                    !.phase = GuardPhaseTransition("Failed")]
    BY <1>5 DEF CallFails, WriteStatus
  <2>3. LastReport' \in {LastReport, None}
    BY <1>0, <2>2, NoReport DEF static
  <2> QED BY <1>0, <2>1, <2>3, Abandons DEF object
<1>6. ASSUME FleetStep PROVE UNCHANGED Rollout!vars
  <2>1. UNCHANGED <<object, status, pc, ps>>
    BY <1>6 DEF FleetStep, FleetGenerate, FleetReject, FleetRollout, FleetGitRepo, pass
  <2>2. Objects' = Objects
    BY <1>0, <1>6, ObjectsAtFleet, ObjectsOfFiles DEF static
  <2> QED BY <1>0, <2>1, <2>2, Unseen, Stutters
<1>7. ASSUME EditSpec PROVE Rollout!Want
  <2>1. /\ deleting = FALSE
        /\ UNCHANGED <<named, deleting, gone, status, helmOps, bundles, pc, ps>>
    BY <1>t, <1>7 DEF EditSpec, fleet, TypeOK
  <2>2. Table(spec)' \in Rollout!Tables
    <3>1. TypeOK' /\ spec' \in Specs /\ Digest(spec') \in Digests
      BY DigestType DEF Inv, TypeOK
    <3>2. Digest(spec)' = Digest(spec')
      BY DEF Digest
    <3> QED BY <3>1, <3>2 DEF Table, Rollout!Tables
  <2>3. Objects' = Objects
    BY <1>0, <2>1, ObjectsStay
  <2> QED BY <1>0, <2>1, <2>2, <2>3, Unseen DEF Rollout!Want, Rollout!pass, Rollout!deletion
<1>8. ASSUME DeleteWorkload PROVE Rollout!RequestDeletion
  <2>1. /\ ~deleting /\ deleting' = TRUE
        /\ UNCHANGED <<spec, named, gone, status, helmOps, bundles, pc, ps>>
    BY <1>8 DEF DeleteWorkload, fleet
  <2> QED BY <1>0, <2>1, ObjectsStay, Unseen DEF Rollout!RequestDeletion, Rollout!objects,
             Rollout!pass
<1>9. ASSUME GraceEnds \/ \E c \in Components : RepoChange(c) PROVE UNCHANGED Rollout!vars
  <2>1. UNCHANGED <<object, status, helmOps, bundles, pc, ps>>
    BY <1>9 DEF GraceEnds, RepoChange, fleet, pass
  <2> QED BY <1>0, <2>1, ObjectsStay, Unseen, Stutters
<1> QED BY <1>1, <1>2, <1>3, <1>4, <1>5, <1>6, <1>7, <1>8, <1>9
        DEF Elsewhere, DeletionStep, Rollout!Next

\* The reconciler implements ComponentRollout: from outside, a pass of many calls with
\* users, Fleet, failures and crashes between them (reconcileBlueprint, the
\* clean-ups, reconcileDelete, Status().Update) is the roll-out of one table, and a
\* status that says Reconciled is about what was wanted and there.
THEOREM Refinement == Spec => RefinesRollout
<1>1. Init => Rollout!Init
  <2> SUFFICES ASSUME Init PROVE Rollout!Init
    OBVIOUS
  <2>1. TypeOK /\ spec \in Specs
    BY Initially DEF Inv, TypeOK
  <2>2. Table(spec) \in Rollout!Tables
    BY <2>1, TableOf
  <2>3. /\ helmOps = [k \in Keys |-> None] /\ bundles = [k \in Keys |-> None]
        /\ pc = "idle" /\ named = {} /\ deleting = FALSE /\ gone = FALSE
        /\ status.ready = None
    BY DEF Init, NoPass
  <2>4. Objects = [k \in Keys |-> None]
    BY <2>3 DEF Objects, Deployed, Object
  <2>5. Working = FALSE /\ Plan = [k \in Keys |-> None]
    BY <2>3 DEF Working, Plan
  <2>6. LastReport = None
    BY <2>3, NoneAssumption DEF LastReport, Reasons
  <2> QED BY <2>2, <2>3, <2>4, <2>5, <2>6 DEF Rollout!Init, Rollout!Nothing, Lasting, Recorded
<1>2. Inv /\ PassIsFresh /\ RolloutInv /\ [Next]_vars /\ Inv' => [Rollout!Next]_(Rollout!vars)
  <2> SUFFICES ASSUME Inv, PassIsFresh, RolloutInv, [Next]_vars, Inv'
               PROVE  [Rollout!Next]_(Rollout!vars)
    OBVIOUS
  <2>1. CASE UNCHANGED vars
    <3>1. UNCHANGED <<static, object, status, pc, ps, helmOps, bundles>>
      BY <2>1 DEF vars, pass, fleet
    <3> QED BY <3>1, ObjectsStay, Unseen, Stutters
  <2> QED BY <2>1, NextIsEither, MapPass, MapElsewhere
<1> QED BY <1>1, <1>2, Initially, Inductive, BaselinesInit, FreshStep, RolloutInit, RolloutStep, PTL
        DEF Spec, RefinesRollout, Rollout!Spec
=============================================================================
