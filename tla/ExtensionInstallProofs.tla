----------------------- MODULE ExtensionInstallProofs -----------------------
(***************************************************************************)
(* Proofs about ExtensionInstall, for every set of names, charts and       *)
(* repositories and every bound: type correctness, and, in the world the   *)
(* run checks (Careful), that nothing of an older spec or of a deleted     *)
(* resource is left in the cluster.                                        *)
(***************************************************************************)
EXTENDS ExtensionInstall, TLAPS

\* The spec is edited once its last edit is installed, uninstalling does not
\* fail, a pass sees the status of the pass before.
Careful == Patient /\ ~UninstallFails /\ ~StatusLags

Valid(spec) == spec.source \notin Invalid

\* Every edit is a generation.
TypeInv == TypeOK /\ object.generation = edits + 1

\* What a status accounts for in the cluster.
OwnRepos(st) == {st.active} \ {None}
OwnPlugins(st) == IF st.kind = "Helm" THEN {st.active} ELSE {}
OwnReleases(st) ==
  ({st.release} \ {None}) \cup IF st.kind = "Git" THEN {st.active} ELSE {}

\* What a pass for spec may have created.
NewRepos(spec) == IF Valid(spec) THEN {spec.name} ELSE {}
NewPlugins(spec) ==
  IF Valid(spec) /\ spec.kind = "Helm" THEN {spec.name} ELSE {}
NewReleases(spec) == IF Valid(spec) THEN {Release(spec)} ELSE {}

\* There is nothing but what status st and the current spec account for.
Accounted(st) ==
  /\ repos \subseteq OwnRepos(st) \cup NewRepos(object.spec)
  /\ plugins \subseteq OwnPlugins(st) \cup NewPlugins(object.spec)
  /\ releases \subseteq OwnReleases(st) \cup NewReleases(object.spec)

\* Status st says that spec is installed.
Reported(spec, st) ==
  /\ Valid(spec)
  /\ st.active = spec.name /\ st.kind = spec.kind
  /\ spec.kind = "Helm" => st.release = spec.source

\* Unless a Helm source was installed last, a recorded release is the one the
\* current spec is installing.
StatusSound(st) ==
  /\ st.active = None <=> st.kind = "None"
  /\ st.kind # "Helm" /\ st.release # None =>
       Valid(object.spec) /\ object.spec.kind = "Helm"
         /\ st.release = object.spec.source

SettledReported == Settled(object) => Reported(object.spec, object.status)

\* x is an earlier state of the resource than y.
Before(x, y) ==
  /\ x.generation <= y.generation
  /\ x.generation = y.generation => x.spec = y.spec
  /\ x.finalizer => y.finalizer

\* An earlier spec is invalid, or it is the last one installed.
Known(x) ==
  \/ x.generation = object.generation
  \/ ~Valid(x.spec)
  \/ /\ x.generation = object.status.observed
     /\ Reported(x.spec, object.status)

CacheSound ==
  /\ Before(cache, object) /\ Known(cache)
  /\ object.status.observed <= cache.generation
  /\ pc # "idle" =>
       /\ Before(read, cache)
       /\ object.status.observed <= read.generation
       /\ read.finalizer

\* The finalizer is there before anything else.
FinalizerFirst ==
  ~object.finalizer => repos = {} /\ plugins = {} /\ releases = {}

Deleting == pc \in {"cleanup", "finalize"}
Installing == pc # "idle" /\ ~Deleting
\* Everything was done that ends with the spec reported installed.
Done == pc = "persist" /\ status.phase = "Installed"

\* The status a pass accumulates.
PassStatus ==
  Installing =>
    /\ read.status = object.status /\ Known(read)
    /\ StatusSound(status) /\ Accounted(status)
    /\ ~Done => /\ status.phase # "Installed"
                /\ status.active = read.status.active
                /\ status.kind = read.status.kind
                /\ status.observed = read.status.observed
    /\ Done => /\ Reported(read.spec, status)
               /\ status.observed = read.generation
    /\ Reported(read.spec, read.status) => Reported(read.spec, status)
    /\ pc \in {"ensure", "await", "repo", "plugin"} => Valid(read.spec)
    /\ pc = "plugin" => read.spec.kind = "Helm"
    /\ pc \in {"await", "repo", "plugin"} /\ read.spec.kind = "Helm" =>
         status.release = read.spec.source

\* A pass for the current spec has removed what was there of older ones.
PassClean ==
  Installing /\ read.generation = object.generation =>
    /\ (pc \notin {"stale", "persist"} \/ Done) =>
         /\ repos \subseteq {read.spec.name}
         /\ plugins \subseteq
              IF read.spec.kind = "Helm" THEN {read.spec.name} ELSE {}
         /\ read.spec.kind = "Git" => status.release = None
    /\ pc \in {"check", "source"} =>
         releases \subseteq {Release(read.spec)} \cup ({status.release} \ {None})
    /\ (pc \in {"ensure", "await", "repo", "plugin"} \/ Done) =>
         releases \subseteq {Release(read.spec)}

\* The finalizer has removed what it knows of.
FinalizeClean ==
  pc = "finalize" =>
    /\ read.spec.name \notin repos /\ read.spec.name \notin plugins
    /\ read.status.active \notin repos /\ read.status.active \notin plugins
    /\ releases \cap ToUninstall(read) = {}

GoneIdle == gone => pc = "idle"

IInv ==
  /\ Careful /\ TypeInv
  /\ StatusSound(object.status) /\ Accounted(object.status)
  /\ SettledReported /\ CacheSound /\ FinalizerFirst
  /\ PassStatus /\ PassClean
  /\ FinalizeClean /\ GoneIdle /\ DeletionLeavesNothing

-----------------------------------------------------------------------------
(* Types *)

\* A spec names an extension and a release of its kind.
LEMMA SpecFields ==
  ASSUME NEW s \in Specs
  PROVE  /\ s.name \in Names /\ s.name # None
         /\ s.kind \in {"Helm", "Git"}
         /\ s.kind = "Helm" => s.source \in Charts /\ s.source # None
         /\ Release(s) \in Names \cup Charts /\ Release(s) # None
BY NoneAssumption DEF Specs, Release

\* A patch by a pass that saw the server's status writes the pass's status.
LEMMA PatchedStatus ==
  ASSUME NEW st \in Statuses, NEW new \in Statuses
  PROVE  Patched(st, st, new) = new
<1>1. DOMAIN st = DOMAIN new /\ new = [f \in DOMAIN new |-> new[f]]
  BY DEF Statuses
<1>2. Patched(st, st, new) = [f \in DOMAIN st |-> new[f]]
  BY DEF Patched
<1> QED BY <1>1, <1>2

\* Whatever the pass saw, a patch leaves a status.
LEMMA PatchedType ==
  ASSUME NEW st \in Statuses, NEW base \in Statuses, NEW new \in Statuses
  PROVE  Patched(st, base, new) \in Statuses
<1> DEFINE r == Patched(st, base, new)
<1>1. r = [f \in DOMAIN st |-> IF new[f] # base[f] THEN new[f] ELSE st[f]]
  BY DEF Patched
<1>2. DOMAIN st = {"active", "kind", "release", "phase", "observed"}
  BY DEF Statuses
<1>3. r = [active |-> r.active, kind |-> r.kind, release |-> r.release,
           phase |-> r.phase, observed |-> r.observed]
  BY <1>1, <1>2
<1>4. /\ r.active \in {new.active, st.active} /\ r.kind \in {new.kind, st.kind}
      /\ r.release \in {new.release, st.release}
      /\ r.phase \in {new.phase, st.phase}
      /\ r.observed \in {new.observed, st.observed}
  BY <1>1, <1>2
<1> HIDE DEF r
<1>5. r.active \in Names \cup {None}
  BY <1>4 DEF Statuses
<1>6. r.kind \in {"Helm", "Git", "None"} /\ r.release \in Charts \cup {None}
  BY <1>4 DEF Statuses
<1>7. r.phase \in Phases /\ r.observed \in 0 .. MaxEdits + 1
  BY <1>4 DEF Statuses
<1> QED BY <1>3, <1>5, <1>6, <1>7 DEF Statuses, r

\* NoStatus and the empty pass are well typed.
LEMMA EndPassType ==
  ASSUME EndPass
  PROVE  pc' = "idle" /\ read' = NoRead /\ status' \in Statuses
BY BoundAssumption DEF EndPass, NoStatus, Statuses, Phases

\* The counter of faults stays within its bound.
LEMMA FaultType ==
  ASSUME NEW happens \in BOOLEAN, FaultIf(happens), faults \in 0 .. MaxFaults
  PROVE  faults' \in 0 .. MaxFaults
BY BoundAssumption DEF FaultIf

\* The steps that begin a pass.
LEMMA TypeBegin ==
  ASSUME TypeOK, EnsureFinalizer \/ StartPass \/ CheckCRDs \/ HandleDeletion
  PROVE  TypeOK'
<1> USE DEF TypeOK, clusterVars, passVars, Steps
<1>1. CASE EnsureFinalizer
  BY <1>1 DEF EnsureFinalizer, Objects
<1>2. CASE StartPass
  <2>1. status' \in Statuses
    BY <1>2 DEF StartPass, Objects, Statuses, Phases
  <2> QED BY <1>2, <2>1 DEF StartPass
<1>3. CASE CheckCRDs
  BY <1>3 DEF CheckCRDs
<1>4. CASE HandleDeletion
  BY <1>4 DEF HandleDeletion
<1> QED BY <1>1, <1>2, <1>3, <1>4

\* The steps that remove what is stale and validate the spec.
LEMMA TypeStale ==
  ASSUME TypeOK, CleanupStaleResources \/ ReplaceRelease \/ ValidateGit
  PROVE  TypeOK'
<1> USE DEF TypeOK, clusterVars, passVars, Steps
<1>1. CASE CleanupStaleResources
  <2>1. CASE ~(Renamed \/ Switched)
    BY <1>1, <2>1 DEF CleanupStaleResources
  <2>2. CASE Renamed \/ Switched
    <3>1. status' \in Statuses
      BY <1>1, <2>2 DEF CleanupStaleResources, Statuses
    <3>2. faults' \in 0 .. MaxFaults
      BY <1>1, <2>2, FaultType DEF CleanupStaleResources
    <3>3. /\ repos' \subseteq repos /\ plugins' \subseteq plugins
          /\ releases' \subseteq releases
          /\ pc' \in {"persist", "check"}
      BY <1>1, <2>2 DEF CleanupStaleResources
    <3> QED BY <1>1, <3>1, <3>2, <3>3 DEF CleanupStaleResources
  <2> QED BY <2>1, <2>2
<1>2. CASE ReplaceRelease
  <2>1. status' \in Statuses /\ pc' \in Steps
    BY <1>2 DEF ReplaceRelease, Validated, Statuses, Phases
  <2>2. releases' \subseteq releases /\ faults' \in 0 .. MaxFaults
    BY <1>2, FaultType DEF ReplaceRelease
  <2> QED BY <1>2, <2>1, <2>2 DEF ReplaceRelease
<1>3. CASE ValidateGit
  <2>1. status' \in Statuses /\ pc' \in Steps
    BY <1>3 DEF ValidateGit, Validated, Statuses, Phases
  <2> QED BY <1>3, <2>1 DEF ValidateGit
<1> QED BY <1>1, <1>2, <1>3

\* The steps that install.
LEMMA TypeInstall ==
  ASSUME TypeOK,
         EnsureRelease \/ ReleaseRunning \/ EnsureClusterRepo
           \/ EnsureUIPlugin \/ StepFails
  PROVE  TypeOK'
<1> USE DEF TypeOK, clusterVars, Steps
<1>1. read.spec \in Specs /\ read.generation \in 1 .. MaxEdits + 1 /\ pc # "idle"
  BY DEF EnsureRelease, ReleaseRunning, EnsureClusterRepo, EnsureUIPlugin,
         StepFails, Objects
<1>2. /\ read.spec.name \in Names /\ read.spec.kind \in {"Helm", "Git"}
      /\ read.spec.kind = "Helm" => read.spec.source \in Charts
      /\ Release(read.spec) \in Names \cup Charts
  BY <1>1, SpecFields
<1>3. Installed(status) \in Statuses
  <2>1. read.generation \in 0 .. MaxEdits + 1 /\ status \in Statuses
    BY <1>1, BoundAssumption
  <2> QED BY <1>2, <2>1 DEF Installed, Statuses, Phases
<1>4. CASE EnsureRelease
  <2>1. status' \in Statuses
    BY <1>2, <1>4 DEF EnsureRelease, Statuses
  <2> QED BY <1>2, <1>4, <2>1 DEF EnsureRelease
<1>5. CASE ReleaseRunning
  BY <1>3, <1>5 DEF ReleaseRunning
<1>6. CASE EnsureClusterRepo
  BY <1>2, <1>6 DEF EnsureClusterRepo
<1>7. CASE EnsureUIPlugin
  BY <1>2, <1>3, <1>7 DEF EnsureUIPlugin
<1>8. CASE StepFails
  <2>1. status' \in Statuses
    BY <1>8 DEF StepFails, Statuses, Phases
  <2>2. faults' \in 0 .. MaxFaults
    BY <1>8, FaultType DEF StepFails
  <2>3. /\ repos' \subseteq Names /\ plugins' \subseteq Names
        /\ releases' \subseteq Names \cup Charts
    BY <1>2, <1>8 DEF StepFails
  <2> QED BY <1>8, <2>1, <2>2, <2>3 DEF StepFails
<1> QED BY <1>4, <1>5, <1>6, <1>7, <1>8

\* The steps that end a pass.
LEMMA TypeEnd ==
  ASSUME TypeOK, PersistStatus \/ Interrupted \/ Cleanup \/ RemoveFinalizer
  PROVE  TypeOK'
<1> USE DEF TypeOK, clusterVars, Steps
<1>1. CASE PersistStatus
  <2>1. Patched(object.status, read.status, status) \in Statuses
    BY <1>1, PatchedType DEF PersistStatus, Objects
  <2>2. object' \in Objects
    BY <1>1, <2>1 DEF PersistStatus, Objects
  <2> QED BY <1>1, <2>2, EndPassType DEF PersistStatus
<1>2. CASE Interrupted
  BY <1>2, EndPassType, FaultType DEF Interrupted
<1>3. CASE Cleanup
  <2>1. faults' \in 0 .. MaxFaults
    BY <1>3, FaultType DEF Cleanup
  <2>2. /\ repos' \subseteq repos /\ plugins' \subseteq plugins
        /\ releases' \subseteq releases
    BY <1>3 DEF Cleanup
  <2>3. \/ EndPass
        \/ pc' = "finalize" /\ UNCHANGED <<read, status>>
    BY <1>3 DEF Cleanup
  <2> QED BY <1>3, <2>1, <2>2, <2>3, EndPassType DEF Cleanup
<1>4. CASE RemoveFinalizer
  BY <1>4, EndPassType DEF RemoveFinalizer
<1> QED BY <1>1, <1>2, <1>3, <1>4

\* The environment.
LEMMA TypeEnvironment ==
  ASSUME TypeInv, EditSpec \/ DeleteObject \/ RemoveByHand \/ CacheSync
  PROVE  TypeOK'
<1> USE DEF TypeInv, TypeOK, clusterVars, passVars
<1>1. CASE EditSpec
  <2>1. /\ edits' \in 0 .. MaxEdits
        /\ object.generation + 1 \in 1 .. MaxEdits + 1
    <3>1. edits < MaxEdits /\ edits' = edits + 1
      BY <1>1 DEF EditSpec
    <3>2. edits \in 0 .. MaxEdits /\ object.generation = edits + 1
      OBVIOUS
    <3> QED BY <3>1, <3>2, BoundAssumption
  <2>2. PICK s \in Specs :
          object' = [object EXCEPT !.spec = s, !.generation = @ + 1]
    BY <1>1 DEF EditSpec
  <2>3. object' \in Objects
    BY <2>1, <2>2 DEF Objects
  <2> QED BY <1>1, <2>1, <2>3 DEF EditSpec
<1>2. CASE DeleteObject
  BY <1>2 DEF DeleteObject, Objects
<1>3. CASE RemoveByHand
  BY <1>3, FaultType DEF RemoveByHand
<1>4. CASE CacheSync
  BY <1>4 DEF CacheSync
<1> QED BY <1>1, <1>2, <1>3, <1>4

\* Only an edit changes the generation, by one.
LEMMA CountsEdits ==
  ASSUME TypeInv, [Next]_vars
  PROVE  (object.generation = edits + 1)'
<1> USE DEF TypeInv, vars, clusterVars, passVars
<1>1. object.generation = edits + 1 /\ object \in Objects
  BY DEF TypeOK
<1>2. CASE EditSpec
  BY <1>1, <1>2 DEF EditSpec, TypeOK, Objects
<1>3. CASE Pass
  BY <1>1, <1>3
     DEF Pass, EnsureFinalizer, StartPass, CleanupStaleResources, CheckCRDs,
         ReplaceRelease, ValidateGit, EnsureRelease, ReleaseRunning,
         EnsureClusterRepo, EnsureUIPlugin, PersistStatus, HandleDeletion,
         Cleanup, RemoveFinalizer, Objects
<1>4. CASE StepFails \/ Interrupted \/ RemoveByHand \/ CacheSync
  BY <1>1, <1>4 DEF StepFails, Interrupted, RemoveByHand, CacheSync
<1>5. CASE DeleteObject
  BY <1>1, <1>5 DEF DeleteObject, Objects
<1>6. CASE UNCHANGED vars
  BY <1>1, <1>6
<1> QED BY <1>2, <1>3, <1>4, <1>5, <1>6 DEF Next

\* Every step preserves the types.
LEMMA TypeStep ==
  ASSUME TypeInv, [Next]_vars
  PROVE  TypeInv'
<1>1. CASE UNCHANGED vars
  BY <1>1 DEF TypeInv, TypeOK, vars, clusterVars, passVars
<1>2. CASE Next
  <2>1. TypeOK'
    BY <1>2, TypeBegin, TypeStale, TypeInstall, TypeEnd, TypeEnvironment
       DEF Next, Pass, TypeInv
  <2> QED BY <2>1, CountsEdits DEF TypeInv
<1> QED BY <1>1, <1>2

\* A resource just created is well typed.
LEMMA TypeInit ==
  ASSUME Init
  PROVE  TypeInv
<1>1. NoStatus \in Statuses
  BY BoundAssumption DEF NoStatus, Statuses, Phases
<1>2. PICK s \in Specs :
        object = [spec |-> s, generation |-> 1, deleting |-> FALSE,
                  finalizer |-> FALSE, status |-> NoStatus]
  BY DEF Init
<1>3. object \in Objects
  BY <1>1, <1>2, BoundAssumption DEF Objects
<1>4. edits \in 0 .. MaxEdits /\ faults \in 0 .. MaxFaults
  BY BoundAssumption DEF Init
<1>5. object.generation = edits + 1
  BY <1>2 DEF Init
<1> QED BY <1>1, <1>3, <1>4, <1>5 DEF Init, TypeInv, TypeOK

\* Resource, status and pass are well typed, whatever is edited and whatever
\* fails: a recorded release is one of a Helm source (reconcileHelmSource), never
\* the name a Git source installs under.
THEOREM TypeCorrect == Spec => []TypeOK
<1>1. Init => TypeInv
  BY TypeInit
<1>2. TypeInv /\ [Next]_vars => TypeInv'
  BY TypeStep
<1>3. TypeInv => TypeOK
  BY DEF TypeInv
<1> QED BY <1>1, <1>2, <1>3, PTL DEF Spec

-----------------------------------------------------------------------------
(* The inductive invariant *)

\* What the cases below read off the invariant of a pass.
LEMMA PassFacts ==
  ASSUME IInv, Installing
  PROVE  /\ object \in Objects /\ read \in Objects /\ status \in Statuses
         /\ read.spec \in Specs /\ object.spec \in Specs
         /\ read.generation = object.generation => read.spec = object.spec
         /\ object.finalizer /\ ~gone
         /\ Valid(read.spec) =>
              \/ read.spec = object.spec
              \/ /\ Reported(read.spec, object.status)
                 /\ Reported(read.spec, status)
<1>1. object \in Objects /\ read \in Objects /\ cache \in Objects /\ status \in Statuses
  BY DEF IInv, TypeInv, TypeOK, Installing
<1>2. read.spec \in Specs /\ object.spec \in Specs
  BY <1>1 DEF Objects
<1>3. /\ read.generation \in Nat /\ cache.generation \in Nat
      /\ object.generation \in Nat
  BY <1>1 DEF Objects
<1>4. Before(read, cache) /\ Before(cache, object) /\ read.finalizer
  BY DEF IInv, CacheSound, Installing
<1>5. read.generation = object.generation => read.spec = object.spec
  BY <1>3, <1>4 DEF Before
<1>6. object.finalizer /\ ~gone
  BY <1>4 DEF Before, IInv, GoneIdle, Installing
<1>7. /\ read.status = object.status /\ Known(read)
      /\ Reported(read.spec, read.status) => Reported(read.spec, status)
  BY DEF IInv, PassStatus
<1> QED BY <1>1, <1>2, <1>5, <1>6, <1>7 DEF Known

\* Removing things from the cluster disturbs nothing that is said of the
\* resource.
LEMMA ResourceShrinks ==
  ASSUME IInv, object' = object, gone' = gone,
         repos' \subseteq repos, plugins' \subseteq plugins,
         releases' \subseteq releases
  PROVE  /\ StatusSound(object.status)' /\ Accounted(object.status)'
         /\ SettledReported' /\ FinalizerFirst' /\ DeletionLeavesNothing'
<1>1. StatusSound(object.status)' /\ SettledReported'
  BY DEF IInv, StatusSound, SettledReported, Settled, Reported, Valid
<1>2. Accounted(object.status)'
  BY DEF IInv, Accounted, OwnRepos, OwnPlugins, OwnReleases, NewRepos,
         NewPlugins, NewReleases, Valid, Release
<1>3. FinalizerFirst' /\ DeletionLeavesNothing'
  BY DEF IInv, FinalizerFirst, DeletionLeavesNothing, Unrecorded
<1> QED BY <1>1, <1>2, <1>3

\* A pass adds only what its spec asks for, and that is accounted for.
LEMMA ResourceGrows ==
  ASSUME IInv, Installing, Valid(read.spec), object' = object, gone' = gone,
         repos' \subseteq repos \cup {read.spec.name},
         \/ plugins' \subseteq plugins
         \/ read.spec.kind = "Helm"
              /\ plugins' \subseteq plugins \cup {read.spec.name},
         releases' \subseteq releases \cup {Release(read.spec)}
  PROVE  /\ StatusSound(object.status)' /\ Accounted(object.status)'
         /\ SettledReported' /\ FinalizerFirst' /\ DeletionLeavesNothing'
<1>1. StatusSound(object.status)' /\ SettledReported'
  BY DEF IInv, StatusSound, SettledReported, Settled, Reported, Valid
<1>2. Accounted(object.status)'
  <2>1. Accounted(object.status)
    BY DEF IInv
  <2>2. CASE read.spec = object.spec
    BY <2>1, <2>2 DEF Accounted, OwnRepos, OwnPlugins, OwnReleases, NewRepos,
         NewPlugins, NewReleases, Valid, Release
  <2>3. CASE Reported(read.spec, object.status)
    <3>1. read.spec.name # None /\ read.spec.kind \in {"Helm", "Git"}
          /\ (read.spec.kind = "Helm" => read.spec.source # None)
      BY PassFacts, SpecFields
    <3> QED BY <2>1, <2>3, <3>1
            DEF Accounted, OwnRepos, OwnPlugins, OwnReleases, NewRepos,
                NewPlugins, NewReleases, Valid, Release, Reported
  <2> QED BY <2>2, <2>3, PassFacts
<1>3. FinalizerFirst' /\ DeletionLeavesNothing'
  BY PassFacts DEF FinalizerFirst, DeletionLeavesNothing
<1> QED BY <1>1, <1>2, <1>3

\* Between passes nothing is said of a pass.
LEMMA IdlePass ==
  ASSUME pc' = "idle"
  PROVE  PassStatus' /\ PassClean' /\ FinalizeClean' /\ GoneIdle'
BY DEF PassStatus, PassClean, FinalizeClean, GoneIdle, Installing

\* The cache and the pass of an unchanged resource.
LEMMA CacheKept ==
  ASSUME IInv, object' = object, cache' = cache,
         pc' = "idle" \/ (pc # "idle" /\ read' = read)
  PROVE  CacheSound'
BY DEF IInv, CacheSound, Known, Before, Reported, Valid

-----------------------------------------------------------------------------
(* One lemma for each kind of step *)

\* A pass begins with what the cache says; a deletion likewise.
LEMMA InvBegin ==
  ASSUME IInv, TypeInv', StartPass \/ HandleDeletion
  PROVE  IInv'
<1>1. /\ object' = object /\ gone' = gone /\ cache' = cache /\ UNCHANGED clusterVars
      /\ read' = cache /\ pc = "idle" /\ ~gone
  BY DEF StartPass, HandleDeletion
<1>2. /\ StatusSound(object.status)' /\ Accounted(object.status)'
      /\ SettledReported' /\ FinalizerFirst' /\ DeletionLeavesNothing'
  BY <1>1, ResourceShrinks DEF clusterVars
<1>3. cache \in Objects /\ cache.generation \in Nat /\ cache.finalizer
  BY DEF IInv, TypeInv, TypeOK, Objects, StartPass, HandleDeletion
<1>4. CacheSound'
  BY <1>1, <1>3 DEF IInv, CacheSound, Known, Before, Reported, Valid
<1>5. GoneIdle'
  BY <1>1 DEF GoneIdle
<1>6. PassStatus' /\ PassClean' /\ FinalizeClean'
  <2>1. CASE HandleDeletion
    BY <2>1 DEF HandleDeletion, PassStatus, PassClean, FinalizeClean,
                Installing, Deleting
  <2>2. CASE StartPass
    <3>1. cache.status = object.status
      BY <2>2 DEF StartPass, IInv, Careful
    <3>2. /\ pc' = "stale" /\ status' = [cache.status EXCEPT !.phase = "Installing"]
      BY <2>2 DEF StartPass
    <3>3. cache.status \in Statuses
      BY <1>3 DEF Objects
    <3>4. /\ status'.phase = "Installing"
          /\ status'.active = cache.status.active
          /\ status'.kind = cache.status.kind
          /\ status'.release = cache.status.release
          /\ status'.observed = cache.status.observed
      BY <3>2, <3>3 DEF Statuses
    <3>5. StatusSound(status)'
      BY <1>1, <3>1, <3>4 DEF IInv, StatusSound, Valid
    <3>6. Accounted(status)'
      BY <1>1, <3>1, <3>4 DEF IInv, Accounted, OwnRepos, OwnPlugins,
         OwnReleases, NewRepos, NewPlugins, NewReleases, clusterVars, Valid, Release
    <3>7. Known(read)'
      BY <1>1 DEF IInv, CacheSound, Known, Reported, Valid
    <3>8. PassStatus'
      BY <1>1, <3>1, <3>2, <3>4, <3>5, <3>6, <3>7
         DEF PassStatus, Done, Reported, Valid
    <3>9. PassClean' /\ FinalizeClean'
      BY <3>2 DEF PassClean, FinalizeClean, Done
    <3> QED BY <3>8, <3>9
  <2> QED BY <2>1, <2>2
<1> QED BY <1>2, <1>4, <1>5, <1>6 DEF IInv, Careful

\* What is removed as stale is what the status records of another spec.
LEMMA InvStale ==
  ASSUME IInv, TypeInv', CleanupStaleResources
  PROVE  IInv'
<1>1. /\ object' = object /\ gone' = gone /\ cache' = cache /\ read' = read
      /\ pc = "stale" /\ pc' \in {"persist", "check"}
      /\ repos' \subseteq repos /\ plugins' \subseteq plugins
      /\ releases' \subseteq releases
  BY DEF CleanupStaleResources, clusterVars
<1>2. Installing /\ ~Done /\ Installing'
  BY <1>1 DEF Installing, Deleting, Done
<1>3. /\ StatusSound(object.status)' /\ Accounted(object.status)'
      /\ SettledReported' /\ FinalizerFirst' /\ DeletionLeavesNothing'
  BY <1>1, ResourceShrinks
<1>4. CacheSound'
  BY <1>1, CacheKept
<1>5. GoneIdle' /\ FinalizeClean'
  BY <1>1, <1>2, PassFacts DEF GoneIdle, FinalizeClean
<1>6. /\ read.status = object.status /\ Known(read)
      /\ StatusSound(status) /\ Accounted(status)
      /\ status.phase # "Installed" /\ status.active = read.status.active
      /\ status.kind = read.status.kind
      /\ status.observed = read.status.observed
      /\ Reported(read.spec, read.status) => Reported(read.spec, status)
  BY <1>2 DEF IInv, PassStatus
<1>7. /\ read.spec \in Specs /\ read.spec.kind \in {"Helm", "Git"}
      /\ read.spec.name # None
      /\ status \in Statuses /\ read.status \in Statuses
      /\ read.generation = object.generation => read.spec = object.spec
  BY <1>2, PassFacts, SpecFields DEF Objects
<1>8. CASE ~(Renamed \/ Switched)
  <2>1. status' = status /\ UNCHANGED <<repos, plugins, releases>> /\ pc' = "check"
    BY <1>8 DEF CleanupStaleResources, clusterVars
  <2>2. PassStatus'
    BY <1>1, <1>2, <1>6, <2>1
       DEF PassStatus, Done, Known, Reported, Valid, StatusSound, Accounted,
           OwnRepos, OwnPlugins, OwnReleases, NewRepos, NewPlugins, NewReleases, Release
  <2>3. ASSUME read.generation = object.generation
        PROVE  /\ repos \subseteq {read.spec.name}
               /\ plugins \subseteq IF read.spec.kind = "Helm"
                                    THEN {read.spec.name} ELSE {}
               /\ read.spec.kind = "Git" => status.release = None
               /\ releases \subseteq {Release(read.spec)} \cup ({status.release} \ {None})
    <3>1. read.spec = object.spec
      BY <1>7, <2>3
    <3>2. status.active \in {None, read.spec.name} /\ status.kind \in {"None", read.spec.kind}
      BY <1>6, <1>8 DEF Renamed, Switched
    <3>3. read.spec.kind = "Git" => status.release = None
      BY <1>6, <3>1, <3>2 DEF StatusSound
    <3>4. /\ OwnRepos(status) \subseteq {read.spec.name}
          /\ OwnPlugins(status) \subseteq IF read.spec.kind = "Helm"
                                          THEN {read.spec.name} ELSE {}
      BY <1>6, <3>2 DEF OwnRepos, OwnPlugins, StatusSound
    <3>5. status.kind = "Git" => /\ read.spec.kind = "Git"
                                 /\ status.active = Release(read.spec)
      BY <1>6, <1>7, <3>2 DEF Release, StatusSound
    <3> QED BY <1>6, <1>7, <3>1, <3>3, <3>4, <3>5
            DEF Accounted, OwnReleases, NewRepos, NewPlugins, NewReleases
  <2>4. PassClean'
    BY <1>1, <2>1, <2>3 DEF PassClean, Done, Release
  <2> QED BY <1>3, <1>4, <1>5, <2>2, <2>4 DEF IInv, Careful
<1>9. CASE Renamed \/ Switched
  <2> DEFINE old == Recorded(read.status)
  <2>1. read.status.active # None /\ ~Reported(read.spec, read.status)
    BY <1>6, <1>9 DEF Renamed, Switched, StatusSound, Reported
  <2>2. /\ releases' = releases \ old
        /\ status' = IF read.status.kind = "Helm"
                     THEN [status EXCEPT !.release = None] ELSE status
        /\ pc' = "check" => /\ repos' = repos \ {read.status.active}
                            /\ plugins' = plugins \ {read.status.active}
    <3> HIDE DEF old
    <3>1. PICK r \in SUBSET {read.status.active}, p \in SUBSET {read.status.active},
               u \in SUBSET old :
            /\ u # old => UninstallFails
            /\ repos' = repos \ r /\ plugins' = plugins \ p
            /\ releases' = releases \ u
            /\ status' = IF read.status.kind = "Helm"
                         THEN [status EXCEPT !.release = None] ELSE status
            /\ pc' = "check" => r = {read.status.active} /\ p = {read.status.active}
      BY <1>9, <2>1 DEF CleanupStaleResources, old
    <3>2. u = old
      BY <3>1 DEF IInv, Careful
    <3> QED BY <3>1, <3>2
  <2>3. /\ status'.phase = status.phase /\ status'.active = status.active
        /\ status'.kind = status.kind /\ status'.observed = status.observed
        /\ status'.release = IF read.status.kind = "Helm" THEN None
                             ELSE status.release
    BY <1>7, <2>2 DEF Statuses
  <2>4. StatusSound(status)'
    BY <1>1, <1>6, <2>3 DEF StatusSound, Valid
  <2>5. releases' \subseteq OwnReleases(object.status) \cup NewReleases(object.spec)
    BY <1>1 DEF IInv, Accounted
  <2>6. old = IF status.kind = "Git" THEN {status.active}
              ELSE {read.status.release} \ {None}
    BY <1>6 DEF Recorded
  <2>7. releases' \subseteq ({status'.release} \ {None}) \cup NewReleases(object.spec)
    <3>1. CASE status.kind = "Git"
      <4>1. status' = status
        BY <1>6, <2>2, <3>1
      <4> QED BY <1>6, <2>2, <2>6, <3>1, <4>1 DEF Accounted, OwnReleases
    <3>2. CASE status.kind = "Helm"
      BY <1>6, <2>2, <2>5, <2>6, <3>2 DEF OwnReleases
    <3>3. CASE status.kind \notin {"Git", "Helm"}
      BY <1>6, <1>7, <2>1, <3>3 DEF StatusSound, Statuses
    <3> QED BY <3>1, <3>2, <3>3
  <2>8. Accounted(status)'
    <3>1. /\ OwnRepos(status)' = OwnRepos(status)
          /\ OwnPlugins(status)' = OwnPlugins(status)
      BY <2>3 DEF OwnRepos, OwnPlugins
    <3>2. /\ NewRepos(object.spec)' = NewRepos(object.spec)
          /\ NewPlugins(object.spec)' = NewPlugins(object.spec)
          /\ NewReleases(object.spec)' = NewReleases(object.spec)
      BY <1>1 DEF NewRepos, NewPlugins, NewReleases, Valid, Release
    <3>3. ({status'.release} \ {None}) \subseteq OwnReleases(status)'
      BY DEF OwnReleases
    <3> QED BY <1>1, <1>6, <2>7, <3>1, <3>2, <3>3 DEF Accounted
  <2>9. PassStatus'
    BY <1>1, <1>2, <1>6, <2>1, <2>3, <2>4, <2>8
       DEF PassStatus, Done, Known, Reported, Valid
  <2>10. PassClean'
    <3>1. ASSUME pc' = "check", read.generation = object.generation
          PROVE  /\ repos' \subseteq {read.spec.name}
                 /\ plugins' \subseteq IF read.spec.kind = "Helm"
                                       THEN {read.spec.name} ELSE {}
                 /\ read.spec.kind = "Git" => status'.release = None
                 /\ releases' \subseteq {Release(read.spec)} \cup ({status'.release} \ {None})
      <4>1. read.spec = object.spec
        BY <1>7, <3>1
      <4>2. /\ OwnRepos(status) \subseteq {read.status.active}
            /\ OwnPlugins(status) \subseteq {read.status.active}
        BY <1>6 DEF OwnRepos, OwnPlugins
      <4>3. read.spec.kind = "Git" => status'.release = None
        BY <1>1, <2>4, <2>3, <1>6, <4>1 DEF StatusSound
      <4> QED BY <1>6, <1>7, <2>2, <2>7, <3>1, <4>1, <4>2, <4>3
              DEF Accounted, NewRepos, NewPlugins, NewReleases
    <3> QED BY <1>1, <2>3, <1>6, <3>1 DEF PassClean, Done, Release
  <2> QED BY <1>3, <1>4, <1>5, <2>9, <2>10 DEF IInv, Careful
<1> QED BY <1>8, <1>9

\* A spec that fails its validation ends the pass; one that does not makes the
\* release of the chart before it go.
LEMMA InvValidate ==
  ASSUME IInv, TypeInv', CheckCRDs \/ ReplaceRelease \/ ValidateGit
  PROVE  IInv'
<1>1. /\ object' = object /\ gone' = gone /\ cache' = cache /\ read' = read
      /\ pc \in {"check", "source"}
      /\ pc' \in {"source", "ensure", "repo", "persist"}
      /\ repos' = repos /\ plugins' = plugins /\ releases' \subseteq releases
  BY DEF CheckCRDs, ReplaceRelease, ValidateGit, Validated, clusterVars
<1>2. Installing /\ ~Done /\ Installing'
  BY <1>1 DEF Installing, Deleting, Done
<1>3. /\ StatusSound(object.status)' /\ Accounted(object.status)'
      /\ SettledReported' /\ FinalizerFirst' /\ DeletionLeavesNothing'
  BY <1>1, ResourceShrinks
<1>4. CacheSound'
  BY <1>1, CacheKept
<1>5. GoneIdle' /\ FinalizeClean'
  BY <1>1, <1>2, PassFacts DEF GoneIdle, FinalizeClean
<1>6. /\ read.status = object.status /\ Known(read)
      /\ StatusSound(status) /\ Accounted(status)
      /\ status.phase # "Installed" /\ status.active = read.status.active
      /\ status.kind = read.status.kind
      /\ status.observed = read.status.observed
      /\ Reported(read.spec, read.status) => Reported(read.spec, status)
  BY <1>2 DEF IInv, PassStatus
<1>7. /\ status'.phase # "Installed" /\ status'.active = status.active
      /\ status'.kind = status.kind /\ status'.observed = status.observed
      /\ status'.release = status.release
  <2>1. status' = status \/ status' = [status EXCEPT !.phase = "Failed"]
    BY DEF CheckCRDs, ReplaceRelease, ValidateGit, Validated
  <2>2. status \in Statuses
    BY <1>2, PassFacts
  <2> QED BY <1>6, <2>1, <2>2 DEF Statuses
<1>8. /\ pc' \in {"ensure", "repo"} => pc = "source" /\ Valid(read.spec)
      /\ pc' = "ensure" => read.spec.kind = "Helm"
      /\ pc' = "repo" => read.spec.kind = "Git"
  BY DEF CheckCRDs, ReplaceRelease, ValidateGit, Validated, Valid
<1>9. StatusSound(status)' /\ Accounted(status)'
  BY <1>1, <1>6, <1>7
     DEF StatusSound, Accounted, OwnRepos, OwnPlugins, OwnReleases,
         NewRepos, NewPlugins, NewReleases, Valid, Release
<1>10. PassStatus'
  BY <1>1, <1>2, <1>6, <1>7, <1>8, <1>9
     DEF PassStatus, Done, Known, Reported, Valid
<1>11. PassClean'
  <2>1. ASSUME read.generation = object.generation
        PROVE  /\ repos \subseteq {read.spec.name}
               /\ plugins \subseteq
                    IF read.spec.kind = "Helm" THEN {read.spec.name} ELSE {}
               /\ read.spec.kind = "Git" => status.release = None
               /\ releases \subseteq {Release(read.spec)} \cup ({status.release} \ {None})
    BY <1>1, <1>2, <2>1 DEF IInv, PassClean
  <2>2. pc' = "ensure" => releases' = releases \ ({status.release} \ {None, read.spec.source})
    <3>1. CASE ReplaceRelease
      <4>1. ASSUME pc' = "ensure" PROVE read.spec.source \notin Refused
        BY <1>8, <4>1, SourceAssumption DEF Valid
      <4>2. ~UninstallFails
        BY DEF IInv, Careful
      <4> QED BY <3>1, <4>1, <4>2 DEF ReplaceRelease
    <3>2. CASE CheckCRDs
      BY <3>2 DEF CheckCRDs
    <3>3. CASE ValidateGit
      BY <3>3 DEF ValidateGit, Validated
    <3> QED BY <3>1, <3>2, <3>3
  <2>3. pc' = "ensure" => Release(read.spec) = read.spec.source
    BY <1>8 DEF Release
  <2> QED BY <1>1, <1>7, <1>8, <2>1, <2>2, <2>3 DEF PassClean, Done, Release
<1> QED BY <1>3, <1>4, <1>5, <1>10, <1>11 DEF IInv, Careful

\* What a pass adds is what its spec asks for.
LEMMA InvInstall ==
  ASSUME IInv, TypeInv', EnsureRelease \/ EnsureClusterRepo \/ EnsureUIPlugin
  PROVE  IInv'
<1>1. /\ object' = object /\ gone' = gone /\ cache' = cache /\ read' = read
      /\ pc \in {"ensure", "repo", "plugin"}
      /\ pc' \in {"await", "plugin", "ensure", "persist"}
      /\ repos' \in {repos, repos \cup {read.spec.name}}
      /\ plugins' \in {plugins, plugins \cup {read.spec.name}}
      /\ releases' \in {releases, releases \cup {Release(read.spec)}}
      /\ plugins' # plugins => pc = "plugin"
  BY DEF EnsureRelease, EnsureClusterRepo, EnsureUIPlugin
<1>2. Installing /\ ~Done /\ Installing'
  BY <1>1 DEF Installing, Deleting, Done
<1>3. /\ read.status = object.status /\ Known(read)
      /\ StatusSound(status) /\ Accounted(status)
      /\ status.phase # "Installed" /\ status.active = read.status.active
      /\ status.kind = read.status.kind
      /\ status.observed = read.status.observed
      /\ Reported(read.spec, read.status) => Reported(read.spec, status)
      /\ Valid(read.spec)
      /\ pc = "plugin" => read.spec.kind = "Helm"
      /\ pc = "repo" /\ read.spec.kind = "Helm" => status.release = read.spec.source
      /\ pc = "plugin" => status.release = read.spec.source
  BY <1>1, <1>2 DEF IInv, PassStatus
<1>4. /\ StatusSound(object.status)' /\ Accounted(object.status)'
      /\ SettledReported' /\ FinalizerFirst' /\ DeletionLeavesNothing'
  BY <1>1, <1>2, <1>3, ResourceGrows
<1>5. CacheSound'
  BY <1>1, CacheKept
<1>6. GoneIdle' /\ FinalizeClean'
  BY <1>1, <1>2, PassFacts DEF GoneIdle, FinalizeClean
<1>7. /\ status \in Statuses /\ read.spec \in Specs
      /\ read.spec.name # None /\ read.spec.kind \in {"Helm", "Git"}
      /\ read.spec.kind = "Helm" => read.spec.source # None
      /\ read.generation = object.generation => read.spec = object.spec
      /\ \/ read.spec = object.spec
         \/ Reported(read.spec, object.status) /\ Reported(read.spec, status)
  BY <1>2, <1>3, PassFacts, SpecFields
<1>8. ASSUME read.generation = object.generation
      PROVE  /\ repos' \subseteq {read.spec.name}
             /\ plugins' \subseteq
                  IF read.spec.kind = "Helm" THEN {read.spec.name} ELSE {}
             /\ read.spec.kind = "Git" => status'.release = None
             /\ releases' \subseteq {Release(read.spec)}
  <2>1. /\ repos \subseteq {read.spec.name}
        /\ plugins \subseteq
             IF read.spec.kind = "Helm" THEN {read.spec.name} ELSE {}
        /\ read.spec.kind = "Git" => status.release = None
        /\ releases \subseteq {Release(read.spec)}
    BY <1>1, <1>2, <1>8 DEF IInv, PassClean
  <2>2. read.spec.kind = "Git" => status'.release = status.release
    BY <1>3 DEF EnsureRelease, EnsureClusterRepo, EnsureUIPlugin
  <2> QED BY <1>1, <1>3, <2>1, <2>2
<1>9. PassClean'
  BY <1>1, <1>8 DEF PassClean, Release
<1>10. CASE EnsureRelease
  <2>1. /\ status'.phase = status.phase /\ status'.active = status.active
        /\ status'.kind = status.kind /\ status'.observed = status.observed
        /\ status'.release = IF read.spec.kind = "Helm" THEN read.spec.source
                             ELSE status.release
        /\ pc' = "await" /\ repos' = repos /\ plugins' = plugins
        /\ releases' = releases \cup {Release(read.spec)}
    BY <1>7, <1>10 DEF EnsureRelease, Statuses
  <2>2. StatusSound(status)'
    BY <1>1, <1>3, <1>7, <2>1 DEF StatusSound, Valid, Reported
  <2>3. Accounted(status)'
    <3>1. CASE read.generation = object.generation
      BY <1>1, <1>3, <1>7, <1>8, <3>1
         DEF Accounted, NewRepos, NewPlugins, NewReleases, Valid, Release
    <3>2. CASE read.generation # object.generation
      <4>1. Reported(read.spec, status)
        BY <1>3, <3>2 DEF Known
      <4>2. status'.release = status.release
        BY <2>1, <4>1 DEF Reported
      <4>3. Release(read.spec) \in OwnReleases(status)
        BY <1>7, <4>1 DEF Reported, Release, OwnReleases
      <4> QED BY <1>1, <1>3, <2>1, <4>2, <4>3
              DEF Accounted, OwnRepos, OwnPlugins, OwnReleases, NewRepos,
                  NewPlugins, NewReleases, Valid, Release
    <3> QED BY <3>1, <3>2
  <2>4. PassStatus'
    BY <1>1, <1>2, <1>3, <2>1, <2>2, <2>3
       DEF PassStatus, Done, Known, Reported, Valid
  <2> QED BY <1>4, <1>5, <1>6, <1>9, <2>4 DEF IInv, Careful
<1>11. CASE EnsureClusterRepo
  <2>1. /\ status' = status /\ plugins' = plugins /\ releases' = releases
        /\ repos' = repos \cup {read.spec.name}
        /\ pc = "repo"
        /\ pc' = IF read.spec.kind = "Helm" THEN "plugin" ELSE "ensure"
    BY <1>11 DEF EnsureClusterRepo
  <2>2. StatusSound(status)'
    BY <1>1, <1>3, <2>1 DEF StatusSound, Valid
  <2>3. Accounted(status)'
    <3>1. read.spec.name \in OwnRepos(status) \cup NewRepos(object.spec)
      BY <1>3, <1>7 DEF Reported, OwnRepos, NewRepos
    <3> QED BY <1>1, <1>3, <2>1, <3>1
            DEF Accounted, OwnRepos, OwnPlugins, OwnReleases, NewRepos,
                NewPlugins, NewReleases, Valid, Release
  <2>4. PassStatus'
    BY <1>1, <1>2, <1>3, <2>1, <2>2, <2>3
       DEF PassStatus, Done, Known, Reported, Valid
  <2> QED BY <1>4, <1>5, <1>6, <1>9, <2>4 DEF IInv, Careful
<1>12. CASE EnsureUIPlugin
  <2>1. /\ pc = "plugin" /\ pc' = "persist" /\ repos' = repos /\ releases' = releases
        /\ plugins' = plugins \cup {read.spec.name}
        /\ status' = Installed(status)
    BY <1>12 DEF EnsureUIPlugin
  <2>2. /\ status'.phase = "Installed" /\ status'.active = read.spec.name
        /\ status'.kind = "Helm" /\ status'.observed = read.generation
        /\ status'.release = status.release
    BY <1>3, <1>7, <2>1 DEF Installed, Statuses
  <2>3. Reported(read.spec, status')
    BY <1>3, <2>1, <2>2 DEF Reported
  <2>4. StatusSound(status)'
    BY <1>7, <2>2 DEF StatusSound
  <2>5. Accounted(status)'
    <3>1. CASE read.generation = object.generation
      BY <1>1, <1>3, <1>7, <1>8, <3>1
         DEF Accounted, NewRepos, NewPlugins, NewReleases, Valid, Release
    <3>2. CASE read.generation # object.generation
      <4>1. Reported(read.spec, status)
        BY <1>3, <3>2 DEF Known
      <4> QED BY <1>1, <1>3, <1>7, <2>1, <2>2, <4>1
              DEF Accounted, OwnRepos, OwnPlugins, OwnReleases, NewRepos,
                  NewPlugins, NewReleases, Valid, Release, Reported
    <3> QED BY <3>1, <3>2
  <2>6. PassStatus'
    BY <1>1, <1>2, <1>3, <2>1, <2>2, <2>3, <2>4, <2>5
       DEF PassStatus, Done, Known, Reported, Valid
  <2> QED BY <1>4, <1>5, <1>6, <1>9, <2>6 DEF IInv, Careful
<1> QED BY <1>10, <1>11, <1>12

\* A Git source is installed when its release runs.
LEMMA InvRunning ==
  ASSUME IInv, TypeInv', ReleaseRunning
  PROVE  IInv'
<1>1. /\ object' = object /\ gone' = gone /\ cache' = cache /\ read' = read
      /\ repos' = repos /\ plugins' = plugins /\ releases' = releases
      /\ pc = "await" /\ pc' \in {"repo", "persist"}
  BY DEF ReleaseRunning, clusterVars
<1>2. Installing /\ ~Done /\ Installing'
  BY <1>1 DEF Installing, Deleting, Done
<1>3. /\ StatusSound(object.status)' /\ Accounted(object.status)'
      /\ SettledReported' /\ FinalizerFirst' /\ DeletionLeavesNothing'
  BY <1>1, ResourceShrinks
<1>4. CacheSound' /\ GoneIdle' /\ FinalizeClean'
  BY <1>1, <1>2, CacheKept, PassFacts DEF GoneIdle, FinalizeClean
<1>5. /\ read.status = object.status /\ Known(read)
      /\ StatusSound(status) /\ Accounted(status)
      /\ status.phase # "Installed" /\ status.active = read.status.active
      /\ status.kind = read.status.kind
      /\ status.observed = read.status.observed
      /\ Reported(read.spec, read.status) => Reported(read.spec, status)
      /\ Valid(read.spec)
      /\ read.spec.kind = "Helm" => status.release = read.spec.source
  BY <1>1, <1>2 DEF IInv, PassStatus
<1>6. PassClean'
  <2>1. status'.release = status.release
    BY <1>2, PassFacts DEF ReleaseRunning, Installed, Statuses
  <2> QED BY <1>1, <1>2, <2>1 DEF IInv, PassClean, Release
<1>7. CASE read.spec.kind = "Helm"
  <2>1. status' = status /\ pc' = "repo"
    BY <1>7 DEF ReleaseRunning
  <2>2. StatusSound(status)' /\ Accounted(status)'
    BY <1>1, <1>5, <2>1
       DEF StatusSound, Accounted, OwnRepos, OwnPlugins, OwnReleases,
           NewRepos, NewPlugins, NewReleases, Valid, Release
  <2>3. PassStatus'
    BY <1>1, <1>5, <1>7, <2>1, <2>2 DEF PassStatus, Done, Known, Reported, Valid
  <2> QED BY <1>3, <1>4, <1>6, <2>3 DEF IInv, Careful
<1>8. CASE read.spec.kind # "Helm"
  <2>1. status' = Installed(status) /\ pc' = "persist"
    BY <1>8 DEF ReleaseRunning
  <2>2. /\ status \in Statuses /\ read.spec.kind = "Git" /\ read.spec.name # None
        /\ read.generation = object.generation => read.spec = object.spec
    BY <1>2, <1>8, PassFacts, SpecFields
  <2>3. /\ status'.phase = "Installed" /\ status'.active = read.spec.name
        /\ status'.kind = "Git" /\ status'.observed = read.generation
        /\ status'.release = status.release
    BY <2>1, <2>2 DEF Installed, Statuses
  <2>4. Reported(read.spec, status')
    BY <1>5, <2>2, <2>3 DEF Reported
  <2>5. CASE read.generation = object.generation
    <3>1. read.spec = object.spec
      BY <2>2, <2>5
    <3>2. status.release = None
      BY <1>1, <1>2, <2>2, <2>5 DEF IInv, PassClean
    <3>3. StatusSound(status)'
      BY <2>2, <2>3, <3>2 DEF StatusSound
    <3>4. Accounted(status)'
      <4>1. /\ repos \subseteq {read.spec.name} /\ plugins \subseteq {}
            /\ releases \subseteq {Release(read.spec)}
        BY <1>1, <1>2, <2>2, <2>5 DEF IInv, PassClean
      <4> QED BY <1>1, <1>5, <3>1, <4>1
              DEF Accounted, NewRepos, NewPlugins, NewReleases, Valid, Release
    <3> QED BY <1>1, <1>3, <1>4, <1>5, <1>6, <2>1, <2>3, <2>4, <3>3, <3>4
            DEF IInv, Careful, PassStatus, Done, Known, Reported, Valid
  <2>6. CASE read.generation # object.generation
    <3>1. Reported(read.spec, status)
      BY <1>5, <2>6 DEF Known
    <3>2. status'.kind = status.kind /\ status'.active = status.active
      BY <2>2, <2>3, <3>1 DEF Reported
    <3>3. StatusSound(status)' /\ Accounted(status)'
      BY <1>1, <1>5, <2>3, <3>2
         DEF StatusSound, Accounted, OwnRepos, OwnPlugins, OwnReleases,
             NewRepos, NewPlugins, NewReleases, Valid, Release
    <3> QED BY <1>1, <1>3, <1>4, <1>5, <1>6, <2>1, <2>3, <2>4, <3>3
            DEF IInv, Careful, PassStatus, Done, Known, Reported, Valid
  <2> QED BY <2>5, <2>6
<1> QED BY <1>7, <1>8

\* A step that fails leaves what it may have created, and the status as it was.
LEMMA InvFails ==
  ASSUME IInv, TypeInv', StepFails
  PROVE  IInv'
<1>1. /\ object' = object /\ gone' = gone /\ cache' = cache /\ read' = read
      /\ pc \in {"check", "ensure", "await", "repo", "plugin"}
      /\ pc' = "persist"
      /\ repos' = repos \/ (pc = "repo" /\ repos' = repos \cup {read.spec.name})
      /\ plugins' = plugins
           \/ (pc = "plugin" /\ plugins' = plugins \cup {read.spec.name})
      /\ releases' = releases
           \/ (pc = "ensure" /\ releases' = releases \cup {Release(read.spec)})
  BY DEF StepFails
<1>2. Installing /\ ~Done /\ Installing'
  BY <1>1 DEF Installing, Deleting, Done
<1>3. /\ read.status = object.status /\ Known(read)
      /\ StatusSound(status) /\ Accounted(status)
      /\ status.phase # "Installed" /\ status.active = read.status.active
      /\ status.kind = read.status.kind
      /\ status.observed = read.status.observed
      /\ Reported(read.spec, read.status) => Reported(read.spec, status)
      /\ pc \in {"ensure", "repo", "plugin"} => Valid(read.spec)
      /\ pc = "plugin" => read.spec.kind = "Helm"
  BY <1>1, <1>2 DEF IInv, PassStatus
<1>4. /\ StatusSound(object.status)' /\ Accounted(object.status)'
      /\ SettledReported' /\ FinalizerFirst' /\ DeletionLeavesNothing'
  <2>1. CASE UNCHANGED clusterVars
    BY <1>1, <2>1, ResourceShrinks DEF clusterVars
  <2>2. CASE Valid(read.spec)
    BY <1>1, <1>2, <1>3, <2>2, ResourceGrows
  <2> QED BY <1>1, <1>3, <2>1, <2>2 DEF clusterVars
<1>5. CacheSound' /\ GoneIdle' /\ FinalizeClean'
  BY <1>1, <1>2, CacheKept, PassFacts DEF GoneIdle, FinalizeClean
<1>6. /\ status'.phase # "Installed" /\ status'.active = status.active
      /\ status'.kind = status.kind /\ status'.observed = status.observed
      /\ status'.release = status.release
  <2>1. status \in Statuses
    BY <1>2, PassFacts
  <2> QED BY <2>1 DEF StepFails, Statuses
<1>7. StatusSound(status)'
  BY <1>1, <1>3, <1>6 DEF StatusSound, Valid
<1>8. Accounted(status)'
  <2>1. /\ OwnRepos(status)' = OwnRepos(status)
        /\ OwnPlugins(status)' = OwnPlugins(status)
        /\ OwnReleases(status)' = OwnReleases(status)
        /\ NewRepos(object.spec)' = NewRepos(object.spec)
        /\ NewPlugins(object.spec)' = NewPlugins(object.spec)
        /\ NewReleases(object.spec)' = NewReleases(object.spec)
    BY <1>1, <1>6 DEF OwnRepos, OwnPlugins, OwnReleases, NewRepos, NewPlugins,
                      NewReleases, Valid, Release
  <2>2. Valid(read.spec) =>
          /\ read.spec.name \in OwnRepos(status) \cup NewRepos(object.spec)
          /\ read.spec.kind = "Helm" => read.spec.name \in
               OwnPlugins(status) \cup NewPlugins(object.spec)
          /\ Release(read.spec) \in
               OwnReleases(status) \cup NewReleases(object.spec)
    BY <1>2, PassFacts, SpecFields
       DEF OwnRepos, OwnPlugins, OwnReleases, NewRepos, NewPlugins,
           NewReleases, Release, Reported
  <2> QED BY <1>1, <1>3, <2>1, <2>2 DEF Accounted
<1>9. PassStatus' /\ PassClean'
  BY <1>1, <1>3, <1>6, <1>7, <1>8
     DEF PassStatus, PassClean, Done, Known, Reported, Valid
<1> QED BY <1>4, <1>5, <1>9 DEF IInv, Careful

\* A pass that is interrupted leaves the resource as it was.
LEMMA InvInterrupted ==
  ASSUME IInv, TypeInv', Interrupted
  PROVE  IInv'
<1>1. /\ object' = object /\ gone' = gone /\ cache' = cache /\ pc' = "idle"
      /\ repos' = repos /\ plugins' = plugins /\ releases' = releases
  BY DEF Interrupted, EndPass, clusterVars
<1> QED BY <1>1, ResourceShrinks, CacheKept, IdlePass DEF IInv, Careful

\* The pass writes its status, which accounts for what is there.
LEMMA InvPersist ==
  ASSUME IInv, TypeInv', PersistStatus
  PROVE  IInv'
<1>1. /\ gone' = gone /\ cache' = cache /\ pc = "persist" /\ pc' = "idle"
      /\ repos' = repos /\ plugins' = plugins /\ releases' = releases
      /\ object' = [object EXCEPT !.status = Patched(@, read.status, status)]
  BY DEF PersistStatus, EndPass, clusterVars
<1>2. Installing
  BY <1>1 DEF Installing, Deleting
<1>3. /\ object \in Objects /\ read \in Objects /\ status \in Statuses
      /\ object.finalizer /\ ~gone
      /\ read.generation = object.generation => read.spec = object.spec
  BY <1>2, PassFacts
<1>4. /\ read.status = object.status /\ Known(read)
      /\ StatusSound(status) /\ Accounted(status)
      /\ ~Done => /\ status.phase # "Installed"
                  /\ status.active = read.status.active
                  /\ status.kind = read.status.kind
                  /\ status.observed = read.status.observed
      /\ Done => Reported(read.spec, status) /\ status.observed = read.generation
      /\ Reported(read.spec, read.status) => Reported(read.spec, status)
  BY <1>2 DEF IInv, PassStatus
<1>5. /\ object'.status = status /\ object'.spec = object.spec
      /\ object'.generation = object.generation
      /\ object'.finalizer = object.finalizer
      /\ object'.deleting = object.deleting
  <2>1. Patched(object.status, read.status, status) = status
    BY <1>3, <1>4, PatchedStatus DEF Objects
  <2> QED BY <1>1, <1>3, <2>1 DEF Objects
<1>6. StatusSound(object.status)' /\ Accounted(object.status)'
  BY <1>1, <1>4, <1>5
     DEF StatusSound, Accounted, OwnRepos, OwnPlugins, OwnReleases, NewRepos,
         NewPlugins, NewReleases, Valid, Release
<1>7. SettledReported'
  BY <1>1, <1>3, <1>4, <1>5 DEF SettledReported, Settled, Done, Reported, Valid
<1>8. CacheSound'
  <2>1. /\ Before(cache, object) /\ Known(cache) /\ Before(read, cache)
        /\ object.status.observed <= cache.generation
    BY <1>2 DEF IInv, CacheSound, Installing
  <2>2. /\ cache \in Objects /\ cache.generation \in Nat
        /\ read.generation \in Nat /\ object.generation \in Nat
    BY <1>3 DEF IInv, TypeInv, TypeOK, Objects
  <2>3. Before(cache, object)'
    BY <1>1, <1>5, <2>1 DEF Before
  <2>4. (object.status.observed <= cache.generation)'
    BY <1>1, <1>4, <1>5, <2>1, <2>2 DEF Before
  <2>5. Known(cache)'
    <3>1. ASSUME cache.generation # object.generation, Valid(cache.spec)
          PROVE  /\ cache.generation = status.observed
                 /\ Reported(cache.spec, status)
      <4>1. /\ cache.generation = object.status.observed
            /\ Reported(cache.spec, object.status)
        BY <2>1, <3>1 DEF Known
      <4>2. object.status.observed <= read.generation
        BY <1>2 DEF IInv, CacheSound, Installing
      <4>3. read.generation = cache.generation /\ read.spec = cache.spec
        BY <2>1, <2>2, <4>1, <4>2 DEF Before
      <4> QED BY <1>4, <4>1, <4>3
    <3> QED BY <1>1, <1>5, <3>1 DEF Known, Reported, Valid
  <2> QED BY <1>1, <2>3, <2>4, <2>5 DEF CacheSound
<1>9. FinalizerFirst' /\ DeletionLeavesNothing'
  BY <1>1, <1>3, <1>5 DEF FinalizerFirst, DeletionLeavesNothing
<1> QED BY <1>1, <1>6, <1>7, <1>8, <1>9, IdlePass DEF IInv, Careful

\* The resource gets its finalizer before anything is created for it.
LEMMA InvFinalizer ==
  ASSUME IInv, TypeInv', EnsureFinalizer
  PROVE  IInv'
<1>1. /\ gone' = gone /\ ~gone /\ cache' = cache /\ cache = object
      /\ pc = "idle" /\ pc' = "idle"
      /\ repos' = repos /\ plugins' = plugins /\ releases' = releases
      /\ object' = [object EXCEPT !.finalizer = TRUE]
  BY DEF EnsureFinalizer, clusterVars, passVars
<1>2. object \in Objects
  BY DEF IInv, TypeInv, TypeOK
<1>3. /\ object'.status = object.status /\ object'.spec = object.spec
      /\ object'.generation = object.generation /\ object'.finalizer
  BY <1>1, <1>2 DEF Objects
<1>4. StatusSound(object.status)' /\ Accounted(object.status)'
  BY <1>1, <1>3
     DEF IInv, StatusSound, Accounted, OwnRepos, OwnPlugins, OwnReleases,
         NewRepos, NewPlugins, NewReleases, Valid, Release
<1>5. SettledReported' /\ FinalizerFirst' /\ DeletionLeavesNothing'
  BY <1>1, <1>3
     DEF IInv, SettledReported, Settled, Reported, Valid, FinalizerFirst,
         DeletionLeavesNothing
<1>6. CacheSound'
  BY <1>1, <1>3 DEF IInv, CacheSound, Before, Known
<1> QED BY <1>1, <1>4, <1>5, <1>6, IdlePass DEF IInv, Careful

\* cleanup removes all it knows of, or the finalizer stays.
LEMMA InvCleanup ==
  ASSUME IInv, TypeInv', Cleanup
  PROVE  IInv'
<1>1. /\ object' = object /\ gone' = gone /\ cache' = cache /\ pc = "cleanup"
      /\ repos' \subseteq repos /\ plugins' \subseteq plugins
      /\ releases' \subseteq releases
      /\ EndPass \/ (pc' = "finalize" /\ read' = read)
  BY DEF Cleanup
<1>2. /\ StatusSound(object.status)' /\ Accounted(object.status)'
      /\ SettledReported' /\ FinalizerFirst' /\ DeletionLeavesNothing'
  BY <1>1, ResourceShrinks
<1>3. CASE EndPass
  <2>1. pc' = "idle"
    BY <1>3 DEF EndPass
  <2> QED BY <1>1, <1>2, <2>1, CacheKept, IdlePass DEF IInv, Careful
<1>4. CASE pc' = "finalize" /\ read' = read
  <2>1. CacheSound' /\ GoneIdle'
    BY <1>1, <1>4, CacheKept DEF IInv, GoneIdle
  <2>2. PassStatus' /\ PassClean'
    BY <1>4 DEF PassStatus, PassClean, Installing, Deleting
  <2>3. FinalizeClean'
    <3>1. /\ repos' = repos \ ({read.spec.name, read.status.active} \ {None})
          /\ plugins' = plugins \ ({read.spec.name, read.status.active} \ {None})
          /\ releases' = releases \ ToUninstall(read)
      BY <1>4 DEF Cleanup, EndPass
    <3>2. None \notin repos /\ None \notin plugins
      BY NoneAssumption DEF IInv, TypeInv, TypeOK
    <3>3. ToUninstall(read)' = ToUninstall(read)
      BY <1>4 DEF ToUninstall
    <3> QED BY <1>4, <3>1, <3>2, <3>3 DEF FinalizeClean
  <2> QED BY <1>2, <2>1, <2>2, <2>3 DEF IInv, Careful
<1> QED BY <1>1, <1>3, <1>4

\* The finalizer goes if the resource is the one that was cleaned up: what its
\* status and its spec account for is gone.
LEMMA InvRemove ==
  ASSUME IInv, TypeInv', RemoveFinalizer
  PROVE  IInv'
<1>1. /\ object' = object /\ cache' = cache /\ pc = "finalize" /\ pc' = "idle"
      /\ repos' = repos /\ plugins' = plugins /\ releases' = releases
      /\ gone' = (read = object)
  BY DEF RemoveFinalizer, EndPass, clusterVars
<1>2. StatusSound(object.status)' /\ SettledReported' /\ FinalizerFirst'
  BY <1>1
     DEF IInv, StatusSound, SettledReported, Settled, Reported, Valid,
         FinalizerFirst
<1>3. Accounted(object.status)'
  BY <1>1
     DEF IInv, Accounted, OwnRepos, OwnPlugins, OwnReleases, NewRepos,
         NewPlugins, NewReleases, Valid, Release
<1>4. DeletionLeavesNothing'
  <2>1. SUFFICES ASSUME read = object
                 PROVE  /\ repos = {} /\ plugins = {}
                        /\ releases \subseteq Unrecorded(object)
    BY <1>1 DEF DeletionLeavesNothing, Unrecorded
  <2>2. Accounted(object.status)
    BY DEF IInv
  <2>3. /\ object.spec.name \notin repos /\ object.spec.name \notin plugins
        /\ object.status.active \notin repos
        /\ object.status.active \notin plugins
        /\ releases \cap ToUninstall(object) = {}
    BY <1>1, <2>1 DEF IInv, FinalizeClean
  <2>4. object.spec.kind \in {"Helm", "Git"} /\ object.spec.name # None
    BY SpecFields DEF IInv, TypeInv, TypeOK, Objects
  <2>5. repos = {} /\ plugins = {}
    BY <2>2, <2>3 DEF Accounted, OwnRepos, OwnPlugins, NewRepos, NewPlugins
  <2>6. object.status.kind = "Git" => object.status.active # None
    BY DEF IInv, StatusSound
  <2>7. OwnReleases(object.status) \subseteq ToUninstall(object)
    BY <2>6 DEF OwnReleases, ToUninstall
  <2>8. NewReleases(object.spec) \subseteq
          ToUninstall(object) \cup Unrecorded(object)
    <3>1. CASE object.spec.kind = "Git"
      BY <2>4, <3>1 DEF NewReleases, Release, ToUninstall
    <3>2. CASE object.spec.kind = "Helm"
      <4>1. object.spec.source # None
        BY <3>2, SpecFields DEF IInv, TypeInv, TypeOK, Objects
      <4> QED BY <3>2, <4>1 DEF NewReleases, Release, ToUninstall, Unrecorded
    <3> QED BY <2>4, <3>1, <3>2
  <2> QED BY <2>2, <2>3, <2>5, <2>7, <2>8 DEF Accounted
<1> QED BY <1>1, <1>2, <1>3, <1>4, CacheKept, IdlePass DEF IInv, Careful

\* The informer brings the resource as it is.
LEMMA InvSync ==
  ASSUME IInv, TypeInv', CacheSync
  PROVE  IInv'
<1>1. /\ object' = object /\ gone' = gone /\ cache' = object
      /\ pc' = pc /\ read' = read /\ status' = status
      /\ repos' = repos /\ plugins' = plugins /\ releases' = releases
  BY DEF CacheSync, clusterVars, passVars
<1>2. /\ StatusSound(object.status)' /\ Accounted(object.status)'
      /\ SettledReported' /\ FinalizerFirst' /\ DeletionLeavesNothing'
  BY <1>1, ResourceShrinks
<1>3. CacheSound'
  <2>1. /\ cache \in Objects /\ object \in Objects
        /\ pc # "idle" => read \in Objects
    BY DEF IInv, TypeInv, TypeOK
  <2>2. /\ cache.generation \in Nat /\ object.generation \in Nat
        /\ pc # "idle" => read.generation \in Nat
        /\ object.status.observed \in Nat
    BY <2>1, BoundAssumption DEF Objects, Statuses
  <2>3. /\ Before(cache, object) /\ object.status.observed <= cache.generation
        /\ pc # "idle" => Before(read, cache) /\ read.finalizer
             /\ object.status.observed <= read.generation
    BY DEF IInv, CacheSound
  <2>4. pc # "idle" => Before(read, object)
    BY <2>2, <2>3 DEF Before
  <2> QED BY <1>1, <2>2, <2>3, <2>4 DEF CacheSound, Before, Known
<1>4. PassStatus'
  BY <1>1
     DEF IInv, PassStatus, Installing, Deleting, Done, Known, Reported, Valid,
         StatusSound, Accounted, OwnRepos, OwnPlugins, OwnReleases, NewRepos,
         NewPlugins, NewReleases, Release
<1>5. PassClean' /\ FinalizeClean' /\ GoneIdle'
  BY <1>1
     DEF IInv, PassClean, FinalizeClean, GoneIdle, Installing, Deleting, Done,
         Release, ToUninstall
<1> QED BY <1>2, <1>3, <1>4, <1>5 DEF IInv, Careful

\* An administrator may remove anything, at any point of a pass.
LEMMA InvByHand ==
  ASSUME IInv, TypeInv', RemoveByHand
  PROVE  IInv'
<1>1. /\ object' = object /\ gone' = gone /\ cache' = cache
      /\ pc' = pc /\ read' = read /\ status' = status
      /\ repos' \subseteq repos /\ plugins' \subseteq plugins
      /\ releases' \subseteq releases
  BY DEF RemoveByHand, passVars
<1>2. /\ StatusSound(object.status)' /\ Accounted(object.status)'
      /\ SettledReported' /\ FinalizerFirst' /\ DeletionLeavesNothing'
  BY <1>1, ResourceShrinks
<1>3. CacheSound'
  BY <1>1, CacheKept
<1>4. PassStatus'
  BY <1>1
     DEF IInv, PassStatus, Installing, Deleting, Done, Known, Reported, Valid,
         StatusSound, Accounted, OwnRepos, OwnPlugins, OwnReleases, NewRepos,
         NewPlugins, NewReleases, Release
<1>5. PassClean'
  BY <1>1 DEF IInv, PassClean, Installing, Deleting, Done, Release
<1>6. FinalizeClean' /\ GoneIdle'
  BY <1>1 DEF IInv, FinalizeClean, GoneIdle, ToUninstall
<1> QED BY <1>2, <1>3, <1>4, <1>5, <1>6 DEF IInv, Careful

\* A deletion changes nothing that is said of the resource; without the
\* finalizer there is nothing to clean up.
LEMMA InvDelete ==
  ASSUME IInv, TypeInv', DeleteObject
  PROVE  IInv'
<1>1. /\ cache' = cache /\ ~gone /\ gone' = ~object.finalizer
      /\ pc' = pc /\ read' = read /\ status' = status
      /\ repos' = repos /\ plugins' = plugins /\ releases' = releases
      /\ object' = [object EXCEPT !.deleting = TRUE]
  BY DEF DeleteObject, clusterVars, passVars
<1>2. object \in Objects
  BY DEF IInv, TypeInv, TypeOK
<1>3. /\ object'.status = object.status /\ object'.spec = object.spec
      /\ object'.generation = object.generation
      /\ object'.finalizer = object.finalizer
  BY <1>1, <1>2 DEF Objects
<1>4. ~object.finalizer => pc = "idle"
  BY DEF IInv, CacheSound, Before
<1>5. StatusSound(object.status)' /\ Accounted(object.status)'
  BY <1>1, <1>3
     DEF IInv, StatusSound, Accounted, OwnRepos, OwnPlugins, OwnReleases,
         NewRepos, NewPlugins, NewReleases, Valid, Release
<1>6. SettledReported' /\ FinalizerFirst' /\ DeletionLeavesNothing'
  BY <1>1, <1>3
     DEF IInv, SettledReported, Settled, Reported, Valid, FinalizerFirst,
         DeletionLeavesNothing
<1>7. CacheSound'
  BY <1>1, <1>3 DEF IInv, CacheSound, Before, Known, Reported, Valid
<1>8. PassStatus'
  BY <1>1, <1>3
     DEF IInv, PassStatus, Installing, Deleting, Done, Known, Reported, Valid,
         StatusSound, Accounted, OwnRepos, OwnPlugins, OwnReleases, NewRepos,
         NewPlugins, NewReleases, Release
<1>9. PassClean'
  BY <1>1, <1>3 DEF IInv, PassClean, Installing, Deleting, Done, Release
<1>10. FinalizeClean' /\ GoneIdle'
  BY <1>1, <1>4 DEF IInv, FinalizeClean, GoneIdle, ToUninstall
<1> QED BY <1>5, <1>6, <1>7, <1>8, <1>9, <1>10 DEF IInv, Careful

\* An edit follows the report of the last one, whose objects the status then
\* accounts for, or the edit of a spec that created none.
LEMMA InvEdit ==
  ASSUME IInv, TypeInv', EditSpec
  PROVE  IInv'
<1>1. /\ cache' = cache /\ gone' = gone /\ ~gone
      /\ pc' = pc /\ read' = read /\ status' = status
      /\ repos' = repos /\ plugins' = plugins /\ releases' = releases
      /\ Settled(object) \/ ~Valid(object.spec)
  BY DEF EditSpec, clusterVars, passVars, Valid, IInv, Careful
<1>2. object \in Objects /\ cache \in Objects /\ (pc # "idle" => read \in Objects)
  BY DEF IInv, TypeInv, TypeOK
<1>3. /\ object'.status = object.status
      /\ object'.generation = object.generation + 1
      /\ object'.finalizer = object.finalizer
  <2>1. PICK s \in Specs :
          object' = [object EXCEPT !.spec = s, !.generation = @ + 1]
    BY DEF EditSpec
  <2> QED BY <1>2, <2>1 DEF Objects
<1>4. /\ object.generation \in Nat /\ cache.generation \in Nat
      /\ object.status.observed \in Nat
      /\ pc # "idle" => read.generation \in Nat
  BY <1>2, BoundAssumption DEF Objects, Statuses
<1>5. /\ Before(cache, object) /\ Known(cache)
      /\ object.status.observed <= cache.generation
      /\ pc # "idle" => /\ Before(read, cache)
                        /\ object.status.observed <= read.generation
                        /\ read.finalizer
      /\ StatusSound(object.status) /\ Accounted(object.status)
  BY DEF IInv, CacheSound
<1>6. /\ cache.generation <= object.generation
      /\ cache.generation = object.generation => cache.spec = object.spec
      /\ pc # "idle" =>
           /\ read.generation <= object.generation
           /\ read.generation = object.generation => read.spec = object.spec
  BY <1>4, <1>5 DEF Before
<1>7. Valid(object.spec) =>
        /\ Reported(object.spec, object.status)
        /\ object.status.observed = object.generation
        /\ pc # "idle" => read.spec = object.spec
  <2>1. ASSUME Valid(object.spec)
        PROVE  Reported(object.spec, object.status)
                 /\ object.status.observed = object.generation
    BY <1>1, <2>1 DEF IInv, SettledReported, Settled
  <2> QED BY <1>4, <1>5, <1>6, <2>1
<1>8. CacheSound'
  <2>1. Known(cache)'
    <3>1. Known(cache) /\ cache' = cache
      BY <1>1, <1>5
    <3> QED BY <1>3, <1>6, <1>7, <3>1 DEF Known, Reported, Valid
  <2> QED BY <1>1, <1>3, <1>4, <1>5, <1>6, <2>1 DEF CacheSound, Before
<1>9. ASSUME NEW st, StatusSound(st), Accounted(st),
              Valid(object.spec) => Reported(object.spec, st)
       PROVE  /\ st.active = None <=> st.kind = "None"
              /\ ~(st.kind # "Helm" /\ st.release # None)
              /\ repos \subseteq OwnRepos(st)
              /\ plugins \subseteq OwnPlugins(st)
              /\ releases \subseteq OwnReleases(st)
  <2>1. /\ object.spec.name # None /\ object.spec.kind \in {"Helm", "Git"}
        /\ object.spec.kind = "Helm" => object.spec.source # None
    BY <1>2, SpecFields DEF Objects
  <2> QED BY <1>9, <2>1
          DEF StatusSound, Accounted, Reported, OwnRepos, OwnPlugins,
              OwnReleases, NewRepos, NewPlugins, NewReleases, Release
<1>10. StatusSound(object.status)' /\ Accounted(object.status)'
  BY <1>1, <1>3, <1>5, <1>7, <1>9
     DEF StatusSound, Accounted, OwnRepos, OwnPlugins, OwnReleases
<1>11. PassStatus'
  <2>1. SUFFICES ASSUME Installing PROVE PassStatus'
    BY <1>1 DEF PassStatus, Installing, Deleting
  <2>2. /\ read.status = object.status /\ Known(read)
        /\ StatusSound(status) /\ Accounted(status)
        /\ Reported(read.spec, read.status) => Reported(read.spec, status)
    BY <2>1 DEF IInv, PassStatus
  <2>3. Known(read)'
    BY <1>1, <1>3, <1>6, <1>7, <2>1, <2>2 DEF Known, Reported, Valid, Installing
  <2>4. StatusSound(status)' /\ Accounted(status)'
    BY <1>1, <1>7, <1>9, <2>1, <2>2
       DEF StatusSound, Accounted, OwnRepos, OwnPlugins, OwnReleases,
           Installing
  <2> QED BY <1>1, <1>3, <2>3, <2>4
          DEF IInv, PassStatus, Installing, Deleting, Done, Reported, Valid
<1>12. PassClean'
  BY <1>1, <1>3, <1>4, <1>6 DEF PassClean, Installing
<1>13. SettledReported' /\ FinalizerFirst' /\ DeletionLeavesNothing'
  BY <1>1, <1>3, <1>4, <1>5, <1>6
     DEF IInv, SettledReported, Settled, FinalizerFirst, DeletionLeavesNothing
<1>14. FinalizeClean' /\ GoneIdle'
  BY <1>1 DEF IInv, FinalizeClean, GoneIdle, ToUninstall
<1> QED BY <1>8, <1>10, <1>11, <1>12, <1>13, <1>14 DEF IInv, Careful

\* A resource just created has nothing in the cluster.
LEMMA InvInit ==
  ASSUME Init, Careful
  PROVE  IInv
<1>1. PICK s \in Specs :
        object = [spec |-> s, generation |-> 1, deleting |-> FALSE,
                  finalizer |-> FALSE, status |-> NoStatus]
  BY DEF Init
<1>2. /\ object.spec = s /\ object.generation = 1 /\ ~object.finalizer
      /\ object.status = NoStatus /\ cache = object /\ pc = "idle"
      /\ repos = {} /\ plugins = {} /\ releases = {} /\ gone = FALSE
  BY <1>1 DEF Init
<1>3. TypeInv
  BY TypeInit
<1>4. StatusSound(object.status) /\ Accounted(object.status) /\ SettledReported
  BY <1>2 DEF NoStatus, StatusSound, Accounted, SettledReported, Settled
<1>5. CacheSound /\ FinalizerFirst
  BY <1>2 DEF NoStatus, CacheSound, Before, Known, FinalizerFirst
<1>6. /\ PassStatus /\ PassClean /\ FinalizeClean /\ GoneIdle
      /\ DeletionLeavesNothing
  BY <1>2 DEF PassStatus, PassClean, FinalizeClean, GoneIdle, Installing,
              DeletionLeavesNothing
<1> QED BY <1>3, <1>4, <1>5, <1>6 DEF IInv

\* Nothing happens.
LEMMA InvStutter ==
  ASSUME IInv, UNCHANGED vars
  PROVE  IInv'
<1> USE DEF vars, clusterVars, passVars
<1>1. TypeInv' /\ Careful'
  BY DEF IInv, TypeInv, TypeOK, Careful
<1>2. /\ StatusSound(object.status)' /\ Accounted(object.status)'
      /\ SettledReported' /\ FinalizerFirst' /\ DeletionLeavesNothing'
  BY ResourceShrinks
<1>3. CacheSound'
  BY CacheKept
<1>4. PassStatus'
  BY DEF IInv, PassStatus, Installing, Deleting, Done, Known, Reported, Valid,
         StatusSound, Accounted, OwnRepos, OwnPlugins, OwnReleases, NewRepos,
         NewPlugins, NewReleases, Release
<1>5. PassClean' /\ FinalizeClean' /\ GoneIdle'
  BY DEF IInv, PassClean, FinalizeClean, GoneIdle, Installing, Deleting, Done,
         Release, ToUninstall
<1> QED BY <1>1, <1>2, <1>3, <1>4, <1>5 DEF IInv

\* Every step preserves the invariant.
LEMMA InvStep ==
  ASSUME IInv, [Next]_vars
  PROVE  IInv'
<1>1. TypeInv'
  BY TypeStep DEF IInv
<1>2. CASE Pass
  BY <1>1, <1>2, InvFinalizer, InvBegin, InvStale, InvValidate, InvInstall,
     InvRunning, InvPersist, InvCleanup, InvRemove
     DEF Pass
<1>3. CASE StepFails \/ Interrupted
  BY <1>1, <1>3, InvFails, InvInterrupted
<1>4. CASE EditSpec \/ DeleteObject \/ RemoveByHand \/ CacheSync
  BY <1>1, <1>4, InvEdit, InvDelete, InvByHand, InvSync
<1>5. CASE UNCHANGED vars
  BY <1>5, InvStutter
<1> QED BY <1>2, <1>3, <1>4, <1>5 DEF Next

\* What is accounted for once the current spec is reported is its own.
LEMMA NothingElse ==
  ASSUME IInv
  PROVE  NoLeftovers
<1>1. SUFFICES ASSUME Settled(object) PROVE OnlyOf(object.spec)
  BY DEF NoLeftovers
<1>2. Reported(object.spec, object.status)
  BY <1>1 DEF IInv, SettledReported
<1>3. StatusSound(object.status) /\ Accounted(object.status)
  BY DEF IInv
<1>4. object.spec.kind \in {"Helm", "Git"}
  BY SpecFields DEF IInv, TypeInv, TypeOK, Objects
<1>5. object.status.kind = "Git" => object.status.release = None
  BY <1>2, <1>3 DEF StatusSound, Reported
<1> QED BY <1>2, <1>3, <1>4, <1>5
        DEF OnlyOf, Accounted, Reported, OwnRepos, OwnPlugins, OwnReleases,
            NewRepos, NewPlugins, NewReleases, Release

-----------------------------------------------------------------------------
(* The theorems *)

\* cleanupStaleResources and reconcileHelmSource: however often the spec was
\* edited and wherever passes failed, died or read an old spec, once an edit is
\* reported installed nothing of the specs before it is left.
THEOREM NothingOfOldSpecs == Careful /\ Spec => []NoLeftovers
<1>1. Careful /\ Init => IInv
  BY InvInit
<1>2. IInv /\ [Next]_vars => IInv'
  BY InvStep
<1>3. IInv => NoLeftovers
  BY NothingElse
<1> QED BY <1>1, <1>2, <1>3, PTL DEF Spec

\* The finalizer of finalizer.go: once the resource is gone, nothing the
\* controller created for any of its specs is left but an unrecorded release.
THEOREM NothingAfterDeletion == Careful /\ Spec => []DeletionLeavesNothing
<1>1. Careful /\ Init => IInv
  BY InvInit
<1>2. IInv /\ [Next]_vars => IInv'
  BY InvStep
<1>3. IInv => DeletionLeavesNothing
  BY DEF IInv
<1> QED BY <1>1, <1>2, <1>3, PTL DEF Spec
=============================================================================
