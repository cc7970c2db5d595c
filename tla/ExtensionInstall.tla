-------------------------- MODULE ExtensionInstall --------------------------
(***************************************************************************)
(* The InstallAIExtension controller (internal/controller/                 *)
(* installaiextension) on one custom resource: what it creates in the      *)
(* cluster (ClusterRepos, UIPlugins, Helm releases) against what it        *)
(* remembers of it in the resource's status, through edits of the spec,    *)
(* failing calls, death of the process and deletion.                       *)
(*                                                                         *)
(* A pass reads the resource from the informer cache, which may lag behind *)
(* the server; its Updates carry a resourceVersion, its status patch does  *)
(* not.  Passes for one resource never overlap.  The steps of a pass are   *)
(* its calls; a group of calls that are all made whatever becomes of each  *)
(* is one step in which some of them succeed.                              *)
(*                                                                         *)
(* A release is its name: deriveReleaseName of the chart URL for a Helm    *)
(* source, the extension's name for a Git source; EnsureRelease is what    *)
(* module HelmRelease says of it.  A failing call, a pending release and a *)
(* deployment that is not ready are faults, of which there are finitely    *)
(* many.                                                                   *)
(***************************************************************************)
EXTENDS Naturals, FiniteSets

CONSTANTS
  Names,           \* extension names
  Charts,          \* release names derived from chart URLs
  GitRepos,        \* git repositories
  Invalid,         \* charts and repositories that fail validation
  Refused,         \* the ones refused before the old release is uninstalled
  None,            \* "" : nothing recorded
  Patient,         \* the spec is edited only once its last edit is installed
  UninstallFails,  \* uninstalling the release of an old spec may fail
  StatusLags,      \* a pass may start before the cache has the status of the last
  MaxEdits,        \* bound: edits of the spec
  MaxFaults        \* bound: calls that fail or are not ready, crashes

ASSUME NoneAssumption == None \notin Names \cup Charts
ASSUME SourceAssumption ==
  Invalid \subseteq Charts \cup GitRepos /\ Refused \subseteq Invalid
ASSUME EnvironmentAssumption ==
  Patient \in BOOLEAN /\ UninstallFails \in BOOLEAN /\ StatusLags \in BOOLEAN
ASSUME BoundAssumption == MaxEdits \in Nat /\ MaxFaults \in Nat

VARIABLES
  object,    \* the InstallAIExtension on the API server
  gone,      \* it was deleted and its finalizer removed
  cache,     \* the informer's copy
  repos,     \* ClusterRepos, by extension name
  plugins,   \* UIPlugins, by extension name
  releases,  \* Helm releases
  pc,        \* where the pass is
  read,      \* the resource as the pass read it
  status,    \* the status the pass accumulates
  edits, faults

clusterVars == <<repos, plugins, releases>>
passVars == <<pc, read, status>>
vars == <<object, gone, cache, clusterVars, passVars, edits, faults>>

-----------------------------------------------------------------------------
(* Values *)

Specs == [name : Names, kind : {"Helm"}, source : Charts]
           \cup [name : Names, kind : {"Git"}, source : GitRepos]

Phases == {"None", "Installing", "Installed", "Failed"}

\* active and kind are ActiveExtensionName and ActiveSourceKind, release is
\* HelmReleaseName, observed is ObservedGeneration.
Statuses == [active : Names \cup {None}, kind : {"Helm", "Git", "None"},
             release : Charts \cup {None}, phase : Phases,
             observed : 0 .. MaxEdits + 1]

NoStatus == [active |-> None, kind |-> "None", release |-> None,
             phase |-> "None", observed |-> 0]

Objects == [spec : Specs, generation : 1 .. MaxEdits + 1, deleting : BOOLEAN,
            finalizer : BOOLEAN, status : Statuses]
NoRead == [deleting |-> FALSE]

Steps == {"stale", "check", "source", "ensure", "await", "repo", "plugin",
          "persist", "cleanup", "finalize"}

\* The release a spec installs.
Release(spec) == IF spec.kind = "Helm" THEN spec.source ELSE spec.name

\* Mutant: the release of a Git source is not uninstalled.
RecordedHelm(st) == {st.release} \ {None}

\* The release a status remembers: its name is kept for a Helm source only,
\* a Git source installs under the extension's name.
Recorded(st) ==
  IF st.kind = "Git" THEN {st.active} ELSE {st.release} \ {None}

TypeOK ==
  /\ object \in Objects /\ gone \in BOOLEAN
  /\ cache \in Objects
  /\ repos \subseteq Names /\ plugins \subseteq Names
  /\ releases \subseteq Names \cup Charts
  /\ pc \in {"idle"} \cup Steps
  /\ IF pc = "idle" THEN read = NoRead ELSE read \in Objects
  /\ status \in Statuses
  /\ edits \in 0 .. MaxEdits /\ faults \in 0 .. MaxFaults

\* A resource just created.
Init ==
  /\ \E s \in Specs :
       object = [spec |-> s, generation |-> 1, deleting |-> FALSE,
                 finalizer |-> FALSE, status |-> NoStatus]
  /\ gone = FALSE /\ cache = object
  /\ repos = {} /\ plugins = {} /\ releases = {}
  /\ pc = "idle" /\ read = NoRead /\ status = NoStatus
  /\ edits = 0 /\ faults = 0

\* A fault happens in this step if `happens'.
FaultIf(happens) ==
  /\ happens => faults < MaxFaults
  /\ faults' = IF happens THEN faults + 1 ELSE faults

EndPass == pc' = "idle" /\ read' = NoRead /\ status' = NoStatus

-----------------------------------------------------------------------------
(* A pass: reconcileRequest and reconcile *)

\* The Update conflicts unless the cache is current.
EnsureFinalizer ==
  /\ pc = "idle" /\ ~gone
  /\ ~cache.deleting /\ ~cache.finalizer
  /\ cache = object
  /\ object' = [object EXCEPT !.finalizer = TRUE]
  /\ UNCHANGED <<gone, cache, clusterVars, passVars, edits, faults>>

\* Mutant: nothing is done for a generation that was observed.
StartPassOnce ==
  /\ pc = "idle" /\ ~gone
  /\ ~cache.deleting /\ cache.finalizer
  /\ StatusLags \/ cache.status = object.status
  /\ cache.status.observed # cache.generation
  /\ read' = cache
  /\ status' = [cache.status EXCEPT !.phase = "Installing"]
  /\ pc' = "stale"
  /\ UNCHANGED <<object, gone, cache, clusterVars, edits, faults>>

StartPass ==
  /\ pc = "idle" /\ ~gone
  /\ ~cache.deleting /\ cache.finalizer
  /\ StatusLags \/ cache.status = object.status
  /\ read' = cache
  /\ status' = [cache.status EXCEPT !.phase = "Installing"]
  /\ pc' = "stale"
  /\ UNCHANGED <<object, gone, cache, clusterVars, edits, faults>>

Renamed == read.status.active \notin {None, read.spec.name}
Switched == read.status.kind \notin {"None", read.spec.kind}

\* Removes what the status remembers of a spec with another name or source.
\* Errors are collected and returned, except of uninstalling a Git release;
\* the release name is forgotten whether or not the release is gone.
CleanupStaleResources ==
  /\ pc = "stale"
  /\ IF Renamed \/ Switched
     THEN LET name == IF read.status.active = None
                      THEN read.spec.name ELSE read.status.active
              old == Recorded(read.status)
          IN \E r, p \in SUBSET {name}, u \in SUBSET old :
               /\ u # old => UninstallFails
               /\ FaultIf({name} # r \/ {name} # p \/ u # old)
               /\ repos' = repos \ r /\ plugins' = plugins \ p
               /\ releases' = releases \ u
               /\ status' = IF read.status.kind = "Helm"
                            THEN [status EXCEPT !.release = None] ELSE status
               /\ pc' = IF \/ r # {name} \/ p # {name}
                           \/ u # old /\ read.status.kind = "Helm"
                        THEN "persist" ELSE "check"
     ELSE pc' = "check" /\ UNCHANGED <<clusterVars, status, faults>>
  /\ UNCHANGED <<object, gone, cache, read, edits>>

CheckCRDs ==
  /\ pc = "check"
  /\ pc' = "source"
  /\ UNCHANGED <<object, gone, cache, clusterVars, read, status, edits, faults>>

\* An invalid spec is not retried: the next edit starts the next pass.
Validated(next) ==
  IF read.spec.source \in Invalid
  THEN pc' = "persist" /\ status' = [status EXCEPT !.phase = "Failed"]
  ELSE pc' = next /\ UNCHANGED status

\* The first steps of reconcileHelmSource: the release of another chart is
\* uninstalled, errors ignored, and the rest of the spec validated after it.
ReplaceRelease ==
  /\ pc = "source" /\ read.spec.kind = "Helm"
  /\ LET old == IF read.spec.source \in Refused THEN {}
                ELSE {status.release} \ {None, read.spec.source}
     IN \E u \in SUBSET old :
          /\ u # old => UninstallFails
          /\ FaultIf(u # old)
          /\ releases' = releases \ u
  /\ Validated("ensure")
  /\ UNCHANGED <<object, gone, cache, repos, plugins, read, edits>>

\* The first steps of reconcileGitSource.
ValidateGit ==
  /\ pc = "source" /\ read.spec.kind = "Git"
  /\ Validated("repo")
  /\ UNCHANGED <<object, gone, cache, clusterVars, read, edits, faults>>

\* EnsureRelease answers nil.
EnsureRelease ==
  /\ pc = "ensure"
  /\ releases' = releases \cup {Release(read.spec)}
  /\ status' = IF read.spec.kind = "Helm"
               THEN [status EXCEPT !.release = read.spec.source] ELSE status
  /\ pc' = "await"
  /\ UNCHANGED <<object, gone, cache, repos, plugins, read, edits, faults>>

\* The end of reconcile: everything is there.
Installed(st) ==
  [st EXCEPT !.phase = "Installed", !.active = read.spec.name,
             !.kind = read.spec.kind, !.observed = read.generation]

ReleaseRunning ==
  /\ pc = "await"
  /\ IF read.spec.kind = "Helm"
     THEN pc' = "repo" /\ UNCHANGED status
     ELSE pc' = "persist" /\ status' = Installed(status)
  /\ UNCHANGED <<object, gone, cache, clusterVars, read, edits, faults>>

EnsureClusterRepo ==
  /\ pc = "repo"
  /\ repos' = repos \cup {read.spec.name}
  /\ pc' = IF read.spec.kind = "Helm" THEN "plugin" ELSE "ensure"
  /\ UNCHANGED <<object, gone, cache, plugins, releases, read, status, edits,
                 faults>>

EnsureUIPlugin ==
  /\ pc = "plugin"
  /\ plugins' = plugins \cup {read.spec.name}
  /\ status' = Installed(status)
  /\ pc' = "persist"
  /\ UNCHANGED <<object, gone, cache, repos, releases, read, edits, faults>>

\* A call fails, before or after it took effect, the release is pending or its
\* deployment is not ready: the pass ends Failed or still Installing.
StepFails ==
  /\ pc \in {"check", "ensure", "await", "repo", "plugin"}
  /\ FaultIf(TRUE)
  /\ releases' \in {releases} \cup
       IF pc = "ensure" THEN {releases \cup {Release(read.spec)}} ELSE {}
  /\ repos' \in {repos} \cup
       IF pc = "repo" THEN {repos \cup {read.spec.name}} ELSE {}
  /\ plugins' \in {plugins} \cup
       IF pc = "plugin" THEN {plugins \cup {read.spec.name}} ELSE {}
  /\ \E ph \in IF pc \in {"ensure", "await"} THEN {"Installing", "Failed"}
               ELSE {"Failed"} : status' = [status EXCEPT !.phase = ph]
  /\ pc' = "persist"
  /\ UNCHANGED <<object, gone, cache, read, edits>>

\* A merge patch: the fields the pass changed, whatever the server has.
Patched(server, base, new) ==
  [f \in DOMAIN server |-> IF new[f] # base[f] THEN new[f] ELSE server[f]]

PersistStatus ==
  /\ pc = "persist"
  /\ object' = [object EXCEPT !.status = Patched(@, read.status, status)]
  /\ EndPass
  /\ UNCHANGED <<gone, cache, clusterVars, edits, faults>>

\* The process dies, or is told to stop and leaves the status untouched.
Interrupted ==
  /\ pc # "idle"
  /\ FaultIf(TRUE)
  /\ EndPass
  /\ UNCHANGED <<object, gone, cache, clusterVars, edits>>

-----------------------------------------------------------------------------
(* Deletion: finalizer.go *)

HandleDeletion ==
  /\ pc = "idle" /\ ~gone
  /\ cache.deleting /\ cache.finalizer
  /\ read' = cache /\ pc' = "cleanup"
  /\ UNCHANGED <<object, gone, cache, clusterVars, status, edits, faults>>

\* What cleanup uninstalls for resource o.
ToUninstall(o) ==
  ({o.status.release} \ {None}) \cup
    IF "Git" \in {o.status.kind, o.spec.kind}
    THEN {o.spec.name, o.status.active} \ {None} ELSE {}

\* All calls are made; the finalizer stays if any of them failed.
Cleanup ==
  /\ pc = "cleanup"
  /\ LET names == {read.spec.name, read.status.active} \ {None}
         uninstall == ToUninstall(read)
     IN \E r, p \in SUBSET names, u \in SUBSET uninstall :
          /\ FaultIf(r # names \/ p # names \/ u # uninstall)
          /\ repos' = repos \ r /\ plugins' = plugins \ p
          /\ releases' = releases \ u
          /\ IF r = names /\ p = names /\ u = uninstall
             THEN pc' = "finalize" /\ UNCHANGED <<read, status>>
             ELSE EndPass
  /\ UNCHANGED <<object, gone, cache, edits>>

\* Mutant: the finalizer is removed by a patch without a resourceVersion.
RemoveFinalizerAnyway ==
  /\ pc = "finalize"
  /\ gone' = TRUE
  /\ EndPass
  /\ UNCHANGED <<object, cache, clusterVars, edits, faults>>

\* The Update conflicts when the resource changed since it was read.
RemoveFinalizer ==
  /\ pc = "finalize"
  /\ gone' = (read = object)
  /\ EndPass
  /\ UNCHANGED <<object, cache, clusterVars, edits, faults>>

-----------------------------------------------------------------------------
(* The environment *)

Settled(o) == o.status.phase = "Installed" /\ o.status.observed = o.generation

EditSpec ==
  /\ edits < MaxEdits /\ edits' = edits + 1
  /\ ~gone /\ ~object.deleting
  /\ Patient => Settled(object) \/ object.spec.source \in Invalid
  /\ \E s \in Specs \ {object.spec} :
       object' = [object EXCEPT !.spec = s, !.generation = @ + 1]
  /\ UNCHANGED <<gone, cache, clusterVars, passVars, faults>>

DeleteObject ==
  /\ ~gone /\ ~object.deleting
  /\ object' = [object EXCEPT !.deleting = TRUE]
  /\ gone' = ~object.finalizer
  /\ UNCHANGED <<cache, clusterVars, passVars, edits, faults>>

\* An administrator removes something the controller created.
RemoveByHand ==
  /\ FaultIf(TRUE)
  /\ \/ \E n \in repos : repos' = repos \ {n} /\ UNCHANGED <<plugins, releases>>
     \/ \E n \in plugins : plugins' = plugins \ {n} /\ UNCHANGED <<repos, releases>>
     \/ \E r \in releases : releases' = releases \ {r} /\ UNCHANGED <<repos, plugins>>
  /\ UNCHANGED <<object, gone, cache, passVars, edits>>

\* The informer catches up.
CacheSync ==
  /\ cache # object
  /\ cache' = object
  /\ UNCHANGED <<object, gone, clusterVars, passVars, edits, faults>>

-----------------------------------------------------------------------------
Pass ==
  \/ EnsureFinalizer \/ StartPass \/ CleanupStaleResources \/ CheckCRDs
  \/ ReplaceRelease \/ ValidateGit \/ EnsureRelease \/ ReleaseRunning \/ EnsureClusterRepo
  \/ EnsureUIPlugin \/ PersistStatus
  \/ HandleDeletion \/ Cleanup \/ RemoveFinalizer

Next ==
  \/ Pass \/ StepFails \/ Interrupted
  \/ EditSpec \/ DeleteObject \/ RemoveByHand \/ CacheSync

Spec == Init /\ [][Next]_vars

\* Every pass of a valid spec is requeued (healthCheckInterval when it
\* succeeded), an edit or a restart starts one, and the watch delivers every
\* change.
Fairness == WF_vars(Pass) /\ WF_vars(CacheSync)

FairSpec == Spec /\ Fairness

-----------------------------------------------------------------------------
(* Properties *)

\* Nothing in the cluster but what the spec asks for.
OnlyOf(spec) ==
  /\ repos \subseteq {spec.name}
  /\ plugins \subseteq IF spec.kind = "Helm" THEN {spec.name} ELSE {}
  /\ releases \subseteq {Release(spec)}

\* Everything the spec asks for.
AllOf(spec) ==
  /\ spec.name \in repos
  /\ spec.kind = "Helm" => spec.name \in plugins
  /\ Release(spec) \in releases

\* cleanupStaleResources and ReplaceRelease: once an edit is reported installed,
\* nothing of the specs before it is left, wherever passes failed or died on
\* the way, if each edit was installed before the next (Patient), uninstalling
\* did not fail and passes saw the status of the pass before.
NoLeftovers == Settled(object) /\ ~gone => OnlyOf(object.spec)

\* A Helm release whose install has not succeeded yet is not in the status.
Unrecorded(o) ==
  IF o.spec.kind = "Helm" THEN {o.spec.source} \ {o.status.release} ELSE {}

\* The finalizer: when the resource is gone, so is everything created for it,
\* a pass that was still installing when it was deleted included (its status
\* patch makes the removal of the finalizer conflict).  Except a Helm release
\* that was never recorded.
DeletionLeavesNothing ==
  gone =>
    /\ repos = {} /\ plugins = {}
    /\ releases \subseteq Unrecorded(object)

\* Under fair passes the resource goes, or its last spec, unless invalid, comes
\* to be reported installed with exactly its objects in the cluster, whatever
\* was removed by hand.
Converges ==
  <>[](gone \/ (~object.deleting /\
        (object.spec.source \in Invalid \/ (Settled(object) /\ OnlyOf(object.spec)
                           /\ AllOf(object.spec)))))
=============================================================================
