------------------------- MODULE BlueprintComponents -------------------------
(***************************************************************************)
(* The Fleet resources of one AIWorkload whose source is a Blueprint       *)
(* (operator/internal/controller/aiworkload): for every component of the   *)
(* blueprint version in the spec that is not disabled, and for every Fleet *)
(* workspace that the target clusters need, a HelmOp from which Fleet      *)
(* generates a Bundle, or, when the chart's repository is git-backed, a    *)
(* Bundle that embeds the chart, or, with the GitOps strategy, a file in a *)
(* repository from which Fleet creates either of the two.                  *)
(*                                                                         *)
(* A reconcile is a sequence of API calls with the steps of Fleet, users   *)
(* and crashes between them.  It works on the spec it read (ps) and writes *)
(* the status at its end, under optimistic concurrency.  The recovery      *)
(* operations of the same controller are in OperationJournal, the delivery *)
(* of pull secrets is in PullSecrets.                                      *)
(***************************************************************************)
EXTENDS Naturals, FiniteSets

CONSTANTS
    Components,    \* components (chart names) of the blueprint family
    Versions,      \* versions of the blueprint
    Blueprints,    \* the families to look at: components of each version,
                   \* {} for a version whose Blueprint does not exist
    None,          \* no object, no condition
    Strategies,    \* the deploy strategies to look at
    LateRepos,     \* TRUE: repositories may be unusable, and change
    MaxEdits,      \* bound on changes of the spec and of repositories
    MaxFaults      \* bound on crashes, failed calls, rejections and rollouts

ASSUME BlueprintAssumption ==
    /\ Blueprints \subseteq [Versions -> SUBSET Components]
    /\ Strategies \subseteq {"FleetBundle", "GitOps"} /\ Strategies # {}
    /\ LateRepos \in BOOLEAN
    /\ {MaxEdits, MaxFaults} \subseteq Nat

\* The Fleet workspaces: local cluster, downstream clusters.  The target clusters
\* are told apart by the workspace that serves them.
Spaces == {"fleet-local", "fleet-default"}
Keys   == Spaces \X Components

Space(k) == k[1]
Comp(k)  == k[2]

Specs == [version : Versions, disabled : SUBSET Components,
          targets : (SUBSET Spaces) \ {{}}]

\* What feeds the rendering of a component.
Digests == [version : Versions, targets : (SUBSET Spaces) \ {{}}]
Digest(s) == [version |-> s.version, targets |-> s.targets]

Maybe(S) == S \cup {None}
\* accepted: the generation that Fleet rejected last, 0 for none; it stands for the
\* fingerprint of the Accepted condition.
Generations   == Nat
HelmOpObjects == [digest : Digests, generation : Generations, accepted : Generations]
BundleObjects == [digest : Digests, embedded : BOOLEAN,
                  state : {"new", "ready", "err"}]
Baselines     == HelmOpObjects  \* with the digest that was expected

Reasons == {"Reconciled", "BlueprintNotFound", "ClusterRepoNotReady",
            "CatalogClientNotConfigured", "ChartTooLarge",
            "ComponentReconcileFailed"}
Phases  == {"Pending", "Running", "Degraded", "Failed"}
RepoStates == {"ok", "missing", "noToken", "tooLarge"}

ASSUME NoneAssumption ==
    None \notin HelmOpObjects \cup BundleObjects \cup Digests \cup Reasons

VARIABLES
    strategy,   \* spec.deployStrategy, immutable
    blueprint,  \* Blueprint CR of each version: its components, {} if absent
    gitBacked,  \* components whose ClusterRepo is git-backed
    repo,       \* whether a component's repository can be used
    spec,       \* the parts of the AIWorkload's spec the components depend on
    named,      \* spec.fleetBundleNames
    deleting,   \* deletionTimestamp set
    gone,       \* finalizer removed: the AIWorkload no longer exists
    published,  \* gitfile-hash annotations: component -> digest last published
    status,     \* status.phase, the reason of Ready, componentStatuses
    baselines,  \* status.renderBaselines of the HelmOps that exist, by key
    files,      \* the files in the GitOps repository
    helmOps,    \* HelmOps by (namespace, name)
    bundles,    \* Bundles by (namespace, name)
    young,      \* the workload is younger than initialDeployGracePeriod
    queue,      \* a reconcile request waits in the work queue
    pc, ps,     \* the running reconcile: next step, spec it read,
    todo, item, \*   components or keys left in the step, the one half done,
    bl,         \*   in-memory status.renderBaselines,
    fresh,      \*   nobody wrote the object since it was read
    edits, faults

object  == <<spec, named, deleting, gone, published>>
fleet   == <<files, helmOps, bundles>>
static  == <<strategy, blueprint, gitBacked>>
bounds  == <<edits, faults>>
pass    == <<pc, ps, todo, item, bl, fresh>>
vars    == <<static, repo, object, status, baselines, fleet, young, queue,
             pass, bounds>>

-----------------------------------------------------------------------------
(* What a workload should have.                                            *)

\* Components that no override disables.
Enabled(s) == blueprint[s.version] \ s.disabled

\* One key per enabled component and workspace with a target.
DesiredHelmOpKeys(s) == s.targets \X Enabled(s)

\* A watch event about bundle or HelmOp c requeues the workload by name; the
\* Bundle of a HelmOp also by the label Fleet copies onto it.
WakesByName(c)   == c \in named
WakesByBundleFailure(k) ==  \* mutant: a Bundle that gets ready wakes nobody
    bundles'[k] # None /\ bundles'[k].state = "err"
WakesByBundle(k) == Comp(k) \in named \/ helmOps[k] # None

-----------------------------------------------------------------------------
(* Status: render baselines, component matrix, phase.                      *)

\* Replaced only when the identity of the attempt changes: the first fingerprint of
\* an attempt is kept.
UpsertRenderBaseline(old, digest, ho) ==
    IF old # None /\ old.digest = digest /\ old.generation = ho.generation THEN old
    ELSE [ho EXCEPT !.digest = digest]

AcceptedFalseAny(k, digest) ==  \* mutant: fingerprint of the baseline ignored
    helmOps[k] # None /\ bl[k] # None /\ helmOps[k].accepted # 0

\* Accepted=False counts when it differs from the baseline of this attempt.
AcceptedFalseTerminal(k, digest) ==
    /\ helmOps[k] # None /\ bl[k] # None
    /\ bl[k].digest = digest /\ bl[k].generation = helmOps[k].generation
    /\ helmOps[k].accepted # bl[k].accepted
    /\ helmOps[k].accepted # 0

BundleRenderCurrent(k, digest) == bundles[k] # None /\ bundles[k].digest = digest

MatrixCellPhase(k, digest) ==
    IF bundles[k] # None /\ bundles[k].state # "new"
    THEN IF ~BundleRenderCurrent(k, digest) THEN "Pending"
         ELSE IF bundles[k].state = "ready" THEN "Running" ELSE "Failed"
    ELSE IF bundles[k] = None /\ AcceptedFalseTerminal(k, digest)
         THEN "Failed" ELSE "Pending"

ComponentMatrix(s) ==
    [k \in DesiredHelmOpKeys(s) |-> MatrixCellPhase(k, Digest(s))]

DerivePhase(cells) ==
    LET found == {cells[k] : k \in DOMAIN cells}
    IN  CASE found = {}           -> "Pending"
          [] found = {"Running"}  -> "Running"
          [] found = {"Pending"}  -> "Pending"
          [] found = {"Failed"}   -> "Failed"
          [] OTHER                -> "Degraded"

\* No jump to Failed during the first minutes.
GuardPhaseTransition(derived) ==
    IF derived = "Failed" /\ young /\ status.phase = "Pending"
    THEN "Pending" ELSE derived

-----------------------------------------------------------------------------
\* Lists are worked off in their order; any fixed order stands for it.
NextIs(x) == todo # {} /\ x = CHOOSE y \in todo : TRUE

NoPass == /\ pc = "idle" /\ ps = None /\ todo = {} /\ item = None
          /\ bl = [k \in Keys |-> None] /\ fresh = TRUE

EndPass == /\ pc' = "idle" /\ ps' = None /\ todo' = {} /\ item' = None
           /\ bl' = [k \in Keys |-> None] /\ fresh' = TRUE

Init ==
    /\ strategy \in Strategies
    /\ blueprint \in Blueprints
    /\ gitBacked \in SUBSET Components
    /\ repo \in [Components -> IF LateRepos THEN RepoStates ELSE {"ok"}]
    /\ \A c \in Components : repo[c] \in {"noToken", "tooLarge"} => c \in gitBacked
    /\ spec \in Specs
    /\ blueprint[spec.version] # {} /\ spec.disabled = {}
    /\ named = {} /\ deleting = FALSE /\ gone = FALSE
    /\ published = [c \in Components |-> None]
    /\ status = [phase |-> "Pending", ready |-> None, cells |-> [k \in {} |-> "Pending"]]
    /\ baselines = [k \in Keys |-> None]
    /\ files = [c \in Components |-> None]
    /\ helmOps = [k \in Keys |-> None] /\ bundles = [k \in Keys |-> None]
    /\ young = TRUE /\ queue = TRUE
    /\ NoPass
    /\ edits = 0 /\ faults = 0

-----------------------------------------------------------------------------
(* The reconcile.                                                          *)

\* The blueprint version does not exist.
BlueprintNotFound ==
    /\ pc = "idle" /\ queue /\ ~deleting /\ ~gone
    /\ blueprint[spec.version] = {}
    /\ status' = [status EXCEPT !.ready = "BlueprintNotFound",
                                !.phase = GuardPhaseTransition("Failed")]
    /\ queue' = FALSE
    /\ UNCHANGED <<static, repo, object, baselines, fleet, young, pass, bounds>>

\* First reconcile: record the names of the version's components and requeue.
PopulateFleetBundleNames ==
    /\ pc = "idle" /\ queue /\ ~deleting /\ ~gone
    /\ blueprint[spec.version] # {} /\ named = {}
    /\ named' = blueprint[spec.version]
    /\ UNCHANGED <<static, repo, spec, deleting, gone, published, status,
                   baselines, fleet, young, queue, pass, bounds>>

BeginPass ==
    /\ pc = "idle" /\ queue /\ ~deleting /\ ~gone
    /\ blueprint[spec.version] # {} /\ named # {}
    /\ queue' = FALSE
    /\ pc' = "render" /\ ps' = spec /\ todo' = Enabled(spec)
    /\ bl' = baselines /\ UNCHANGED <<item, fresh>>
    /\ UNCHANGED <<static, repo, object, status, baselines, fleet, young, bounds>>

WriteStatusAnyway(st, b, requeue) ==  \* mutant: no resource version
    status' = st /\ baselines' = b /\ queue' = (queue \/ requeue)

\* Write the status and end the pass; the write is refused when the object has
\* changed since it was read, and the pass is retried.
WriteStatus(st, b, requeue) ==
    IF fresh THEN /\ status' = st /\ baselines' = b
                  /\ queue' = (queue \/ requeue)
             ELSE /\ queue' = TRUE /\ UNCHANGED <<status, baselines>>

ReasonOf(r) == CASE r = "missing"  -> "ClusterRepoNotReady"
                 [] r = "noToken"  -> "CatalogClientNotConfigured"
                 [] r = "tooLarge" -> "ChartTooLarge"

\* A component whose repository cannot be used ends the pass, before clean-up;
\* only a chart that is too large is not requeued.
ComponentError(c) ==
    /\ pc = "render" /\ NextIs(c) /\ repo[c] # "ok"
    /\ WriteStatus([status EXCEPT !.ready = ReasonOf(repo[c]),
                                  !.phase = GuardPhaseTransition("Failed")],
                   bl, repo[c] # "tooLarge")
    /\ EndPass
    /\ UNCHANGED <<static, repo, object, fleet, young, bounds>>

\* The HelmOp after an apply; its generation counts changes of its spec.
Apply(ho, digest) ==
    IF ho = None THEN [digest |-> digest, generation |-> 1, accepted |-> 0]
    ELSE IF ho.digest = digest THEN ho
    ELSE [ho EXCEPT !.digest = digest, !.generation = @ + 1]

\* A HelmOp per workspace, by server-side apply, and its baseline.
EnsureBlueprintHelmOp(c) ==
    /\ pc = "render" /\ NextIs(c) /\ repo[c] = "ok"
    /\ strategy = "FleetBundle" /\ c \notin gitBacked
    /\ LET mine == ps.targets \X {c}
           applied(k) == Apply(helmOps[k], Digest(ps))
       IN  /\ helmOps' = [k \in Keys |-> IF k \in mine THEN applied(k)
                                                       ELSE helmOps[k]]
           /\ bl' = [k \in Keys |-> IF k \in mine
                         THEN UpsertRenderBaseline(bl[k], Digest(ps), applied(k)) ELSE bl[k]]
    /\ todo' = todo \ {c}
    /\ UNCHANGED <<static, repo, object, status, baselines, files, bundles,
                   young, queue, pc, ps, item, fresh, bounds>>

StaleGitBundlesMissing(c) ==  \* mutant: fingerprint not compared
    {k \in ps.targets \X {c} : bundles[k] = None}

\* Bundles to write: there is none yet with the fingerprint of this render.
StaleGitBundles(c) ==
    {k \in ps.targets \X {c} : ~BundleRenderCurrent(k, Digest(ps))}

\* A Bundle per workspace that carries the chart; skipped when up to date.
EnsureBlueprintGitChartBundle(c) ==
    /\ pc = "render" /\ NextIs(c) /\ repo[c] = "ok"
    /\ strategy = "FleetBundle" /\ c \in gitBacked
    /\ bundles' = [k \in Keys |->
                      IF k \notin StaleGitBundles(c) THEN bundles[k] ELSE
                      [digest |-> Digest(ps), embedded |-> TRUE, state |-> "new"]]
    /\ todo' = todo \ {c}
    /\ UNCHANGED <<static, repo, object, status, baselines, files, helmOps,
                   young, queue, pc, ps, item, bl, fresh, bounds>>

\* Publish the component's file unless the annotation says it is published, then
\* record that.  The second write is refused on a conflict; it replaces the
\* in-memory status by the stored one.
PublishBlueprintGitFile(c) ==
    IF published[c] = Digest(ps)
    THEN /\ todo' = todo \ {c}
         /\ UNCHANGED <<files, published, queue, bl, pc, ps, item, fresh>>
    ELSE /\ files' = [files EXCEPT ![c] = Digest(ps)]
         /\ queue' = TRUE  \* the update is an event, or is retried
         /\ IF fresh
            THEN /\ published' = [published EXCEPT ![c] = Digest(ps)]
                 /\ bl' = baselines /\ todo' = todo \ {c}
                 /\ UNCHANGED <<pc, ps, item, fresh>>
            ELSE UNCHANGED published /\ EndPass

EnsureBlueprintGitFile(c) ==
    /\ pc = "render" /\ NextIs(c) /\ repo[c] = "ok" /\ strategy = "GitOps"
    /\ PublishBlueprintGitFile(c)
    /\ UNCHANGED <<static, repo, spec, named, deleting, gone, status, baselines,
                   helmOps, bundles, young, bounds>>

\* GitOps: baselines of the HelmOps that Fleet has created meanwhile.
GitOpsBaselines ==
    [k \in Keys |-> IF k \in DesiredHelmOpKeys(ps) /\ helmOps[k] # None
                    THEN UpsertRenderBaseline(bl[k], Digest(ps), helmOps[k])
                    ELSE bl[k]]

StaleHelmOpsByName ==  \* mutant: the workspace is not compared
    {k \in Keys : helmOps[k] # None /\ Comp(k) \notin Enabled(ps)}

\* The HelmOps that carry the owner label and are not wanted.
StaleHelmOps == {k \in Keys : helmOps[k] # None} \ DesiredHelmOpKeys(ps)

RenderDone ==
    /\ pc = "render" /\ todo = {}
    /\ bl' = IF strategy = "GitOps" THEN GitOpsBaselines ELSE bl
    /\ pc' = "clean" /\ todo' = StaleHelmOps
    /\ UNCHANGED <<static, repo, object, status, baselines, fleet, young, queue,
                   ps, item, fresh, bounds>>

DeleteHelmOpByName(k) ==  \* mutant: the name in both namespaces
    helmOps' = [j \in Keys |-> IF Comp(j) = Comp(k) THEN None ELSE helmOps[j]]

\* The HelmOp of exactly this namespace; its name in the other one may be wanted.
DeleteHelmOpIn(k) == helmOps' = [helmOps EXCEPT ![k] = None]

CleanupHelmOp(k) ==
    /\ pc = "clean" /\ NextIs(k) /\ strategy = "FleetBundle"
    /\ DeleteHelmOpIn(k)
    /\ pc' = "cleanBundle" /\ todo' = todo \ {k} /\ item' = k
    /\ bl' = [bl EXCEPT ![k] = None] /\ baselines' = [baselines EXCEPT ![k] = None]
    /\ UNCHANGED <<static, repo, object, status, files, bundles, young, queue,
                   ps, fresh, bounds>>

\* Then the Bundle Fleet generated from it.
CleanupBundle ==
    /\ pc = "cleanBundle"
    /\ bundles' = [bundles EXCEPT ![item] = None]
    /\ pc' = "clean" /\ item' = None
    /\ UNCHANGED <<static, repo, object, status, baselines, files, helmOps,
                   young, queue, ps, todo, bl, fresh, bounds>>

CleanupGitFile(k) ==
    /\ pc = "clean" /\ NextIs(k) /\ strategy = "GitOps"
    /\ files' = [files EXCEPT ![Comp(k)] = None]
    /\ todo' = todo \ {k}
    /\ UNCHANGED <<static, repo, object, status, baselines, helmOps, bundles,
                   young, queue, pc, ps, item, bl, fresh, bounds>>

\* Baselines of HelmOps that are gone or not wanted any more are dropped.
PruneRenderBaselines ==
    [k \in Keys |-> IF k \in DesiredHelmOpKeys(ps) /\ helmOps[k] # None
                    THEN bl[k] ELSE None]

\* Build the matrix, derive the phase and write the status.
FinishPass ==
    /\ pc = "clean" /\ todo = {}
    /\ LET cells == ComponentMatrix(ps)
       IN  WriteStatus([phase |-> GuardPhaseTransition(DerivePhase(cells)),
                        ready |-> "Reconciled", cells |-> cells],
                       PruneRenderBaselines, FALSE)
    /\ EndPass
    /\ UNCHANGED <<static, repo, object, fleet, young, bounds>>

-----------------------------------------------------------------------------
(* Deletion: for every recorded name the HelmOps, then the Bundles; with    *)
(* GitOps the files, whose errors are only logged.                          *)

BeginDeletion ==
    /\ pc = "idle" /\ queue /\ deleting /\ ~gone
    /\ queue' = FALSE
    /\ pc' = "delete" /\ todo' = named
    /\ UNCHANGED <<static, repo, object, status, baselines, fleet, young, ps,
                   item, bl, fresh, bounds>>

DeleteHelmOp(c) ==
    /\ pc = "delete" /\ NextIs(c) /\ strategy = "FleetBundle"
    /\ helmOps' = [k \in Keys |-> IF Comp(k) = c THEN None ELSE helmOps[k]]
    /\ baselines' = [k \in Keys |-> IF Comp(k) = c THEN None ELSE baselines[k]]
    /\ pc' = "deleteBundle" /\ todo' = todo \ {c} /\ item' = c
    /\ UNCHANGED <<static, repo, object, status, files, bundles, young, queue,
                   ps, bl, fresh, bounds>>

BundlesWithoutFirst(c) ==  \* mutant: downstream only
    [bundles EXCEPT ![<<"fleet-default", c>>] = None]

BundlesWithout(c) == [k \in Keys |-> IF Comp(k) = c THEN None ELSE bundles[k]]

DeleteBundle ==
    /\ pc = "deleteBundle"
    /\ bundles' = BundlesWithout(item)
    /\ pc' = "delete" /\ item' = None
    /\ UNCHANGED <<static, repo, object, status, baselines, files, helmOps,
                   young, queue, ps, todo, bl, fresh, bounds>>

DeleteGitFile(c) ==
    /\ pc = "delete" /\ NextIs(c) /\ strategy = "GitOps"
    /\ \/ files' = [files EXCEPT ![c] = None] /\ UNCHANGED faults
       \/ files' = files /\ faults < MaxFaults /\ faults' = faults + 1
    /\ todo' = todo \ {c}
    /\ UNCHANGED <<static, repo, object, status, baselines, helmOps, bundles,
                   young, queue, pc, ps, item, bl, fresh, edits>>

RemoveFinalizer ==
    /\ pc = "delete" /\ todo = {}
    /\ gone' = TRUE /\ EndPass
    /\ UNCHANGED <<static, repo, spec, named, deleting, published, status,
                   baselines, fleet, young, queue, bounds>>

-----------------------------------------------------------------------------
(* Failures.                                                               *)

\* The process dies: what the pass held in memory is lost.
Crash ==
    /\ pc # "idle" /\ faults < MaxFaults
    /\ faults' = faults + 1 /\ queue' = TRUE
    /\ EndPass
    /\ UNCHANGED <<static, repo, object, status, baselines, fleet, young, edits>>

\* An API call fails: the pass ends, the status so far is written, the request
\* is retried.
CallFails ==
    /\ pc \in {"render", "clean", "cleanBundle"} /\ faults < MaxFaults
    /\ faults' = faults + 1
    /\ WriteStatus(IF pc = "render" THEN [status EXCEPT
                        !.ready = "ComponentReconcileFailed",
                        !.phase = GuardPhaseTransition("Failed")] ELSE status,
                   bl, TRUE)
    /\ EndPass
    /\ UNCHANGED <<static, repo, object, fleet, young, edits>>

-----------------------------------------------------------------------------
(* Fleet, repositories and users.                                          *)

Wake(needed) == queue' = (queue \/ (needed /\ ~gone))

\* Fleet generates a HelmOp's Bundle, or updates it.
FleetGenerate(k) ==
    /\ helmOps[k] # None /\ helmOps[k].accepted # helmOps[k].generation
    /\ ~BundleRenderCurrent(k, helmOps[k].digest)
    /\ bundles' = [bundles EXCEPT ![k] =
          [digest |-> helmOps[k].digest, embedded |-> FALSE, state |-> "new"]]
    /\ Wake(TRUE)
    /\ UNCHANGED <<static, repo, object, status, baselines, files, helmOps,
                   young, pass, bounds>>

\* ... or rejects it, which a workload notices by the HelmOp's name.
FleetReject(k) ==
    /\ faults < MaxFaults /\ faults' = faults + 1
    /\ helmOps[k] # None /\ bundles[k] = None
    /\ helmOps[k].accepted # helmOps[k].generation
    /\ helmOps' = [helmOps EXCEPT ![k].accepted = helmOps[k].generation]
    /\ Wake(WakesByName(Comp(k)))
    /\ UNCHANGED <<static, repo, object, status, baselines, files, bundles,
                   young, pass, edits>>

\* A rollout ends or recovers.
FleetRollout(k, state) ==
    /\ bundles[k] # None /\ bundles[k].state \notin {"ready", state}
    /\ IF state = "ready" THEN faults' = faults
                          ELSE faults < MaxFaults /\ faults' = faults + 1
    /\ bundles' = [bundles EXCEPT ![k].state = state]
    /\ Wake(WakesByBundle(k))
    /\ UNCHANGED <<static, repo, object, status, baselines, files, helmOps,
                   young, pass, edits>>

\* Fleet's GitRepo controller makes the HelmOps or Bundles of a component those
\* of its file, and removes them with it.
FleetGitRepo(c) ==
    /\ strategy = "GitOps"
    /\ LET wanted(k) == files[c] # None /\ Space(k) \in files[c].targets
           helmOp(k) ==
             IF Comp(k) # c THEN helmOps[k]
             ELSE IF ~wanted(k) \/ c \in gitBacked THEN None
             ELSE Apply(helmOps[k], files[c])
           bundle(k) ==
             IF Comp(k) # c \/ (wanted(k) /\ c \notin gitBacked) THEN bundles[k]
             ELSE IF ~wanted(k) THEN None
             ELSE IF BundleRenderCurrent(k, files[c]) THEN bundles[k]
             ELSE [digest |-> files[c], embedded |-> TRUE, state |-> "new"]
       IN  /\ helmOps' = [k \in Keys |-> helmOp(k)]
           /\ bundles' = [k \in Keys |-> bundle(k)]
           /\ baselines' = [k \in Keys |-> IF helmOp(k) = None THEN None
                                                             ELSE baselines[k]]
           /\ bl' = [k \in Keys |-> IF helmOp(k) = None THEN None ELSE bl[k]]
    /\ <<helmOps, bundles>>' # <<helmOps, bundles>>
    /\ Wake(WakesByName(c))
    /\ UNCHANGED <<static, repo, object, status, files, young, pc, ps, todo,
                   item, fresh, bounds>>

\* A user changes the version, the components or the target clusters.
EditSpec ==
    /\ edits < MaxEdits /\ edits' = edits + 1 /\ ~deleting
    /\ \/ \E v \in Versions : spec' = [spec EXCEPT !.version = v]
       \/ \E c \in Components : spec' = [spec EXCEPT
             !.disabled = IF c \in @ THEN @ \ {c} ELSE @ \cup {c}]
       \/ \E t \in (SUBSET Spaces) \ {{}} : spec' = [spec EXCEPT !.targets = t]
    /\ spec' # spec
    /\ queue' = TRUE /\ fresh' = (pc = "idle")
    /\ UNCHANGED <<static, repo, named, deleting, gone, published, status,
                   baselines, fleet, young, pc, ps, todo, item, bl, faults>>

DeleteWorkload ==
    /\ ~deleting
    /\ deleting' = TRUE /\ queue' = TRUE /\ fresh' = (pc = "idle")
    /\ UNCHANGED <<static, repo, spec, named, gone, published, status,
                   baselines, fleet, young, pc, ps, todo, item, bl, bounds>>

\* A ClusterRepo, its credentials or the Rancher token change.
RepoChange(c) ==
    /\ LateRepos /\ edits < MaxEdits /\ edits' = edits + 1
    /\ \E r \in RepoStates :
         /\ r # repo[c] /\ (r \in {"noToken", "tooLarge"} => c \in gitBacked)
         /\ repo' = [repo EXCEPT ![c] = r]
    /\ Wake(TRUE)
    /\ UNCHANGED <<static, object, status, baselines, fleet, young, pass, faults>>

\* initialDeployGracePeriod passes; nothing is requeued for it.
GraceEnds ==
    /\ young /\ young' = FALSE
    /\ UNCHANGED <<static, repo, object, status, baselines, fleet, queue, pass,
                   bounds>>

-----------------------------------------------------------------------------
PassStep ==
    \/ BlueprintNotFound \/ PopulateFleetBundleNames \/ BeginPass
    \/ \E c \in Components : \/ ComponentError(c)
                             \/ EnsureBlueprintHelmOp(c)
                             \/ EnsureBlueprintGitChartBundle(c)
                             \/ EnsureBlueprintGitFile(c)
    \/ RenderDone
    \/ \E k \in Keys : CleanupHelmOp(k) \/ CleanupGitFile(k)
    \/ CleanupBundle \/ FinishPass

DeletionStep ==
    \/ BeginDeletion \/ DeleteBundle \/ RemoveFinalizer
    \/ \E c \in Components : DeleteHelmOp(c) \/ DeleteGitFile(c)

FleetStep ==
    \/ \E k \in Keys : \/ FleetGenerate(k) \/ FleetReject(k)
                       \/ \E st \in {"ready", "err"} : FleetRollout(k, st)
    \/ \E c \in Components : FleetGitRepo(c)

Next ==
    \/ PassStep \/ DeletionStep \/ Crash \/ CallFails
    \/ FleetStep
    \/ EditSpec \/ DeleteWorkload
    \/ (\E c \in Components : RepoChange(c))
    \/ GraceEnds

Spec == Init /\ [][Next]_vars

\* The work queue runs a request that waits and a pass runs to its end; time
\* passes.  Fleet, users and repositories owe nothing.
Fairness == /\ WF_vars(PassStep \/ DeletionStep) /\ WF_vars(GraceEnds)

FairSpec == Spec /\ Fairness

-----------------------------------------------------------------------------
(* Properties.                                                             *)

TypeOK ==
    /\ strategy \in Strategies
    /\ blueprint \in Blueprints
    /\ gitBacked \subseteq Components
    /\ repo \in [Components -> RepoStates]
    /\ spec \in Specs /\ named \subseteq Components
    /\ {deleting, gone, young, queue, fresh} \subseteq BOOLEAN
    /\ published \in [Components -> Maybe(Digests)]
    /\ files \in [Components -> Maybe(Digests)]
    /\ status.phase \in Phases /\ status.ready \in Maybe(Reasons)
    /\ DOMAIN status.cells \subseteq Keys
    /\ {baselines, bl} \subseteq [Keys -> Maybe(Baselines)]
    /\ helmOps \in [Keys -> Maybe(HelmOpObjects)]
    /\ bundles \in [Keys -> Maybe(BundleObjects)]
    /\ pc \in {"idle", "render", "clean", "cleanBundle", "delete", "deleteBundle"}
    /\ ps \in Maybe(Specs) /\ todo \subseteq Keys \cup Components
    /\ item \in Maybe(Keys \cup Components)
    /\ edits \in 0..MaxEdits /\ faults \in 0..MaxFaults

\* Clean-up never deletes a HelmOp or a Bundle the spec it works on wants: the
\* same name in the other workspace, a component rendered in this pass.
DesiredKept ==
    [][strategy = "FleetBundle" /\ ps # None =>
         \A k \in DesiredHelmOpKeys(ps) :
            /\ helmOps[k] # None => helmOps'[k] # None
            /\ bundles[k] # None => bundles'[k] # None]_vars

\* The finalizer is removed only when nothing of a recorded name is left, in
\* either workspace, whatever Fleet generated meanwhile.
GoneLeavesNothingNamed ==
    gone /\ strategy = "FleetBundle" =>
        \A k \in Keys : Comp(k) \in named => helmOps[k] = None /\ bundles[k] = None

\* A write of phase Running is true of the spec of that moment, not only of the
\* one the pass read: each desired Bundle is rendered from it and ready.
RunningIsTrue ==
    [][status' # status /\ status'.phase = "Running" =>
         \A k \in DesiredHelmOpKeys(spec) :
            BundleRenderCurrent(k, Digest(spec)) /\ bundles[k].state = "ready"]_vars

\* A cell becomes Failed only on an answer to the current rendering: the rollout
\* of its Bundle failed or Fleet rejected its HelmOp, not an older one's.
FailedIsOwnAnswer ==
    [][\A k \in DOMAIN status'.cells :
         strategy = "FleetBundle" /\ status' # status /\ status'.ready = "Reconciled" /\ status'.cells[k] = "Failed" =>
            \/ BundleRenderCurrent(k, Digest(spec)) /\ bundles[k].state = "err"
            \/ /\ helmOps[k] # None /\ helmOps[k].digest = Digest(spec)
               /\ helmOps[k].accepted = helmOps[k].generation]_vars

\* The table of what a specification wants, and the objects with which a pass
\* meets it: HelmOps, Bundles of git-backed charts.  With GitOps it has none.
Table(s) == [k \in Keys |-> IF k \in DesiredHelmOpKeys(s) THEN Digest(s) ELSE None]

Operated == strategy = "FleetBundle"
Working  == pc \in {"render", "clean", "cleanBundle"}

Object(k)   == IF Comp(k) \in gitBacked THEN bundles[k] ELSE helmOps[k]
Deployed(k) == IF Operated /\ Object(k) # None THEN Object(k).digest ELSE None

Objects     == [k \in Keys |-> Deployed(k)]

Plan       == IF Working THEN Table(ps) ELSE [k \in Keys |-> None]
LastReport == IF Operated /\ status.ready = "Reconciled" THEN status.cells ELSE None
Lasting    == {k \in Keys : Comp(k) \in gitBacked}
Recorded   == {k \in Keys : Comp(k) \in named}

Rollout == INSTANCE ComponentRollout WITH
    wanted <- Table(spec), deployed <- Objects, lasting <- Lasting,
    busy <- Working, plan <- Plan, reported <- LastReport,
    recorded <- Recorded, leaving <- deleting

\* Passes, crashes, failed calls, refused writes and Fleet in between come to this: each
\* pass rolls out one specification, and is reported only if it is all there and
\* still the one that is wanted.
RefinesRollout == Rollout!Spec

Usable == \A c \in Enabled(spec) : repo[c] = "ok"

\* Exactly the desired HelmOps exist and are current, and so are the Bundles with
\* embedded charts; no Bundle of a HelmOp is left over unless a pass failed.
Applied ==
    \A k \in Keys :
        IF k \in DesiredHelmOpKeys(spec)
        THEN IF Comp(k) \in gitBacked
             THEN BundleRenderCurrent(k, Digest(spec))
             ELSE helmOps[k] # None /\ helmOps[k].digest = Digest(spec)
        ELSE /\ helmOps[k] = None
             /\ faults = 0 /\ Comp(k) \notin gitBacked => bundles[k] = None

\* Whatever edits, failures and crashes came before, the operator ends with the
\* objects of the spec, or the workload is deleted, if repositories stay usable.
Converges ==
    strategy = "FleetBundle" /\ <>[](Usable /\ blueprint[spec.version] # {})
        => <>[](gone \/ Applied)

\* When all Bundles of named components stay ready, the phase ends as Running.
StatusFollows ==
    <>[](/\ Usable /\ ~deleting /\ DesiredHelmOpKeys(spec) # {}
         /\ Enabled(spec) \subseteq named
         /\ \A k \in DesiredHelmOpKeys(spec) :
               BundleRenderCurrent(k, Digest(spec)) /\ bundles[k].state = "ready")
        => <>[](status.phase = "Running")

(* Properties that the code does not have: section 4 of README.md.         *)

\* After the grace period a failure that persists is shown.
FailureSurfaces ==
    <>[](/\ ~deleting /\ DesiredHelmOpKeys(spec) # {} /\ Usable
         /\ \A k \in DesiredHelmOpKeys(spec) :
               BundleRenderCurrent(k, Digest(spec)) /\ bundles[k].state = "err")
        => <>[](status.phase = "Failed")

\* A clean-up that a crash interrupts is completed later.
CleanupHeals ==
    <>[](Usable /\ ~deleting /\ blueprint[spec.version] # {}) /\ strategy = "FleetBundle"
        => <>[](\A k \in Keys \ DesiredHelmOpKeys(spec) :
                   Comp(k) \notin gitBacked => bundles[k] = None)

\* A deleted workload leaves no Bundle behind.
DeletionLeavesNothing ==
    gone /\ strategy = "FleetBundle" =>
        \A k \in Keys : helmOps[k] = None /\ bundles[k] = None

\* Clean-up removes only files of components that are no longer desired.
DesiredFilesKept ==
    [][ps # None => \A c \in Enabled(ps) : files[c] # None => files'[c] # None]_vars
=============================================================================
