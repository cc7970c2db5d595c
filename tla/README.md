# Verification of the AI Factory operator

This directory holds TLA+ models of the Kubernetes operator in
`src/operator` (and the parts of the repository around it), the TLC
configurations that check them on small instances, and TLAPS proofs for every
value of the constants. `PROJECT.json` lists components, runs, mutants, the
definition-to-source map, findings, hazards and theorems in machine-readable form.

Run a check with `tlc -config X.cfg MCModule`, a proof with `tlapm Module.tla`.

## 1. The system

The operator reconciles three custom resources. Everything durable is in the
Kubernetes API (custom resources, annotations, Fleet and Rancher objects) or in
Helm's release storage; what the process keeps in memory are caches.

| Component | State it keeps | Operations | What makes it correct |
|---|---|---|---|
| **AIWorkload operation journal** (`controller/aiworkload/operations.go`, `journal.go`, `digest.go`; `api/aiworkload_actions.go`) | request annotations, `handled-ops`, the journal annotation, `retry-epoch`, `status.activeOperation` | REST handlers set requests; `handleTriggers` starts operations; `reconcileOperation` ends them in three writes | one operation at a time, each request runs once, one final outcome, status never shows a dead operation as running, success means what it says |
| **Blueprint rollout and certification** (`blueprint.go`, `certify.go`, `keys.go`, `gitchart.go`) | HelmOps, Fleet Bundles, git files, render baselines, `status.componentStatuses`, `deployedSource` | render, apply HelmOps, embed git-backed charts, read Bundles back, certify, remove stale components | only a rollout of the current render counts, as success or as failure; nothing of an older blueprint is left behind or removed too early |
| **AIWorkload controller** (`aiworkload_controller.go`, `app.go`, `helm_readiness.go`, `gitops.go`) | finalizer, `FleetBundleNames`, phase, conditions | reconcile, delete, watch mapping, GitOps files | deletion removes everything it created; phase follows the components; a change wakes whom it concerns |
| **Pull secrets** (`pullsecrets.go`, the injectors of `blueprint.go`, `cluster/*`) | secrets, secret Bundles, recorded namespaces, service account references, bounce counts | inject, deliver, merge into accounts, bounce pods, prune | credentials reach every target and no other place; no entry of others is lost; pods are not bounced for ever |
| **Helm client** (`infra/helm/*`) | release storage (external), convergence latch, chart cache, gauge | `EnsureRelease`, `DeleteRelease`, termination | never reports success on a release that is not what was asked for; never leaves a write half done; always picks up a new chart |
| **InstallAIExtension controller** (`controller/installaiextension/*`) | `Active*` fields and Helm release name in status, readiness and pending clocks, ClusterRepo, UIPlugin | install from Helm or Git, wait, clean up stale resources, finalizer | no resource is orphaned by a rename, a source change or a failure; a timeout is about the release that runs |
| **Settings controller** (`controller/settings`), `credentials`, Rancher client holder | well-known secrets and references to them, GitRepos, ClusterRepos, credential copies in other namespaces, the client in memory | discover references, apply or prune each source, rotate, swap the client | with an empty queue everything is applied and nothing else is left; every consumer ends with the newest credential |
| **REST API** (`internal/api`) | none | CRUD, catalog, actions | requests map to single writes; the actions are part of the journal |
| Catalog, credential checks, git client, safe HTTP, naming, logging | none or static | lookups, probes, I/O | (functional, not modelled) |
| UI extension (`src/ui`), charts, CRDs | view state | client of the above | (not modelled) |

**Interaction.** A user edits a custom resource or posts an action, which patches
an annotation. The work queue calls `Reconcile` for one object at a time; a pass
reads the object (from a cache), renders, applies HelmOps, reads Fleet's Bundles,
writes status, and then looks at the operation. Fleet turns a HelmOp into a
Bundle, observes its generation and applies it on the clusters, all
asynchronously. Before that it injects pull secrets, and after the status is stored
it delivers them to every recorded namespace: to the own cluster directly, to the
others in a Fleet Bundle with a script that merges their names into service
accounts. Settings decides which registries and repositories there are, from
secrets that anybody may change. InstallAIExtension drives the Helm client, whose pass may take
minutes; the manager drains running passes when the pod is terminated.

**Hard behaviours.** Writes conflict with users and with the REST handlers; the
process dies between two writes of one protocol; Fleet's answer is about an older
render; a request is delivered twice; a timeout races the answer; a memoized
verdict outlives what it was derived from; a Helm write is cancelled. The list,
line by line, is under `hazards` in `PROJECT.json`.

## 2. Modules

| Module | Content |
|---|---|
| `OperationJournal` | one Blueprint-sourced AIWorkload: requests, passes, Fleet, crashes |
| `OperationLifecycle` | abstract: one operation at a time with one final outcome each |
| `OperationJournalProofs` | theorems about `OperationJournal` |
| `HelmRelease` | the Helm client on one release name, Helm, registry, pod termination |
| `HelmReleaseProofs` | theorems about `HelmRelease` |
| `ExtensionInstall` | the InstallAIExtension controller on one resource: cluster objects against status, failures, deletion |
| `ExtensionInstallProofs` | theorems about `ExtensionInstall` |
| `ReadinessClocks` | the annotations with which that controller times its waits |
| `ReadinessClocksProofs` | theorems about `ReadinessClocks` |
| `BlueprintComponents` | the HelmOps, Bundles and git files of one blueprint workload, against the spec, Fleet, failures and deletion |
| `ComponentRollout` | abstract: passes that roll out one specification each, and report only what is wanted and there |
| `BlueprintComponentsProofs` | theorems about `BlueprintComponents` |
| `PullSecrets` | delivery of credentials by several workloads to several clusters, and their withdrawal |
| `PullSecretsProofs` | theorems about `PullSecrets` |
| `PullSecretMerge` | the service accounts and pods of one namespace, patched and bounced by operator, Job and CronJob |
| `PullSecretMergeProofs` | theorems about `PullSecretMerge` |
| `Settings` | the Settings controller, Rancher's ClusterRepos and their credentials |
| `SettingsProofs` | theorems about `Settings` |
| `MC*` | definitions of constants and symmetry sets for TLC |

The modules meet at what one part of the code takes from another:
`OperationJournal` uses rollout and certification of a component set that
`BlueprintComponents` has in detail; `PullSecrets` merges into the accounts of a
namespace in one step, of which `PullSecretMerge` is the detail;
`ExtensionInstall` takes `EnsureRelease` at its word, which `HelmRelease` is about, and
the end of a wait as a choice, which `ReadinessClocks` is about.

### OperationJournal

State is grouped as in the code: the resource (`spec`, `request`, `handled`,
`journal`, `superseded`, `epoch`, `overdue`), its status (`deployed`, `running`,
`failedCell`, `active`), the cluster (`blueprint`, `repoReady`, `helmOp`,
`bundle`) and the running pass (`pc`, `read`, `expect`, `stale`).

| Actions | Code |
|---|---|
| `UpgradeAIWorkload`, `RollbackAIWorkload`, `RetryAIWorkloadCheck`/`Set` | the REST handlers. Retry checks and sets in two steps because the handler reads the workload twice |
| `TriggerUpgrade`, `TriggerRollback`, `TriggerRetry` | `handleTriggers`. Decision and write are one step: the Update carries the resourceVersion the decision was taken on |
| `ReadWorkload`, `Render`, `PersistStatus`, `BlueprintNotFound`, `ChartTooLarge`, `StatusRequeues`, `StatusFails` | `Reconcile` and `reconcileBlueprintStatus`, with each way to leave them |
| `OperationContinues`, `JournalTerminal`, `ProjectTerminal`, `ClearJournal` | `reconcileOperation` and its three terminal writes |
| `Abort` | a write conflict (free once `stale`), or death of the process (bounded) |
| `ReplayRequest`, `EditSpec`, `EditBlueprint`, `EditRepo`, `DeadlinePasses` | environment |
| `FleetPropagate`, `FleetObserve`, `FleetApply` | Fleet, external, from the fields `certify.go` reads |

`stale` says that somebody else wrote the resource since the pass read it; the
pass's own writes then fail with a conflict. A lagging informer cache is the same
thing: a pass acting on an older read. Server-side applies of HelmOps carry no
resourceVersion, so `Render` works even when the pass is stale.

Abstractions: one component on one cluster; digests are the tuples of what they
hash; `RequestedAt` is the number of operations started; the 30-minute deadline is
the flag `overdue`. `freshCert`, `atDeployed`, `freshFail`, `starts`, `sameVersion`
record history for the properties and influence no action.

### OperationLifecycle

`current` is the operation a reader of journal and status sees. It is started
(replacing whatever was there, with a fresh RequestedAt), finished once with one of
the three terminal states, retired. `OperationJournal` maps `current` to the
journal, or to `status.activeOperation` when there is no journal, which is what
the REST handlers consult.

### HelmRelease

| Actions | Code |
|---|---|
| `EnsureInstall`, `EnsurePending`, `EnsureSkip`, `EnsureRetry`, `EnsureLatched`, `EnsureDiff` | `EnsureRelease` up to its first slow step, one action per branch of `decideRelease` |
| `ReadManifest`, `RenderRefused`, `RenderSame`, `RenderDiffers` | the diff: manifest read, chart pull and render, verdict |
| `Install`, `Upgrade`, `WriteRefused`, `ApplySucceeds`, `ApplyFails`, `PullFails` | the Helm write: a pending revision is stored, then settled |
| `GraceExpires`, `Sigterm`, `Exit`, `Kill` | `withShutdownGrace`, the manager's drain, process death |
| `DeleteRelease`, `EditSpec`, `Push`, `ManualUninstall`, `ManualRollback`, `ManualInstall`, `Tick` | the finalizer's call, the environment, time |

Storage is read when the decision is taken, again for the deployed manifest and
again for the render; a manual helm command may fall between any two of these.
A write stores a pending revision first, so a process that dies in the middle
leaves it pending. Latch and chart cache are memory and are lost on exit; each has
its own TTL. Charts carry the version in `Chart.yaml`, which need not be the
tag they are published under. What Helm does (values copied forward when none are
given, superseding, `failRelease`) is external and modelled from how the code
relies on it. The per-name lock in the code is the one pass at a time.

### ExtensionInstall

| Actions | Code |
|---|---|
| `EnsureFinalizer`, `StartPass`, `CleanupStaleResources`, `CheckCRDs` | `reconcileRequest` and `reconcile` up to the choice of the source |
| `ReplaceRelease`, `EnsureRelease`, `ReleaseRunning`, `EnsureClusterRepo`, `EnsureUIPlugin` | `reconcileHelmSource`, one action per call that changes or waits for something |
| `ValidateGit`, `EnsureClusterRepo`, `EnsureRelease`, `ReleaseRunning` | `reconcileGitSource` |
| `StepFails`, `PersistStatus`, `Interrupted` | each way a pass ends: a failure recorded in status, the status patch, the process gone or told to stop |
| `HandleDeletion`, `Cleanup`, `RemoveFinalizer` | `finalizer.go` |
| `EditSpec`, `DeleteObject`, `RemoveByHand`, `CacheSync` | environment |

A pass works on the informer's copy (`cache`, `read`) and accumulates `status`; the
server's copy (`object`) gets the changed fields only (`Patched`), while the two
Updates of the finalizer conflict unless the pass read the current resource. Calls
that are made whatever becomes of each other (stale objects, finalizer) are one
step in which any subset succeeds. A release is its name, and `EnsureRelease`
is taken at its word, which is what `HelmRelease` is about.

Three constants say in which world a property is checked. `Patient`: the spec is
edited again only when its last edit was installed or is invalid.
`UninstallFails`: uninstalling the release of an old spec may fail. `StatusLags`: a
pass may start on a cache that lacks the status of the pass before. A wait that is
not over is a pass that ends Installing or Failed; how long it may last is the subject
of the next module.

### ReadinessClocks

| Actions | Code |
|---|---|
| `StartPass`, `CleanupStaleResources`, `Prepare`, `EnsureRelease` | a pass up to Helm's answer, with the releases it uninstalls and the revisions it makes |
| `ReleasePending`, `ReleaseSettled` | `handlePendingRelease`, one action per kind of answer, one disjunct per way it returns |
| `RestartReadinessClocks` | `awaitReleaseRunning` up to the record of the revision |
| `AwaitDeployment`, `AwaitService` | the two waits: `awaitReadiness`, and the removal of the marker when there is nothing to wait for |
| `Publish`, `CloseWait`, `PersistStatus`, `PersistRefused` | the end of `reconcileHelmSource`, `clearReleasePending` at the end of a pass, the status patch and its conflict |
| `CallFails`, `Interrupted` | a call that fails, the process gone or told to stop |
| `EditSpec`, `OperateElsewhere`, `UninstallElsewhere`, `PendingEnds`, `ComeOrGo`, `Tick` | environment: users, Helm commands given by hand, Helm operations that end, deployment and Service, time |

An annotation holds a time stamp; the model has its age, which stops just past the
limit, where all ages are alike. `fresh` says that no one else wrote the resource
since the pass read it, without which an Update is refused, and `wrote` that the pass
made one, after which the status patch carries a resource version too. `mine` is the
status the pass accumulates. Four variables only record history: `since` is how long
each wait has lasted as the passes saw it, `timed` the rollout the last pass saw (with a
count of installations, which Helm does not keep), `refused` that a settled release kept
its marker, and `excused` that from here on timeouts may be early.

Two things are an excuse, for good (`Excuse`). The release was made to give way, by an
edit of the source or an uninstallation by hand: revision numbers begin again
(section 4). Or the status of a pass was lost while a clock ran and no revision was
recorded (`FirstStatus`): the comment at line 1084 takes that case for a wait that goes
on, so a new rollout after it inherits the clock, which is taken for a decision of the
code and not for a finding. A pass sees the
writes of the pass before, since every requeue leaves seconds for them, the extension
keeps its name, and the specs are valid, so that every pass is requeued. Annotations
edited by hand are left out.

### BlueprintComponents

A key is a component in a Fleet workspace (`Keys`). For each there may be a HelmOp
(generation, digest of what was rendered, generation at which Fleet last reported
`Accepted=False`), a Bundle (digest, state of the rollout) and a render baseline;
for each component, with the GitOps strategy, a file. A pass keeps the spec it read
(`ps`), what is left to do (`todo`), the baselines it collects (`bl`), and whether
the object is still the one it read (`fresh`).

| Actions | Code |
|---|---|
| `BlueprintNotFound`, `PopulateFleetBundleNames`, `BeginPass` | `reconcileBlueprintStatus` up to the components |
| `EnsureBlueprintHelmOp`, `EnsureBlueprintGitChartBundle`, `EnsureBlueprintGitFile`, `ComponentError`, `RenderDone` | one component each, by strategy and kind of repository, and the ways it fails |
| `CleanupHelmOp`, `CleanupBundle`, `CleanupGitFile` | `cleanupStaleHelmOps`, whose two deletions are two steps |
| `FinishPass` | component matrix, phase, `guardPhaseTransition`, `PruneRenderBaselines` and the status write, refused unless `fresh` |
| `BeginDeletion`, `DeleteHelmOp`, `DeleteBundle`, `DeleteGitFile`, `RemoveFinalizer` | `handleDeletion` |
| `Crash`, `CallFails` | death of the process; an API error, after which the status is still written |
| `FleetGenerate`, `FleetReject`, `FleetRollout`, `FleetGitRepo` | Fleet, external |
| `EditSpec`, `DeleteWorkload`, `RepoChange`, `GraceEnds` | environment; each wakes the workload as the watches of `SetupWithManager` do |

Abstractions: values, versions and charts are one digest; clusters are told apart by
the workspace that serves them; the five minutes of grace are the flag `young`.

### ComponentRollout

What the controller promises about the objects it deploys, without API calls, queue, Fleet
and crashes. A pass takes the table of what is wanted when it begins, deploys objects of
that table only, withdraws only objects that are not in it, and ends in a report (the table
is still the one wanted, all of it is deployed and nothing else but what lasts) or without one. A deletion
waits for the pass, removes what is recorded and leaves when nothing of it is there.

| Abstract | In `BlueprintComponents` |
|---|---|
| `wanted`, `plan` | `Table`: at each desired key the digest of the spec; of the spec in the API, and of `ps` while the pass renders and cleans up (`Working`) |
| `deployed` | the digest of the HelmOp, for a git-backed component of the embedded Bundle |
| `lasting` | keys of git-backed components: `cleanupStaleHelmOps` finds objects by HelmOps, so only a deletion removes their Bundles |
| `reported` | `status.componentStatuses` while Ready is `Reconciled` |
| `recorded`, `leaving`, `gone` | `fleetBundleNames`, the deletion, its end |

With GitOps the operator has no objects of its own, since Fleet makes them from the files:
`deployed` is then empty and nothing is reported, and the refinement says little. A crash, a
failed call or a refused status write is `Abandon`, and during a deletion a stutter; the steps
of Fleet are stutters, because they change neither which HelmOps there are nor what they,
or embedded Bundles, are rendered from.

### PullSecrets

| Actions | Code |
|---|---|
| `Begin`, `Inject`, `InjectFails`, `Injected` | `reconcileAppPullSecrets` and the SUSE and NVIDIA injectors; the SUSE one passes over API errors |
| `PersistStatus` | the status update that stores the recorded namespaces, and ends the pass if it is refused |
| `SyncSpecFromHelmOp`, `DeleteAIWorkload` | the GitOps detours of an App |
| `BuildSecrets`, `DeliverLocal`, `ApplyPullSecretBundle` | `deliverPullSecrets`: one place after the other, ended by the first error |
| `ReconcilePullSecrets` | the merge into accounts, and the requeue of polled workloads (`Polls`) |
| `BeginDeletion`, `CleanupPullSecretBundle`, `BeginPrune`, `PruneLocalSAImagePullSecrets`, `RemoveFinalizer` | `handleDeletion` |
| `ChangeCredentials`, `EditSpec`, `Delete`, `InstallChart`, `Fail`, `Restart` | environment; a change of a well-known secret wakes the workloads of `credentialSecretToAIWorkloads` |

There is one worker, as in the code, for several workloads. A secret is the version
of the credential in it. The deliveries a pass has collected are in memory: they are
lost with the pass, which is what makes the record in the status necessary. `had`
and `came` remember which namespaces a workload ever had and which workloads ever
came to the own cluster; they influence no action.

### PullSecretMerge

The operator (on its own cluster) and the script (on the others, as a Job and a
CronJob that may overlap) are three runners of the same loop: list accounts and pods
(`Start`, `ListPods`), read an account (`ReadAccount`), skip, merge or patch it
(`SkipAccount`, `MergeAccount`, `PatchAccount`), count a bounce (`CountBounce`) and
delete the pod (`DeletePod`), `Finish`, `Fail`. They differ as the code does: the operator patches with
the resource version it read, the script does not; the operator counts bounces up to
`chartPodMaxBounces`, the script bounces only in runs that patched an account.
Environment: `CreatePod`, `Pull`, `CreateAccount`, `EditAccount`, `GrowDesired`,
`UpgradeChart`. A pod takes the entries of its account when it is created.

### Settings

A pass has an agenda of stages (the customer's repository, each catalog, pruning, each
registry, openshell, NVIDIA's fixed and team repositories); a stage reads what it
needs when it starts and produces the list of its writes, which are then made one by
one and may each fail. `GitWrites`, `RegistryWrites`, `NvidiaWrites`,
`NGCTeamWrites` and the operators they use are the reconcile functions, written as
what they would do next. Each kind of write is an action (`WriteGitRepo`,
`WriteMirror`, `ForceUpdateRepo`, ...), because each of them wakes or does not wake
the controller.

| Actions | Code |
|---|---|
| `Begin`, `AddUser`, `Wire` | read Settings, normalise NVIDIA's secret, store discovered references |
| `StartStage`, `StageErrors`, the writes, `WriteFails` | the stages of `Reconcile`; a catalog's error is logged, others end the pass |
| `RefreshClient`, `UpdateStatus` | client holder and status |
| `AddUserFails`, `WireFails`, `UpdateStatusFails`, `Crash` | failures and restart, with which the holder is empty |
| `EditSettings`, `ChangeCredentials`, `ChangeCA`, `ChangeGitCredential`, `ChangeRancher`, `GitRepoEvent` | users; whether a change wakes the controller is what `SetupWithManager` and `enqueueSettingsForSecret` say |
| `RancherRefresh` | Rancher reads a ClusterRepo's secret again, external |

`known` is the material Rancher read last for a repository: it reads a secret when the
ClusterRepo changes or is forced, or at some later time of its own. The properties
compare the outcome with `Desired`, which states what there should be in a table,
independently of the procedure. `swallowed` names the catalogs, and NVIDIA's user name,
whose last error was logged only: these alone `QuietMeansApplied` excepts.

## 3. Runs

All bounds are constants of the modules and appear in guards.

| Run | Bounds | Shows |
|---|---|---|
| `journal_crash` | 2 versions, 2 requests, 2 epochs, `MaxHandled` 2, 1 edit, 1 fault | the terminal protocol and what success claims: `ProjectionNotStuck`, `NonceStartsOnce`, `OutcomeFinal`, `RefinesLifecycle`, `SuccessMatchesSpec`, `RetrySucceedsOnOwnEpoch` |
| `journal_live` | 2 contents, 3 epochs, 1 fault | `OperationEnds`, and `SuccessIsRolledOut` with answers of Fleet about an older render |
| `release_ensure` | 3 revisions, 1 edit, 1 push, 1 SIGTERM, 1 fault | `PendingOnlyByKillOrLate`, `LatchWindow` |
| `release_live` | 6 revisions, 1 push, 1 manual command, 1 fault | `NilMeansRendered`, `Converges` |
| `extension_install` | 2 names, 4 charts (2 invalid), 2 repositories (1 invalid), 2 edits, 2 faults | `NoLeftovers`, `DeletionLeavesNothing`, `Converges` |
| `blueprint_fleet` | 1 component in 2 workspaces, 2 versions, both strategies, changing repositories, 1 edit, 1 fault | `DesiredKept`, `GoneLeavesNothingNamed`, `RunningIsTrue`, `FailedIsOwnAnswer`, `RefinesRollout`, `Converges`, `StatusFollows` |
| `pull_secret_accounts` | accounts `default` and one more, with one pod, 2 names, 2 bounces, local and downstream, 1 edit, 1 fault | `BouncesBounded`, `EntriesKept`, `AccountsConverge`, `BrokenStays`, `PodsRecover` |
| `pull_secret_delivery` | 2 workloads (all four kinds, both vendors), own cluster and 1 other, 1 namespace, 1 rotation, 2 edits, 1 fault | `LocalUntouched`, `RefsAreOnRecord`, `GoneLeavesNoBundle`, `CredentialsFollow`, `RefsFollow` |
| `settings_follow` | one repository of each kind, 1 catalog, 1 workspace, 2 edits, 1 fault | `QuietMeansApplied`, `NoDanglingSecret`, `RotationReaches`, `KeptCatalogStays`, `Converge` |
| `clocks_waits` | 1 chart and the Git source, readiness limit 0, pending limit 1, 1 edit, 1 fault | `TimeoutEarned`, `WaitsEnd`, `Installs` |
| `stale_certificate`, `component_orphaned` | as little as it takes | violations, section 4 |

The type invariant of every module with proofs is a theorem (section 5) and is left out
of the runs.

Why the bounds are enough. Journal: two requests are the least in which one operation
replaces or follows another, and they are of any kind each; two versions and
two contents tell target, certificate and current render apart; one fault at
any of the steps is the crash the terminal protocol is written for, and a second
fault meets a state the first already reaches, since the protocol's repairs are
the same passes. Two requests fill a list of `MaxHandled` 2.
Helm: three revisions give a failed or pending revision above a deployed one
above an older one; two tags and two bodies, one of which reads the values, give
equal manifests for different specs and different manifests for equal
specs; `CacheTTL` < `LatchTTL` and `Grace` < `Drain` keep the order of the code's
durations, and ticks let each expire first. Extension: two edits
lead from any spec over any other back or on to a third, with renames and source
changes, alone and together; two faults make a cleanup fail that a failed pass
made necessary. Components: those of a workload do not influence each other but through
the recorded names and the phase, so one in two workspaces, with every subset of
targets, shows clean-up, rejection and rollout; of the two versions one has it and the
other's Blueprint is missing; `component_orphaned` has a second component. Pull secrets:
two workloads that share a namespace are the least in which one's deletion meets the
other's delivery, and two edits take a workload to the own cluster and away again;
`PullSecrets_two_namespaces.cfg` has a second namespace instead of the second edit and
passes as well. Accounts: a cap of two lets one bounce stay below it and the next reach it. Settings:
the second edit falls into the pass, or the retry, that the first one made necessary.
Clocks: with a limit of 0 a clock that is one tick older than its wait is already too
old; the edit may ask for the other source, or only for something else, which refuses the
Updates of a pass without excusing it; a new revision is made by a fault (a failed upgrade,
or an operation by hand), so one version is enough. One fault does not leave a pending
marker behind and find the release pending again; the theorem of section 5 covers that.
The theorems of section 5 remove the bounds for the properties they cover.

Deadlock is checked in the Helm runs. It is off in the journal runs: an upgrade to
the current version restarts its retry in every pass (section 4), so a
behaviour that uses up the bounded epochs this way has no step left. It is off in
the other runs, where nothing happens any more once the resource is gone or the
queue is empty and the bounded edits are used up.

**Fairness.** `journal_live` assumes weak fairness of the controller's steps taken
together (the work queue requeues after every pass that ended with an operation in
progress, an error or a conflict) and of the clock. It assumes nothing of Fleet,
users or faults. `OperationEnds` holds under two conditions stated in the formula:
the chart repository is available from some time on, and no upgrade to the current
version is requested; section 4 shows why it needs them. `release_live` assumes weak
fairness of the steps of a pass, of the clock and of process exit: the
InstallAIExtension controller requeues periodically. `extension_install` assumes weak
fairness of the passes (every failure but that of an invalid spec requeues, and a
success requeues after `healthCheckInterval`) and of the informer. `blueprint_fleet`
assumes that a request in the queue is served and the pass goes on, and that the
grace period ends; whether there is a request in the queue is part of the state
(`queue`), because not every change leaves one. `pull_secret_delivery` assumes strong
fairness of each workload's steps, since the worker is shared and the queue is first
in, first out, and that charts get installed where Fleet is told to.
`pull_secret_accounts` assumes that runs that are due go on and that Kubernetes creates
pods and pulls images. `settings_follow` assumes weak fairness of the controller; again
`due` is state. `clocks_waits` assumes weak fairness of the passes and of the clock: every
way to end a pass requeues it, after at most `maxFailureRetryInterval`. It assumes
nothing of the deployment, which may come and go for ever (`WaitsEnd`), nor of Helm,
whose operations may stay pending. Faults and edits are finitely many everywhere.

**Mutants.** Each property of each passing run has a mutant, an operator next to
the definition it replaces, under which the run fails: a dropped guard, an
off-by-one, two writes in the other order, a missing expiry, a lost wake-up.

## 4. Findings

The first two are runs expected to be violated.

- `stale_certificate`: an operation whose target is the certified version, as every
  rollback's is, succeeds at once on the certificate of before.
- `component_orphaned`: a component that an upgrade adds is not in
  `fleetBundleNames`, by which alone a deletion finds HelmOps and Bundles: both
  outlive the workload.

Further disagreements between code and comments, each with a configuration under which
TLC finds it:

- `OperationJournal_same_version`: an upgrade to the version already in the spec is
  handed to `startRetry`, which removes the retry annotation, not the upgrade one:
  every pass starts another retry. Such a request takes two entries of `handled-ops`,
  so the list remembers fewer requests than it has entries (`AllRemembered`).
- `OperationJournal_retry_stale_failure`: a retry fails on the `ErrApplied` of the
  rollout it is meant to repeat, since the render digest does not cover the epoch.
- `HelmRelease_late_write`: a write that begins after SIGTERM has its grace counted
  from its own start, so the process may exit in the middle of it.
- `ExtensionInstall_edit_early`: a spec renamed, or moved to another source, before it
  was reported installed leaves behind what it had created: the status names only
  what was installed successfully.
- `Settings_rotation`: a pass that fails between two copies of a rotated credential
  has already overwritten the copy by which it recognises rotations, so the retry does
  not force Rancher to read the new one.
- `ReadinessClocks_replaced`: rollouts are told apart by revision number. A release
  that replaces another begins at 1 again; if that is the number on record, it inherits
  the clock of the old one and is reported as timed out at once.
- `ReadinessClocks_stale_marker`: if removing the pending marker is refused while the install
  failed, and the release is pending again in the next pass, the new operation is timed
  by the old marker. The comment says that it costs only a delayed removal.
- `ReadinessClocks_stale_reason`: the Ready condition by which the end of a pass decides about the
  pending marker is not "this pass's verdict": while the deployment is waited for, it is
  the one of a pass before. The marker is gone by then (`PendingInv`, section 5), so what
  remains is that Ready shows a pending release that has settled.
- `ReadinessClocks_refused_status`: the status patch "cannot 409" only in passes that write no
  annotation. `MergeFrom` sends what differs from the copy taken before the pass, and
  after an Update the resource version differs.
- `PullSecretMerge_pods`: downstream, a pod that came up before its account was patched,
  and went into back-off after the run that patched it, is never bounced: later runs
  find nothing to patch and look at no pods, where `sa_merge.go:72-76` says such pods
  "eventually converge".
- `PullSecrets_foreign_namespace`: a namespace recorded while the workload ran only
  downstream is served on the own cluster once that becomes a target, although the
  comment at `pullsecrets.go:450-452` says that the operator "must not write secrets
  into a same-named local namespace it never installs into".
- `PullSecrets_blocked`: the first place that fails ends the delivery
  (`pullsecrets.go:461-470`) and no namespace leaves the record; a recorded namespace
  that does not exist on the own cluster keeps new credentials from all later places.

What the properties except, or say of less than one would like:

*Journal.* A retry is judged by a phase and a sync
generation read at different times of a pass, so it may succeed although its own
rollout failed in between (`RetrySucceedsOnOwnEpoch` says nothing about health);
`startRetry` replaces a journal in progress without writing the superseded-op
annotation. With more requests than `handled-ops` has room for, one that is delivered
again can start its operation again, and reopen its outcome (the premise
`AllRemembered` of `NonceStartsOnce` and `OutcomeFinal`). While a chart
repository is unavailable `Reconcile` returns before `reconcileOperation`, so an
expired operation stays in progress (`OperationEnds` assumes the repository is
available from some time on).

*Helm client.* A verdict derived from a cached chart is trusted for
`convergenceTTL` on top of the archive's age (`LatchWindow` states the sum); a
verdict is recorded against the release `decideRelease` read although the diff
read storage again (`NilMeansRendered` excepts it through `compared`). A failed upgrade
may have changed the cluster, and setting
the resource back to the deployed version is skipped (`Runs` is about the deployed
revision, not the cluster).

*Extension.* The release of a first install that never succeeded is not
recorded, so deleting the resource leaves it (`DeletionLeavesNothing` excepts
it by `Unrecorded`), and `cleanupStaleResources` forgets a release whether or not it
was uninstalled (`UninstallFails`). A pass on a cache without the last status may
take what the pass before installed for stale and patch its release name away, so
that the release outlives the resource (`StatusLags`). With either constant
`TRUE`, or `Patient` `FALSE`, TLC finds what is left behind. After a rename the clean-up
runs in every pass until the new name was reported installed, and each time uninstalls the
release on record, which by then is the new one (lines 774-783); it is not modelled by
`ReadinessClocks`, whose extension keeps its name.

*Components.* Formulas at the end of `BlueprintComponents` state three more things the
code does not keep. `CleanupHeals`: clean-up looks for stale HelmOps, deletes the
HelmOp and then its Bundle; after a crash in between nothing leads to the Bundle
any more, and `Converges` excepts such Bundles. `FailureSurfaces`: within five minutes
of the creation `guardPhaseTransition` shows Pending for Failed, and nothing wakes the
workload when they are over. `DesiredFilesKept`: removing one of two target workspaces
deletes the component's git file, which serves both. Less strictly: a component
that is disabled and enabled again is not published again with GitOps; a
HelmOp rejected at its first generation before a baseline exists stays Pending; Bundles
of git-backed components are not cleaned up when stale; the watches by
`fleetBundleNames` do not see Bundles of components added later (`StatusFollows`
requires their names to be recorded); an error of one component ends the pass before
clean-up (`Converges` assumes usable repositories).

*Pull secrets.* The SUSE injector passes over API errors, and nothing retries for
workloads that are not polled (`CredentialsFollow` excepts them). An App whose git
file disappears goes without `cleanupPullSecretBundles` (`GoneLeavesNoBundle`
excepts it). Of two workloads that share a namespace, the deletion of one takes the
secret's name from the accounts of the other, until it is polled (`RefsFollow` is about
Apps deployed with Helm). Downstream the names are never taken out of accounts. Bundles
of targets that were removed stay until the deletion. Credentials in a secret that is
not well-known, and a change of which secret Settings refers to, deliver nothing
(`WellKnown`). The script replaces an account's list by the union with what it read
earlier, so an entry added in between is lost (`ScriptKeepsEntries`; the operator
checks the resource version and keeps it, `EntriesKept`). A pod whose controller has
used up its bounces before the credential arrived is left alone (`PodsRecover`).

*Settings.* A misconfigured customer repository or an unreadable registry CA ends every
pass, so whatever comes after it is not applied (`Blocked`). Transient errors of a catalog,
or of adding NVIDIA's user name, are logged only; they are retried by whatever wakes the
controller next (`swallowed`). The CA that is discovered in `cattle-system` is not
watched (`ClientApplied`), and ClusterRepos and copies of credentials that somebody
deletes are not healed until something else wakes the controller. The copy of the
customer repository's credential is never deleted, and a catalog's copy stays if the
process dies between the two deletions (neither is compared by `GitApplied`). A
reference whose secret is missing for a moment is replaced by a well-known one. The
observed generation is that of the object at the end of the pass, which need not be
the one applied.

## 5. Proofs

Assumptions are those of the modules: the "none" values are not members of the sets
whose members they stand in for (that of `BlueprintComponents` is no object, digest or reason), the bounds are naturals, `ReadsValues` is a subset of `Bodies`,
`Grace < Drain`, blueprints are functions from versions to sets of components. All sets
may be infinite, but for those of `Settings`, which its passes go through one by one.

`OperationJournalProofs`
- `TypeCorrect`: `Spec => []TypeOK`. `TypeOK` is inductive, one step per action.
  The part with content is that `AddHandled` keeps at most `MaxHandled` entries,
  a lemma of its own, and that `StartVersionOp` gets a version (an upgrade
  request names one, `UpgradeNamesVersion`, and a replay repeats an accepted one).
- `ProjectionSafe`: `Spec => []ProjectionNotStuck`. Not inductive alone: the step
  that removes the journal must find the outcome projected. The strengthening is
  `TerminalWrites`: at `project` the journal is terminal, at `clear` it is also
  what the status shows. No other action breaks it in between, because a start
  needs an idle pass and a projection copies the journal.
- `RequestStartsOnce`: `Spec => []NonceStartsOnce`. `StartsInv` says that a nonce belongs
  to one type of request (`OneType`), that the list never holds more entries than
  there are identities (`IdentitiesBound`, a counting argument), so that nothing is
  forgotten while `AllRemembered` holds, and that what was started is on the list
  (`StartsListed`).
- `OutcomeIsFinal`: `Spec => OutcomeFinal`. It adds that what is in the journal was
  started (`JournalStarted`), so that a request for it is on the list and is dropped.
- `SuccessIsOfSpec`, `SuccessRollsOut`, `RetrySucceedsOnEpoch`: what a success claims.
  The invariants are that a certificate of a target that was not deployed when its
  operation started was given since (`CertInv`), and that no epoch at Fleet is ahead of the
  workload's and a retry in the journal is of the current epoch (`EpochInv`).
- `Refinement`: `Spec => Lifecycle!Spec`. Each step maps to a start, a finish, a
  retirement or a stutter of the abstract variables, using the same invariant as
  `ProjectionSafe` and that starting increments `started`.

`HelmReleaseProofs`
- `TypeCorrect`: `Spec => []TypeOK`, with the strengthening that storage has at most
  one deployed revision, that `seen` has what the next step reads, and the ages'
  bounds.
- `ShutdownSafe`: `Spec => []PendingOnlyByKillOrLate` for all `Grace < Drain`. The
  strengthening, `OneClock`: while the process stops and a write that began before
  SIGTERM runs, its grace started with the drain, so the two counters are
  equal and the grace ends first.
- `NilAnswerSound`: `Spec => []NilMeansRendered`. The strengthening, as long as no
  chart was pushed again: every deployed revision is what the chart of its version
  renders for its values (`RevisionsSound`), the cache holds what the registry
  holds (`ChartsSound`), what a pass has seen was true of storage when it was read
  (`SeenSound`), a verdict is about what it says (`LatchSound`) and a revision in
  flight is what was asked for (`WriteSound`).
- `VerdictsExpire`: `Spec => []LatchWindow` for all TTLs. `WindowInv` bounds how long a
  cached archive has been outdated by its age (`ArchiveAge`) and how long a verdict has
  been by its own age and that of its archive when it was reached (`VerdictAge`).

`ExtensionInstallProofs`
- `TypeCorrect`: `Spec => []TypeOK`, in every world (`Patient`, `UninstallFails` and
  `StatusLags` either way), with the strengthening that each edit is one generation.
- `NothingOfOldSpecs`: `Careful /\ Spec => []NoLeftovers`, and `NothingAfterDeletion`:
  `Careful /\ Spec => []DeletionLeavesNothing`, for any number of names, charts, edits
  and faults. `Careful` is the world of the run: `Patient`, no uninstall that fails,
  no pass before the status of the last. The invariant says that the cluster
  holds nothing but what the status and the current spec account for (`Accounted`),
  of the server's status and of the one a running pass will write. A step may add only
  what its own, perhaps outdated, spec asks for: that is harmless because an
  outdated spec that can install anything is the one reported last (`Known`). A
  pass for the current spec has removed the rest before it may report
  (`PassClean`), a recorded release is never one that no field gives away
  (`StatusSound`), and what a deletion removed before its Update goes through is
  what the unchanged resource accounts for (`FinalizeClean`).

`ReadinessClocksProofs`, for any sources, versions, limits and bounds
- `TypeCorrect`: `Spec => []TypeOK`.
- `TimeoutsAreEarned`: `Spec => TimeoutEarned`, by `Invariant`: until something is
  an excuse, `Inv` holds; it says nothing after that, and what is an excuse stays one
  (`ExcuseStays`). Each of the excuses is necessary: TLC finds early timeouts with either
  alone. A clock may well be older than its wait for a while:
  the pass that finds a new rollout may be unable to clear it. `ReadinessInv` says that
  in that case the recorded revision is older than the rollout the last pass saw, so that
  the next pass to get there clears it or ends in an error before any wait.
  This needs that a clock never runs without a recorded revision (`RecordedInv`) and that a
  revision, which only grows, stands for one rollout (`OneSource`, `RecordsOK`).
  `PendingInv` says that the pending marker is gone when the deployment is waited for, and
  that the end of a pass otherwise decides on what the pass concluded.

`BlueprintComponentsProofs`
- `TypeCorrect`, `NothingNamedIsLeft` (`Spec => []GoneLeavesNothingNamed`) and
  `DesiredIsKept` (`Spec => DesiredKept`), for all blueprints, strategies and bounds. The
  invariant `Steps` says what each step of a pass has left: what clean-up still has to
  delete is not desired by the spec it works on, what a deletion still has to delete is
  recorded. `DeletedSoFar` says that of the rest nothing is there, and that
  Fleet, which may generate a Bundle as long as there is a HelmOp, cannot bring it
  back.
- `RunningHolds` (`Spec => RunningIsTrue`) and `FailedIsAnswered`
  (`Spec => FailedIsOwnAnswer`). A pass whose object nobody wrote works on the
  current spec (`PassIsFresh`), and only such a pass stores its status. A baseline, in the
  status or in memory, is of a HelmOp that exists; if it is of the current
  generation, then it has its digest, and Fleet has rejected just that generation if
  its answer has changed since (`BaselinesSound`).
- `Refinement` (`Spec => RefinesRollout`): every step maps to one of `ComponentRollout` or
  a stutter. `RolloutInv` says of each step of a pass what it has behind it: a component it
  has done is deployed as its spec wants it, what is in the way of that spec is on the
  list of the clean-up, at the end nothing is, and a git-backed component has no HelmOp. The
  end of a pass is then a report, because a status that goes through is about the
  current spec (`PassIsFresh`); every other end, and whatever dies, abandons the pass.

`PullSecretMergeProofs`
- `TypeCorrect`, `BouncesAreBounded` (`Spec => []BouncesBounded`) and `EntriesAreKept`
  (`Spec => EntriesKept`). For the second: while a bounce is counted and its pod not yet
  deleted, fewer pods of the controller were deleted than counted (`CountedAhead`); for the
  third: the operator has read every account it still has to do (`SeenListed`), and no
  script runs on its own cluster (`NoScript`).

`PullSecretsProofs`
- `TypeCorrect`, `LocalIsUntouched` (`Spec => []LocalUntouched`), `RefsStayOnRecord`
  (`Spec => []RefsAreOnRecord`) and `NoBundleIsLeft` (`Spec => []GoneLeavesNoBundle`), with
  invariants that a pass works only with what its workload ever had (`PassWithin`), that
  from the storing of the status on it works with what is on record (`OnRecord`), and that
  what is left of a deleted workload's Bundles is on the list of those to clean up
  (`CleanedUp`).

`SettingsProofs`, for any registries, catalogs, repositories and bounds, provided the
sets are finite and their names do not overlap (`NamesAssumption`, as the constants of
`internal/naming` and `credentials` are)
- `TypeCorrect` (`Spec => []TypeOK`), `QuietApplied` (`Spec => []QuietMeansApplied`),
  `NothingDangles` (`Spec => []NoDanglingSecret`), `RotationIsRead`
  (`Spec => []RotationReaches`) and `KeptCatalogs` (`Spec => KeptCatalogStays`) follow from
  one inductive invariant, `Inv` (`Invariant`). None of them is inductive: each is about
  the end of a pass or the moments in its middle, so the invariant has to say what the
  pass still has to do.
- `Typed`: the shape of a pass, the order of its stages and of a stage's writes. The
  copy in `cattle-system` is the first write and the removal of a registry's copies is the last.
- `CopiesInv`: a repository that uses a credential has a copy of it, or has a write before
  it that makes one (`RegistryOK`); where copies are about to be removed, nothing uses
  them, nor will (`UnmirrorOK`, `PlainOK`); a copy that is about to change is followed by a
  write that makes Rancher read it (`MirrorOK`); and as long as no call failed, what
  Rancher has not read it will be made to read (`ReadOK`). `Settings_rotation.cfg` is
  the reason for the last condition.
- `GoingInv`: a pass is due, or everything is as the Settings ask or on the lists of
  the pass, its stages ahead or its writes to come, or stopped by an error
  that will make a pass due, or `swallowed`. A pass that starts puts all stages on its list
  (`WireGoes`), a stage that starts puts on its list exactly what `Desired` lacks
  (`GitGoes`, `RegistryGoes`, `NvidiaGoes`, `TeamGoes` and so on: the procedure against the
  table), a write does what it says (`BehindWriting`), and a change that is not watched
  changes nothing the Settings ask for (`UsersView`).
- What a stage's list contains is proved of `ForEach`, which lists a function's values in
  the order of `SetToSeq`; that this lists all of them is counting (`SetListed`), not induction.

Only model-checked: every liveness property (fairness and ENABLED are beyond the
prover), including `BrokenStays`. Every other property of a passing run, invariant or
action property, is a theorem, and so are the refinements `RefinesLifecycle` and
`RefinesRollout`.

## 6. Not modelled, and plan

Done: the journal and the rollout of components, each with its abstraction, the Helm
client, the extension controller and its clocks, pull secrets in two modules, Settings;
proofs about all of them. What is left, in order of importance:

1. **App workloads**: the Helm status of an App, its uninstallation and the import of a
   HelmOp's spec with GitOps (`app.go`, `helm_readiness.go`, `gitops.go`); only the
   delivery of their pull secrets is modelled.
2. **A refinement**: `PullSecretMerge` as the implementation of the merge step of
   `PullSecrets`, which needs its accounts and pods in the state of the latter.

Not planned: chart and index parsing, catalog data, credential probes, the git
client, HTTP plumbing, naming and logging (stateless or pure I/O); the UI extension
(a client with view state only); Helm charts and CRDs (declarative).
