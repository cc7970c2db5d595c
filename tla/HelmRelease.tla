---------------------------- MODULE HelmRelease ----------------------------
(***************************************************************************)
(* The Helm client of the operator on one release name (internal/infra/    *)
(* helm: action.go, convergence.go, chart_cache.go, shutdown_grace.go):    *)
(* EnsureRelease decides from release storage, may skip on a memoized      *)
(* verdict, renders the chart to compare manifests, and installs or        *)
(* upgrades; DeleteRelease uninstalls.                                     *)
(*                                                                         *)
(* Release storage and the cluster survive the process; the convergence    *)
(* latch and the chart cache do not.  A Helm write first stores a pending  *)
(* revision and settles it at its end, so a process that dies in between   *)
(* leaves it pending.  Around the client: the custom resource is edited,   *)
(* charts are pushed again under a tag in use, an administrator runs helm  *)
(* by hand, the pod is terminated, the process is killed.                  *)
(*                                                                         *)
(* Ages are in ticks and saturate one above the limit they are compared    *)
(* with.                                                                   *)
(***************************************************************************)
EXTENDS Naturals, Sequences

CONSTANTS
  Tags,         \* versions a custom resource can pin, and Chart.yaml versions
  Bodies,       \* templates of a chart
  ReadsValues,  \* the bodies whose templates read the values
  Values,       \* non-empty values
  NoValues,     \* no values requested or stored
  LatchTTL,     \* convergenceTTL, 30 minutes
  CacheTTL,     \* chartCacheTTL, 10 minutes
  Grace,        \* ShutdownGrace, 10 seconds
  Drain,        \* managerGracefulShutdownTimeout, 30 seconds
  MaxRevision,  \* bound: revisions of the release
  MaxEdits,     \* bound: edits of the custom resource
  MaxPushes,    \* bound: charts pushed again
  MaxManual,    \* bound: helm commands by hand
  MaxStops,     \* bound: terminations of the pod
  MaxFaults     \* bound: failing pulls and writes, kills

ASSUME ValuesAssumption == NoValues \notin Values
ASSUME BodiesAssumption == ReadsValues \subseteq Bodies
ASSUME ClockAssumption ==
  /\ LatchTTL \in Nat /\ CacheTTL \in Nat /\ Grace \in Nat
  /\ Drain \in Nat /\ Grace < Drain
ASSUME BoundAssumption ==
  /\ MaxRevision \in Nat \ {0}
  /\ MaxEdits \in Nat /\ MaxPushes \in Nat /\ MaxManual \in Nat
  /\ MaxStops \in Nat /\ MaxFaults \in Nat

VARIABLES
  want,      \* the release the custom resource asks for
  registry,  \* the chart behind each tag
  history,   \* release storage: the revisions, oldest first
  latch,     \* converged: the memoized verdict
  cache,     \* charts: the downloaded archive of each tag
  gauge,     \* releaseUnconverged
  pc,        \* where EnsureRelease is
  run,       \* the spec of the running pass
  seen,      \* what the pass read: the deployed release, later its manifest
  stopping,  \* SIGTERM was received
  drained,   \* ticks since SIGTERM
  graced,    \* ticks the running write has had since it was cancelled
  edits, pushes, manual, stops, faults,
  published, \* every chart that was ever in the registry
  killed,    \* the process was killed during a write
  late       \* a write was started after SIGTERM

memoryVars == <<latch, cache, gauge>>
passVars == <<pc, run, seen>>
stopVars == <<stopping, drained, graced>>
boundVars == <<edits, pushes, manual, stops, faults>>
ghostVars == <<published, killed, late>>
vars == <<want, registry, history, memoryVars, passVars, stopVars,
          boundVars, ghostVars>>

-----------------------------------------------------------------------------
(* Values *)

Charts == [version : Tags, body : Bodies]
AnyValues == Values \cup {NoValues}
Specs == [tag : Tags, values : AnyValues, auth : BOOLEAN]
Manifests == Bodies \X AnyValues
NoManifest == <<>>
PendingStates == {"pending-install", "pending-upgrade"}
Statuses == {"deployed", "failed", "superseded"} \cup PendingStates
Revisions == [version : Tags, values : AnyValues, manifest : Manifests,
              status : Statuses]

NoLatch == [revision |-> 0]
NoEntry == [age |-> CacheTTL + 1]
\* Two fields the code does not have: `outdated' counts the ticks since the
\* registry replaced the chart, `compared' holds the releases whose manifest
\* and whose values the diff looked at.
MaxOutdated == LatchTTL + CacheTTL + 1
Entries == [chart : Charts, age : 0 .. CacheTTL, outdated : 0 .. MaxOutdated]
Latches == [revision : 1 .. MaxRevision, spec : Tags \X AnyValues,
            deployed : Tags \X AnyValues, age : 0 .. LatchTTL + 1,
            chart : Charts, outdated : 0 .. MaxOutdated,
            compared : SUBSET (Tags \X AnyValues)]
NoRun == [tag |-> "none"]
NoSeen == [revision |-> 0]

Min2(a, b) == IF a < b THEN a ELSE b

\* What the chart renders; Chart.yaml's version is not part of it.
Rendered(chart, values) ==
  <<chart.body, IF chart.body \in ReadsValues THEN values ELSE NoValues>>

IsPending(h) == h # <<>> /\ h[Len(h)].status \in PendingStates

\* Releases.Deployed: the newest deployed revision, 0 if there is none.
DeployedRevision(h) ==
  LET D == {i \in DOMAIN h : h[i].status = "deployed"}
  IN IF D = {} THEN 0 ELSE CHOOSE i \in D : \A j \in D : j <= i

Deployed == history[DeployedRevision(history)]

\* The release Helm upgrades from, and whose values it copies forward when no
\* values are given.
CurrentRevision(h) ==
  IF DeployedRevision(h) # 0 THEN DeployedRevision(h) ELSE Len(h)

Current == history[CurrentRevision(history)]

EffectiveValues(h, values) ==
  IF values = NoValues /\ h # <<>> THEN h[CurrentRevision(h)].values ELSE values

TypeOK ==
  /\ want \in Specs
  /\ registry \in [Tags -> Charts]
  /\ history \in Seq(Revisions) /\ Len(history) <= MaxRevision
  /\ latch \in Latches \cup {NoLatch}
  /\ cache \in [Tags -> Entries \cup {NoEntry}]
  /\ gauge \in {0, 1}
  /\ pc \in {"idle", "diff", "render", "install", "upgrade", "apply"}
  /\ IF pc = "idle" THEN run = NoRun ELSE run \in Specs
  /\ stopping \in BOOLEAN /\ drained \in 0 .. Drain /\ graced \in 0 .. Grace
  /\ edits \in 0 .. MaxEdits /\ pushes \in 0 .. MaxPushes
  /\ manual \in 0 .. MaxManual /\ stops \in 0 .. MaxStops
  /\ faults \in 0 .. MaxFaults
  /\ published \subseteq Charts
  /\ killed \in BOOLEAN /\ late \in BOOLEAN

Init ==
  /\ want \in Specs
  /\ registry \in [Tags -> Charts]
  /\ history = <<>>
  /\ latch = NoLatch /\ cache = [t \in Tags |-> NoEntry] /\ gauge = 0
  /\ pc = "idle" /\ run = NoRun /\ seen = NoSeen
  /\ stopping = FALSE /\ drained = 0 /\ graced = 0
  /\ edits = 0 /\ pushes = 0 /\ manual = 0 /\ stops = 0 /\ faults = 0
  /\ published = {registry[t] : t \in Tags}
  /\ killed = FALSE /\ late = FALSE

EndPass == pc' = "idle" /\ run' = NoRun /\ seen' = NoSeen

-----------------------------------------------------------------------------
(* Deciding: decideRelease, releaseNeedsUpgrade, convergenceHolds *)

VersionDrift(rel, s) == rel.version # s.tag

ReleaseNeedsUpgrade(rel, s) == VersionDrift(rel, s) \/ rel.values # s.values

\* Mutant: drift is measured against the last revision, not the deployed one.
DecideReleaseOnLast(h, s) ==
  IF h = <<>> THEN "install"
  ELSE IF IsPending(h) THEN "pending"
  ELSE IF DeployedRevision(h) = 0 THEN "retry"
  ELSE IF ~ReleaseNeedsUpgrade(h[Len(h)], s) THEN "skip"
  ELSE "upgrade"

\* "retry" is the upgrade of a release nothing of which ever deployed.
DecideRelease(h, s) ==
  IF h = <<>> THEN "install"
  ELSE IF IsPending(h) THEN "pending"
  ELSE IF DeployedRevision(h) = 0 THEN "retry"
  ELSE IF ~ReleaseNeedsUpgrade(h[DeployedRevision(h)], s) THEN "skip"
  ELSE "upgrade"

\* Credentials and TLS are left out of the fingerprint.
SpecFingerprint(s) == <<s.tag, s.values>>
DeployedFingerprint(rel) == <<rel.version, rel.values>>

\* Mutant: the verdict never expires.
ConvergenceHoldsForever(s) ==
  /\ latch # NoLatch
  /\ latch.revision = DeployedRevision(history)
  /\ latch.spec = SpecFingerprint(s)
  /\ latch.deployed = DeployedFingerprint(Deployed)

ConvergenceHolds(s) ==
  /\ latch # NoLatch
  /\ latch.revision = DeployedRevision(history)
  /\ latch.spec = SpecFingerprint(s)
  /\ latch.deployed = DeployedFingerprint(Deployed)
  /\ latch.age <= LatchTTL

\* EnsureRelease is called with the custom resource's current spec; a pass
\* whose context is already cancelled fails before it gets there.
Called == pc = "idle" /\ ~stopping

EnsureInstall ==
  /\ Called /\ DecideRelease(history, want) = "install"
  /\ pc' = "install" /\ run' = want /\ seen' = NoSeen
  /\ UNCHANGED <<want, registry, history, memoryVars, stopVars, boundVars,
                 ghostVars>>

\* ErrReleasePending
EnsurePending ==
  /\ Called /\ DecideRelease(history, want) = "pending"
  /\ UNCHANGED vars

EnsureSkip ==
  /\ Called /\ DecideRelease(history, want) = "skip"
  /\ gauge' = 0
  /\ UNCHANGED <<want, registry, history, latch, cache, passVars, stopVars,
                 boundVars, ghostVars>>

EnsureRetry ==
  /\ Called /\ DecideRelease(history, want) = "retry"
  /\ pc' = "upgrade" /\ run' = want /\ seen' = NoSeen
  /\ UNCHANGED <<want, registry, history, memoryVars, stopVars, boundVars,
                 ghostVars>>

EnsureLatched ==
  /\ Called /\ DecideRelease(history, want) = "upgrade"
  /\ ConvergenceHolds(want)
  /\ gauge' = 1
  /\ UNCHANGED <<want, registry, history, latch, cache, passVars, stopVars,
                 boundVars, ghostVars>>

EnsureDiff ==
  /\ Called /\ DecideRelease(history, want) = "upgrade"
  /\ ~ConvergenceHolds(want)
  /\ pc' = "diff" /\ run' = want
  /\ seen' = [revision |-> DeployedRevision(history),
              deployed |-> DeployedFingerprint(Deployed)]
  /\ UNCHANGED <<want, registry, history, memoryVars, stopVars, boundVars,
                 ghostVars>>

-----------------------------------------------------------------------------
(* Loading the chart: loadChart, cachedChart, cacheChart.  A spec with its *)
(* own credentials or TLS trust uses no cache.                             *)

Hit(s) == ~s.auth /\ cache[s.tag] # NoEntry

LoadChart(s) ==
  IF Hit(s) THEN cache[s.tag]
  ELSE [chart |-> registry[s.tag], age |-> 0, outdated |-> 0]

CacheChart(s) ==
  cache' = IF s.auth THEN cache ELSE [cache EXCEPT ![s.tag] = LoadChart(s)]

PullFails ==
  /\ pc \in {"render", "install", "upgrade"} /\ ~Hit(run)
  /\ faults < MaxFaults /\ faults' = faults + 1
  /\ EndPass
  /\ UNCHANGED <<want, registry, history, memoryVars, stopVars, edits,
                 pushes, manual, stops, ghostVars>>

-----------------------------------------------------------------------------
(* The manifest diff: renderUpgrade, latchConvergence, reportUnconverged *)

\* Empty when nothing is deployed any more, which forces an upgrade.
DeployedManifest ==
  IF DeployedRevision(history) = 0 THEN NoManifest ELSE Deployed.manifest

\* Storage is read again for the manifest.
ReadManifest ==
  /\ pc = "diff"
  /\ pc' = "render"
  /\ seen' = [revision |-> seen.revision, deployed |-> seen.deployed,
              manifest |-> DeployedManifest,
              compared |-> IF DeployedRevision(history) = 0 THEN seen.deployed
                           ELSE DeployedFingerprint(Deployed)]
  /\ UNCHANGED <<want, registry, history, memoryVars, run, stopVars,
                 boundVars, ghostVars>>

\* Helm refuses to render over a pending release or one that is gone.
Renders == history # <<>> /\ ~IsPending(history)

RenderManifest ==
  Rendered(LoadChart(run).chart, EffectiveValues(history, run.values))

RenderRefused ==
  /\ pc = "render" /\ ~Renders
  /\ CacheChart(run)
  /\ EndPass
  /\ UNCHANGED <<want, registry, history, latch, gauge, stopVars, boundVars,
                 ghostVars>>

RenderSame ==
  /\ pc = "render" /\ Renders
  /\ RenderManifest = seen.manifest
  /\ CacheChart(run)
  /\ latch' = [revision |-> seen.revision, spec |-> SpecFingerprint(run),
               deployed |-> seen.deployed, age |-> 0,
               chart |-> LoadChart(run).chart,
               outdated |-> LoadChart(run).outdated,
               compared |-> {seen.compared, DeployedFingerprint(Current)}]
  /\ gauge' = 1
  /\ EndPass
  /\ UNCHANGED <<want, registry, history, stopVars, boundVars, ghostVars>>

RenderDiffers ==
  /\ pc = "render" /\ Renders
  /\ RenderManifest # seen.manifest
  /\ CacheChart(run)
  /\ pc' = "upgrade" /\ seen' = NoSeen
  /\ UNCHANGED <<want, registry, history, latch, gauge, run, stopVars,
                 boundVars, ghostVars>>

-----------------------------------------------------------------------------
(* The write: install, upgrade, withShutdownGrace *)

\* The pending revision is stored before anything is applied.
StorePending(chart, status) ==
  /\ Len(history) < MaxRevision
  /\ history' = Append(history,
       [version |-> chart.version,
        values |-> EffectiveValues(history, run.values),
        manifest |-> Rendered(chart, EffectiveValues(history, run.values)),
        status |-> status])
  /\ pc' = "apply" /\ graced' = 0
  /\ late' = (late \/ stopping)
  /\ UNCHANGED <<run, seen>>

Install ==
  /\ pc = "install" /\ CacheChart(run)
  /\ history = <<>>
  /\ StorePending(LoadChart(run).chart, "pending-install")
  /\ UNCHANGED <<want, registry, latch, gauge, stopping, drained, boundVars,
                 published, killed>>

Upgrade ==
  /\ pc = "upgrade" /\ CacheChart(run)
  /\ Renders
  /\ StorePending(LoadChart(run).chart, "pending-upgrade")
  /\ UNCHANGED <<want, registry, latch, gauge, stopping, drained, boundVars,
                 published, killed>>

\* Somebody installed, uninstalled or changed the release meanwhile.
WriteRefused ==
  /\ \/ pc = "install" /\ history # <<>>
     \/ pc = "upgrade" /\ ~Renders
  /\ CacheChart(run)
  /\ EndPass
  /\ UNCHANGED <<want, registry, history, latch, gauge, stopVars, boundVars,
                 ghostVars>>

\* The revision being written becomes the deployed one.
Superseding(h) ==
  [i \in DOMAIN h |->
     IF i = Len(h) THEN [h[i] EXCEPT !.status = "deployed"]
     ELSE IF h[i].status = "deployed" THEN [h[i] EXCEPT !.status = "superseded"]
     ELSE h[i]]

ApplySucceeds ==
  /\ pc = "apply"
  /\ history' = Superseding(history)
  /\ EndPass
  /\ UNCHANGED <<want, registry, memoryVars, stopVars, boundVars, ghostVars>>

\* failRelease.  What of the manifest was applied stays: nothing is rolled back.
FailRelease ==
  /\ history' = [history EXCEPT ![Len(history)].status = "failed"]
  /\ EndPass

ApplyFails ==
  /\ pc = "apply"
  /\ faults < MaxFaults /\ faults' = faults + 1
  /\ FailRelease
  /\ UNCHANGED <<want, registry, memoryVars, stopVars, edits, pushes, manual,
                 stops, ghostVars>>

\* Mutant: the write is detached from the cancellation altogether.
GraceOverNever == FALSE

\* The clock of a write runs from SIGTERM or from its own start, whichever
\* comes later.
GraceOver == pc = "apply" /\ stopping /\ graced = Grace

\* The write's context is cancelled, and Helm records the revision as failed.
GraceExpires ==
  /\ GraceOver
  /\ FailRelease
  /\ UNCHANGED <<want, registry, memoryVars, stopVars, boundVars, ghostVars>>

-----------------------------------------------------------------------------
(* Deleting *)

\* The verdict is dropped up front; the uninstall may fail.
DeleteRelease ==
  /\ pc = "idle" /\ ~stopping
  /\ edits < MaxEdits /\ edits' = edits + 1
  /\ latch' = NoLatch /\ gauge' = 0
  /\ \/ /\ history' = <<>>
        /\ UNCHANGED faults
     \/ /\ faults < MaxFaults /\ faults' = faults + 1
        /\ UNCHANGED history
  /\ UNCHANGED <<want, registry, cache, passVars, stopVars, pushes, manual,
                 stops, ghostVars>>

-----------------------------------------------------------------------------
(* The end of the process *)

\* What the process only keeps in memory is gone.
ForgetAll ==
  /\ latch' = NoLatch /\ cache' = [t \in Tags |-> NoEntry] /\ gauge' = 0
  /\ EndPass
  /\ stopping' = FALSE /\ drained' = 0 /\ graced' = 0

Sigterm ==
  /\ ~stopping
  /\ stops < MaxStops /\ stops' = stops + 1
  /\ stopping' = TRUE /\ drained' = 0 /\ graced' = 0
  /\ UNCHANGED <<want, registry, history, memoryVars, passVars, edits,
                 pushes, manual, faults, ghostVars>>

\* The manager waits for the running pass, but no longer than the drain.
Exit ==
  /\ stopping /\ (pc = "idle" \/ drained = Drain)
  /\ ForgetAll
  /\ UNCHANGED <<want, registry, history, boundVars, ghostVars>>

\* SIGKILL, or the lease is lost, which has no drain.
Kill ==
  /\ faults < MaxFaults /\ faults' = faults + 1
  /\ ForgetAll
  /\ killed' = (killed \/ pc = "apply")
  /\ UNCHANGED <<want, registry, history, edits, pushes, manual, stops,
                 published, late>>

-----------------------------------------------------------------------------
(* The environment *)

EditSpec ==
  /\ edits < MaxEdits /\ edits' = edits + 1
  /\ \E s \in Specs \ {want} : want' = s
  /\ UNCHANGED <<registry, history, memoryVars, passVars, stopVars, pushes,
                 manual, stops, faults, ghostVars>>

\* A chart is pushed again under a tag already in use.
Push ==
  /\ pushes < MaxPushes /\ pushes' = pushes + 1
  /\ \E t \in Tags, c \in Charts :
       /\ c # registry[t]
       /\ registry' = [registry EXCEPT ![t] = c]
       /\ published' = published \cup {c}
  /\ UNCHANGED <<want, history, memoryVars, passVars, stopVars, edits,
                 manual, stops, faults, killed, late>>

\* helm uninstall, helm rollback and helm install by hand
Manual ==
  /\ pc # "apply"
  /\ manual < MaxManual /\ manual' = manual + 1
  /\ UNCHANGED <<want, registry, memoryVars, passVars, stopVars, edits, pushes,
                 stops, faults, ghostVars>>

ManualUninstall ==
  /\ Manual
  /\ history # <<>>
  /\ history' = <<>>

ManualRollback ==
  /\ Manual
  /\ Len(history) < MaxRevision
  /\ \E i \in DOMAIN history :
       /\ history[i].status \in {"deployed", "superseded"}
       /\ history' = Superseding(Append(history, history[i]))

ManualInstall ==
  /\ Manual
  /\ history = <<>>
  /\ \E c \in published, v \in AnyValues :
       /\ history' = <<[version |-> c.version, values |-> v,
                        manifest |-> Rendered(c, v), status |-> "deployed"]>>

Older(entry, t) ==
  IF registry[t] = entry.chart THEN 0 ELSE Min2(entry.outdated + 1, MaxOutdated)

\* An archive is reused for chartCacheTTL.
Aged(entry, t) ==
  IF entry = NoEntry \/ entry.age = CacheTTL THEN NoEntry
  ELSE [entry EXCEPT !.age = @ + 1, !.outdated = Older(entry, t)]

\* Time passes, but not past a timer that is due.
Tick ==
  /\ ~GraceOver
  /\ stopping => drained < Drain
  /\ cache' = [t \in Tags |-> Aged(cache[t], t)]
  /\ latch' = IF latch = NoLatch THEN NoLatch
              ELSE [latch EXCEPT !.age = Min2(@ + 1, LatchTTL + 1),
                                 !.outdated = Older(latch, latch.spec[1])]
  /\ drained' = IF stopping THEN drained + 1 ELSE 0
  /\ graced' = IF stopping /\ pc = "apply" THEN Min2(graced + 1, Grace) ELSE 0
  /\ UNCHANGED <<want, registry, history, gauge, passVars, stopping,
                 boundVars, ghostVars>>

-----------------------------------------------------------------------------
Ensure ==
  \/ EnsureInstall \/ EnsurePending \/ EnsureSkip \/ EnsureRetry
  \/ EnsureLatched \/ EnsureDiff
  \/ ReadManifest \/ RenderRefused \/ RenderSame \/ RenderDiffers
  \/ Install \/ Upgrade \/ WriteRefused \/ ApplySucceeds \/ GraceExpires

Next ==
  \/ Ensure \/ PullFails \/ ApplyFails \/ DeleteRelease
  \/ Sigterm \/ Exit \/ Kill
  \/ EditSpec \/ Push \/ ManualUninstall \/ ManualRollback \/ ManualInstall
  \/ Tick

Spec == Init /\ [][Next]_vars

\* The controller is called again and again (healthCheckInterval), a pass
\* takes its next step, a terminating process exits, time passes.
Fairness ==
  /\ WF_vars(Ensure) /\ WF_vars(Exit) /\ WF_vars(Tick)

FairSpec == Spec /\ Fairness

-----------------------------------------------------------------------------
(* Properties *)

\* A call of EnsureRelease would answer nil at once: by the fast path, or on the
\* memoized verdict.
Skips == Called /\ DecideRelease(history, want) = "skip"
Latched ==
  Called /\ DecideRelease(history, want) = "upgrade" /\ ConvergenceHolds(want)

\* The deployed revision is what chart renders for spec s.
Runs(h, s, chart) ==
  /\ DeployedRevision(h) # 0
  /\ h[DeployedRevision(h)].manifest =
       Rendered(chart, EffectiveValues(h, s.values))

\* No chart changed behind its tag, and every chart that says it is version v
\* is the chart of tag v.
HonestCharts ==
  pushes = 0 /\ \A c \in published : c.body = registry[c.version].body

\* decideRelease, the diff and the latch: with honest charts EnsureRelease
\* answers nil (by the fast path, on a verdict, after a diff or a write) only
\* when the deployed revision is what the requested chart renders, whatever
\* failed, was killed, or was done to the release by hand before (failed and
\* pending revisions, rollbacks, a release of the same name installed anew).
\* Excepted is a verdict recorded against another release than the diff looked
\* at: EnsureRelease reads storage for decideRelease, again for the deployed
\* manifest and again for the render, and the release may change in between.
NilMeansRendered ==
  HonestCharts =>
    /\ Skips => Runs(history, want, registry[want.tag])
    /\ Latched /\ latch.compared = {latch.deployed}
         => Runs(history, want, registry[want.tag])
    /\ pc = "apply" => Runs(Superseding(history), run, registry[run.tag])

\* convergenceTTL and chartCacheTTL together bound how long a verdict goes on
\* being trusted after the chart it was derived from was replaced.
LatchWindow == Latched => latch.outdated <= LatchTTL + CacheTTL

\* withShutdownGrace: a write that runs when SIGTERM arrives is settled before
\* the process exits; only a kill leaves a release pending.  (Not so for a
\* write that starts after SIGTERM, see PendingOnlyByKill.)
PendingOnlyByKillOrLate ==
  IsPending(history) /\ pc # "apply" => killed \/ late

\* Spec and storage agree, so that a pass takes the fast path.
Agrees ==
  DeployedRevision(history) # 0 /\ ~ReleaseNeedsUpgrade(Deployed, want)

UpToDate == Runs(history, want, registry[want.tag])

\* Every release comes to run the chart that is in the registry now, a chart
\* pushed again included, unless it is left pending or takes the fast path.
\* (Edits, pushes, manual commands and failures are finitely many.)
Converges ==
  <>[](UpToDate \/ Agrees \/ (IsPending(history) /\ (killed \/ late)))

-----------------------------------------------------------------------------
(* A claim of a comment the code does not keep *)

\* ShutdownGrace: "the manager's drain, which must still be waiting when this
\* expires"
PendingOnlyByKill == IsPending(history) /\ pc # "apply" => killed
=============================================================================
