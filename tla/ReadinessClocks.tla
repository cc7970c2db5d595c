--------------------------- MODULE ReadinessClocks ---------------------------
(***************************************************************************)
(* The annotations with which the InstallAIExtension controller times its  *)
(* waits: for an in-flight Helm operation (release-pending-since), for the *)
(* deployment of the release (waiting-since) and for its Service           *)
(* (service-waiting-since).  They are set and cleared one Update at a      *)
(* time by passes that are refused, fail and die in between, and outlive   *)
(* the waits they measured; the revision that restarts two of them is      *)
(* recorded by another write, the status patch that ends the pass.         *)
(*                                                                         *)
(* An annotation is modelled by its age, counted up to just past its       *)
(* limit.  A pass sees the controller's own writes of the pass before      *)
(* (every requeue leaves seconds for them); an edit of the spec during the *)
(* pass makes its Updates conflict, and the status patch too once one of   *)
(* them was made.  The extension's name never changes.                     *)
(* What the passes install besides the release, and the deletion, are in   *)
(* module ExtensionInstall.                                                *)
(***************************************************************************)
EXTENDS Naturals, FiniteSets

CONSTANTS
  Charts,                 \* release names derived from chart URLs
  Plugin,                 \* the extension's name: the release of a Git source
  Versions,               \* what a spec asks of its release
  None,                   \* no annotation, no release
  ReadinessTimeout,
  PendingReleaseTimeout,
  MaxEdits,               \* bound: edits of the spec
  MaxFaults               \* bound: failures, crashes, foreign Helm operations

ASSUME NoneAssumption == None \notin Charts \cup {Plugin} \cup Versions \cup Nat
ASSUME PluginAssumption == Plugin \notin Charts
ASSUME TimeoutAssumption ==
  ReadinessTimeout \in Nat /\ PendingReleaseTimeout \in Nat
ASSUME BoundAssumption == MaxEdits \in Nat /\ MaxFaults \in Nat

VARIABLES
  spec,      \* the source and what is asked of it
  markers,   \* the annotations
  status,    \* the status on the server
  helm,      \* Helm's record of each release
  down,      \* what of the release does not work: deployment, service
  pc,        \* where the pass is
  read,      \* the spec the pass read
  fresh,     \* nobody else wrote the resource since
  wrote,     \* the pass did
  answer,    \* of EnsureRelease
  mine,      \* the status the pass accumulates
  outcome,   \* what the pass concluded
  since,     \* history: how long each wait has lasted
  timed,     \* history: the rollout the last pass saw
  refused,   \* history: the release had settled, but its clear was refused
  excused,   \* history: the release gave way, or its first status was lost
  edits, faults

passVars == <<pc, read, fresh, wrote, answer, mine, outcome>>
history == <<since, timed, refused, excused>>
bounds == <<edits, faults>>
vars == <<spec, markers, status, helm, down, passVars, history, bounds>>

-----------------------------------------------------------------------------
(* Values *)

Readiness == {"deployment", "service"}
Clocks == Readiness \cup {"pending"}
Limit(c) == IF c = "pending" THEN PendingReleaseTimeout ELSE ReadinessTimeout
Ages == [Clocks -> Nat \cup {None}]
NoAges == [c \in Clocks |-> None]

Sources == Charts \cup {Plugin}
Kind(source) == IF source = Plugin THEN "Git" ELSE "Helm"
Specs == [source : Sources, version : Versions]

Waits == {"Pending", "PendingTimedOut"}
Reasons == Waits \cup {"None", "TimedOut", "Failed", "Installed"}

\* ready is the reason of the Ready condition, kind is ActiveSourceKind.
Statuses == [ready : Reasons, release : Charts \cup {None}, revision : Nat,
             kind : {"None", "Helm", "Git"}]
NoStatus == [ready |-> "None", release |-> None, revision |-> 0, kind |-> "None"]

\* A release at revision 0 does not exist; installs counts how often it came
\* to, which Helm does not record.  The version is None unless the last
\* revision was deployed.
Releases == [revision : Nat, version : Versions \cup {None},
             pending : BOOLEAN, installs : Nat]

Rollout(r) ==
  [release |-> r, install |-> helm[r].installs, revision |-> helm[r].revision]
Rollouts == [release : Sources \cup {None}, install : Nat, revision : Nat]
NoRollout == [release |-> None, install |-> 0, revision |-> 0]

Steps == {"stale", "prepare", "ensure", "pending", "restart", "publish",
          "close", "persist"} \cup Readiness

TypeOK ==
  /\ spec \in Specs /\ markers \in Ages /\ status \in Statuses
  /\ helm \in [Sources -> Releases] /\ down \subseteq Readiness
  /\ pc \in Steps \cup {"idle"}
  /\ IF pc = "idle" THEN read = None ELSE read \in Specs
  /\ fresh \in BOOLEAN /\ wrote \in BOOLEAN
  /\ answer \in {"none", "nil", "pending", "failed"}
  /\ mine \in Statuses /\ outcome \in Reasons \cup {"Waiting"}
  /\ since \in Ages /\ timed \in Rollouts
  /\ refused \in BOOLEAN /\ excused \in BOOLEAN
  /\ edits \in 0 .. MaxEdits /\ faults \in 0 .. MaxFaults

Init ==
  /\ spec \in Specs /\ markers = NoAges /\ status = NoStatus
  /\ helm = [r \in Sources |-> [revision |-> 0, version |-> None,
                                pending |-> FALSE, installs |-> 0]]
  /\ down \in SUBSET Readiness
  /\ pc = "idle" /\ read = None /\ fresh = TRUE /\ wrote = FALSE
  /\ answer = "none" /\ mine = NoStatus /\ outcome = "None"
  /\ since = NoAges /\ timed = NoRollout /\ refused = FALSE
  /\ excused = FALSE
  /\ edits = 0 /\ faults = 0

\* A fault happens in this step if `happens'.
FaultIf(happens) ==
  /\ happens => faults < MaxFaults
  /\ faults' = IF happens THEN faults + 1 ELSE faults

\* From here on timeouts may be early, if `why'.
Excuse(why) ==
  excused' = (excused \/ why) /\ UNCHANGED <<since, timed, refused>>

EndPass ==
  /\ pc' = "idle" /\ read' = None /\ fresh' = TRUE /\ wrote' = FALSE
  /\ answer' = "none" /\ mine' = NoStatus /\ outcome' = "None"

Expired(c) == markers[c] # None /\ markers[c] > Limit(c)

Set(clocks, c, age) == [clocks EXCEPT ![c] = age]
Clear(clocks, cs) == [c \in Clocks |-> IF c \in cs THEN None ELSE clocks[c]]

\* updateAnnotations, called only when an annotation changes.
UpdateMade == wrote' = (wrote \/ markers' # markers)

\* The wait that clock c times goes on, or begins.
Lasting(c) == since' = IF since[c] = None THEN Set(since, c, 0) ELSE since

\* The pass concludes v, in its Ready condition too.
Conclude(v) ==
  pc' = "close" /\ outcome' = v /\ mine' = [mine EXCEPT !.ready = v]

\* The pass returns an error; its status is written all the same.
ReturnError == pc' = "persist" /\ UNCHANGED <<mine, outcome>>

\* Helm begins a new revision of release r; the first one installs it.
NewRevision(r, version, pending) ==
  helm' = [helm EXCEPT ![r] =
    [revision |-> @.revision + 1, version |-> version, pending |-> pending,
     installs |-> IF @.revision = 0 THEN @.installs + 1 ELSE @.installs]]

\* The releases rs are uninstalled.
Uninstall(rs) ==
  helm' = [r \in Sources |->
    IF r \in rs THEN [revision |-> 0, version |-> None, pending |-> FALSE,
                      installs |-> helm[r].installs]
    ELSE helm[r]]

-----------------------------------------------------------------------------
(* A pass *)

\* Mutant: a wait that timed out is looked at again only after an edit.
StartPassUnlessFailed ==
  /\ pc = "idle" /\ pc' = "stale" /\ status.ready # "TimedOut"
  /\ read' = spec /\ mine' = status
  /\ UNCHANGED <<spec, markers, status, helm, down, fresh, wrote, answer,
                 outcome, history, bounds>>

StartPass ==
  /\ pc = "idle" /\ pc' = "stale"
  /\ read' = spec /\ mine' = status
  /\ UNCHANGED <<spec, markers, status, helm, down, fresh, wrote, answer,
                 outcome, history, bounds>>

\* When the source kind changed, the old source's release is uninstalled; with
\* a recorded Helm release goes its revision.  An error ends the pass, unless
\* it is one about Helm that is passed over.
CleanupStaleResources ==
  /\ pc = "stale"
  /\ IF mine.kind \in {"None", Kind(read.source)}
     THEN pc' = "prepare" /\ UNCHANGED <<helm, mine, faults>>
     ELSE LET old == IF mine.kind = "Git" THEN {Plugin}
                     ELSE {mine.release} \ {None}
          IN \E gone \in SUBSET old, failed \in BOOLEAN :
               /\ FaultIf(failed \/ gone # old)
               /\ Uninstall(gone)
               /\ mine' = IF mine.kind = "Helm" /\ old # {}
                          THEN [mine EXCEPT !.release = None, !.revision = 0]
                          ELSE mine
               /\ pc' = IF failed THEN "persist" ELSE "prepare"
  /\ UNCHANGED <<spec, markers, status, down, read, fresh, wrote, answer,
                 outcome, history, edits>>

\* What comes before EnsureRelease: the CRDs, the release of another chart
\* (errors are ignored, the recorded revision stays), validation and
\* credentials, the ClusterRepo of a Git source.
Prepare ==
  /\ pc = "prepare"
  /\ LET old == IF Kind(read.source) = "Git" THEN {}
                ELSE {mine.release} \ {None, read.source}
     IN \E gone \in SUBSET old, failed \in BOOLEAN :
          /\ FaultIf(failed \/ gone # old)
          /\ Uninstall(gone)
          /\ IF failed THEN Conclude("Failed")
             ELSE pc' = "ensure" /\ UNCHANGED <<mine, outcome>>
  /\ UNCHANGED <<spec, markers, status, down, read, fresh, wrote, answer,
                 history, edits>>

\* A pending release is left alone, a release that is as asked stays; any other
\* gets a new revision, unless the operation fails before or after that.
EnsureRelease ==
  /\ pc = "ensure" /\ pc' = "pending"
  /\ LET release == helm[read.source]
     IN \/ /\ release.pending
           /\ answer' = "pending" /\ UNCHANGED <<helm, faults>>
        \/ /\ ~release.pending /\ release.version = read.version
           /\ answer' = "nil" /\ UNCHANGED <<helm, faults>>
        \/ /\ ~release.pending /\ release.version # read.version
           /\ NewRevision(read.source, read.version, FALSE)
           /\ answer' = "nil" /\ UNCHANGED faults
        \/ /\ FaultIf(TRUE)
           /\ answer' = "failed"
           /\ \/ UNCHANGED helm
              \/ ~release.pending /\ NewRevision(read.source, None, FALSE)
  /\ UNCHANGED <<spec, markers, status, down, read, fresh, wrote, mine,
                 outcome, history, edits>>

\* handlePendingRelease, on ErrReleasePending.
ReleasePending ==
  /\ pc = "pending" /\ answer = "pending"
  /\ Lasting("pending")
  /\ \/ /\ markers["pending"] = None /\ fresh
        /\ markers' = Set(markers, "pending", 0)
        /\ Conclude("Pending")
     \/ /\ markers["pending"] = None /\ ~fresh
        /\ ReturnError /\ UNCHANGED markers
     \/ /\ markers["pending"] # None /\ ~Expired("pending")
        /\ Conclude("Pending") /\ UNCHANGED markers
     \/ /\ Expired("pending")
        /\ Conclude("PendingTimedOut") /\ UNCHANGED markers
  /\ UpdateMade
  /\ UNCHANGED <<spec, status, helm, down, read, fresh, answer, timed,
                 refused, excused, bounds>>

\* HelmReleaseName is left unset for a Git source.
Named(st) ==
  IF Kind(read.source) = "Helm" THEN [st EXCEPT !.release = read.source] ELSE st

\* handlePendingRelease, on any other answer: the marker goes.  If that is
\* refused, the error is returned only when the release is fine; the copy of
\* the resource that clearReleasePending looks at later has lost the marker.
ReleaseSettled ==
  /\ pc = "pending" /\ answer \in {"nil", "failed"}
  /\ LET kept == markers["pending"] # None /\ ~fresh
     IN /\ markers' = IF kept THEN markers ELSE Clear(markers, {"pending"})
        /\ since' = IF kept THEN since ELSE Clear(since, {"pending"})
        /\ refused' = (kept /\ ~helm[read.source].pending)
        /\ \/ /\ answer = "nil" /\ ~kept
              /\ pc' = "restart" /\ mine' = Named(mine) /\ UNCHANGED outcome
           \/ answer = "nil" /\ kept /\ ReturnError
           \/ answer = "failed" /\ ~kept /\ Conclude("Failed")
           \/ /\ answer = "failed" /\ kept
              /\ pc' = "persist" /\ outcome' = "Failed"
              /\ mine' = [mine EXCEPT !.ready = "Failed"]
  /\ UpdateMade
  /\ UNCHANGED <<spec, status, helm, down, read, fresh, answer, timed,
                 excused, bounds>>

\* Mutant: the clocks are restarted whatever revision is recorded.
AnyRevision == TRUE

\* Mutant: a rollback only is another rollout.
RevisionMovedBack == mine.revision > helm[read.source].revision

\* Revision 0 is "no revision recorded", not another revision.
RevisionMoved == mine.revision \notin {0, helm[read.source].revision}

\* awaitReleaseRunning up to the deployment: LastRelease, restartReadinessClocks
\* and the record of the revision.
RestartReadinessClocks ==
  /\ pc = "restart"
  /\ LET revision == helm[read.source].revision
         stale == RevisionMoved /\ \E c \in Readiness : markers[c] # None
     IN IF revision = 0
        THEN pc' = "deployment" /\ UNCHANGED <<markers, mine, outcome, since, timed>>
        ELSE /\ timed' = Rollout(read.source)
             /\ since' = IF timed = timed' THEN since ELSE Clear(since, Readiness)
             /\ markers' = IF stale /\ fresh THEN Clear(markers, Readiness)
                           ELSE markers
             /\ IF stale /\ ~fresh THEN ReturnError
                ELSE /\ pc' = "deployment"
                     /\ mine' = [mine EXCEPT !.revision = revision]
                     /\ UNCHANGED outcome
  /\ UpdateMade
  /\ UNCHANGED <<spec, status, helm, down, read, fresh, answer, refused,
                 excused, bounds>>

\* The clock of wait c, which is over when c works, and awaitReadiness.
Await(c, next) ==
  /\ pc = c
  /\ \/ /\ c \notin down /\ (markers[c] = None \/ fresh)
        /\ markers' = Clear(markers, {c}) /\ since' = Clear(since, {c})
        /\ pc' = next /\ UNCHANGED <<mine, outcome>>
     \/ /\ c \notin down /\ markers[c] # None /\ ~fresh
        /\ ReturnError /\ UNCHANGED <<markers, since>>
     \/ /\ c \in down /\ markers[c] = None /\ fresh
        /\ markers' = Set(markers, c, 0) /\ Lasting(c)
        /\ pc' = "close" /\ outcome' = "Waiting" /\ UNCHANGED mine
     \/ /\ c \in down /\ markers[c] = None /\ ~fresh
        /\ Lasting(c)
        /\ ReturnError /\ UNCHANGED markers
     \/ /\ c \in down /\ markers[c] # None /\ ~Expired(c)
        /\ Lasting(c)
        /\ pc' = "close" /\ outcome' = "Waiting" /\ UNCHANGED <<markers, mine>>
     \/ /\ c \in down /\ Expired(c)
        /\ Lasting(c)
        /\ Conclude("TimedOut") /\ UNCHANGED markers
  /\ UpdateMade
  /\ UNCHANGED <<spec, status, helm, down, read, fresh, answer, timed,
                 refused, excused, bounds>>

AwaitDeployment ==
  Await("deployment",
        IF pc # "idle" /\ Kind(read.source) = "Helm" THEN "service" ELSE "publish")

AwaitService == Await("service", "publish")

\* The ClusterRepo and the UIPlugin of a Helm source, and Ready.
Publish ==
  /\ pc = "publish"
  /\ \/ /\ pc' = "close" /\ outcome' = "Installed"
        /\ mine' = [mine EXCEPT !.ready = "Installed", !.kind = Kind(read.source)]
        /\ UNCHANGED faults
     \/ /\ Kind(read.source) = "Helm"
        /\ FaultIf(TRUE) /\ Conclude("Failed")
  /\ UNCHANGED <<spec, markers, status, helm, down, read, fresh, wrote,
                 answer, history, edits>>

\* A call of the pass that decides nothing fails: the pass returns its error.
CallFails ==
  /\ pc \in {"ensure", "restart"}
  /\ FaultIf(TRUE) /\ ReturnError
  /\ UNCHANGED <<spec, markers, status, helm, down, read, fresh, wrote,
                 answer, history, edits>>

InReleasePendingWait == mine.ready \in Waits

\* A pass without an error clears the pending marker, unless its Ready
\* condition says that a release is pending; a refused Update is only logged.
CloseWait ==
  /\ pc = "close" /\ pc' = "persist"
  /\ markers' = IF ~InReleasePendingWait /\ fresh
                THEN Clear(markers, {"pending"}) ELSE markers
  /\ since' = IF outcome \notin Waits /\ (fresh \/ markers["pending"] = None)
              THEN Clear(since, {"pending"}) ELSE since
  /\ UpdateMade
  /\ UNCHANGED <<spec, status, helm, down, read, fresh, answer, mine, outcome,
                 timed, refused, excused, bounds>>

PersistStatus ==
  /\ pc = "persist" /\ (wrote => fresh)
  /\ status' = mine
  /\ EndPass
  /\ UNCHANGED <<spec, markers, helm, down, history, bounds>>

\* Losing the status of this pass loses the revision its clocks are about.
FirstStatus == status.revision = 0 /\ \E c \in Readiness : markers[c] # None

\* MergeFrom leaves the resource version out only while it is the one the pass
\* read: after an Update the patch names the new one, and an edit refuses it.
PersistRefused ==
  /\ pc = "persist" /\ wrote /\ ~fresh
  /\ Excuse(FirstStatus) /\ EndPass
  /\ UNCHANGED <<spec, markers, status, helm, down, bounds>>

\* The status patch fails, or the process dies or is told to stop, which may
\* leave a Helm operation pending.
Interrupted ==
  /\ pc # "idle"
  /\ Excuse(FirstStatus) /\ FaultIf(TRUE)
  /\ \/ UNCHANGED helm
     \/ /\ pc = "ensure" /\ ~helm[read.source].pending
        /\ NewRevision(read.source, None, TRUE)
  /\ EndPass
  /\ UNCHANGED <<spec, markers, status, down, edits>>

-----------------------------------------------------------------------------
(* The environment *)

\* An edit may leave source and version alone; it refuses Updates all the same.
EditSpec ==
  /\ edits < MaxEdits /\ edits' = edits + 1
  /\ spec' \in Specs
  /\ Excuse(spec'.source # spec.source)
  /\ fresh' = (pc = "idle")
  /\ UNCHANGED <<markers, status, helm, down, pc, read, wrote, answer, mine,
                 outcome, faults>>

\* Somebody else runs helm upgrade or rollback on the release.
OperateElsewhere ==
  /\ FaultIf(TRUE)
  /\ \E r \in Sources :
       /\ helm[r].revision # 0 /\ ~helm[r].pending
       /\ NewRevision(r, None, TRUE)
  /\ UNCHANGED <<spec, markers, status, down, passVars, history, edits>>

UninstallElsewhere ==
  /\ FaultIf(TRUE) /\ Excuse(TRUE)
  /\ \E r \in Sources : helm[r].revision # 0 /\ Uninstall({r})
  /\ UNCHANGED <<spec, markers, status, down, passVars, edits>>

\* A pending operation ends, or is ended by a rollback to another revision.
PendingEnds ==
  /\ \E r \in Sources, v \in Versions \cup {None} :
       /\ helm[r].pending
       /\ \/ helm' = [helm EXCEPT ![r].pending = FALSE, ![r].version = v]
          \/ NewRevision(r, v, FALSE)
  /\ UNCHANGED <<spec, markers, status, down, passVars, history, bounds>>

\* The deployment or the Service comes or goes.
ComeOrGo ==
  /\ \E c \in Readiness : down' = (down \ {c}) \cup ({c} \ down)
  /\ UNCHANGED <<spec, markers, status, helm, passVars, history, bounds>>

\* Ages beyond the limit are all alike.
Older(ages) ==
  [c \in Clocks |-> IF ages[c] # None /\ ages[c] <= Limit(c) THEN ages[c] + 1
                    ELSE ages[c]]

Tick ==
  /\ markers' = Older(markers) /\ since' = Older(since)
  /\ UNCHANGED <<spec, status, helm, down, passVars, timed, refused,
                 excused, bounds>>

-----------------------------------------------------------------------------
Pass ==
  \/ StartPass \/ CleanupStaleResources \/ Prepare \/ EnsureRelease
  \/ ReleasePending \/ ReleaseSettled \/ RestartReadinessClocks
  \/ AwaitDeployment \/ AwaitService \/ Publish \/ CloseWait \/ PersistStatus
  \/ PersistRefused

Next ==
  \/ Pass \/ CallFails \/ Interrupted
  \/ EditSpec \/ OperateElsewhere \/ UninstallElsewhere \/ PendingEnds
  \/ ComeOrGo \/ Tick

Spec == Init /\ [][Next]_vars

\* Every pass is requeued, and time goes on.
Fairness == WF_vars(Pass) /\ WF_vars(Tick)

FairSpec == Spec /\ Fairness

-----------------------------------------------------------------------------
(* Properties *)

\* The step in which a pass concludes that the wait of clock c took too long.
TimesOut(c) ==
  /\ pc = c
  /\ outcome' = IF c = "pending" THEN "PendingTimedOut" ELSE "TimedOut"

\* awaitReadiness, handlePendingRelease, restartReadinessClocks: whatever was
\* refused, failed or died on the way, a wait is timed out only when it took
\* too long: the rollout, or the Service, that runs now was not ready in any
\* pass that got that far, since longer than the limit ago; the release was
\* pending, since longer than that ago, in every pass that ended without an
\* error and could write.  As long as no release was made to give way, and the
\* first status with a revision was not lost.
Unearned(c) == TimesOut(c) /\ (since[c] = None \/ since[c] <= Limit(c))
TimeoutEarned == [][\A c \in Clocks : Unearned(c) => excused]_vars

\* restartReadinessClocks: a clock is never that of "the previous rollout",
\* which may be one of a release that was replaced.
TimeoutOfThisRollout == [][\A c \in Clocks : ~Unearned(c)]_vars

\* handlePendingRelease: if the marker could not be cleared, "this costs only a
\* delayed marker removal": a pending release found later is not timed by it.
RefusalOnlyDelays == [][TimesOut("pending") => ~refused]_vars

\* inReleasePendingWait: "the reason there is this pass's verdict rather than a
\* leftover from the last one".
ReasonIsThisPass ==
  pc = "close" /\ mine.ready \in Waits => outcome = mine.ready

\* persistStatus: the patch "cannot 409", because it names no resource version:
\* the status of a pass is written unless the pass is interrupted.
EditsLoseNoStatus ==
  [][pc = "persist" /\ pc' = "idle" /\ faults' = faults => status' = mine]_vars

\* "none of them can requeue indefinitely": a pass concludes more than that
\* it has to wait, again and again, however deployment and Service come and go.
WaitsEnd == []<>(pc = "close" /\ outcome \notin {"Waiting", "Pending"})

\* An extension whose release is not stuck, and works from some time on, comes
\* to be reported installed for good, whatever clocks had run out before.
Installs ==
  <>[](down = {}) /\ []<>(~helm[spec.source].pending)
    => <>[](status.ready = "Installed")
=============================================================================
