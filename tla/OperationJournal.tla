-------------------------- MODULE OperationJournal --------------------------
(***************************************************************************)
(* Upgrade, rollback and retry of one Blueprint-sourced AIWorkload         *)
(* (internal/controller/aiworkload: operations.go, journal.go, certify.go, *)
(* and the Reconcile and reconcileBlueprintStatus passes that drive them;  *)
(* internal/api/aiworkload_actions.go for the requests).                   *)
(*                                                                         *)
(* The custom resource is the only durable state.  A request is an         *)
(* annotation; starting an operation is one Update of the resource that    *)
(* consumes the request and writes the journal annotation; finishing it is *)
(* three writes (journal terminal, status projection, journal removed)     *)
(* between which the operator may die.  Every write of the controller      *)
(* carries a resourceVersion: a write that lands after somebody else's     *)
(* fails and the pass is abandoned, which `stale' models.  A lagging       *)
(* informer cache is the same thing: a pass that acts on an older read.    *)
(*                                                                         *)
(* The workload has one component on one cluster: its HelmOp, the Bundle   *)
(* Fleet derives from it and the Bundle's deployment are one record each.  *)
(* Fleet is external and modelled from the fields this code reads.         *)
(***************************************************************************)
EXTENDS Naturals, Sequences, FiniteSets

CONSTANTS
  Versions,      \* blueprint versions
  NoVersion,     \* "" : no version
  Contents,      \* what a Blueprint resource can contain
  NoContent,     \* the Blueprint resource does not exist
  Targets,       \* the rest of the user's intent (spec.targetClusters ...)
  MaxHandled,    \* maxHandledOps, 8 in the code
  MaxRequests,   \* bound: requests the API accepts
  MaxEpoch,      \* bound: retry epochs
  MaxEdits,      \* bound: edits of the spec, of Blueprints, of repositories
  MaxFaults      \* bound: passes that fail or die, requests delivered twice

ASSUME VersionAssumption == NoVersion \notin Versions
ASSUME ContentAssumption == NoContent \notin Contents
ASSUME BoundAssumption ==
  /\ MaxHandled \in Nat \ {0}
  /\ MaxRequests \in Nat
  /\ MaxEpoch \in Nat
  /\ MaxEdits \in Nat
  /\ MaxFaults \in Nat

VARIABLES
  \* The AIWorkload resource: spec and annotations
  spec,         \* [version, targets]
  request,      \* pending request annotations, one per operation type
  handled,      \* handled-ops annotation, oldest first
  journal,      \* operation annotation, the authoritative journal
  superseded,   \* superseded-op annotation
  epoch,        \* retry-epoch annotation
  overdue,      \* the journal's RequestedAt lies before the deadline
  \* The AIWorkload resource: status
  deployed,     \* status.deployedSource: [version, digest]
  running,      \* status.phase = Running
  failedCell,   \* some status.componentStatuses cell is Failed
  active,       \* status.activeOperation
  \* Other cluster objects
  blueprint,    \* content of the Blueprint resource of each version
  repoReady,    \* the component's chart repository can be resolved
  helmOp,       \* the component's HelmOp: [digest, epoch]
  bundle,       \* the Bundle Fleet keeps for it, and its deployment
  \* The controller and the API server
  pc,           \* where the reconcile pass is
  read,         \* spec and epoch as the pass read them, until it rendered
  expect,       \* the digest the pass rendered, until the status is written
  stale,        \* the resource was written since the pass read it
  retryCall,    \* a retry HTTP call has passed its in-progress check
  \* Bookkeeping of the bounds, and of what the properties speak about
  requests, edits, faults,
  last,         \* the last request made of each type
  started,      \* operations started so far: the clock of RequestedAt
  starts,       \* operations started so far for each nonce
  sameVersion,  \* nonces of upgrade requests that named the current version
  freshCert,    \* the target was seen rolled out since the operation started
  atDeployed,   \* the operation's target was already deployedSource at its start
  freshFail     \* the Failed cell belongs to the current epoch's rollout

resourceVars == <<spec, request, handled, journal, superseded, epoch, overdue>>
statusVars == <<deployed, running, failedCell, active>>
fleetVars == <<helmOp, bundle>>
passVars == <<pc, read, expect, stale>>
boundVars == <<requests, edits, faults, last>>
ghostVars == <<started, starts, sameVersion, freshCert, atDeployed, freshFail>>
vars == <<resourceVars, statusVars, blueprint, repoReady, fleetVars, passVars,
          retryCall, boundVars, ghostVars>>

-----------------------------------------------------------------------------
(* Values *)

Nonces == 1 .. MaxRequests
NoNonce == 0
Types == {"Upgrade", "Rollback", "Retry"}
TerminalStates == {"Succeeded", "Failed", "Superseded"}

Specs == [version : Versions, targets : Targets]
Digests == Contents \X Targets
NoDigest == <<>>

\* intentDigest: a hash over the recovery-relevant spec fields, so the fields.
IntentDigest(s) == <<s.version, s.targets>>

\* perHelmOpRenderDigest over the blueprint's content and the targets.
RenderDigest(s) == <<blueprint[s.version], s.targets>>

NoOp == [type |-> "None", nonce |-> NoNonce, target |-> NoVersion,
         expected |-> NoDigest, epoch |-> 0, requestedAt |-> 0,
         intent |-> <<>>, state |-> "Absent"]

Ops == [type : Types, nonce : Nonces, target : Versions \cup {NoVersion},
        expected : Digests \cup {NoDigest}, epoch : 0 .. MaxEpoch,
        requestedAt : Nat, intent : Versions \X Targets,
        state : {"InProgress"} \cup TerminalStates]

NoDeployed == [version |-> NoVersion, digest |-> NoDigest]
NoHelmOp == [digest |-> NoDigest, epoch |-> 0]
NoBundle == [digest |-> NoDigest, epoch |-> 0, observed |-> FALSE,
             applied |-> FALSE, state |-> "None", sync |-> 0]
NoRead == [version |-> NoVersion]

NoRequest == [nonce |-> NoNonce, target |-> NoVersion]
Requests == [nonce : Nonces, target : Versions \cup {NoVersion}]

InProgress(op) == op.state = "InProgress"
Terminal(op) == op.state \in TerminalStates

\* upgradeAIWorkload answers 400 to an empty targetVersion.
UpgradeNamesVersion(req) ==
  req["Upgrade"].target = NoVersion => req["Upgrade"] = NoRequest

ResourceType ==
  /\ spec \in Specs
  /\ request \in [Types -> Requests \cup {NoRequest}]
  /\ UpgradeNamesVersion(request)
  /\ handled \in Seq(Types \X Nonces)
  /\ Len(handled) <= MaxHandled
  /\ journal \in Ops \cup {NoOp}
  /\ superseded \in Ops \cup {NoOp}
  /\ epoch \in 0 .. MaxEpoch
  /\ overdue \in BOOLEAN

StatusType ==
  /\ deployed \in [version : Versions, digest : Digests] \cup {NoDeployed}
  /\ running \in BOOLEAN
  /\ failedCell \in BOOLEAN
  /\ active \in Ops \cup {NoOp}

ClusterType ==
  /\ blueprint \in [Versions -> Contents \cup {NoContent}]
  /\ repoReady \in BOOLEAN
  /\ helmOp \in [digest : Digests, epoch : 0 .. MaxEpoch] \cup {NoHelmOp}
  /\ bundle \in [digest : Digests \cup {NoDigest}, epoch : 0 .. MaxEpoch,
                 observed : BOOLEAN, applied : BOOLEAN,
                 state : {"None", "Ready", "ErrApplied"}, sync : 0 .. MaxEpoch]

PassType ==
  /\ pc \in {"idle", "render", "status", "operation", "project", "clear"}
  /\ IF pc = "render"
     THEN read \in [version : Versions, targets : Targets,
                    epoch : 0 .. MaxEpoch]
     ELSE read = NoRead
  /\ IF pc = "status" THEN expect \in Digests ELSE expect = NoDigest
  /\ stale \in BOOLEAN
  /\ retryCall \in BOOLEAN

BookkeepingType ==
  /\ requests \in 0 .. MaxRequests
  /\ edits \in 0 .. MaxEdits
  /\ faults \in 0 .. MaxFaults
  /\ last \in [Types -> Requests \cup {NoRequest}]
  /\ UpgradeNamesVersion(last)
  /\ started \in Nat
  /\ starts \in [Nonces -> Nat]
  /\ sameVersion \in SUBSET Nonces
  /\ freshCert \in BOOLEAN
  /\ atDeployed \in BOOLEAN
  /\ freshFail \in BOOLEAN

TypeOK ==
  ResourceType /\ StatusType /\ ClusterType /\ PassType /\ BookkeepingType

\* A workload whose finalizer and bundle names are already recorded.
Init ==
  /\ spec \in Specs
  /\ request = [t \in Types |-> NoRequest]
  /\ handled = <<>>
  /\ journal = NoOp /\ superseded = NoOp /\ active = NoOp
  /\ epoch = 0 /\ overdue = FALSE
  /\ deployed = NoDeployed
  /\ running = FALSE /\ failedCell = FALSE
  /\ blueprint \in [Versions -> Contents \cup {NoContent}]
  /\ repoReady \in BOOLEAN
  /\ helmOp = NoHelmOp /\ bundle = NoBundle
  /\ pc = "idle" /\ read = NoRead /\ expect = NoDigest /\ stale = FALSE
  /\ retryCall = FALSE
  /\ requests = 0 /\ edits = 0 /\ faults = 0
  /\ last = [t \in Types |-> NoRequest]
  /\ started = 0 /\ starts = [n \in Nonces |-> 0]
  /\ sameVersion = {}
  /\ freshCert = FALSE /\ atDeployed = FALSE /\ freshFail = FALSE

\* The resource is written by somebody else than the running pass.
Interfere == stale' = (stale \/ pc # "idle")

\* The pass is over.
EndPass == pc' = "idle" /\ read' = NoRead /\ expect' = NoDigest /\ stale' = FALSE

-----------------------------------------------------------------------------
(* Requests: internal/api/aiworkload_actions.go.  Each is a merge patch of *)
(* one annotation without a resourceVersion; a pending request of the same *)
(* type is overwritten.                                                    *)

SetRequestAnnotation(t, target) ==
  /\ requests < MaxRequests
  /\ requests' = requests + 1
  /\ request' = [request EXCEPT ![t] = [nonce |-> requests + 1,
                                        target |-> target]]
  /\ last' = [last EXCEPT ![t] = request'[t]]
  /\ Interfere
  /\ UNCHANGED <<spec, handled, journal, superseded, epoch, overdue,
                 statusVars, blueprint, repoReady, fleetVars, pc, read,
                 expect, edits, faults, ghostVars>>

UpgradeAIWorkload(v) ==
  SetRequestAnnotation("Upgrade", v) /\ UNCHANGED retryCall

RollbackAIWorkload ==
  SetRequestAnnotation("Rollback", NoVersion) /\ UNCHANGED retryCall

OperationInProgress == InProgress(active) \/ InProgress(journal)

\* retryAIWorkload reads the workload, refuses with 409 while an operation is
\* in progress, and only then reads it again to set the annotation.
RetryAIWorkloadCheck ==
  /\ ~retryCall
  /\ requests < MaxRequests
  /\ ~OperationInProgress
  /\ retryCall' = TRUE
  /\ UNCHANGED <<resourceVars, statusVars, blueprint, repoReady, fleetVars,
                 passVars, boundVars, ghostVars>>

RetryAIWorkloadSet ==
  /\ retryCall
  /\ SetRequestAnnotation("Retry", NoVersion)
  /\ retryCall' = FALSE

\* A request annotation is delivered once more, with its old nonce: a manifest
\* that still carries it is applied again.  handled-ops exists for this.
ReplayRequest(t) ==
  /\ faults < MaxFaults /\ faults' = faults + 1
  /\ last[t] # NoRequest /\ request[t] # last[t]
  /\ request' = [request EXCEPT ![t] = last[t]]
  /\ Interfere
  /\ UNCHANGED <<spec, handled, journal, superseded, epoch, overdue,
                 statusVars, blueprint, repoReady, fleetVars, pc, read,
                 expect, retryCall, requests, edits, last, ghostVars>>

-----------------------------------------------------------------------------
(* Starting an operation: handleTriggers.  The Update carries the          *)
(* resourceVersion of the object the decision was taken on, so decision    *)
(* and write are one step; after a conflict nothing has happened.          *)

HandledID(t, nonce) == <<t, nonce>>

IsHandled(h, id) == \E i \in DOMAIN h : h[i] = id

\* Mutant: the list is cut one entry too short.
AddHandledShort(h, id) ==
  IF IsHandled(h, id) THEN h
  ELSE LET out == Append(h, id)
       IN IF Len(out) >= MaxHandled
          THEN SubSeq(out, Len(out) - MaxHandled + 2, Len(out)) ELSE out

AddHandled(h, id) ==
  IF IsHandled(h, id) THEN h
  ELSE LET out == Append(h, id)
       IN IF Len(out) > MaxHandled
          THEN SubSeq(out, Len(out) - MaxHandled + 1, Len(out)) ELSE out

\* The single Update: drop the request annotation `ann', record the identity,
\* write the journal if an operation starts.
FinishTrigger(ann, id, op) ==
  /\ request' = [request EXCEPT ![ann] = NoRequest]
  /\ handled' = AddHandled(handled, id)
  /\ journal' = IF op = NoOp THEN journal ELSE op
  /\ overdue' = (overdue /\ op = NoOp)
  /\ started' = IF op = NoOp THEN started ELSE started + 1
  /\ starts' = IF op = NoOp THEN starts
               ELSE [starts EXCEPT ![op.nonce] = @ + 1]
  /\ freshCert' = (freshCert /\ op = NoOp)
  /\ atDeployed' = IF op = NoOp THEN atDeployed
                   ELSE op.target = deployed.version
  /\ UNCHANGED <<statusVars, blueprint, repoReady, fleetVars, passVars,
                 retryCall, boundVars, freshFail>>

StartVersionOp(t, nonce, target, expected) ==
  /\ superseded' = IF journal = NoOp THEN superseded ELSE journal
  /\ spec' = [spec EXCEPT !.version = target]
  /\ FinishTrigger(t, HandledID(t, nonce),
       [type |-> t, nonce |-> nonce, target |-> target,
        expected |-> expected, epoch |-> 0, requestedAt |-> started + 1,
        intent |-> IntentDigest([spec EXCEPT !.version = target]),
        state |-> "InProgress"])
  /\ UNCHANGED <<epoch, sameVersion>>

StartRetry(nonce) ==
  /\ epoch < MaxEpoch
  /\ epoch' = epoch + 1
  /\ FinishTrigger("Retry", HandledID("Retry", nonce),
       [type |-> "Retry", nonce |-> nonce, target |-> NoVersion,
        expected |-> NoDigest, epoch |-> epoch + 1,
        requestedAt |-> started + 1, intent |-> IntentDigest(spec),
        state |-> "InProgress"])
  /\ UNCHANGED <<spec, superseded>>

Pending(t) == request[t] # NoRequest
Fresh(t) == ~IsHandled(handled, HandledID(t, request[t].nonce))

TriggerUpgrade ==
  /\ pc = "idle"
  /\ Pending("Upgrade") /\ Fresh("Upgrade")
  /\ LET r == request["Upgrade"]
     IN \/ /\ r.target # spec.version
           /\ StartVersionOp("Upgrade", r.nonce, r.target, NoDigest)
        \/ /\ r.target = spec.version
           /\ StartRetry(r.nonce)
           /\ sameVersion' = sameVersion \cup {r.nonce}

TriggerRollback ==
  /\ pc = "idle"
  /\ ~Pending("Upgrade")
  /\ Pending("Rollback") /\ Fresh("Rollback")
  /\ LET n == request["Rollback"].nonce
         target == deployed.version
     IN \/ /\ target \notin {NoVersion, spec.version}
           /\ StartVersionOp("Rollback", n, target, deployed.digest)
        \/ /\ target \in {NoVersion, spec.version}   \* RollbackSkipped
           /\ FinishTrigger("Rollback", HandledID("Rollback", n), NoOp)
           /\ UNCHANGED <<spec, superseded, epoch, sameVersion>>

TriggerRetry ==
  /\ pc = "idle"
  /\ ~Pending("Upgrade") /\ ~Pending("Rollback")
  /\ Pending("Retry") /\ Fresh("Retry")
  /\ StartRetry(request["Retry"].nonce)
  /\ UNCHANGED sameVersion

\* handleTriggers returns handled=false: the pass goes on to the status.  The
\* first request annotation present decides, even when it was handled before.
NoTrigger ==
  IF Pending("Upgrade") THEN ~Fresh("Upgrade")
  ELSE IF Pending("Rollback") THEN ~Fresh("Rollback")
  ELSE Pending("Retry") => ~Fresh("Retry")

-----------------------------------------------------------------------------
(* The status half of a pass: reconcileBlueprintStatus, projectOperation,  *)
(* Status().Update.                                                        *)

ReadWorkload ==
  /\ pc = "idle"
  /\ NoTrigger
  /\ read' = [version |-> spec.version, targets |-> spec.targets,
              epoch |-> epoch]
  /\ pc' = "render"
  /\ UNCHANGED <<resourceVars, statusVars, blueprint, repoReady, fleetVars,
                 expect, stale, retryCall, boundVars, ghostVars>>

\* Step 3: server-side apply of the HelmOp, from the resource the pass read.
\* The HelmOp is applied even when the pass's own writes will conflict.
Render ==
  /\ pc = "render"
  /\ blueprint[read.version] # NoContent /\ repoReady
  /\ expect' = RenderDigest(read)
  /\ helmOp' = [digest |-> RenderDigest(read), epoch |-> read.epoch]
  /\ pc' = "status" /\ read' = NoRead
  /\ UNCHANGED <<resourceVars, statusVars, blueprint, repoReady, bundle,
                 stale, retryCall, boundVars, ghostVars>>

\* Mutant: the observed generation is not compared.
BundleLabelCurrent(d) == bundle.digest = d

\* bundleRenderCurrent
BundleRenderCurrent(d) == bundle.digest = d /\ bundle.observed

\* bundleCertified for the one expected cluster
BundleCertified(d) ==
  BundleRenderCurrent(d) /\ bundle.applied /\ bundle.state = "Ready"

\* matrixCellPhase
MatrixCellPhase(d) ==
  IF ~BundleRenderCurrent(d) \/ ~bundle.applied THEN "Pending"
  ELSE IF bundle.state = "Ready" THEN "Running" ELSE "Failed"

ProjectOperation ==
  active' = IF journal # NoOp THEN journal
            ELSE IF Terminal(active) /\ active.intent # IntentDigest(spec)
                 THEN NoOp ELSE active

\* Fleet really has digest d of the current epoch, or d and nothing newer.
RolledOut(d) == /\ bundle.digest = d /\ bundle.observed
                /\ bundle.applied /\ bundle.state = "Ready"

\* Matrix, phase and certification are computed and persisted in one status
\* update, and the pass goes on to the operation.
PersistStatus ==
  /\ pc = "status" /\ ~stale
  /\ running' = (MatrixCellPhase(expect) = "Running")
  /\ failedCell' = (MatrixCellPhase(expect) = "Failed")
  /\ freshFail' = (failedCell' /\ bundle.epoch = epoch)
  /\ deployed' = IF BundleCertified(expect)
                 THEN [version |-> spec.version, digest |-> expect]
                 ELSE deployed
  /\ freshCert' = (freshCert \/ RolledOut(expect))
  /\ ProjectOperation
  /\ pc' = "operation" /\ expect' = NoDigest
  /\ UNCHANGED <<resourceVars, blueprint, repoReady, fleetVars, read, stale,
                 retryCall, boundVars, started, starts, sameVersion,
                 atDeployed>>

\* The pass fails for good: phase Failed, the matrix left as it was, no
\* requeue, so that it reaches the operation.
StatusTerminal ==
  /\ pc = "render" /\ ~stale
  /\ running' = FALSE
  /\ ProjectOperation
  /\ pc' = "operation" /\ read' = NoRead
  /\ UNCHANGED <<resourceVars, deployed, failedCell, blueprint, repoReady,
                 fleetVars, expect, stale, retryCall, requests, edits, last,
                 ghostVars>>

\* Step 1 finds no Blueprint.
BlueprintNotFound ==
  /\ StatusTerminal
  /\ blueprint[read.version] = NoContent
  /\ UNCHANGED faults

\* The component's chart does not fit into a Bundle.
ChartTooLarge ==
  /\ StatusTerminal
  /\ blueprint[read.version] # NoContent /\ repoReady
  /\ faults < MaxFaults /\ faults' = faults + 1

\* errClusterRepoNotReady, errCatalogClientNotConfigured, ErrUnauthorized: the
\* status is persisted and Reconcile returns the requeue without looking at
\* the operation.
StatusRequeues ==
  /\ pc = "render" /\ ~stale
  /\ blueprint[read.version] # NoContent /\ ~repoReady
  /\ running' = FALSE
  /\ ProjectOperation
  /\ EndPass
  /\ UNCHANGED <<resourceVars, deployed, failedCell, blueprint, repoReady,
                 fleetVars, retryCall, boundVars, ghostVars>>

\* Any other error of steps 3 and 4: the status is persisted as far as it was
\* computed, and Reconcile returns the error.
StatusFails ==
  /\ pc \in {"render", "status"} /\ ~stale
  /\ faults < MaxFaults /\ faults' = faults + 1
  /\ \/ running' \in {running, FALSE} /\ UNCHANGED <<failedCell, freshFail>>
     \/ /\ pc = "status"
        /\ running' = (MatrixCellPhase(expect) = "Running")
        /\ failedCell' = (MatrixCellPhase(expect) = "Failed")
        /\ freshFail' = (failedCell' /\ bundle.epoch = epoch)
  /\ ProjectOperation
  /\ EndPass
  /\ UNCHANGED <<resourceVars, deployed, blueprint, repoReady, fleetVars,
                 retryCall, requests, edits, last, started, starts,
                 sameVersion, freshCert, atDeployed>>

-----------------------------------------------------------------------------
(* The operation half: reconcileOperation *)

\* Mutant: the sync generation may be one behind.
CertifiedOneBehind(op) ==
  IF op.type = "Retry" THEN running /\ bundle.sync + 1 >= op.epoch
  ELSE deployed.version = op.target

Certified(op) ==
  IF op.type = "Retry" THEN running /\ bundle.sync >= op.epoch
  ELSE deployed.version = op.target

RollbackDrift(op) ==
  /\ op.type = "Rollback"
  /\ deployed.version = op.target
  /\ op.expected # NoDigest /\ deployed.digest # op.expected

\* Mutant: a terminal journal is evaluated again.
OperationOutcomeAgain(op) ==
  IF op.intent # IntentDigest(spec) THEN "Superseded"
  ELSE IF RollbackDrift(op) THEN "Failed"
  ELSE IF Certified(op) THEN "Succeeded"
  ELSE IF failedCell \/ overdue THEN "Failed"
  ELSE "InProgress"

\* Mutant: the intent is not compared.
OperationOutcomeAnyIntent(op) ==
  IF ~InProgress(op) THEN op.state
  ELSE IF RollbackDrift(op) THEN "Failed"
  ELSE IF Certified(op) THEN "Succeeded"
  ELSE IF failedCell \/ overdue THEN "Failed"
  ELSE "InProgress"

\* Mutant: no deadline.
OperationOutcomeNoDeadline(op) ==
  IF ~InProgress(op) THEN op.state
  ELSE IF op.intent # IntentDigest(spec) THEN "Superseded"
  ELSE IF RollbackDrift(op) THEN "Failed"
  ELSE IF Certified(op) THEN "Succeeded"
  ELSE IF failedCell THEN "Failed"
  ELSE "InProgress"

OperationOutcome(op) ==
  IF ~InProgress(op) THEN op.state
  ELSE IF op.intent # IntentDigest(spec) THEN "Superseded"
  ELSE IF RollbackDrift(op) THEN "Failed"
  ELSE IF Certified(op) THEN "Succeeded"
  ELSE IF failedCell \/ overdue THEN "Failed"
  ELSE "InProgress"

\* No journal, or still in progress: the pass ends (and is requeued).
OperationContinues ==
  /\ pc = "operation"
  /\ journal = NoOp \/ OperationOutcome(journal) = "InProgress"
  /\ EndPass
  /\ UNCHANGED <<resourceVars, statusVars, blueprint, repoReady, fleetVars,
                 retryCall, boundVars, ghostVars>>

\* Terminal, first write: the journal.
JournalTerminal ==
  /\ pc = "operation" /\ ~stale
  /\ journal # NoOp /\ OperationOutcome(journal) # "InProgress"
  /\ journal' = [journal EXCEPT !.state = OperationOutcome(journal)]
  /\ pc' = "project"
  /\ UNCHANGED <<spec, request, handled, superseded, epoch, overdue,
                 statusVars, blueprint, repoReady, fleetVars, read, expect,
                 stale, retryCall, boundVars, ghostVars>>

\* Mutant: the terminal state is not projected.
ProjectTerminalSkipped ==
  /\ pc = "project" /\ ~stale
  /\ pc' = "clear"
  /\ UNCHANGED <<resourceVars, statusVars, blueprint, repoReady, fleetVars,
                 read, expect, stale, retryCall, boundVars, ghostVars>>

\* Second write: the projection.
ProjectTerminal ==
  /\ pc = "project" /\ ~stale
  /\ active' = journal
  /\ pc' = "clear"
  /\ UNCHANGED <<resourceVars, deployed, running, failedCell, blueprint,
                 repoReady, fleetVars, read, expect, stale, retryCall,
                 boundVars, ghostVars>>

\* Mutant: the journal is removed before the projection.
ClearJournalFirst ==
  /\ pc = "project" /\ ~stale
  /\ journal' = NoOp
  /\ overdue' = FALSE
  /\ freshCert' = FALSE /\ atDeployed' = FALSE
  /\ EndPass
  /\ UNCHANGED <<spec, request, handled, superseded, epoch, statusVars,
                 blueprint, repoReady, fleetVars, retryCall, boundVars,
                 started, starts, sameVersion, freshFail>>

\* Third write: the journal is removed.
ClearJournal ==
  /\ pc = "clear" /\ ~stale
  /\ journal' = NoOp
  /\ overdue' = FALSE
  /\ freshCert' = FALSE /\ atDeployed' = FALSE
  /\ EndPass
  /\ UNCHANGED <<spec, request, handled, superseded, epoch, statusVars,
                 blueprint, repoReady, fleetVars, retryCall, boundVars,
                 started, starts, sameVersion, freshFail>>

\* A write conflicts, or the operator dies between two writes.
Abort ==
  /\ pc # "idle"
  /\ \/ stale /\ UNCHANGED faults
     \/ ~stale /\ faults < MaxFaults /\ faults' = faults + 1
  /\ EndPass
  /\ UNCHANGED <<resourceVars, statusVars, blueprint, repoReady, fleetVars,
                 retryCall, requests, edits, last, ghostVars>>

-----------------------------------------------------------------------------
(* The environment *)

\* A user changes the spec.
EditSpec ==
  /\ edits < MaxEdits /\ edits' = edits + 1
  /\ \E s \in Specs \ {spec} : spec' = s
  /\ Interfere
  /\ UNCHANGED <<request, handled, journal, superseded, epoch, overdue,
                 statusVars, blueprint, repoReady, fleetVars, pc, read,
                 expect, retryCall, requests, faults, last, ghostVars>>

\* A Blueprint resource is created, changed or deleted.
EditBlueprint ==
  /\ edits < MaxEdits /\ edits' = edits + 1
  /\ \E v \in Versions, c \in Contents \cup {NoContent} :
       /\ c # blueprint[v]
       /\ blueprint' = [blueprint EXCEPT ![v] = c]
  /\ UNCHANGED <<resourceVars, statusVars, repoReady, fleetVars, passVars,
                 retryCall, requests, faults, last, ghostVars>>

\* The chart repository, or the token it needs, comes or goes.
EditRepo ==
  /\ edits < MaxEdits /\ edits' = edits + 1
  /\ repoReady' = ~repoReady
  /\ UNCHANGED <<resourceVars, statusVars, blueprint, fleetVars, passVars,
                 retryCall, requests, faults, last, ghostVars>>

DeadlinePasses ==
  /\ InProgress(journal) /\ ~overdue
  /\ overdue' = TRUE
  /\ UNCHANGED <<spec, request, handled, journal, superseded, epoch,
                 statusVars, blueprint, repoReady, fleetVars, passVars,
                 retryCall, boundVars, ghostVars>>

\* Fleet copies the HelmOp into the Bundle: new labels, new generation.
FleetPropagate ==
  /\ helmOp # NoHelmOp
  /\ <<bundle.digest, bundle.epoch>> # <<helmOp.digest, helmOp.epoch>>
  /\ bundle' = [bundle EXCEPT !.digest = helmOp.digest,
                              !.epoch = helmOp.epoch, !.observed = FALSE]
  /\ UNCHANGED <<resourceVars, statusVars, blueprint, repoReady, helmOp,
                 passVars, retryCall, boundVars, ghostVars>>

\* Fleet observes the generation and hands out a new deploymentID.
FleetObserve ==
  /\ bundle # NoBundle /\ ~bundle.observed
  /\ bundle' = [bundle EXCEPT !.observed = TRUE, !.applied = FALSE]
  /\ UNCHANGED <<resourceVars, statusVars, blueprint, repoReady, helmOp,
                 passVars, retryCall, boundVars, ghostVars>>

\* The cluster's agent applies the deployment, with either result.
FleetApply ==
  /\ bundle.observed /\ ~bundle.applied
  /\ \E s \in {"Ready", "ErrApplied"} :
       bundle' = [bundle EXCEPT !.applied = TRUE, !.state = s,
                                !.sync = bundle.epoch]
  /\ UNCHANGED <<resourceVars, statusVars, blueprint, repoReady, helmOp,
                 passVars, retryCall, boundVars, ghostVars>>

-----------------------------------------------------------------------------
Request ==
  \/ \E v \in Versions : UpgradeAIWorkload(v)
  \/ RollbackAIWorkload
  \/ RetryAIWorkloadCheck
  \/ RetryAIWorkloadSet
  \/ \E t \in Types : ReplayRequest(t)

Trigger == TriggerUpgrade \/ TriggerRollback \/ TriggerRetry

Pass ==
  \/ ReadWorkload \/ Render \/ PersistStatus \/ BlueprintNotFound
  \/ StatusRequeues \/ OperationContinues \/ JournalTerminal
  \/ ProjectTerminal \/ ClearJournal

Fault == ChartTooLarge \/ StatusFails \/ Abort

Fleet == FleetPropagate \/ FleetObserve \/ FleetApply

Environment == EditSpec \/ EditBlueprint \/ EditRepo \/ DeadlinePasses

Next == Request \/ Trigger \/ Pass \/ Fault \/ Fleet \/ Environment

Spec == Init /\ [][Next]_vars

\* The work queue keeps calling Reconcile (requeues and error backoff) and
\* a pass that started takes its next step; time passes.
Fairness ==
  /\ WF_vars(Trigger \/ Pass \/ (stale /\ Abort))
  /\ WF_vars(DeadlinePasses)

FairSpec == Spec /\ Fairness

-----------------------------------------------------------------------------
(* Invariants *)

\* status.activeOperation is never left InProgress once the journal is gone:
\* reconcileOperation removes the journal only after the terminal projection
\* was persisted, and every pass in between repairs the projection from the
\* journal.  (operationInProgress would answer 409 to every retry for ever.)
ProjectionNotStuck == journal = NoOp => ~InProgress(active)

\* What makes it inductive: the last two of the three terminal writes find the
\* journal terminal, and the very last one finds it projected.
TerminalWrites ==
  /\ pc = "project" => Terminal(journal)
  /\ pc = "clear" => Terminal(journal) /\ active = journal

\* handled-ops has room for every identity there can be.  An upgrade to the
\* current version takes two places, one as a retry and one as the upgrade.
AllRemembered == requests + Cardinality(sameVersion) <= MaxHandled

\* handled-ops and the removal of the request annotation in one Update: however
\* often a request is delivered, and wherever passes die, it starts at most one
\* operation while its identity is among the last maxHandledOps.  (Not so for
\* an upgrade to the current version, see SameVersionStartsOnce.)
NonceStartsOnce ==
  AllRemembered => \A n \in Nonces \ sameVersion : starts[n] <= 1

-----------------------------------------------------------------------------
(* Action properties *)

\* An outcome, once written to the journal, is final (crashes and conflicts
\* between the three terminal writes repeat them with the same outcome, and no
\* request delivered again reopens the operation), and the journal is removed
\* only when that outcome is in the status.
OutcomeFinal ==
  [][/\ Terminal(journal) /\ journal'.nonce = journal.nonce
        /\ AllRemembered' /\ journal.nonce \notin sameVersion'
        => journal' = journal
     /\ journal # NoOp /\ journal' = NoOp
        => Terminal(journal) /\ active = journal]_vars

\* No operation succeeds for an intent the user has meanwhile edited away.
SuccessMatchesSpec ==
  [][InProgress(journal) /\ journal'.state = "Succeeded"
     => journal.intent = IntentDigest(spec)]_vars

\* A version change whose target was not the certified version when it started
\* succeeds only after the target itself was seen rolled out and healthy.
SuccessIsRolledOut ==
  [][/\ InProgress(journal) /\ journal'.state = "Succeeded"
     /\ journal.type # "Retry" /\ ~atDeployed
     => freshCert]_vars

\* A retry succeeds only on its own epoch: the clusters have synced the epoch
\* it started, and no later one was started meanwhile.
RetrySucceedsOnOwnEpoch ==
  [][InProgress(journal) /\ journal'.state = "Succeeded"
     /\ journal.type = "Retry"
     => journal.epoch = epoch /\ bundle.sync = epoch]_vars

-----------------------------------------------------------------------------
(* Refinement *)

\* What a reader who consults journal and status (operationInProgress) sees.
CurrentOperation == IF journal # NoOp THEN journal ELSE active

Lifecycle == INSTANCE OperationLifecycle
               WITH Operations <- Ops, None <- NoOp,
                    current <- CurrentOperation, started <- started

\* The journal protocol, its three terminal writes, crashes between them and
\* the repairs of later passes included, is one operation at a time with one
\* final outcome each.
RefinesLifecycle == Lifecycle!Spec

-----------------------------------------------------------------------------
(* Liveness *)

\* Every operation ends, by the deadline at the latest, and its journal is
\* removed, if the chart repository is available from some time on and no
\* upgrade to the current version is requested (that one restarts its retry in
\* every pass, see SameVersionStartsOnce, so that no pass reaches the rest).
OperationEnds ==
  <>[]repoReady /\ [](sameVersion = {}) => []<>(journal = NoOp)

-----------------------------------------------------------------------------
(* Claims of comments and tests the code does not keep *)

\* finishTrigger: "remove request, record handled, set (or clear) the journal"
SameVersionStartsOnce ==
  requests <= MaxHandled => \A n \in Nonces : starts[n] <= 1

\* operationOutcome: "deployedSource now equals the op's target"
SuccessAlwaysRolledOut ==
  [][/\ InProgress(journal) /\ journal'.state = "Succeeded"
     /\ journal.type # "Retry"
     => freshCert]_vars

\* matrixCellPhase: "prevents stale ErrApplied from failing a new render"
RetryFailsOnOwnRollout ==
  [][/\ InProgress(journal) /\ journal'.state = "Failed"
     /\ journal.type = "Retry" /\ ~overdue
     => freshFail]_vars
=============================================================================
