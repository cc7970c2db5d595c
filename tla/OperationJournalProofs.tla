----------------------- MODULE OperationJournalProofs -----------------------
(***************************************************************************)
(* Proofs about OperationJournal, for every set of versions, contents and  *)
(* targets and every bound: type correctness, that the projection is never *)
(* stuck in progress, that a request starts one operation, and that the    *)
(* journal protocol implements OperationLifecycle.                         *)
(***************************************************************************)
EXTENDS OperationJournal, SequenceTheorems, FiniteSetTheorems, TLAPS

-----------------------------------------------------------------------------
(* Lemmas about the operators *)

\* handled-ops stays a list of identities no longer than maxHandledOps.
LEMMA AddHandledType ==
  ASSUME NEW h \in Seq(Types \X Nonces), Len(h) <= MaxHandled,
         NEW id \in Types \X Nonces
  PROVE  /\ AddHandled(h, id) \in Seq(Types \X Nonces)
         /\ Len(AddHandled(h, id)) <= MaxHandled
<1>1. CASE IsHandled(h, id)
  BY <1>1 DEF AddHandled
<1>2. CASE ~IsHandled(h, id)
  <2> DEFINE out == Append(h, id)
  <2>1. /\ out \in Seq(Types \X Nonces) /\ Len(out) = Len(h) + 1
        /\ Len(h) \in Nat
    BY AppendProperties, LenProperties
  <2>2. CASE Len(out) > MaxHandled
    <3>1. Len(out) = MaxHandled + 1
      BY <2>1, <2>2, BoundAssumption
    <3>2. /\ SubSeq(out, Len(out) - MaxHandled + 1, Len(out))
               \in Seq(Types \X Nonces)
          /\ Len(SubSeq(out, Len(out) - MaxHandled + 1, Len(out)))
               = MaxHandled
      BY <2>1, <3>1, BoundAssumption, SubSeqProperties
    <3> QED BY <1>2, <2>2, <3>2, BoundAssumption DEF AddHandled
  <2>3. CASE ~(Len(out) > MaxHandled)
    BY <1>2, <2>1, <2>3, BoundAssumption DEF AddHandled
  <2> QED BY <2>2, <2>3
<1> QED BY <1>1, <1>2

-----------------------------------------------------------------------------
(* Type correctness *)

\* The initial workload has the types of the resource and of the objects.
LEMMA TypeInit == Init => TypeOK
<1> SUFFICES ASSUME Init PROVE TypeOK
  OBVIOUS
<1> USE BoundAssumption DEF Init
<1>1. handled \in Seq(Types \X Nonces) /\ Len(handled) <= MaxHandled
  BY EmptySeq
<1>2. /\ request \in [Types -> Requests \cup {NoRequest}]
      /\ last \in [Types -> Requests \cup {NoRequest}]
      /\ starts \in [Nonces -> Nat] /\ started \in Nat
  OBVIOUS
<1>3. bundle \in [digest : Digests \cup {NoDigest}, epoch : 0 .. MaxEpoch,
                  observed : BOOLEAN, applied : BOOLEAN,
                  state : {"None", "Ready", "ErrApplied"}, sync : 0 .. MaxEpoch]
  BY DEF NoBundle
<1>4. /\ epoch \in 0 .. MaxEpoch /\ requests \in 0 .. MaxRequests
      /\ edits \in 0 .. MaxEdits /\ faults \in 0 .. MaxFaults
  OBVIOUS
<1>5. UpgradeNamesVersion(request) /\ UpgradeNamesVersion(last)
  BY DEF UpgradeNamesVersion, Types
<1> QED BY <1>1, <1>2, <1>3, <1>4, <1>5
        DEF TypeOK, ResourceType, StatusType, ClusterType, PassType,
            BookkeepingType

\* Setting a request annotation, by whichever call.
LEMMA TypeRequest == TypeOK /\ Request => TypeOK'
<1> SUFFICES ASSUME TypeOK, Request PROVE TypeOK'
  OBVIOUS
<1> USE BoundAssumption DEF TypeOK, ResourceType, StatusType, ClusterType, PassType,
      BookkeepingType, Types, Requests, Nonces, Interfere, resourceVars, statusVars, fleetVars, passVars, boundVars, ghostVars
<1>1. ASSUME NEW t \in Types, NEW v \in Versions \cup {NoVersion},
             t = "Upgrade" => v \in Versions,
             SetRequestAnnotation(t, v), retryCall' \in BOOLEAN
      PROVE  TypeOK'
  <2> DEFINE r == [nonce |-> requests + 1, target |-> v]
  <2>1. /\ request' = [request EXCEPT ![t] = r]
        /\ last' = [last EXCEPT ![t] = r]
        /\ r \in Requests /\ requests' \in 0 .. MaxRequests
    <3>1. request' = [request EXCEPT ![t] = r] /\ request'[t] = r
      BY <1>1 DEF SetRequestAnnotation
    <3>2. last' = [last EXCEPT ![t] = r]
      BY <1>1, <3>1 DEF SetRequestAnnotation
    <3>3. requests' \in 0 .. MaxRequests /\ requests + 1 \in Nonces
      BY <1>1 DEF SetRequestAnnotation
    <3>4. r \in Requests
      BY <3>3
    <3> QED BY <3>1, <3>2, <3>3, <3>4
  <2>2. /\ request' \in [Types -> Requests \cup {NoRequest}]
        /\ last' \in [Types -> Requests \cup {NoRequest}]
    BY <2>1
  <2>3. UpgradeNamesVersion(request)' /\ UpgradeNamesVersion(last)'
    BY <1>1, <2>1, VersionAssumption DEF UpgradeNamesVersion
  <2> HIDE DEF Types, Requests, Nonces
  <2> QED BY <1>1, <2>1, <2>2, <2>3 DEF SetRequestAnnotation
<1>2. ASSUME NEW v \in Versions, UpgradeAIWorkload(v) PROVE TypeOK'
  BY <1>1, <1>2 DEF UpgradeAIWorkload
<1>3. CASE RollbackAIWorkload
  BY <1>1, <1>3 DEF RollbackAIWorkload
<1>4. CASE RetryAIWorkloadCheck
  BY <1>4 DEF RetryAIWorkloadCheck, UpgradeNamesVersion
<1>5. CASE RetryAIWorkloadSet
  BY <1>1, <1>5 DEF RetryAIWorkloadSet
<1>6. ASSUME NEW t \in Types, ReplayRequest(t) PROVE TypeOK'
  <2>1. /\ request' = [request EXCEPT ![t] = last[t]]
        /\ last' = last
    BY <1>6 DEF ReplayRequest
  <2>2. UpgradeNamesVersion(request)'
    <3>1. request'["Upgrade"] \in {request["Upgrade"], last["Upgrade"]}
      BY <2>1
    <3> QED BY <3>1 DEF UpgradeNamesVersion
  <2>3. request' \in [Types -> Requests \cup {NoRequest}]
    BY <2>1
  <2> HIDE DEF Types, Requests, Nonces
  <2> QED BY <1>6, <2>1, <2>2, <2>3 DEF ReplayRequest, UpgradeNamesVersion
<1> QED BY <1>2, <1>3, <1>4, <1>5, <1>6 DEF Request

\* The single Update that starts an operation, or skips a rollback.
LEMMA TypeTrigger == TypeOK /\ Trigger => TypeOK'
<1> SUFFICES ASSUME TypeOK, Trigger PROVE TypeOK'
  OBVIOUS
<1> USE BoundAssumption DEF ResourceType, StatusType, BookkeepingType,
      resourceVars, statusVars, fleetVars, passVars, boundVars, ghostVars
<1>1. ASSUME NEW t \in Types, NEW n \in Nonces, NEW ann \in Types,
             NEW op \in Ops \cup {NoOp}, FinishTrigger(ann, HandledID(t, n), op),
             spec' \in Specs, superseded' \in Ops \cup {NoOp},
             epoch' \in 0 .. MaxEpoch, sameVersion' \in SUBSET Nonces
      PROVE  TypeOK'
  <2>1. HandledID(t, n) \in Types \X Nonces
    BY DEF HandledID
  <2>2. /\ handled' \in Seq(Types \X Nonces)
        /\ Len(handled') <= MaxHandled
    BY <1>1, <2>1, AddHandledType DEF FinishTrigger, TypeOK
  <2>3. starts' \in [Nonces -> Nat] /\ started' \in Nat
    <3>1. CASE op = NoOp
      BY <1>1, <3>1 DEF FinishTrigger, TypeOK
    <3>2. CASE op # NoOp
      <4>1. op.nonce \in Nonces
        BY <3>2 DEF Ops
      <4> QED BY <1>1, <3>2, <4>1 DEF FinishTrigger, TypeOK
    <3> QED BY <3>1, <3>2
  <2>4. request' \in [Types -> Requests \cup {NoRequest}]
    BY <1>1 DEF FinishTrigger, TypeOK
  <2>5. journal' \in Ops \cup {NoOp}
    BY <1>1 DEF FinishTrigger, TypeOK
  <2>6. /\ overdue' \in BOOLEAN /\ freshCert' \in BOOLEAN
        /\ atDeployed' \in BOOLEAN
    BY <1>1 DEF FinishTrigger, TypeOK
  <2>7. UpgradeNamesVersion(request)'
    BY <1>1 DEF FinishTrigger, TypeOK, UpgradeNamesVersion, NoRequest, Types
  <2> QED BY <1>1, <2>2, <2>3, <2>4, <2>5, <2>6, <2>7
          DEF FinishTrigger, TypeOK, UpgradeNamesVersion, ClusterType, PassType
<1>2. \A t \in Types : Pending(t) => request[t] \in Requests
  BY DEF Pending, TypeOK
<1>3. ASSUME NEW t \in {"Upgrade", "Rollback"}, NEW n \in Nonces,
             NEW v \in Versions, NEW d \in Digests \cup {NoDigest},
             StartVersionOp(t, n, v, d)
      PROVE  TypeOK'
  <2> DEFINE op == [type |-> t, nonce |-> n, target |-> v,
               expected |-> d, epoch |-> 0, requestedAt |-> started + 1,
               intent |-> IntentDigest([spec EXCEPT !.version = v]),
               state |-> "InProgress"]
  <2>1. [spec EXCEPT !.version = v] \in Specs
    BY DEF TypeOK, Specs
  <2>2. op \in Ops
    <3>1. /\ IntentDigest([spec EXCEPT !.version = v]) \in Versions \X Targets
          /\ started + 1 \in Nat
      BY <2>1 DEF IntentDigest, Specs, TypeOK
    <3> QED BY <3>1 DEF Ops, Types
  <2>3. spec' \in Specs /\ superseded' \in Ops \cup {NoOp}
    BY <1>3, <2>1 DEF StartVersionOp, TypeOK
  <2>4. epoch' \in 0 .. MaxEpoch /\ sameVersion' \in SUBSET Nonces
    BY <1>3 DEF StartVersionOp, TypeOK
  <2>5. FinishTrigger(t, HandledID(t, n), op) /\ t \in Types
    BY <1>3 DEF StartVersionOp, Types
  <2> QED BY <1>1, <2>2, <2>3, <2>4, <2>5
<1>4. ASSUME NEW n \in Nonces, StartRetry(n), sameVersion' \in SUBSET Nonces
      PROVE  TypeOK'
  <2> DEFINE op == [type |-> "Retry", nonce |-> n, target |-> NoVersion,
               expected |-> NoDigest, epoch |-> epoch + 1,
               requestedAt |-> started + 1, intent |-> IntentDigest(spec),
               state |-> "InProgress"]
  <2>1. epoch + 1 \in 0 .. MaxEpoch
    BY <1>4 DEF StartRetry, TypeOK
  <2>2. op \in Ops
    BY <2>1 DEF Ops, Types, IntentDigest, Specs, TypeOK
  <2>3. /\ spec' \in Specs /\ superseded' \in Ops \cup {NoOp}
        /\ epoch' \in 0 .. MaxEpoch
    BY <1>4, <2>1 DEF StartRetry, TypeOK
  <2>4. FinishTrigger("Retry", HandledID("Retry", n), op) /\ "Retry" \in Types
    BY <1>4 DEF StartRetry, Types
  <2> QED BY <1>1, <1>4, <2>2, <2>3, <2>4
<1>5. CASE TriggerUpgrade
  <2> DEFINE r == request["Upgrade"]
  <2>1. r \in Requests /\ r.target \in Versions
    BY <1>2, <1>5
    DEF TriggerUpgrade, Types, TypeOK, UpgradeNamesVersion, Pending, Requests
  <2>2. CASE r.target # spec.version /\ StartVersionOp("Upgrade", r.nonce, r.target, NoDigest)
    BY <1>3, <2>1, <2>2 DEF Requests
  <2>3. CASE StartRetry(r.nonce) /\ sameVersion' = sameVersion \cup {r.nonce}
    BY <1>4, <2>1, <2>3 DEF Requests, TypeOK
  <2> QED BY <1>5, <2>2, <2>3 DEF TriggerUpgrade
<1>6. CASE TriggerRollback
  <2> DEFINE n == request["Rollback"].nonce
  <2>1. n \in Nonces
    BY <1>2, <1>6 DEF TriggerRollback, Types, Requests
  <2>2. CASE /\ deployed.version # NoVersion
             /\ StartVersionOp("Rollback", n, deployed.version, deployed.digest)
    <3>1. deployed.version \in Versions /\ deployed.digest \in Digests
      BY <2>2 DEF TypeOK, NoDeployed
    <3> QED BY <1>3, <2>1, <2>2, <3>1
  <2>3. CASE /\ FinishTrigger("Rollback", HandledID("Rollback", n), NoOp)
             /\ UNCHANGED <<spec, superseded, epoch, sameVersion>>
    BY <1>1, <2>1, <2>3 DEF TypeOK, Types
  <2> QED BY <1>6, <2>2, <2>3 DEF TriggerRollback
<1>7. CASE TriggerRetry
  <2>1. request["Retry"].nonce \in Nonces
    BY <1>2, <1>7 DEF TriggerRetry, Types, Requests
  <2> QED BY <1>4, <1>7, <2>1 DEF TriggerRetry, TypeOK
<1> QED BY <1>5, <1>6, <1>7 DEF Trigger

\* A part of the state that a step leaves alone keeps its type.
LEMMA Unchanged ==
  /\ ResourceType /\ UNCHANGED resourceVars => ResourceType'
  /\ StatusType /\ UNCHANGED statusVars => StatusType'
  /\ ClusterType /\ UNCHANGED <<blueprint, repoReady, fleetVars>> => ClusterType'
  /\ PassType /\ UNCHANGED <<passVars, retryCall>> => PassType'
  /\ BookkeepingType /\ UNCHANGED <<boundVars, ghostVars>> => BookkeepingType'
<1>1. ResourceType /\ UNCHANGED resourceVars => ResourceType'
  BY DEF ResourceType, resourceVars, UpgradeNamesVersion
<1>2. StatusType /\ UNCHANGED statusVars => StatusType'
  BY DEF StatusType, statusVars
<1>3. ClusterType /\ UNCHANGED <<blueprint, repoReady, fleetVars>> => ClusterType'
  BY DEF ClusterType, fleetVars
<1>4. PassType /\ UNCHANGED <<passVars, retryCall>> => PassType'
  BY DEF PassType, passVars
<1>5. BookkeepingType /\ UNCHANGED <<boundVars, ghostVars>> => BookkeepingType'
  BY DEF BookkeepingType, boundVars, ghostVars, UpgradeNamesVersion
<1> QED BY <1>1, <1>2, <1>3, <1>4, <1>5

\* The projection keeps its type, and a pass that ended is idle.
LEMMA PassParts ==
  /\ TypeOK /\ ProjectOperation => active' \in Ops \cup {NoOp}
  /\ EndPass /\ retryCall' = retryCall /\ PassType => PassType'
<1>1. TypeOK /\ ProjectOperation => active' \in Ops \cup {NoOp}
  BY DEF TypeOK, ResourceType, StatusType, ProjectOperation
<1>2. EndPass /\ retryCall' = retryCall /\ PassType => PassType'
  BY DEF EndPass, PassType
<1> QED BY <1>1, <1>2

\* A pass that fails for good, with or without a fault to count.
LEMMA TypeStatusTerminal ==
  ASSUME TypeOK, StatusTerminal, faults' \in 0 .. MaxFaults
  PROVE  TypeOK'
<1> USE DEF TypeOK
<1>1. StatusType'
  BY PassParts DEF StatusTerminal, StatusType
<1>2. PassType'
  BY DEF StatusTerminal, PassType
<1>3. BookkeepingType'
  BY DEF StatusTerminal, BookkeepingType, ghostVars, UpgradeNamesVersion
<1> QED BY <1>1, <1>2, <1>3, Unchanged DEF StatusTerminal

\* The steps of a reconcile pass.
LEMMA TypePass == TypeOK /\ Pass => TypeOK'
<1> SUFFICES ASSUME TypeOK, Pass PROVE TypeOK'
  OBVIOUS
<1> USE DEF TypeOK
<1>1. CASE ReadWorkload
  <2>1. PassType'
    BY <1>1 DEF ReadWorkload, PassType, ResourceType, Specs
  <2> QED BY <1>1, <2>1, Unchanged DEF ReadWorkload
<1>2. CASE Render
  <2>1. RenderDigest(read) \in Digests /\ read.epoch \in 0 .. MaxEpoch
    BY <1>2 DEF Render, RenderDigest, Digests, PassType, ClusterType
  <2>2. PassType'
    BY <1>2, <2>1 DEF Render, PassType
  <2>3. ClusterType'
    BY <1>2, <2>1 DEF Render, ClusterType
  <2> QED BY <1>2, <2>2, <2>3, Unchanged DEF Render
<1>3. CASE PersistStatus
  <2>1. active' \in Ops \cup {NoOp}
    BY <1>3, PassParts DEF PersistStatus
  <2>2. deployed' \in [version : Versions, digest : Digests] \cup {NoDeployed}
    BY <1>3 DEF PersistStatus, StatusType, PassType, ResourceType, Specs
  <2>3. StatusType'
    BY <1>3, <2>1, <2>2 DEF PersistStatus, StatusType
  <2>4. PassType'
    BY <1>3 DEF PersistStatus, PassType
  <2>5. BookkeepingType'
    BY <1>3 DEF PersistStatus, BookkeepingType, boundVars, UpgradeNamesVersion,
                RolledOut, ClusterType
  <2> QED BY <1>3, <2>3, <2>4, <2>5, Unchanged DEF PersistStatus
<1>4. CASE BlueprintNotFound
  BY <1>4, TypeStatusTerminal DEF BlueprintNotFound, BookkeepingType
<1>5. CASE StatusRequeues
  <2>1. StatusType'
    BY <1>5, PassParts DEF StatusRequeues, StatusType
  <2> QED BY <1>5, <2>1, PassParts, Unchanged DEF StatusRequeues
<1>6. CASE OperationContinues
  BY <1>6, PassParts, Unchanged DEF OperationContinues
<1>7. CASE JournalTerminal
  <2>1. journal \in Ops
    BY <1>7 DEF JournalTerminal, ResourceType
  <2>2. OperationOutcome(journal) \in TerminalStates
    BY <1>7, <2>1 DEF JournalTerminal, OperationOutcome, Ops, InProgress,
                      TerminalStates
  <2>3. journal' \in Ops
    BY <1>7, <2>1, <2>2 DEF JournalTerminal, Ops
  <2>4. ResourceType'
    BY <1>7, <2>3 DEF JournalTerminal, ResourceType, UpgradeNamesVersion
  <2>5. PassType'
    BY <1>7 DEF JournalTerminal, PassType
  <2> QED BY <1>7, <2>4, <2>5, Unchanged DEF JournalTerminal
<1>8. CASE ProjectTerminal
  <2>1. StatusType'
    BY <1>8 DEF ProjectTerminal, StatusType, ResourceType
  <2>2. PassType'
    BY <1>8 DEF ProjectTerminal, PassType
  <2> QED BY <1>8, <2>1, <2>2, Unchanged DEF ProjectTerminal
<1>9. CASE ClearJournal
  <2>1. ResourceType'
    BY <1>9 DEF ClearJournal, ResourceType, UpgradeNamesVersion
  <2>2. BookkeepingType'
    BY <1>9 DEF ClearJournal, BookkeepingType, boundVars, UpgradeNamesVersion
  <2> QED BY <1>9, <2>1, <2>2, PassParts, Unchanged DEF ClearJournal
<1> QED BY <1>1, <1>2, <1>3, <1>4, <1>5, <1>6, <1>7, <1>8, <1>9 DEF Pass

\* Passes that fail, Fleet, users and the clock.
LEMMA TypeRest == TypeOK /\ (Fault \/ Fleet \/ Environment) => TypeOK'
<1> SUFFICES ASSUME TypeOK, Fault \/ Fleet \/ Environment PROVE TypeOK'
  OBVIOUS
<1> USE BoundAssumption DEF TypeOK
<1>1. CASE StatusFails
  <2>1. StatusType'
    <3>1. active' \in Ops \cup {NoOp} /\ deployed' = deployed
      BY <1>1, PassParts DEF StatusFails
    <3>2. running' \in BOOLEAN /\ failedCell' \in BOOLEAN
      BY <1>1 DEF StatusFails, StatusType
    <3> QED BY <3>1, <3>2 DEF StatusType
  <2>2. BookkeepingType'
    <3>1. freshFail' \in BOOLEAN
      <4>1. CASE UNCHANGED freshFail
        BY <4>1 DEF BookkeepingType
      <4>2. CASE freshFail' = (failedCell' /\ bundle.epoch = epoch)
        BY <4>2
      <4> QED BY <1>1, <4>1, <4>2 DEF StatusFails
    <3>2. faults' \in 0 .. MaxFaults
      BY <1>1 DEF StatusFails, BookkeepingType
    <3> QED BY <1>1, <3>1, <3>2
            DEF StatusFails, BookkeepingType, UpgradeNamesVersion
  <2> QED BY <1>1, <2>1, <2>2, PassParts, Unchanged DEF StatusFails
<1>2. CASE Abort
  <2>1. BookkeepingType'
    BY <1>2 DEF Abort, BookkeepingType, ghostVars, UpgradeNamesVersion
  <2> QED BY <1>2, <2>1, PassParts, Unchanged DEF Abort
<1>3. CASE EditSpec
  <2>1. ResourceType'
    BY <1>3 DEF EditSpec, ResourceType, UpgradeNamesVersion
  <2>2. PassType'
    BY <1>3 DEF EditSpec, PassType, Interfere
  <2>3. BookkeepingType'
    BY <1>3 DEF EditSpec, BookkeepingType, ghostVars, UpgradeNamesVersion
  <2> QED BY <1>3, <2>1, <2>2, <2>3, Unchanged DEF EditSpec
<1>4. CASE EditBlueprint
  <2>1. ClusterType'
    BY <1>4 DEF EditBlueprint, ClusterType, fleetVars
  <2>2. BookkeepingType'
    BY <1>4 DEF EditBlueprint, BookkeepingType, ghostVars, UpgradeNamesVersion
  <2> QED BY <1>4, <2>1, <2>2, Unchanged DEF EditBlueprint
<1>5. CASE EditRepo
  <2>1. ClusterType'
    BY <1>5 DEF EditRepo, ClusterType, fleetVars
  <2>2. BookkeepingType'
    BY <1>5 DEF EditRepo, BookkeepingType, ghostVars, UpgradeNamesVersion
  <2> QED BY <1>5, <2>1, <2>2, Unchanged DEF EditRepo
<1>6. CASE DeadlinePasses
  <2>1. ResourceType'
    BY <1>6 DEF DeadlinePasses, ResourceType, UpgradeNamesVersion
  <2> QED BY <1>6, <2>1, Unchanged DEF DeadlinePasses
<1>7. CASE FleetPropagate
  <2>1. helmOp.digest \in Digests /\ helmOp.epoch \in 0 .. MaxEpoch
    BY <1>7 DEF FleetPropagate, ClusterType
  <2>2. ClusterType'
    BY <1>7, <2>1 DEF FleetPropagate, ClusterType
  <2> QED BY <1>7, <2>2, Unchanged DEF FleetPropagate
<1>8. CASE FleetObserve
  <2>1. ClusterType'
    BY <1>8 DEF FleetObserve, ClusterType
  <2> QED BY <1>8, <2>1, Unchanged DEF FleetObserve
<1>9. CASE FleetApply
  <2>1. ClusterType'
    BY <1>9 DEF FleetApply, ClusterType
  <2> QED BY <1>9, <2>1, Unchanged DEF FleetApply
<1>10. CASE ChartTooLarge
  <2>1. faults' \in 0 .. MaxFaults
    BY <1>10 DEF ChartTooLarge, BookkeepingType
  <2> QED BY <1>10, <2>1, TypeStatusTerminal DEF ChartTooLarge
<1> QED BY <1>1, <1>2, <1>3, <1>4, <1>5, <1>6, <1>7, <1>8, <1>9, <1>10
        DEF Fault, Fleet, Environment

\* Every step keeps the types.
LEMMA TypeNext == TypeOK /\ [Next]_vars => TypeOK'
<1>1. TypeOK /\ UNCHANGED vars => TypeOK'
  BY Unchanged DEF TypeOK, vars
<1> QED BY <1>1, TypeRequest, TypeTrigger, TypePass, TypeRest DEF Next

\* Every reachable state has the types of TypeOK; in particular handled-ops
\* never grows beyond maxHandledOps and every journal names a real operation.
THEOREM TypeCorrect == Spec => []TypeOK
  BY TypeInit, TypeNext, PTL DEF Spec

-----------------------------------------------------------------------------
(* The projection *)

\* ProjectionNotStuck alone is not inductive: ClearJournal removes the journal
\* whatever the projection says.  TerminalWrites is what the two writes before
\* it established and nobody else can undo.
IInv == TypeOK /\ ProjectionNotStuck /\ TerminalWrites

\* Operations that exist are in progress or terminal, never both.
LEMMA OpStates ==
  /\ ~InProgress(NoOp) /\ ~Terminal(NoOp)
  /\ \A op \in Ops : Terminal(op) <=> ~InProgress(op)
  /\ \A op \in Ops : op # NoOp
  BY DEF InProgress, Terminal, TerminalStates, NoOp, Ops, Types

\* Requests, Fleet and the environment touch neither journal nor projection
\* nor the place of the pass.
LEMMA OthersFrame ==
  Request \/ Fleet \/ Environment \/ UNCHANGED vars
    => UNCHANGED <<journal, active, pc, started>>
<1> USE DEF resourceVars, statusVars, fleetVars, passVars, ghostVars
<1>1. Request => UNCHANGED <<journal, active, pc, started>>
  BY DEF Request, UpgradeAIWorkload, RollbackAIWorkload, SetRequestAnnotation,
         RetryAIWorkloadCheck, RetryAIWorkloadSet, ReplayRequest
<1>2. Fleet => UNCHANGED <<journal, active, pc, started>>
  BY DEF Fleet, FleetPropagate, FleetObserve, FleetApply
<1>3. Environment => UNCHANGED <<journal, active, pc, started>>
  BY DEF Environment, EditSpec, EditBlueprint, EditRepo, DeadlinePasses
<1>4. UNCHANGED vars => UNCHANGED <<journal, active, pc, started>>
  BY DEF vars
<1> QED BY <1>1, <1>2, <1>3, <1>4

\* The journal is left alone or holds a newly started operation.
NewOrSame ==
  \/ UNCHANGED <<journal, started>>
  \/ /\ InProgress(journal') /\ started' = started + 1
     /\ journal'.requestedAt = started'

\* A trigger leaves the journal alone or writes an operation in progress.
LEMMA TriggerFrame ==
  ASSUME TypeOK, Trigger
  PROVE  /\ pc = "idle" /\ UNCHANGED <<active, pc>>
         /\ NewOrSame
<1> USE DEF statusVars, passVars
<1>1. ASSUME NEW ann, NEW id, NEW op, FinishTrigger(ann, id, op),
             op = NoOp \/ (InProgress(op) /\ op.requestedAt = started + 1)
      PROVE  /\ UNCHANGED <<active, pc>>
             /\ NewOrSame
  BY <1>1, OpStates DEF FinishTrigger, NewOrSame
<1>2. ASSUME NEW t, NEW n, NEW v, NEW d, StartVersionOp(t, n, v, d)
      PROVE  /\ UNCHANGED <<active, pc>>
             /\ NewOrSame
  <2> DEFINE op == [type |-> t, nonce |-> n, target |-> v,
               expected |-> d, epoch |-> 0, requestedAt |-> started + 1,
               intent |-> IntentDigest([spec EXCEPT !.version = v]),
               state |-> "InProgress"]
  <2>1. /\ FinishTrigger(t, HandledID(t, n), op) /\ InProgress(op)
        /\ op.requestedAt = started + 1
    BY <1>2 DEF StartVersionOp, InProgress
  <2> QED BY <1>1, <2>1
<1>3. ASSUME NEW n, StartRetry(n)
      PROVE  /\ UNCHANGED <<active, pc>>
             /\ NewOrSame
  <2> DEFINE op == [type |-> "Retry", nonce |-> n, target |-> NoVersion,
               expected |-> NoDigest, epoch |-> epoch + 1,
               requestedAt |-> started + 1, intent |-> IntentDigest(spec),
               state |-> "InProgress"]
  <2>1. /\ FinishTrigger("Retry", HandledID("Retry", n), op) /\ InProgress(op)
        /\ op.requestedAt = started + 1
    BY <1>3 DEF StartRetry, InProgress
  <2> QED BY <1>1, <2>1
<1>4. CASE TriggerUpgrade
  BY <1>2, <1>3, <1>4 DEF TriggerUpgrade
<1>5. CASE TriggerRollback
  <2>1. /\ pc = "idle"
        /\ \/ StartVersionOp("Rollback", request["Rollback"].nonce,
                             deployed.version, deployed.digest)
           \/ FinishTrigger("Rollback",
                 HandledID("Rollback", request["Rollback"].nonce), NoOp)
    BY <1>5 DEF TriggerRollback
  <2>2. CASE StartVersionOp("Rollback", request["Rollback"].nonce,
                            deployed.version, deployed.digest)
    BY <1>2, <2>1, <2>2
  <2>3. CASE FinishTrigger("Rollback",
               HandledID("Rollback", request["Rollback"].nonce), NoOp)
    <3>1. UNCHANGED <<active, pc, journal, started>>
      BY <2>3 DEF FinishTrigger
    <3> QED BY <2>1, <3>1 DEF NewOrSame
  <2> QED BY <2>1, <2>2, <2>3
<1>6. CASE TriggerRetry
  BY <1>3, <1>6 DEF TriggerRetry
<1> QED BY <1>4, <1>5, <1>6 DEF Trigger

\* What the step of a pass, or its failure, does to journal and projection.
LEMMA PassFrame ==
  ASSUME TypeOK, Pass \/ Fault
  PROVE  \/ UNCHANGED <<journal, active, started>> /\ pc' \in {"idle", "render", "status"}
         \/ /\ ProjectOperation /\ UNCHANGED <<journal, started>>
            /\ pc' \in {"idle", "operation"}
         \/ JournalTerminal \/ ProjectTerminal \/ ClearJournal
<1> USE DEF resourceVars, statusVars, ghostVars, EndPass
<1>1. CASE ReadWorkload \/ Render \/ OperationContinues \/ Abort
  BY <1>1 DEF ReadWorkload, Render, OperationContinues, Abort
<1>2. CASE \/ PersistStatus \/ BlueprintNotFound \/ ChartTooLarge
           \/ StatusRequeues \/ StatusFails
  BY <1>2 DEF PersistStatus, BlueprintNotFound, ChartTooLarge, StatusTerminal,
              StatusRequeues, StatusFails
<1> QED BY <1>1, <1>2 DEF Pass, Fault

\* Every step keeps the invariant.
LEMMA IInvNext == IInv /\ [Next]_vars => IInv'
<1> SUFFICES ASSUME IInv, [Next]_vars
             PROVE  ProjectionNotStuck' /\ TerminalWrites'
  BY TypeNext DEF IInv
<1>0. TypeOK /\ journal \in Ops \cup {NoOp} /\ active \in Ops \cup {NoOp}
  BY DEF IInv, TypeOK, ResourceType, StatusType
<1> USE OpStates DEF IInv, ProjectionNotStuck, TerminalWrites
<1>1. CASE Request \/ Fleet \/ Environment \/ UNCHANGED vars
  BY <1>1, OthersFrame
<1>2. CASE Trigger
  BY <1>0, <1>2, TriggerFrame DEF NewOrSame
<1>3. CASE Pass \/ Fault
  <2>1. CASE UNCHANGED <<journal, active>> /\ pc' \in {"idle", "render", "status"}
    BY <2>1
  <2>2. CASE ProjectOperation /\ UNCHANGED journal /\ pc' \in {"idle", "operation"}
    BY <2>2 DEF ProjectOperation
  <2>3. CASE JournalTerminal
    <3>1. /\ journal \in Ops /\ pc' = "project"
          /\ journal' = [journal EXCEPT !.state = OperationOutcome(journal)]
      BY <1>0, <2>3 DEF JournalTerminal
    <3>2. OperationOutcome(journal) \in TerminalStates
      BY <2>3, <3>1 DEF JournalTerminal, OperationOutcome, Ops, InProgress,
                        TerminalStates
    <3>3. Terminal(journal')
      BY <3>1, <3>2 DEF Terminal, Ops
    <3> QED BY <3>1, <3>3 DEF Terminal, NoOp, TerminalStates
  <2>4. CASE ProjectTerminal
    BY <1>0, <2>4 DEF ProjectTerminal, resourceVars
  <2>5. CASE ClearJournal
    BY <1>0, <2>5 DEF ClearJournal, EndPass, statusVars
  <2> QED BY <1>0, <1>3, <2>1, <2>2, <2>3, <2>4, <2>5, PassFrame
<1> QED BY <1>1, <1>2, <1>3 DEF Next

\* Initially there is no operation and no pass.
LEMMA IInvInit == Init => IInv
  BY TypeInit, OpStates DEF Init, IInv, ProjectionNotStuck, TerminalWrites

\* status.activeOperation never stays InProgress without a journal, wherever
\* passes are cut short and whatever users, Fleet and the API do meanwhile.
THEOREM ProjectionSafe == Spec => []ProjectionNotStuck
<1>1. IInv => ProjectionNotStuck
  BY DEF IInv
<1> QED BY IInvInit, IInvNext, <1>1, PTL DEF Spec

-----------------------------------------------------------------------------
(* A request starts one operation                                          *)

\* The nonces under which a request of type t can be pending now or later.
Known(t) == {request[t].nonce, last[t].nonce} \ {NoNonce}

\* A list of identities for r requests: two of one nonce are those of an upgrade to
\* the current version, which is handled as a retry first.
Identities(h, r, s) ==
  /\ \A i \in DOMAIN h : h[i][2] \in 1 .. r
  /\ \A i, j \in DOMAIN h :
       i # j /\ h[i][2] = h[j][2] =>
         h[i] # h[j] /\ h[i][2] \in s /\ (h[i][1] = "Retry" \/ h[j][1] = "Retry")

\* The list is never longer than the requests have identities.
LEMMA IdentitiesBound ==
  ASSUME NEW h \in Seq(Types \X Nonces), NEW r \in 0 .. MaxRequests,
         NEW s \in SUBSET Nonces, Identities(h, r, s)
  PROVE  /\ Cardinality(s) \in Nat
         /\ Len(h) <= r + Cardinality(s)
<1> DEFINE S == 1 .. Len(h)
           U == s \X {0}
           V == (1 .. r) \X {1}
           T == V \cup U
           again(x) == x[2] \in s /\ x[1] = "Retry"
           f == [i \in S |-> IF again(h[i]) THEN <<h[i][2], 0>> ELSE <<h[i][2], 1>>]
<1>1. Len(h) \in Nat /\ DOMAIN h = S /\ \A i \in S : h[i] \in Types \X Nonces
  BY LenProperties, ElementOfSeq
<1>2. IsFiniteSet(S) /\ Cardinality(S) = Len(h)
  <2> DEFINE n == Len(h)
  <2>1. n \in Nat
    BY <1>1
  <2> HIDE DEF n
  <2>2. IsFiniteSet(1 .. n) /\ Cardinality(1 .. n) = IF 1 > n THEN 0 ELSE n - 1 + 1
    BY <2>1, FS_Interval
  <2>3. IsFiniteSet(1 .. n) /\ Cardinality(1 .. n) = n
    BY <2>1, <2>2
  <2> QED BY <2>3 DEF n
<1>3. IsFiniteSet(V) /\ Cardinality(V) = r
  <2>1. IsFiniteSet(1 .. r) /\ Cardinality(1 .. r) = r
    BY FS_Interval, BoundAssumption
  <2>2. IsFiniteSet({1}) /\ Cardinality({1}) = 1
    BY FS_Singleton
  <2>3. IsFiniteSet(V) /\ Cardinality(V) = Cardinality(1 .. r) * Cardinality({1})
    BY <2>1, <2>2, FS_Product
  <2> QED BY <2>1, <2>2, <2>3, BoundAssumption
<1>4. IsFiniteSet(s) /\ Cardinality(s) \in Nat
  <2>1. IsFiniteSet(Nonces)
    BY FS_Interval, BoundAssumption DEF Nonces
  <2> QED BY <2>1, FS_Subset, FS_CardinalityType
<1>5. IsFiniteSet(U) /\ Cardinality(U) = Cardinality(s)
  <2>1. IsFiniteSet({0}) /\ Cardinality({0}) = 1
    BY FS_Singleton
  <2>2. IsFiniteSet(U) /\ Cardinality(U) = Cardinality(s) * Cardinality({0})
    BY <1>4, <2>1, FS_Product
  <2> QED BY <1>4, <2>1, <2>2
<1>6. IsFiniteSet(T) /\ Cardinality(T) <= r + Cardinality(s) /\ Cardinality(T) \in Nat
  <2>1. /\ IsFiniteSet(T)
        /\ Cardinality(T) = Cardinality(V) + Cardinality(U) - Cardinality(V \cap U)
    BY <1>3, <1>5, FS_Union
  <2>2. Cardinality(V \cap U) \in Nat
    BY <1>3, FS_Intersection, FS_CardinalityType
  <2>3. Cardinality(T) \in Nat
    BY <2>1, FS_CardinalityType
  <2> QED BY <1>3, <1>4, <1>5, <2>1, <2>2, <2>3
<1>7. f \in [S -> T]
  <2>1. ASSUME NEW i \in S PROVE f[i] \in T
    BY <1>1 DEF Identities
  <2> QED BY <2>1
<1>8. ASSUME NEW i \in S, NEW j \in S, i # j PROVE f[i] # f[j]
  <2>1. /\ h[i] \in Types \X Nonces /\ h[j] \in Types \X Nonces
        /\ h[i][2] \in Nat /\ h[j][2] \in Nat
    BY <1>1 DEF Nonces
  <2>2. CASE h[i][2] = h[j][2]
    <3>1. h[i] # h[j] /\ h[i][2] \in s /\ (h[i][1] = "Retry" \/ h[j][1] = "Retry")
      BY <1>1, <1>8, <2>2 DEF Identities
    <3>2. h[i][1] # h[j][1]
      BY <2>1, <2>2, <3>1
    <3>3. again(h[i]) <=> ~again(h[j])
      BY <2>2, <3>1, <3>2
    <3> QED BY <2>1, <2>2, <3>3
  <2>3. CASE h[i][2] # h[j][2]
    BY <2>1, <2>3
  <2> QED BY <2>2, <2>3
<1> HIDE DEF S, T, U, f
<1>9. ~(Cardinality(T) < Cardinality(S))
  BY <1>2, <1>6, <1>7, <1>8, FS_PigeonHole
<1> QED BY <1>1, <1>2, <1>4, <1>6, <1>9

\* A list without its first entry.
LEMMA Rest ==
  ASSUME NEW S, NEW s \in Seq(S), NEW L \in Nat, L > 0, Len(s) = L + 1
  PROVE  /\ DOMAIN SubSeq(s, 2, L + 1) = 1 .. L
         /\ \A i \in 1 .. L : SubSeq(s, 2, L + 1)[i] = s[i + 1]
<1>1. \A i \in 1 .. L : SubSeq(s, 2, L + 1)[i] = s[i + 1]
  BY SubSeqProperties
<1>2. Len(SubSeq(s, 2, L + 1)) = L
  BY SubSeqProperties
<1>3. SubSeq(s, 2, L + 1) \in Seq(S)
  BY SubSeqProperties
<1> QED BY <1>1, <1>2, <1>3, LenProperties

\* An identity that is not yet in the list is appended, and the oldest one makes
\* room when there are more than maxHandledOps.
LEMMA AddHandledKeeps ==
  ASSUME NEW h \in Seq(Types \X Nonces), NEW L \in Nat, L = Len(h), L <= MaxHandled,
         NEW id \in Types \X Nonces, ~IsHandled(h, id), NEW out, out = Append(h, id)
  PROVE  /\ out \in Seq(Types \X Nonces) /\ Len(out) = L + 1 /\ DOMAIN out = 1 .. L + 1
         /\ \A i \in 1 .. L : out[i] = h[i]
         /\ out[L + 1] = id
         /\ L < MaxHandled => AddHandled(h, id) = out
         /\ L = MaxHandled => /\ DOMAIN AddHandled(h, id) = 1 .. L
                              /\ \A i \in 1 .. L : AddHandled(h, id)[i] = out[i + 1]
<1>2. /\ out \in Seq(Types \X Nonces) /\ Len(out) = L + 1 /\ DOMAIN out = 1 .. L + 1
      /\ \A i \in 1 .. L : out[i] = h[i]
      /\ out[L + 1] = id
      /\ \A i \in 1 .. L + 1 : out[i] \in Types \X Nonces
  BY AppendProperties, LenProperties
<1>3. AddHandled(h, id) = IF Len(out) > MaxHandled
                          THEN SubSeq(out, Len(out) - MaxHandled + 1, Len(out)) ELSE out
  BY Zenon DEF AddHandled
<1>4. ASSUME L < MaxHandled PROVE AddHandled(h, id) = out
  <2>1. ~(Len(out) > MaxHandled)
    BY <1>2, <1>4, BoundAssumption
  <2> QED BY <1>3, <2>1, Zenon
<1>5. ASSUME L = MaxHandled
      PROVE  /\ DOMAIN AddHandled(h, id) = 1 .. L
             /\ \A i \in 1 .. L : AddHandled(h, id)[i] = out[i + 1]
  <2>1. Len(out) > MaxHandled /\ Len(out) - MaxHandled + 1 = 2 /\ Len(out) = L + 1
    BY <1>2, <1>5, BoundAssumption
  <2>2. AddHandled(h, id) = SubSeq(out, 2, L + 1)
    BY <1>3, <2>1, Zenon
  <2>3. L > 0
    BY <1>5, BoundAssumption
  <2> QED BY <1>2, <2>2, <2>3, Rest
<1> QED BY <1>2, <1>4, <1>5

\* A request of known type is added to the list; as long as the list can hold all
\* identities, it forgets none.
LEMMA AddHandledIdentities ==
  ASSUME NEW h \in Seq(Types \X Nonces), Len(h) <= MaxHandled,
         NEW r \in 0 .. MaxRequests, NEW s \in SUBSET Nonces, NEW z \in SUBSET Nonces,
         s \subseteq z, Identities(h, r, s),
         NEW t \in Types, NEW n \in Nonces, n \in 1 .. r,
         \A i \in DOMAIN h : h[i][2] = n =>
           h[i] = <<t, n>> \/ (n \in z /\ (h[i][1] = "Retry" \/ t = "Retry"))
  PROVE  LET new == AddHandled(h, <<t, n>>) IN
         /\ Identities(new, r, z)
         /\ \A i \in DOMAIN new : new[i] = <<t, n>> \/ \E j \in DOMAIN h : new[i] = h[j]
         /\ r + Cardinality(z) <= MaxHandled =>
              \A x : IsHandled(h, x) \/ x = <<t, n>> => IsHandled(new, x)
<1> DEFINE new == AddHandled(h, <<t, n>>)
<1>0. <<t, n>> \in Types \X Nonces
  OBVIOUS
<1>l. PICK L \in Nat : L = Len(h) /\ DOMAIN h = 1 .. L
  BY LenProperties
<1>1. CASE IsHandled(h, <<t, n>>)
  <2>1. new = h
    BY <1>1 DEF AddHandled
  <2>2. Identities(h, r, z)
    BY DEF Identities
  <2> QED BY <1>1, <2>1, <2>2
<1>2. CASE ~IsHandled(h, <<t, n>>)
  <2>0. PICK out : out = Append(h, <<t, n>>)
    OBVIOUS
  <2>1. /\ out \in Seq(Types \X Nonces) /\ Len(out) = L + 1 /\ DOMAIN out = 1 .. L + 1
        /\ \A i \in 1 .. L : out[i] = h[i]
        /\ out[L + 1] = <<t, n>>
        /\ L < MaxHandled => new = out
        /\ L = MaxHandled => DOMAIN new = 1 .. L /\ \A i \in 1 .. L : new[i] = out[i + 1]
    <3>1. PICK id \in Types \X Nonces : id = <<t, n>>
      BY <1>0
    <3>2. L <= MaxHandled /\ ~IsHandled(h, id) /\ out = Append(h, id)
      BY <1>l, <1>2, <2>0, <3>1
    <3>3. /\ out \in Seq(Types \X Nonces) /\ Len(out) = L + 1 /\ DOMAIN out = 1 .. L + 1
          /\ \A i \in 1 .. L : out[i] = h[i]
          /\ out[L + 1] = id
          /\ L < MaxHandled => AddHandled(h, id) = out
          /\ L = MaxHandled => /\ DOMAIN AddHandled(h, id) = 1 .. L
                               /\ \A i \in 1 .. L : AddHandled(h, id)[i] = out[i + 1]
      BY <1>l, <3>2, AddHandledKeeps, SMTT(30)
    <3> QED BY <3>1, <3>3
  <2> HIDE DEF new
  <2>2. \A i \in DOMAIN h : h[i] # <<t, n>>
    BY <1>2 DEF IsHandled
  <2>3. \A i \in 1 .. L + 1 : i = L + 1 \/ (i \in DOMAIN h /\ out[i] = h[i])
    BY <1>l, <2>1
  <2>4. Identities(out, r, z)
    <3>1. ASSUME NEW i \in DOMAIN out PROVE out[i][2] \in 1 .. r
      BY <2>1, <2>3, <3>1 DEF Identities
    <3>2. ASSUME NEW i \in DOMAIN out, NEW j \in DOMAIN out, i # j, out[i][2] = out[j][2]
          PROVE  /\ out[i] # out[j] /\ out[i][2] \in z
                 /\ out[i][1] = "Retry" \/ out[j][1] = "Retry"
      <4>1. CASE i # L + 1 /\ j # L + 1
        BY <2>1, <2>3, <3>2, <4>1 DEF Identities
      <4>2. CASE i = L + 1
        <5>1. j \in DOMAIN h /\ out[j] = h[j] /\ out[i] = <<t, n>>
          BY <2>1, <2>3, <3>2, <4>2
        <5> QED BY <2>2, <3>2, <5>1
      <4>3. CASE j = L + 1
        <5>1. i \in DOMAIN h /\ out[i] = h[i] /\ out[j] = <<t, n>>
          BY <2>1, <2>3, <3>2, <4>3
        <5> QED BY <2>2, <3>2, <5>1
      <4> QED BY <4>1, <4>2, <4>3
    <3> QED BY <3>1, <3>2 DEF Identities
  <2>5. CASE L < MaxHandled
    <3>1. new = out
      BY <2>1, <2>5
    <3>2. \A i \in DOMAIN out : out[i] = <<t, n>> \/ \E j \in DOMAIN h : out[i] = h[j]
      BY <2>1, <2>3
    <3>3. ASSUME NEW x, IsHandled(h, x) \/ x = <<t, n>> PROVE IsHandled(out, x)
      <4>1. CASE x = <<t, n>>
        BY <2>1, <4>1 DEF IsHandled
      <4>2. CASE IsHandled(h, x)
        <5>1. PICK i \in 1 .. L : h[i] = x
          BY <1>l, <4>2 DEF IsHandled
        <5>2. i \in DOMAIN out /\ out[i] = x
          BY <2>1, <5>1
        <5> QED BY <5>2 DEF IsHandled
      <4> QED BY <3>3, <4>1, <4>2
    <3>4. \A x : IsHandled(h, x) \/ x = <<t, n>> => IsHandled(out, x)
      BY <3>3
    <3> QED BY <2>4, <3>1, <3>2, <3>4 DEF new
  <2>6. CASE L = MaxHandled
    <3>1. ~(r + Cardinality(z) <= MaxHandled)
      <4>1. Cardinality(z) \in Nat /\ Len(out) <= r + Cardinality(z)
        BY <2>1, <2>4, IdentitiesBound
      <4> QED BY <2>1, <2>6, <4>1, BoundAssumption
    <3>2. \A i \in 1 .. L : i + 1 \in DOMAIN out
      BY <2>1
    <3>3. DOMAIN new = 1 .. L /\ \A i \in 1 .. L : new[i] = out[i + 1]
      BY <2>1, <2>6
    <3>4. Identities(new, r, z)
      <4>1. \A i \in DOMAIN new : new[i][2] \in 1 .. r
        BY <2>4, <3>2, <3>3 DEF Identities
      <4>2. ASSUME NEW i \in DOMAIN new, NEW j \in DOMAIN new, i # j, new[i][2] = new[j][2]
            PROVE  /\ new[i] # new[j] /\ new[i][2] \in z
                   /\ new[i][1] = "Retry" \/ new[j][1] = "Retry"
        <5>1. PICK a \in DOMAIN out : a = i + 1
          BY <3>2, <3>3
        <5>2. PICK b \in DOMAIN out : b = j + 1
          BY <3>2, <3>3
        <5>3. new[i] = out[a] /\ new[j] = out[b]
          BY <3>3, <5>1, <5>2
        <5>4. a # b
          BY <3>3, <4>2, <5>1, <5>2
        <5> QED BY <2>4, <4>2, <5>3, <5>4 DEF Identities
      <4> QED BY <4>1, <4>2 DEF Identities
    <3>5. \A i \in DOMAIN new : new[i] = <<t, n>> \/ \E j \in DOMAIN h : new[i] = h[j]
      BY <2>1, <2>3, <3>2, <3>3
    <3> QED BY <3>1, <3>4, <3>5 DEF new
  <2> QED BY <1>l, <2>5, <2>6, BoundAssumption
<1> QED BY <1>1, <1>2

\* Every nonce belongs to one type of request, also in the list of identities, but
\* for the retry as which an upgrade to the current version was handled.
OneType ==
  /\ \A t \in Types : Known(t) \subseteq 1 .. requests
  /\ \A t, u \in Types : t # u => Known(t) \cap Known(u) = {}
  /\ \A i \in DOMAIN handled, u \in Types : handled[i][2] \in Known(u) =>
       \/ handled[i][1] = u
       \/ handled[i][2] \in sameVersion /\ handled[i][1] = "Retry"

\* What has started is in the list while the list can hold everything.
StartsListed ==
  requests + Cardinality(sameVersion) <= MaxHandled =>
    \A n \in Nonces \ sameVersion :
      starts[n] = 0 \/ (starts[n] = 1 /\ \E t \in Types : IsHandled(handled, <<t, n>>))

StartsInv ==
  TypeOK /\ OneType /\ Identities(handled, requests, sameVersion) /\ StartsListed

LEMMA StartsInit == Init => StartsInv
<1> SUFFICES ASSUME Init PROVE OneType /\ Identities(handled, requests, sameVersion) /\ StartsListed
  BY TypeInit DEF StartsInv
<1>1. handled = <<>> /\ DOMAIN handled = {}
  BY DEF Init
<1>2. \A t \in Types : Known(t) = {}
  BY DEF Init, Known, NoRequest
<1>3. \A n \in Nonces : starts[n] = 0
  BY DEF Init
<1> QED BY <1>1, <1>2, <1>3 DEF OneType, Identities, StartsListed

\* A new nonce is larger than all there were.
LEMMA StartsRequest ==
  ASSUME StartsInv, NEW t \in Types, NEW v, SetRequestAnnotation(t, v)
  PROVE  (OneType /\ Identities(handled, requests, sameVersion) /\ StartsListed)'
<1>0. /\ TypeOK /\ OneType /\ Identities(handled, requests, sameVersion) /\ StartsListed
      /\ requests \in 0 .. MaxRequests /\ sameVersion \in SUBSET Nonces
      /\ request \in [Types -> Requests \cup {NoRequest}]
      /\ last \in [Types -> Requests \cup {NoRequest}]
  BY DEF StartsInv, TypeOK, ResourceType, BookkeepingType
<1>1. /\ requests' = requests + 1 /\ UNCHANGED <<handled, starts, sameVersion>>
      /\ request' = [request EXCEPT ![t] = [nonce |-> requests + 1, target |-> v]]
      /\ last' = [last EXCEPT ![t] = request'[t]]
  BY DEF SetRequestAnnotation, ghostVars
<1>2. /\ Known(t)' = {requests + 1}
      /\ \A u \in Types \ {t} : Known(u)' = Known(u)
  <2>1. request'[t].nonce = requests + 1 /\ last'[t].nonce = requests + 1
    BY <1>0, <1>1
  <2>2. requests + 1 # NoNonce
    BY <1>0, BoundAssumption DEF NoNonce
  <2>3. \A u \in Types \ {t} : request'[u] = request[u] /\ last'[u] = last[u]
    BY <1>0, <1>1
  <2> QED BY <2>1, <2>2, <2>3 DEF Known
<1>3. requests + 1 \notin 1 .. requests /\ 1 .. requests \subseteq 1 .. requests'
  BY <1>0, <1>1, BoundAssumption
<1>4. requests + 1 \in 1 .. requests'
  BY <1>0, <1>1, BoundAssumption
<1>5. \A i \in DOMAIN handled : handled[i][2] \in 1 .. requests
  BY <1>0 DEF Identities
<1>6. OneType'
  <2>1. \A u \in Types : Known(u)' \subseteq 1 .. requests'
    BY <1>0, <1>2, <1>3, <1>4 DEF OneType
  <2>2. ASSUME NEW x \in Types, NEW u \in Types, x # u PROVE Known(x)' \cap Known(u)' = {}
    BY <1>0, <1>2, <1>3, <2>2 DEF OneType
  <2>3. ASSUME NEW i \in DOMAIN handled, NEW u \in Types, handled[i][2] \in Known(u)'
        PROVE  \/ handled[i][1] = u
               \/ handled[i][2] \in sameVersion /\ handled[i][1] = "Retry"
    BY <1>0, <1>2, <1>3, <1>5, <2>3 DEF OneType
  <2> QED BY <1>1, <2>1, <2>2, <2>3 DEF OneType
<1>7. Identities(handled, requests, sameVersion)'
  BY <1>0, <1>1, <1>3 DEF Identities
<1>8. StartsListed'
  <2>1. Cardinality(sameVersion) \in Nat
    BY <1>0, IdentitiesBound DEF TypeOK, ResourceType
  <2>2. requests' + Cardinality(sameVersion) <= MaxHandled =>
          requests + Cardinality(sameVersion) <= MaxHandled
    BY <1>0, <1>1, <2>1, BoundAssumption
  <2> QED BY <1>0, <1>1, <2>2 DEF StartsListed
<1> QED BY <1>6, <1>7, <1>8

\* A request that is known is added to the list with its own type, or, by an
\* upgrade to the current version, as a retry.
HandlesKnown(t, u, n, op) ==
  /\ n \in Known(u) /\ ~IsHandled(handled, <<u, n>>)
  /\ handled' = AddHandled(handled, <<t, n>>)
  /\ UNCHANGED <<last, requests>>
  /\ \A x \in Types : request'[x] = request[x] \/ request'[x] = NoRequest
  /\ starts' = IF op = NoOp THEN starts ELSE [starts EXCEPT ![n] = @ + 1]
  /\ \/ t = u /\ UNCHANGED sameVersion
     \/ t = "Retry" /\ sameVersion' = sameVersion \cup {n}

LEMMA TriggerHandles ==
  ASSUME TypeOK, Trigger
  PROVE  \E t \in Types, u \in Types, n \in Nonces, op \in {NoOp, journal'} :
           HandlesKnown(t, u, n, op)
<1>0. /\ request \in [Types -> Requests \cup {NoRequest}]
      /\ {"Upgrade", "Rollback", "Retry"} = Types
  BY DEF TypeOK, ResourceType, Types
<1>1. ASSUME NEW u \in Types, Pending(u)
      PROVE  request[u].nonce \in Nonces /\ request[u].nonce \in Known(u)
  BY <1>0, <1>1 DEF Pending, Requests, Known, Nonces, NoNonce
<1>2. ASSUME NEW t \in Types, NEW n \in Nonces, NEW op, FinishTrigger(t, HandledID(t, n), op),
             op = NoOp \/ op.nonce = n
      PROVE  /\ op \in {NoOp, journal'}
             /\ handled' = AddHandled(handled, <<t, n>>) /\ UNCHANGED <<last, requests>>
             /\ \A x \in Types : request'[x] = request[x] \/ request'[x] = NoRequest
             /\ starts' = IF op = NoOp THEN starts ELSE [starts EXCEPT ![n] = @ + 1]
  <2>1. starts' = IF op = NoOp THEN starts ELSE [starts EXCEPT ![n] = @ + 1]
    BY <1>2 DEF FinishTrigger
  <2> QED BY <1>0, <1>2, <2>1 DEF FinishTrigger, HandledID, boundVars
<1>3. ASSUME NEW u \in Types, Fresh(u) PROVE ~IsHandled(handled, <<u, request[u].nonce>>)
  BY <1>3 DEF Fresh, HandledID
<1>4. ASSUME NEW t \in Types, NEW target, NEW expected, Pending(t), Fresh(t),
             StartVersionOp(t, request[t].nonce, target, expected)
      PROVE  \E op \in {NoOp, journal'} : HandlesKnown(t, t, request[t].nonce, op)
  <2>1. PICK op : /\ FinishTrigger(t, HandledID(t, request[t].nonce), op)
                  /\ op.nonce = request[t].nonce /\ UNCHANGED sameVersion
    BY <1>4 DEF StartVersionOp
  <2> QED BY <1>1, <1>2, <1>3, <1>4, <2>1 DEF HandlesKnown
<1>5. ASSUME NEW u \in Types, Pending(u), Fresh(u), StartRetry(request[u].nonce),
             \/ u = "Retry" /\ UNCHANGED sameVersion
             \/ sameVersion' = sameVersion \cup {request[u].nonce}
      PROVE  \E op \in {NoOp, journal'} : HandlesKnown("Retry", u, request[u].nonce, op)
  <2>1. PICK op : /\ FinishTrigger("Retry", HandledID("Retry", request[u].nonce), op)
                  /\ op.nonce = request[u].nonce
    BY <1>5 DEF StartRetry
  <2> QED BY <1>0, <1>1, <1>2, <1>3, <1>5, <2>1 DEF HandlesKnown
<1>6. CASE TriggerUpgrade
  <2>1. /\ Pending("Upgrade") /\ Fresh("Upgrade")
        /\ \/ StartVersionOp("Upgrade", request["Upgrade"].nonce, request["Upgrade"].target, NoDigest)
           \/ /\ StartRetry(request["Upgrade"].nonce)
              /\ sameVersion' = sameVersion \cup {request["Upgrade"].nonce}
    BY <1>6 DEF TriggerUpgrade
  <2> QED BY <1>0, <1>1, <1>4, <1>5, <2>1
<1>7. CASE TriggerRollback
  <2>1. /\ Pending("Rollback") /\ Fresh("Rollback")
        /\ \/ StartVersionOp("Rollback", request["Rollback"].nonce, deployed.version, deployed.digest)
           \/ /\ FinishTrigger("Rollback", HandledID("Rollback", request["Rollback"].nonce), NoOp)
              /\ UNCHANGED sameVersion
    BY <1>7 DEF TriggerRollback
  <2>2. CASE FinishTrigger("Rollback", HandledID("Rollback", request["Rollback"].nonce), NoOp)
             /\ UNCHANGED sameVersion
    BY <1>0, <1>1, <1>2, <1>3, <2>1, <2>2 DEF HandlesKnown
  <2> QED BY <1>0, <1>1, <1>4, <2>1, <2>2
<1>8. CASE TriggerRetry
  <2>1. /\ Pending("Retry") /\ Fresh("Retry") /\ StartRetry(request["Retry"].nonce)
        /\ UNCHANGED sameVersion
    BY <1>8 DEF TriggerRetry
  <2> QED BY <1>0, <1>1, <1>5, <2>1
<1> QED BY <1>6, <1>7, <1>8 DEF Trigger

LEMMA StartsTrigger ==
  ASSUME StartsInv, NEW t \in Types, NEW u \in Types, NEW n \in Nonces, NEW op,
         HandlesKnown(t, u, n, op)
  PROVE  (OneType /\ Identities(handled, requests, sameVersion) /\ StartsListed)'
<1> DEFINE z == sameVersion'
<1>0. /\ OneType /\ Identities(handled, requests, sameVersion) /\ StartsListed
      /\ requests \in 0 .. MaxRequests /\ sameVersion \in SUBSET Nonces
      /\ handled \in Seq(Types \X Nonces) /\ Len(handled) <= MaxHandled
      /\ starts \in [Nonces -> Nat]
  BY DEF StartsInv, TypeOK, ResourceType, BookkeepingType
<1>1. /\ n \in Known(u) /\ ~IsHandled(handled, <<u, n>>)
      /\ handled' = AddHandled(handled, <<t, n>>)
      /\ requests' = requests /\ last' = last
      /\ \A x \in Types : request'[x] = request[x] \/ request'[x] = NoRequest
      /\ starts' = IF op = NoOp THEN starts ELSE [starts EXCEPT ![n] = @ + 1]
      /\ (t = u /\ z = sameVersion) \/ (t = "Retry" /\ z = sameVersion \cup {n})
  BY DEF HandlesKnown
<1>2. z \in SUBSET Nonces /\ sameVersion \subseteq z /\ n \in 1 .. requests
  BY <1>0, <1>1 DEF OneType
<1>3. ASSUME NEW i \in DOMAIN handled, handled[i][2] = n
      PROVE  handled[i] = <<handled[i][1], n>> /\ handled[i][1] # u
             /\ n \in sameVersion /\ handled[i][1] = "Retry"
  <2>1. handled[i] \in Types \X Nonces
    BY <1>0, ElementOfSeq, LenProperties
  <2>2. handled[i] = <<handled[i][1], n>>
    BY <1>3, <2>1
  <2>3. handled[i][1] # u
    BY <1>1, <2>2 DEF IsHandled
  <2> QED BY <1>0, <1>1, <1>3, <2>2, <2>3 DEF OneType
<1> HIDE DEF z
<1>4. \A i \in DOMAIN handled : handled[i][2] = n =>
        handled[i] = <<t, n>> \/ (n \in z /\ (handled[i][1] = "Retry" \/ t = "Retry"))
  BY <1>2, <1>3
<1>5. /\ Identities(handled', requests, z)
      /\ \A i \in DOMAIN handled' :
           handled'[i] = <<t, n>> \/ \E j \in DOMAIN handled : handled'[i] = handled[j]
      /\ requests + Cardinality(z) <= MaxHandled =>
           \A x : IsHandled(handled, x) \/ x = <<t, n>> => IsHandled(handled', x)
  <2>1. PICK new : new = AddHandled(handled, <<t, n>>)
    OBVIOUS
  <2>2. /\ Identities(new, requests, z)
        /\ \A i \in DOMAIN new :
             new[i] = <<t, n>> \/ \E j \in DOMAIN handled : new[i] = handled[j]
        /\ requests + Cardinality(z) <= MaxHandled =>
             \A x : IsHandled(handled, x) \/ x = <<t, n>> => IsHandled(new, x)
    <3>1. PICK r \in 0 .. MaxRequests, h \in Seq(Types \X Nonces), s \in SUBSET Nonces,
               y \in SUBSET Nonces :
                 r = requests /\ h = handled /\ s = sameVersion /\ y = z
      BY <1>0, <1>2
    <3>2. /\ Len(h) <= MaxHandled /\ s \subseteq y /\ Identities(h, r, s) /\ n \in 1 .. r
          /\ \A i \in DOMAIN h : h[i][2] = n =>
               h[i] = <<t, n>> \/ (n \in y /\ (h[i][1] = "Retry" \/ t = "Retry"))
      BY <1>0, <1>2, <1>4, <3>1
    <3>3. /\ Identities(AddHandled(h, <<t, n>>), r, y)
          /\ \A i \in DOMAIN AddHandled(h, <<t, n>>) :
               \/ AddHandled(h, <<t, n>>)[i] = <<t, n>>
               \/ \E j \in DOMAIN h : AddHandled(h, <<t, n>>)[i] = h[j]
          /\ r + Cardinality(y) <= MaxHandled =>
               \A x : IsHandled(h, x) \/ x = <<t, n>> => IsHandled(AddHandled(h, <<t, n>>), x)
      BY <3>2, AddHandledIdentities
    <3> QED BY <2>1, <3>1, <3>3
  <2> QED BY <1>1, <2>1, <2>2, Zenon
<1>6. \A x \in Types : Known(x)' \subseteq Known(x)
  BY <1>1 DEF Known, NoRequest
<1>7. OneType'
  <2>1. \A x \in Types : Known(x)' \subseteq 1 .. requests'
    BY <1>0, <1>1, <1>6 DEF OneType
  <2>2. \A x, y \in Types : x # y => Known(x)' \cap Known(y)' = {}
    BY <1>0, <1>6 DEF OneType
  <2>3. ASSUME NEW i \in DOMAIN handled', NEW x \in Types, handled'[i][2] \in Known(x)'
        PROVE  \/ handled'[i][1] = x
               \/ handled'[i][2] \in z /\ handled'[i][1] = "Retry"
    <3>1. CASE handled'[i] = <<t, n>>
      <4>1. x = u
        BY <1>0, <1>1, <1>6, <2>3, <3>1 DEF OneType
      <4> QED BY <1>1, <3>1, <4>1
    <3>2. CASE \E j \in DOMAIN handled : handled'[i] = handled[j]
      BY <1>0, <1>2, <1>6, <2>3, <3>2 DEF OneType
    <3> QED BY <1>5, <3>1, <3>2
  <2> QED BY <2>1, <2>2, <2>3 DEF OneType, z
<1>8. StartsListed'
  <2>1. SUFFICES ASSUME requests + Cardinality(z) <= MaxHandled, NEW m \in Nonces \ z
                 PROVE  \/ starts'[m] = 0
                        \/ starts'[m] = 1 /\ \E x \in Types : IsHandled(handled', <<x, m>>)
    BY <1>1 DEF StartsListed, z
  <2>2. requests + Cardinality(sameVersion) <= MaxHandled
    <3>1. IsFiniteSet(z)
      <4>1. IsFiniteSet(Nonces)
        BY FS_Interval, BoundAssumption DEF Nonces
      <4> QED BY <1>2, <4>1, FS_Subset
    <3>2. /\ Cardinality(z) \in Nat /\ Cardinality(sameVersion) \in Nat
          /\ Cardinality(sameVersion) <= Cardinality(z)
      BY <1>2, <3>1, FS_Subset, FS_CardinalityType
    <3> QED BY <1>0, <2>1, <3>2, BoundAssumption
  <2>3. starts[m] = 0 \/ (starts[m] = 1 /\ \E x \in Types : IsHandled(handled, <<x, m>>))
    BY <1>0, <1>2, <2>2 DEF StartsListed
  <2>4. CASE starts'[m] = starts[m]
    BY <1>5, <2>1, <2>3, <2>4
  <2>5. CASE starts'[m] # starts[m]
    <3>1. m = n /\ starts'[m] = starts[m] + 1
      BY <1>0, <1>1, <2>5
    <3>2. ~ \E x \in Types : IsHandled(handled, <<x, m>>)
      <4>1. SUFFICES ASSUME NEW x \in Types, NEW i \in DOMAIN handled, handled[i] = <<x, n>>
                     PROVE  FALSE
        BY <3>1 DEF IsHandled
      <4>2. handled[i][2] = n
        BY <4>1
      <4> QED BY <1>2, <1>3, <2>1, <3>1, <4>2
    <3>3. starts'[m] = 1
      BY <2>3, <3>1, <3>2
    <3> QED BY <1>5, <2>1, <3>1, <3>3
  <2> QED BY <2>4, <2>5
<1> QED BY <1>1, <1>5, <1>7, <1>8 DEF z

\* A request delivered again is one that was known.
LEMMA StartsReplay ==
  ASSUME StartsInv, NEW t \in Types, ReplayRequest(t)
  PROVE  (OneType /\ Identities(handled, requests, sameVersion) /\ StartsListed)'
<1>0. OneType /\ Identities(handled, requests, sameVersion) /\ StartsListed
      /\ request \in [Types -> Requests \cup {NoRequest}]
  BY DEF StartsInv, TypeOK, ResourceType
<1>1. /\ UNCHANGED <<last, requests, handled, starts, sameVersion>>
      /\ request' = [request EXCEPT ![t] = last[t]]
  BY DEF ReplayRequest, ghostVars
<1>2. \A x \in Types : Known(x)' \subseteq Known(x)
  BY <1>0, <1>1 DEF Known
<1>3. OneType'
  <2>1. \A x \in Types : Known(x)' \subseteq 1 .. requests'
    BY <1>0, <1>1, <1>2 DEF OneType
  <2>2. \A x, y \in Types : x # y => Known(x)' \cap Known(y)' = {}
    BY <1>0, <1>2 DEF OneType
  <2>3. ASSUME NEW i \in DOMAIN handled, NEW x \in Types, handled[i][2] \in Known(x)'
        PROVE  \/ handled[i][1] = x
               \/ handled[i][2] \in sameVersion /\ handled[i][1] = "Retry"
    BY <1>0, <1>2, <2>3 DEF OneType
  <2> QED BY <1>1, <2>1, <2>2, <2>3 DEF OneType
<1>4. Identities(handled, requests, sameVersion)' /\ StartsListed'
  BY <1>0, <1>1 DEF Identities, StartsListed
<1> QED BY <1>3, <1>4

\* Nothing else touches requests and the list.
LEMMA StartsFrame ==
  ASSUME RetryAIWorkloadCheck \/ Pass \/ Fault \/ Fleet \/ Environment \/ UNCHANGED vars
  PROVE  UNCHANGED <<request, last, requests, handled, starts, sameVersion>>
<1> USE DEF resourceVars, boundVars, ghostVars
<1>1. CASE RetryAIWorkloadCheck
  BY <1>1 DEF RetryAIWorkloadCheck
<1>2. CASE Pass
  BY <1>2 DEF Pass, ReadWorkload, Render, PersistStatus, BlueprintNotFound,
    StatusTerminal, StatusRequeues, OperationContinues, JournalTerminal,
    ProjectTerminal, ClearJournal
<1>3. CASE Fault
  BY <1>3 DEF Fault, ChartTooLarge, StatusTerminal, StatusFails, Abort
<1>4. CASE Fleet
  BY <1>4 DEF Fleet, FleetPropagate, FleetObserve, FleetApply
<1>5. CASE Environment
  BY <1>5 DEF Environment, EditSpec, EditBlueprint, EditRepo, DeadlinePasses
<1>6. CASE UNCHANGED vars
  BY <1>6 DEF vars
<1> QED BY <1>1, <1>2, <1>3, <1>4, <1>5, <1>6

LEMMA StartsStep == StartsInv /\ [Next]_vars => StartsInv'
<1> SUFFICES ASSUME StartsInv, [Next]_vars
             PROVE  (OneType /\ Identities(handled, requests, sameVersion) /\ StartsListed)'
  BY TypeNext DEF StartsInv
<1>1. CASE \E t \in Types, v \in Versions \cup {NoVersion} : SetRequestAnnotation(t, v)
  BY <1>1, StartsRequest
<1>2. CASE \E t \in Types : ReplayRequest(t)
  BY <1>2, StartsReplay
<1>3. CASE Trigger
  <2>1. PICK t \in Types, u \in Types, n \in Nonces, op \in {NoOp, journal'} :
          HandlesKnown(t, u, n, op)
    BY <1>3, TriggerHandles DEF StartsInv
  <2> QED BY <2>1, StartsTrigger
<1>4. CASE RetryAIWorkloadCheck \/ Pass \/ Fault \/ Fleet \/ Environment \/ UNCHANGED vars
  <2>1. UNCHANGED <<request, last, requests, handled, starts, sameVersion>>
    BY <1>4, StartsFrame
  <2>2. \A t \in Types : Known(t)' = Known(t)
    BY <2>1 DEF Known
  <2> QED BY <2>1, <2>2 DEF StartsInv, OneType, Identities, StartsListed
<1>5. \/ \E t \in Types, v \in Versions \cup {NoVersion} : SetRequestAnnotation(t, v)
      \/ \E t \in Types : ReplayRequest(t)
      \/ Trigger
      \/ RetryAIWorkloadCheck \/ Pass \/ Fault \/ Fleet \/ Environment \/ UNCHANGED vars
  <2>1. CASE Request
    BY <2>1 DEF Request, UpgradeAIWorkload, RollbackAIWorkload, RetryAIWorkloadSet, Types
  <2> QED BY <2>1 DEF Next
<1> QED BY <1>1, <1>2, <1>3, <1>4, <1>5

\* However often a request is delivered, and wherever passes die, it starts one
\* operation at most, as long as handled-ops has room for the identities of all
\* requests (the single Update of finishTrigger, addHandled, maxHandledOps).
THEOREM RequestStartsOnce == Spec => []NonceStartsOnce
<1>1. StartsInv => NonceStartsOnce
  <2> SUFFICES ASSUME StartsInv, AllRemembered, NEW n \in Nonces \ sameVersion
               PROVE  starts[n] <= 1
    BY DEF NonceStartsOnce
  <2> QED BY DEF StartsInv, StartsListed, AllRemembered
<1> QED BY <1>1, StartsInit, StartsStep, PTL DEF Spec

-----------------------------------------------------------------------------
(* What an outcome means                                                   *)

\* A step leaves the journal alone, starts an operation, or is one of two of the
\* three terminal writes.
LEMMA JournalStep ==
  ASSUME IInv, [Next]_vars
  PROVE  \/ journal' = journal
         \/ Trigger /\ InProgress(journal')
         \/ JournalTerminal
         \/ ClearJournal
<1>1. CASE Request \/ Fleet \/ Environment \/ UNCHANGED vars
  BY <1>1, OthersFrame
<1>2. CASE Trigger
  BY <1>2, TriggerFrame DEF IInv, NewOrSame
<1>3. CASE Pass \/ Fault
  <2>1. CASE ProjectTerminal
    BY <2>1 DEF ProjectTerminal, resourceVars
  <2> QED BY <1>3, <2>1, PassFrame DEF IInv
<1> QED BY <1>1, <1>2, <1>3 DEF Next

\* Only the first terminal write makes a success of an operation in progress.
LEMMA SuccessStep ==
  ASSUME IInv, [Next]_vars, InProgress(journal), journal'.state = "Succeeded"
  PROVE  /\ JournalTerminal /\ journal \in Ops
         /\ journal.intent = IntentDigest(spec) /\ Certified(journal)
<1>1. journal \in Ops
  BY OpStates DEF IInv, TypeOK, ResourceType
<1>2. JournalTerminal
  <2>1. InProgress(journal') => journal'.state # "Succeeded"
    BY DEF InProgress
  <2>2. ClearJournal => journal'.state # "Succeeded"
    BY DEF ClearJournal, NoOp
  <2>3. journal' # journal
    BY DEF InProgress
  <2> QED BY <2>1, <2>2, <2>3, JournalStep
<1>3. journal' = [journal EXCEPT !.state = OperationOutcome(journal)]
  BY <1>2 DEF JournalTerminal
<1>4. OperationOutcome(journal) = "Succeeded"
  BY <1>1, <1>3 DEF Ops
<1>5. journal.intent = IntentDigest(spec)
  BY <1>4, Zenon DEF OperationOutcome
<1>6. Certified(journal)
  BY <1>4, <1>5, Zenon DEF OperationOutcome
<1> QED BY <1>1, <1>2, <1>5, <1>6

\* An operation is never Succeeded for a spec that was edited away: the intent
\* digest is compared with the spec of the very object that is written.
THEOREM SuccessIsOfSpec == Spec => SuccessMatchesSpec
<1>1. IInv /\ [Next]_vars =>
        [InProgress(journal) /\ journal'.state = "Succeeded"
           => journal.intent = IntentDigest(spec)]_vars
  BY SuccessStep
<1> QED BY <1>1, IInvInit, IInvNext, PTL DEF Spec, SuccessMatchesSpec

\* Epochs only travel from the workload to Fleet and are never ahead of it, and a
\* retry in the journal is the one that started the current epoch.
EpochInv ==
  /\ pc = "render" => read.epoch <= epoch
  /\ helmOp.epoch <= epoch /\ bundle.epoch <= epoch /\ bundle.sync <= epoch
  /\ journal.type = "Retry" => journal.epoch = epoch

LEMMA EpochInit == Init => EpochInv
<1> SUFFICES ASSUME Init PROVE EpochInv
  OBVIOUS
<1>1. pc = "idle" /\ epoch = 0 /\ helmOp = NoHelmOp /\ bundle = NoBundle /\ journal = NoOp
  BY DEF Init
<1> QED BY <1>1 DEF EpochInv, NoHelmOp, NoBundle, NoOp

LEMMA EpochStep == TypeOK /\ EpochInv /\ [Next]_vars => EpochInv'
<1> SUFFICES ASSUME TypeOK, EpochInv, [Next]_vars PROVE EpochInv'
  OBVIOUS
<1>0. /\ epoch \in Nat /\ journal \in Ops \cup {NoOp}
      /\ helmOp \in [digest : Digests, epoch : 0 .. MaxEpoch] \cup {NoHelmOp}
      /\ bundle \in [digest : Digests \cup {NoDigest}, epoch : 0 .. MaxEpoch,
                 observed : BOOLEAN, applied : BOOLEAN,
                 state : {"None", "Ready", "ErrApplied"}, sync : 0 .. MaxEpoch]
      /\ helmOp.epoch \in Nat /\ bundle.epoch \in Nat /\ bundle.sync \in Nat
      /\ pc = "render" => read.epoch \in Nat
  <2>1. /\ epoch \in 0 .. MaxEpoch /\ journal \in Ops \cup {NoOp}
        /\ helmOp \in [digest : Digests, epoch : 0 .. MaxEpoch] \cup {NoHelmOp}
        /\ bundle \in [digest : Digests \cup {NoDigest}, epoch : 0 .. MaxEpoch,
                 observed : BOOLEAN, applied : BOOLEAN,
                 state : {"None", "Ready", "ErrApplied"}, sync : 0 .. MaxEpoch]
        /\ pc = "render" => read \in [version : Versions, targets : Targets, epoch : 0 .. MaxEpoch]
    BY DEF TypeOK, ResourceType, ClusterType, PassType
  <2>2. \A e \in 0 .. MaxEpoch : e \in Nat
    BY BoundAssumption
  <2>3. helmOp.epoch \in 0 .. MaxEpoch
    BY <2>1, BoundAssumption DEF NoHelmOp
  <2>4. pc = "render" => read.epoch \in 0 .. MaxEpoch
    BY <2>1
  <2> QED BY <2>1, <2>2, <2>3, <2>4
<1> DEFINE Same == UNCHANGED <<epoch, helmOp, bundle>> /\ (pc' = "render" => pc = "render" /\ read' = read)
<1>a. ASSUME Same, journal' = journal \/ journal' = NoOp
             \/ (journal'.type = journal.type /\ journal'.epoch = journal.epoch)
      PROVE  EpochInv'
  BY <1>a DEF EpochInv, NoOp
<1> USE DEF resourceVars, fleetVars, passVars
<1>1. CASE Request
  BY <1>1, <1>a DEF Request, UpgradeAIWorkload, RollbackAIWorkload, SetRequestAnnotation,
    RetryAIWorkloadCheck, RetryAIWorkloadSet, ReplayRequest
<1>2. CASE Trigger
  <2>1. ASSUME NEW n, StartRetry(n) PROVE EpochInv'
    <3>1. /\ epoch' = epoch + 1 /\ journal'.epoch = epoch + 1
          /\ UNCHANGED <<helmOp, bundle, pc, read>>
      BY <2>1 DEF StartRetry, FinishTrigger, NoOp
    <3> QED BY <1>0, <3>1 DEF EpochInv
  <2>2. ASSUME NEW t \in {"Upgrade", "Rollback"}, NEW n, NEW v, NEW d, StartVersionOp(t, n, v, d)
        PROVE EpochInv'
    <3>1. journal'.type = t /\ UNCHANGED <<epoch, helmOp, bundle, pc, read>>
      BY <2>2 DEF StartVersionOp, FinishTrigger, NoOp
    <3> QED BY <3>1 DEF EpochInv
  <2>3. CASE TriggerUpgrade
    BY <2>1, <2>2, <2>3 DEF TriggerUpgrade
  <2>4. CASE TriggerRollback
    <3>1. CASE UNCHANGED epoch /\ FinishTrigger("Rollback",
                 HandledID("Rollback", request["Rollback"].nonce), NoOp)
      BY <3>1, <1>a DEF FinishTrigger
    <3> QED BY <2>2, <2>4, <3>1 DEF TriggerRollback
  <2>5. CASE TriggerRetry
    BY <2>1, <2>5 DEF TriggerRetry
  <2> QED BY <1>2, <2>3, <2>4, <2>5 DEF Trigger
<1>3. CASE Pass
  <2>1. CASE ReadWorkload
    <3>1. read'.epoch = epoch /\ UNCHANGED <<epoch, helmOp, bundle, journal>>
      BY <2>1 DEF ReadWorkload
    <3> QED BY <1>0, <3>1 DEF EpochInv
  <2>2. CASE Render
    <3>1. /\ pc = "render" /\ pc' = "status" /\ helmOp'.epoch = read.epoch
          /\ UNCHANGED <<epoch, bundle, journal>>
      BY <2>2 DEF Render
    <3> QED BY <3>1 DEF EpochInv
  <2>3. CASE PersistStatus \/ BlueprintNotFound \/ StatusRequeues \/ OperationContinues
    BY <2>3, <1>a DEF PersistStatus, BlueprintNotFound, StatusTerminal, StatusRequeues,
      OperationContinues, EndPass
  <2>4. CASE JournalTerminal
    <3>1. journal \in Ops /\ journal' = [journal EXCEPT !.state = OperationOutcome(journal)] /\ Same
      BY <1>0, <2>4 DEF JournalTerminal
    <3>2. journal'.type = journal.type /\ journal'.epoch = journal.epoch
      BY <3>1 DEF Ops
    <3> QED BY <1>a, <3>1, <3>2
  <2>5. CASE ProjectTerminal \/ ClearJournal
    BY <2>5, <1>a DEF ProjectTerminal, ClearJournal, EndPass
  <2> QED BY <1>3, <2>1, <2>2, <2>3, <2>4, <2>5 DEF Pass
<1>4. CASE Fault
  BY <1>4, <1>a DEF Fault, ChartTooLarge, StatusTerminal, StatusFails, Abort, EndPass
<1>5. CASE Fleet
  <2>1. /\ UNCHANGED <<epoch, helmOp, journal, pc, read>>
        /\ bundle'.epoch \in {bundle.epoch, helmOp.epoch}
        /\ bundle'.sync \in {bundle.sync, bundle.epoch}
    BY <1>0, <1>5 DEF Fleet, FleetPropagate, FleetObserve, FleetApply
  <2> QED BY <2>1 DEF EpochInv
<1>6. CASE Environment
  BY <1>6, <1>a DEF Environment, EditSpec, EditBlueprint, EditRepo, DeadlinePasses
<1>7. CASE UNCHANGED vars
  BY <1>7, <1>a DEF vars
<1> QED BY <1>1, <1>2, <1>3, <1>4, <1>5, <1>6, <1>7 DEF Next

\* A retry succeeds only on the synchronisation it asked for: the sync generation
\* certifiedRetry compares can neither be of a later epoch nor of an earlier one.
THEOREM RetrySucceedsOnEpoch == Spec => RetrySucceedsOnOwnEpoch
<1>1. IInv /\ EpochInv /\ [Next]_vars =>
        [InProgress(journal) /\ journal'.state = "Succeeded" /\ journal.type = "Retry"
           => journal.epoch = epoch /\ bundle.sync = epoch]_vars
  <2> SUFFICES ASSUME IInv, EpochInv, [Next]_vars, InProgress(journal),
                      journal'.state = "Succeeded", journal.type = "Retry"
               PROVE  journal.epoch = epoch /\ bundle.sync = epoch
    OBVIOUS
  <2>1. Certified(journal)
    BY SuccessStep
  <2>2. bundle.sync >= journal.epoch
    BY <2>1 DEF Certified
  <2>3. epoch \in 0 .. MaxEpoch /\ bundle.sync \in 0 .. MaxEpoch
    BY DEF IInv, TypeOK, ResourceType, ClusterType
  <2> QED BY <2>2, <2>3, BoundAssumption DEF EpochInv
<1>2. IInv => TypeOK
  BY DEF IInv
<1> QED BY <1>1, <1>2, IInvInit, IInvNext, EpochInit, EpochStep, PTL
        DEF Spec, RetrySucceedsOnOwnEpoch

\* The certificate of an operation whose target was not deployed when it started
\* was given since.
CertInv ==
  InProgress(journal) /\ journal.type # "Retry" /\ ~atDeployed
    /\ deployed.version = journal.target => freshCert

LEMMA CertStep == IInv /\ CertInv /\ [Next]_vars => CertInv'
<1> SUFFICES ASSUME IInv, CertInv, [Next]_vars PROVE CertInv'
  OBVIOUS
<1>0. freshCert \in BOOLEAN /\ atDeployed \in BOOLEAN
  BY DEF IInv, TypeOK, BookkeepingType
<1>a. ASSUME UNCHANGED <<journal, deployed, atDeployed>>, freshCert => freshCert'
      PROVE  CertInv'
  BY <1>a DEF CertInv, InProgress
<1>b. ASSUME ~InProgress(journal') PROVE CertInv'
  BY <1>b DEF CertInv, InProgress
<1> USE DEF resourceVars, statusVars, ghostVars
<1>1. CASE Request
  BY <1>1, <1>a DEF Request, UpgradeAIWorkload, RollbackAIWorkload, SetRequestAnnotation,
    RetryAIWorkloadCheck, RetryAIWorkloadSet, ReplayRequest
<1>2. CASE Trigger
  <2>1. ASSUME NEW n, StartRetry(n) PROVE CertInv'
    <3>1. journal'.type = "Retry"
      BY <2>1 DEF StartRetry, FinishTrigger, NoOp
    <3> QED BY <3>1 DEF CertInv
  <2>2. ASSUME NEW t \in {"Upgrade", "Rollback"}, NEW n, NEW v, NEW d, StartVersionOp(t, n, v, d)
        PROVE CertInv'
    <3>1. journal'.target = v /\ deployed' = deployed /\ atDeployed' = (v = deployed.version)
      BY <2>2 DEF StartVersionOp, FinishTrigger, NoOp
    <3> QED BY <3>1 DEF CertInv
  <2>3. CASE TriggerUpgrade
    BY <2>1, <2>2, <2>3 DEF TriggerUpgrade
  <2>4. CASE TriggerRollback
    <3>1. CASE FinishTrigger("Rollback", HandledID("Rollback", request["Rollback"].nonce), NoOp)
      BY <3>1, <1>a DEF FinishTrigger
    <3> QED BY <2>2, <2>4, <3>1 DEF TriggerRollback
  <2>5. CASE TriggerRetry
    BY <2>1, <2>5 DEF TriggerRetry
  <2> QED BY <1>2, <2>3, <2>4, <2>5 DEF Trigger
<1>3. CASE Pass
  <2>1. CASE PersistStatus
    <3>1. CASE BundleCertified(expect)
      <4>1. freshCert'
        BY <2>1, <3>1 DEF PersistStatus, BundleCertified, BundleRenderCurrent, RolledOut
      <4> QED BY <4>1 DEF CertInv
    <3>2. CASE ~BundleCertified(expect)
      BY <1>a, <2>1, <3>2 DEF PersistStatus
    <3> QED BY <3>1, <3>2
  <2>2. CASE ReadWorkload \/ Render \/ BlueprintNotFound \/ StatusRequeues
             \/ OperationContinues \/ ProjectTerminal
    BY <1>a, <2>2 DEF ReadWorkload, Render, BlueprintNotFound, StatusTerminal,
      StatusRequeues, OperationContinues, ProjectTerminal
  <2>3. CASE JournalTerminal
    <3>1. /\ journal \in Ops /\ OperationOutcome(journal) # "InProgress"
          /\ journal' = [journal EXCEPT !.state = OperationOutcome(journal)]
      BY <2>3 DEF JournalTerminal, IInv, TypeOK, ResourceType
    <3> QED BY <1>b, <3>1 DEF Ops, InProgress
  <2>4. CASE ClearJournal
    BY <1>b, <2>4, OpStates DEF ClearJournal, InProgress
  <2> QED BY <1>3, <2>1, <2>2, <2>3, <2>4 DEF Pass
<1>4. CASE Fault
  <2>1. CASE ChartTooLarge
    BY <1>a, <2>1 DEF ChartTooLarge, StatusTerminal
  <2>2. CASE StatusFails
    <3>1. UNCHANGED <<journal, deployed, atDeployed, freshCert>>
      BY <2>2 DEF StatusFails
    <3> QED BY <1>a, <3>1
  <2>3. CASE Abort
    BY <1>a, <2>3 DEF Abort
  <2> QED BY <1>4, <2>1, <2>2, <2>3 DEF Fault
<1>5. CASE Fleet
  BY <1>5, <1>a DEF Fleet, FleetPropagate, FleetObserve, FleetApply
<1>6. CASE Environment
  BY <1>6, <1>a DEF Environment, EditSpec, EditBlueprint, EditRepo, DeadlinePasses
<1>7. CASE UNCHANGED vars
  BY <1>7, <1>a DEF vars
<1> QED BY <1>1, <1>2, <1>3, <1>4, <1>5, <1>6, <1>7 DEF Next

\* An upgrade or a rollback to a version that was not certified when it started
\* succeeds only on a rollout of that version seen since (certifiedVersion,
\* bundleCertified).
THEOREM SuccessRollsOut == Spec => SuccessIsRolledOut
<1>1. Init => CertInv
  BY OpStates DEF Init, CertInv
<1>2. IInv /\ CertInv /\ [Next]_vars =>
        [InProgress(journal) /\ journal'.state = "Succeeded" /\ journal.type # "Retry"
           /\ ~atDeployed => freshCert]_vars
  <2> SUFFICES ASSUME IInv, CertInv, [Next]_vars, InProgress(journal),
                      journal'.state = "Succeeded", journal.type # "Retry", ~atDeployed
               PROVE  freshCert
    OBVIOUS
  <2>1. Certified(journal)
    BY SuccessStep
  <2> QED BY <2>1 DEF CertInv, Certified
<1> QED BY <1>1, <1>2, IInvInit, IInvNext, CertStep, PTL DEF Spec, SuccessIsRolledOut

\* What the journal holds has been started.
JournalStarted == journal # NoOp => starts[journal.nonce] >= 1

\* What a step does to the journal's nonce and the starts.
LEMMA StartedFrame ==
  ASSUME IInv, [Next]_vars
  PROVE  \/ /\ UNCHANGED starts /\ (Trigger => journal' = journal)
            /\ journal' = NoOp \/ (journal # NoOp /\ journal'.nonce = journal.nonce)
         \/ /\ Trigger /\ requests' = requests
            /\ journal' \in Ops /\ starts' = [starts EXCEPT ![journal'.nonce] = @ + 1]
<1>0. journal \in Ops \cup {NoOp} /\ journal' \in Ops \cup {NoOp}
  BY TypeNext DEF IInv, TypeOK, ResourceType
<1>1. CASE Trigger
  <2>1. ASSUME NEW ann, NEW id, NEW op, FinishTrigger(ann, id, op), op # NoOp
        PROVE  /\ journal' = op /\ starts' = [starts EXCEPT ![op.nonce] = @ + 1]
               /\ requests' = requests
    BY <2>1 DEF FinishTrigger, boundVars
  <2>2. ASSUME NEW t, NEW n, NEW v, NEW d, StartVersionOp(t, n, v, d)
        PROVE  /\ journal' # NoOp /\ starts' = [starts EXCEPT ![journal'.nonce] = @ + 1]
               /\ requests' = requests
    BY <2>1, <2>2 DEF StartVersionOp, NoOp
  <2>3. ASSUME NEW n, StartRetry(n)
        PROVE  /\ journal' # NoOp /\ starts' = [starts EXCEPT ![journal'.nonce] = @ + 1]
               /\ requests' = requests
    BY <2>1, <2>3 DEF StartRetry, NoOp
  <2>4. \/ UNCHANGED <<starts, journal>>
        \/ /\ journal' # NoOp /\ starts' = [starts EXCEPT ![journal'.nonce] = @ + 1]
           /\ requests' = requests
    <3>1. CASE TriggerUpgrade
      BY <2>2, <2>3, <3>1 DEF TriggerUpgrade
    <3>2. CASE TriggerRollback
      <4>1. CASE FinishTrigger("Rollback", HandledID("Rollback", request["Rollback"].nonce), NoOp)
        BY <4>1 DEF FinishTrigger
      <4> QED BY <2>2, <3>2, <4>1 DEF TriggerRollback
    <3>3. CASE TriggerRetry
      BY <2>3, <3>3 DEF TriggerRetry
    <3> QED BY <1>1, <3>1, <3>2, <3>3 DEF Trigger
  <2> QED BY <1>0, <1>1, <2>4
<1>2. CASE ~Trigger
  <2>1. UNCHANGED starts
    <3>1. CASE Request
      BY <3>1 DEF Request, UpgradeAIWorkload, RollbackAIWorkload, SetRequestAnnotation,
        RetryAIWorkloadCheck, RetryAIWorkloadSet, ReplayRequest, ghostVars
    <3> QED BY <1>2, <3>1, StartsFrame DEF Next
  <2>2. CASE JournalTerminal
    <3>1. journal \in Ops /\ journal' = [journal EXCEPT !.state = OperationOutcome(journal)]
      BY <1>0, <2>2 DEF JournalTerminal
    <3> QED BY <1>2, <2>1, <3>1, OpStates DEF Ops
  <2>3. CASE ClearJournal
    BY <1>2, <2>1, <2>3 DEF ClearJournal
  <2> QED BY <1>2, <2>1, <2>2, <2>3, JournalStep
<1> QED BY <1>1, <1>2

LEMMA JournalStartedStep == IInv /\ JournalStarted /\ [Next]_vars => JournalStarted'
<1> SUFFICES ASSUME IInv, JournalStarted, [Next]_vars PROVE JournalStarted'
  OBVIOUS
<1>0. starts \in [Nonces -> Nat]
  BY DEF IInv, TypeOK, BookkeepingType
<1>1. CASE UNCHANGED starts /\ (journal' = NoOp \/ (journal # NoOp /\ journal'.nonce = journal.nonce))
  BY <1>1 DEF JournalStarted
<1>2. CASE journal' \in Ops /\ starts' = [starts EXCEPT ![journal'.nonce] = @ + 1]
  <2>1. journal'.nonce \in Nonces
    BY <1>2 DEF Ops
  <2>2. starts'[journal'.nonce] = starts[journal'.nonce] + 1 /\ starts[journal'.nonce] \in Nat
    BY <1>0, <1>2, <2>1
  <2> QED BY <2>2 DEF JournalStarted
<1> QED BY <1>1, <1>2, StartedFrame

\* What a terminal write recorded is never rewritten or reopened, and leaves the
\* journal only for the status (reconcileOperation, finishTrigger).
THEOREM OutcomeIsFinal == Spec => OutcomeFinal
<1>1. Init => JournalStarted
  BY DEF Init, JournalStarted
<1>2. IInv /\ JournalStarted /\ StartsInv /\ StartsInv' /\ [Next]_vars =>
        [/\ Terminal(journal) /\ journal'.nonce = journal.nonce
            /\ AllRemembered' /\ journal.nonce \notin sameVersion'
            => journal' = journal
         /\ journal # NoOp /\ journal' = NoOp => Terminal(journal) /\ active = journal]_vars
  <2> SUFFICES ASSUME IInv, JournalStarted, StartsInv, StartsInv', [Next]_vars
               PROVE  /\ Terminal(journal) /\ journal'.nonce = journal.nonce
                         /\ AllRemembered' /\ journal.nonce \notin sameVersion'
                         => journal' = journal
                      /\ journal # NoOp /\ journal' = NoOp => Terminal(journal) /\ active = journal
    OBVIOUS
  <2>0. /\ journal \in Ops \cup {NoOp} /\ starts \in [Nonces -> Nat]
        /\ journal' \in Ops \cup {NoOp}
    BY TypeNext DEF IInv, TypeOK, ResourceType, BookkeepingType
  <2>1. CASE journal' = journal
    BY <2>1
  <2>2. CASE Trigger /\ InProgress(journal')
    <3>1. journal' # NoOp
      BY <2>2, OpStates
    <3>2. SUFFICES ASSUME Terminal(journal), journal'.nonce = journal.nonce,
                          AllRemembered', journal.nonce \notin sameVersion'
                   PROVE  FALSE
      BY <3>1
    <3>3. journal # NoOp /\ journal \in Ops /\ journal.nonce \in Nonces
      BY <2>0, <3>2, OpStates DEF Ops
    <3>4. starts[journal.nonce] \in Nat /\ starts[journal.nonce] >= 1
      BY <2>0, <3>3 DEF JournalStarted
    <3>5. starts'[journal.nonce] = 0 \/ starts'[journal.nonce] = 1
      BY <3>2, <3>3 DEF StartsInv, StartsListed, AllRemembered
    <3>6. CASE starts' = [starts EXCEPT ![journal'.nonce] = @ + 1]
      BY <2>0, <3>2, <3>3, <3>4, <3>5, <3>6
    <3>7. journal' # journal
      BY <2>2, <3>2, <3>3, OpStates
    <3> QED BY <2>2, <3>6, <3>7, StartedFrame
  <2>3. CASE JournalTerminal
    <3>1. journal \in Ops /\ journal' = [journal EXCEPT !.state = OperationOutcome(journal)]
      BY <2>0, <2>3 DEF JournalTerminal
    <3>2. journal' # NoOp
      BY <3>1, <2>3, OpStates DEF JournalTerminal, NoOp, Ops, Types
    <3>3. Terminal(journal) => journal' = journal
      <4>1. ASSUME Terminal(journal) PROVE OperationOutcome(journal) = journal.state
        BY <3>1, <4>1, OpStates DEF OperationOutcome
      <4> QED BY <3>1, <4>1 DEF Ops
    <3> QED BY <3>2, <3>3
  <2>4. CASE ClearJournal
    <3>1. pc = "clear" /\ journal' = NoOp
      BY <2>4 DEF ClearJournal
    <3>2. Terminal(journal) /\ active = journal
      BY <3>1 DEF IInv, TerminalWrites
    <3>3. journal'.nonce # journal.nonce
      BY <2>0, <3>1, <3>2, OpStates, BoundAssumption DEF NoOp, NoNonce, Ops, Nonces
    <3> QED BY <3>2, <3>3
  <2> QED BY <2>1, <2>2, <2>3, <2>4, JournalStep
<1> QED BY <1>1, <1>2, IInvInit, IInvNext, StartsInit, StartsStep, JournalStartedStep, PTL
        DEF Spec, OutcomeFinal

-----------------------------------------------------------------------------
(* Refinement *)

\* A step that leaves journal and projection alone leaves the current
\* operation alone.
LEMMA SameCurrent ==
  UNCHANGED <<journal, active>> => UNCHANGED CurrentOperation
  BY DEF CurrentOperation

\* Every step of the journal protocol is a step of the lifecycle: the trigger
\* starts, the first terminal write finishes, a projection may retire, and
\* everything else, the other two terminal writes included, is invisible.
LEMMA StepRefines ==
  IInv /\ [Next]_vars => [Lifecycle!Next]_<<CurrentOperation, started>>
<1> SUFFICES ASSUME IInv, [Next]_vars
             PROVE  [Lifecycle!Next]_<<CurrentOperation, started>>
  OBVIOUS
<1>0. /\ TypeOK /\ journal \in Ops \cup {NoOp} /\ active \in Ops \cup {NoOp}
      /\ journal' \in Ops \cup {NoOp} /\ active' \in Ops \cup {NoOp}
  BY TypeNext DEF IInv, TypeOK, ResourceType, StatusType
<1>1. CASE Request \/ Fleet \/ Environment \/ UNCHANGED vars
  BY <1>1, OthersFrame, SameCurrent
<1>2. CASE Trigger
  <2>1. CASE UNCHANGED <<journal, started>>
    BY <1>0, <1>2, <2>1, TriggerFrame, SameCurrent
  <2>2. CASE /\ InProgress(journal') /\ started' = started + 1
             /\ journal'.requestedAt = started'
    <3>1. journal' \in Ops /\ CurrentOperation' = journal'
      BY <1>0, <2>2, OpStates DEF CurrentOperation
    <3> QED BY <2>2, <3>1
            DEF Lifecycle!Next, Lifecycle!Start, Lifecycle!Running, InProgress
  <2> QED BY <1>0, <1>2, <2>1, <2>2, TriggerFrame DEF NewOrSame
<1>3. CASE Pass \/ Fault
  <2>1. CASE UNCHANGED <<journal, active, started>>
    BY <2>1, SameCurrent
  <2>2. CASE ProjectOperation /\ UNCHANGED <<journal, started>>
    <3>1. CASE journal # NoOp \/ active' = active
      BY <2>2, <3>1 DEF CurrentOperation
    <3>2. CASE journal = NoOp /\ active' # active
      <4>1. Terminal(active) /\ active' = NoOp /\ active \in Ops
        BY <1>0, <2>2, <3>2, OpStates DEF ProjectOperation
      <4>2. CurrentOperation = active /\ CurrentOperation' = NoOp
        BY <2>2, <3>2, <4>1 DEF CurrentOperation
      <4>3. active # NoOp /\ ~InProgress(active)
        BY <4>1, OpStates
      <4> QED BY <2>2, <4>2, <4>3
              DEF Lifecycle!Next, Lifecycle!Retire, Lifecycle!Running, InProgress
    <3> QED BY <3>1, <3>2
  <2>3. CASE JournalTerminal
    <3>1. /\ journal \in Ops
          /\ journal' = [journal EXCEPT !.state = OperationOutcome(journal)]
      BY <1>0, <2>3 DEF JournalTerminal
    <3>2. OperationOutcome(journal) \in TerminalStates
      BY <2>3, <3>1 DEF JournalTerminal, OperationOutcome, Ops, InProgress,
                        TerminalStates
    <3>3. journal' # NoOp
      BY <3>1, <3>2 DEF NoOp, TerminalStates, Ops
    <3>4. CurrentOperation = journal /\ CurrentOperation' = journal'
      BY <2>3, <3>3 DEF CurrentOperation, JournalTerminal
    <3> USE <2>3 DEF JournalTerminal, ghostVars
    <3>5. CASE InProgress(journal)
      BY <3>1, <3>2, <3>4, <3>5 DEF Lifecycle!Next, Lifecycle!Finish,
         Lifecycle!Running, InProgress, TerminalStates
    <3>6. CASE ~InProgress(journal)
      <4>1. OperationOutcome(journal) = journal.state
        BY <3>6 DEF OperationOutcome
      <4>2. journal' = journal
        BY <3>1, <4>1 DEF Ops
      <4> QED BY <3>4, <4>2
    <3> QED BY <3>5, <3>6
  <2>4. CASE ProjectTerminal
    <3>1. journal \in Ops /\ journal # NoOp /\ journal' = journal
      BY <1>0, <2>4, OpStates DEF ProjectTerminal, IInv, TerminalWrites,
                                  resourceVars
    <3> QED BY <2>4, <3>1 DEF CurrentOperation, ProjectTerminal, ghostVars
  <2>5. CASE ClearJournal
    BY <2>5 DEF ClearJournal, IInv, TerminalWrites, CurrentOperation, statusVars
  <2> QED BY <1>0, <1>3, <2>1, <2>2, <2>3, <2>4, <2>5, PassFrame
<1> QED BY <1>1, <1>2, <1>3 DEF Next

\* The journal protocol implements the lifecycle: one operation at a time, one
\* final outcome for each.
THEOREM Refinement == Spec => RefinesLifecycle
<1>1. Init => Lifecycle!Init
  BY DEF Init, Lifecycle!Init, CurrentOperation
<1> QED BY <1>1, IInvInit, IInvNext, StepRefines, PTL
        DEF Spec, RefinesLifecycle, Lifecycle!Spec, Lifecycle!vars
=============================================================================
