----------------------- MODULE ReadinessClocksProofs -----------------------
(***************************************************************************)
(* Proofs about ReadinessClocks, for all sources and versions, both        *)
(* timeouts and every bound: type correctness, and that no wait is timed   *)
(* out before its time as long as no release was made to give way and the  *)
(* first status with a revision was not lost.                              *)
(***************************************************************************)
EXTENDS ReadinessClocks, TLAPS

\* So far a revision number tells rollouts apart.
OneWorld == ~excused

\* The steps before a pass records the revision it found.
Early == {"stale", "prepare", "ensure", "pending", "restart"}

\* A live clock has not run longer than the wait it measures.
Earned(c) == markers[c] # None => since[c] # None /\ markers[c] <= since[c]

Source == spec.source

\* Helm installed each release once at most, and knows it if it did.
RecordsOK ==
  \A r \in Sources :
    /\ helm[r].installs = IF helm[r].revision = 0 THEN 0 ELSE 1
    /\ helm[r].version # None \/ helm[r].pending => helm[r].revision # 0

\* No release gives way: everything is about the one of the spec.
OneSource ==
  /\ pc # "idle" => read.source = Source
  /\ {status.kind, mine.kind} \subseteq {"None", Kind(Source)}
  /\ {status.release, mine.release} \subseteq {None, Source}
  /\ timed.revision # 0 => timed.release = Source /\ timed.install = 1
  /\ timed.revision <= helm[Source].revision

\* A revision is recorded once a pass saw it, and by the pass that starts a
\* clock; it is not lost.
RecordedInv ==
  /\ status.revision <= timed.revision /\ mine.revision <= timed.revision
  /\ pc = "idle" => mine.revision = 0
  /\ pc \in Early => mine.revision = status.revision
  /\ pc # "idle" /\ status.revision # 0 => mine.revision # 0
  /\ pc \in {"deployment", "service", "publish"} => mine.revision # 0
  /\ pc = "restart" \/ answer = "nil" => helm[Source].revision # 0
  /\ (\E c \in Readiness : markers[c] # None)
       => status.revision # 0 \/ mine.revision # 0

\* A clock is about the rollout the last pass saw, or the revision recorded
\* tells the next pass that it is not.
ReadinessInv ==
  \A c \in Readiness :
    \/ Earned(c)
    \/ /\ pc \in Early \cup {"idle", "close", "persist"}
       /\ status.revision # 0 /\ status.revision < timed.revision
       /\ pc # "idle" => mine.revision = status.revision

\* What a pass concluded is in its Ready condition, unless it waits for the
\* deployment or the Service, when there is no wait for Helm.
PendingInv ==
  /\ Earned("pending")
  /\ pc \in {"restart", "publish"} \cup Readiness => markers["pending"] = None
  /\ pc = "close" =>
       IF outcome = "Waiting" THEN markers["pending"] = None
       ELSE mine.ready = outcome
  /\ pc \notin {"close", "persist"} => outcome = "None"

Inv == TypeOK /\ RecordsOK /\ OneSource /\ RecordedInv /\ ReadinessInv /\ PendingInv

-----------------------------------------------------------------------------
(* Lemmas about the operators of the model *)

\* An age that is set or cleared, or grows, stays an age.
LEMMA AgeTypes ==
  ASSUME NEW a \in Ages
  PROVE  /\ \A c \in Clocks : Set(a, c, 0) \in Ages
         /\ \A cs : Clear(a, cs) \in Ages
         /\ Older(a) \in Ages
<1>1. \A c \in Clocks : Set(a, c, 0) \in Ages
  BY DEF Set, Ages
<1>2. \A cs : Clear(a, cs) \in Ages
  BY DEF Clear, Ages
<1>3. Older(a) \in Ages
  <2>1. \A c \in Clocks : a[c] \in Nat \cup {None}
    BY DEF Ages
  <2>2. \A c \in Clocks : a[c] \in Nat => a[c] + 1 \in Nat
    OBVIOUS
  <2> QED BY <2>1, <2>2 DEF Older, Ages
<1> QED BY <1>1, <1>2, <1>3

\* What a new revision and an uninstallation leave of Helm's records.
LEMMA HelmTypes ==
  ASSUME helm \in [Sources -> Releases]
  PROVE  /\ \A r \in Sources, v \in Versions \cup {None}, p \in BOOLEAN :
              NewRevision(r, v, p) => helm' \in [Sources -> Releases]
         /\ \A rs : Uninstall(rs) => helm' \in [Sources -> Releases]
<1>1. ASSUME NEW r \in Sources, NEW v \in Versions \cup {None},
             NEW p \in BOOLEAN, NewRevision(r, v, p)
      PROVE  helm' \in [Sources -> Releases]
  <2>1. helm[r] \in Releases
    OBVIOUS
  <2>2. /\ helm[r].revision + 1 \in Nat
        /\ (IF helm[r].revision = 0 THEN helm[r].installs + 1
            ELSE helm[r].installs) \in Nat
    BY <2>1 DEF Releases
  <2>3. [revision |-> helm[r].revision + 1, version |-> v, pending |-> p,
         installs |-> IF helm[r].revision = 0 THEN helm[r].installs + 1
                      ELSE helm[r].installs] \in Releases
    BY <2>2, <1>1 DEF Releases
  <2> QED BY <2>3, <1>1 DEF NewRevision
<1>2. ASSUME NEW rs, Uninstall(rs)
      PROVE  helm' \in [Sources -> Releases]
  <2>1. \A r \in Sources :
          [revision |-> 0, version |-> None, pending |-> FALSE,
           installs |-> helm[r].installs] \in Releases
    BY DEF Releases
  <2> QED BY <2>1, <1>2 DEF Uninstall
<1> QED BY <1>1, <1>2

\* What a new revision does to each release.
LEMMA NewRevisionFacts ==
  ASSUME helm \in [Sources -> Releases], NEW r \in Sources, NEW v, NEW p,
         NewRevision(r, v, p)
  PROVE  \A s \in Sources :
           IF s = r
           THEN /\ helm'[s].revision = helm[s].revision + 1
                /\ helm'[s].version = v /\ helm'[s].pending = p
                /\ helm'[s].installs =
                     IF helm[s].revision = 0 THEN helm[s].installs + 1
                     ELSE helm[s].installs
           ELSE helm'[s] = helm[s]
  BY DEF NewRevision

\* Uninstalling nothing changes nothing.
LEMMA UninstallNothing ==
  ASSUME helm \in [Sources -> Releases], Uninstall({})
  PROVE  helm' = helm
  BY DEF Uninstall

-----------------------------------------------------------------------------
(* Type correctness *)

\* What the fields of a status may be set to.
LEMMA StatusTypes ==
  ASSUME NEW st \in Statuses
  PROVE  /\ \A v \in Reasons : [st EXCEPT !.ready = v] \in Statuses
         /\ \A n \in Nat : [st EXCEPT !.revision = n] \in Statuses
         /\ [st EXCEPT !.release = None, !.revision = 0] \in Statuses
         /\ \A v \in Reasons, k \in {"Helm", "Git"} :
              [st EXCEPT !.ready = v, !.kind = k] \in Statuses
         /\ \A c \in Charts : [st EXCEPT !.release = c] \in Statuses
  BY DEF Statuses

\* The initial state is well typed.
LEMMA InitTypeOK == Init => TypeOK
<1> SUFFICES ASSUME Init PROVE TypeOK
  OBVIOUS
<1>1. NoAges \in Ages
  BY DEF NoAges, Ages
<1>2. NoStatus \in Statuses /\ "None" \in Reasons
  BY DEF NoStatus, Statuses, Reasons, Waits
<1>3. helm \in [Sources -> Releases]
  <2>1. [revision |-> 0, version |-> None, pending |-> FALSE, installs |-> 0]
          \in Releases
    BY DEF Releases
  <2> QED BY <2>1 DEF Init
<1>4. /\ spec \in Specs /\ down \subseteq Readiness
      /\ pc = "idle" /\ read = None /\ fresh = TRUE /\ wrote = FALSE /\ answer = "none"
      /\ refused = FALSE /\ excused = FALSE /\ timed \in Rollouts
  BY DEF Init, NoRollout, Rollouts
<1>5. markers \in Ages /\ since \in Ages
  BY <1>1 DEF Init
<1>6. status \in Statuses /\ mine \in Statuses /\ outcome \in Reasons
  BY <1>2 DEF Init
<1>7. edits \in 0 .. MaxEdits /\ faults \in 0 .. MaxFaults
  BY BoundAssumption DEF Init
<1> QED BY <1>3, <1>4, <1>5, <1>6, <1>7 DEF TypeOK

\* Faults are counted up to their bound.
LEMMA FaultTypes ==
  ASSUME faults \in 0 .. MaxFaults, NEW happens, FaultIf(happens)
  PROVE  faults' \in 0 .. MaxFaults
  BY BoundAssumption DEF FaultIf

\* The step of a pass at one of its places keeps the types.
LEMMA PassTypeOK ==
  ASSUME TypeOK, Pass
  PROVE  TypeOK'
<1> USE DEF TypeOK
<1>r. pc # "idle" => read \in Specs /\ read.source \in Sources /\ read.version \in Versions
  BY DEF Specs
<1>0. /\ Clocks = {"deployment", "service", "pending"} /\ Readiness = {"deployment", "service"}
      /\ Reasons = {"Pending", "PendingTimedOut", "None", "TimedOut", "Failed", "Installed"}
  BY DEF Clocks, Readiness, Reasons, Waits
<1>1. CASE StartPass
  BY <1>1 DEF StartPass, history, bounds, Steps
<1>2. CASE CleanupStaleResources
  <2>1. CASE mine.kind \in {"None", Kind(read.source)}
    BY <1>2, <2>1 DEF CleanupStaleResources, history, Steps
  <2>2. CASE mine.kind \notin {"None", Kind(read.source)}
    <3> DEFINE old == IF mine.kind = "Git" THEN {Plugin} ELSE {mine.release} \ {None}
    <3>1. PICK gone \in SUBSET old, failed \in BOOLEAN :
            /\ FaultIf(failed \/ gone # old)
            /\ Uninstall(gone)
            /\ mine' = IF mine.kind = "Helm" /\ old # {}
                       THEN [mine EXCEPT !.release = None, !.revision = 0] ELSE mine
            /\ pc' = IF failed THEN "persist" ELSE "prepare"
      BY <1>2, <2>2 DEF CleanupStaleResources
    <3> HIDE DEF old
    <3>2. helm' \in [Sources -> Releases] /\ mine' \in Statuses
      BY <3>1, HelmTypes, StatusTypes
    <3>3. faults' \in 0 .. MaxFaults
      BY <3>1, FaultTypes
    <3> QED BY <1>2, <3>1, <3>2, <3>3 DEF CleanupStaleResources, history, Steps
  <2> QED BY <2>1, <2>2
<1>3. CASE Prepare
  <2> DEFINE old == IF Kind(read.source) = "Git" THEN {}
                    ELSE {mine.release} \ {None, read.source}
  <2>1. PICK gone \in SUBSET old, failed \in BOOLEAN :
          /\ FaultIf(failed \/ gone # old)
          /\ Uninstall(gone)
          /\ IF failed THEN Conclude("Failed")
             ELSE pc' = "ensure" /\ UNCHANGED <<mine, outcome>>
    BY <1>3 DEF Prepare
  <2> HIDE DEF old
  <2>2. /\ helm' \in [Sources -> Releases] /\ mine' \in Statuses
        /\ pc' \in {"close", "ensure"} /\ outcome' \in {"Failed", outcome}
    BY <2>1, <1>0, HelmTypes, StatusTypes DEF Conclude
  <2>3. faults' \in 0 .. MaxFaults
    BY <2>1, FaultTypes
  <2> QED BY <1>3, <1>0, <2>2, <2>3 DEF Prepare, history, Steps
<1>4. CASE EnsureRelease
  <2>1. helm' \in [Sources -> Releases]
    BY <1>4, <1>r, HelmTypes DEF EnsureRelease
  <2>2. faults' \in 0 .. MaxFaults
    BY <1>4, FaultTypes DEF EnsureRelease
  <2> QED BY <1>4, <2>1, <2>2 DEF EnsureRelease, history, Steps
<1>5. CASE ReleasePending
  <2>1. since' \in Ages /\ markers' \in Ages
    BY <1>5, <1>0, AgeTypes DEF ReleasePending, Lasting
  <2>2. mine' \in Statuses /\ outcome' \in Reasons \cup {"Waiting"}
        /\ pc' \in {"close", "persist"}
    BY <1>5, <1>0, StatusTypes DEF ReleasePending, Conclude, ReturnError
  <2> QED BY <1>5, <2>1, <2>2 DEF ReleasePending, UpdateMade, bounds, Steps
<1>6. CASE ReleaseSettled
  <2>1. since' \in Ages /\ markers' \in Ages /\ refused' \in BOOLEAN
    BY <1>6, AgeTypes DEF ReleaseSettled
  <2>2. Named(mine) \in Statuses
    BY <1>6, <1>r, StatusTypes DEF ReleaseSettled, Named, Kind, Sources
  <2>3. mine' \in Statuses /\ outcome' \in Reasons \cup {"Waiting"}
        /\ pc' \in {"close", "persist", "restart"}
    BY <1>6, <1>0, <2>2, StatusTypes DEF ReleaseSettled, Conclude, ReturnError
  <2> QED BY <1>6, <2>1, <2>3 DEF ReleaseSettled, UpdateMade, bounds, Steps
<1>7. CASE RestartReadinessClocks
  <2>1. helm[read.source] \in Releases
    BY <1>7, <1>r DEF RestartReadinessClocks
  <2>2. Rollout(read.source) \in Rollouts /\ helm[read.source].revision \in Nat
    BY <1>7, <1>r, <2>1 DEF RestartReadinessClocks, Rollout, Rollouts, Releases
  <2>3. since' \in Ages /\ markers' \in Ages /\ timed' \in Rollouts
    BY <1>7, <2>2, AgeTypes DEF RestartReadinessClocks
  <2>4. mine' \in Statuses /\ outcome' \in Reasons \cup {"Waiting"}
        /\ pc' \in {"deployment", "persist"}
    BY <1>7, <2>2, StatusTypes DEF RestartReadinessClocks, ReturnError
  <2> QED BY <1>7, <1>0, <2>3, <2>4 DEF RestartReadinessClocks, UpdateMade, bounds, Steps
<1>8. ASSUME NEW c \in Readiness, NEW next \in {"service", "publish"}, Await(c, next)
      PROVE  TypeOK'
  <2>1. since' \in Ages /\ markers' \in Ages
    BY <1>8, <1>0, AgeTypes DEF Await, Lasting
  <2>2. mine' \in Statuses /\ outcome' \in Reasons \cup {"Waiting"}
        /\ pc' \in {"close", "persist", "service", "publish"}
    BY <1>8, <1>0, StatusTypes DEF Await, Conclude, ReturnError
  <2>3. pc # "idle"
    BY <1>8, <1>0 DEF Await
  <2> QED BY <1>8, <1>0, <2>1, <2>2, <2>3 DEF Await, UpdateMade, bounds, Steps
<1>9. CASE Publish
  <2>1. mine' \in Statuses /\ outcome' \in Reasons \cup {"Waiting"} /\ pc' = "close"
    BY <1>9, <1>0, StatusTypes DEF Publish, Conclude, Kind
  <2>2. faults' \in 0 .. MaxFaults
    BY <1>9, FaultTypes DEF Publish
  <2> QED BY <1>9, <2>1, <2>2 DEF Publish, history, Steps
<1>10. CASE CloseWait
  <2>1. since' \in Ages /\ markers' \in Ages
    BY <1>10, AgeTypes DEF CloseWait
  <2> QED BY <1>10, <2>1 DEF CloseWait, UpdateMade, bounds, Steps
<1>11. CASE PersistStatus
  <2>1. NoStatus \in Statuses /\ "None" \in Reasons
    BY <1>0 DEF NoStatus, Statuses
  <2> QED BY <1>11, <2>1 DEF PersistStatus, EndPass, history, bounds
<1>12. CASE PersistRefused
  <2>1. NoStatus \in Statuses /\ "None" \in Reasons
    BY <1>0 DEF NoStatus, Statuses
  <2> QED BY <1>12, <2>1 DEF PersistRefused, EndPass, history, Excuse, bounds
<1> QED
  BY <1>0, <1>1, <1>2, <1>3, <1>4, <1>5, <1>6, <1>7, <1>8, <1>9, <1>10, <1>11, <1>12
     DEF Pass, AwaitDeployment, AwaitService

\* A step of the environment, or a pass that is cut short, keeps the types.
LEMMA OtherTypeOK ==
  ASSUME TypeOK, Next, ~Pass
  PROVE  TypeOK'
<1> USE DEF TypeOK
<1>n. NoStatus \in Statuses /\ "None" \in Reasons
  BY DEF NoStatus, Statuses, Reasons, Waits
<1>1. CASE CallFails
  BY <1>1, FaultTypes DEF CallFails, ReturnError, history, Steps
<1>2. CASE Interrupted
  <2>1. helm' \in [Sources -> Releases]
    BY <1>2, HelmTypes DEF Interrupted, Specs
  <2> QED BY <1>2, <1>n, FaultTypes, <2>1 DEF Interrupted, EndPass, history, Excuse
<1>3. CASE EditSpec
  BY <1>3, BoundAssumption DEF EditSpec, history, Excuse
<1>4. CASE OperateElsewhere
  <2>1. helm' \in [Sources -> Releases]
    BY <1>4, HelmTypes DEF OperateElsewhere
  <2> QED BY <1>4, FaultTypes, <2>1 DEF OperateElsewhere, passVars, history
<1>5. CASE UninstallElsewhere
  <2>1. helm' \in [Sources -> Releases]
    BY <1>5, HelmTypes DEF UninstallElsewhere
  <2> QED BY <1>5, FaultTypes, <2>1 DEF UninstallElsewhere, passVars, history, Excuse
<1>6. CASE PendingEnds
  <2>1. ASSUME NEW r \in Sources, NEW v \in Versions \cup {None},
               helm' = [helm EXCEPT ![r].pending = FALSE, ![r].version = v]
        PROVE  helm' \in [Sources -> Releases]
    <3>1. [helm[r] EXCEPT !.pending = FALSE, !.version = v] \in Releases
      BY <2>1 DEF Releases
    <3>2. helm' = [helm EXCEPT ![r] = [helm[r] EXCEPT !.pending = FALSE, !.version = v]]
      BY <2>1
    <3> QED BY <3>1, <3>2
  <2>2. helm' \in [Sources -> Releases]
    BY <1>6, <2>1, HelmTypes DEF PendingEnds
  <2> QED BY <1>6, <2>2 DEF PendingEnds, passVars, history, bounds
<1>7. CASE ComeOrGo
  BY <1>7 DEF ComeOrGo, passVars, history, bounds
<1>8. CASE Tick
  BY <1>8, AgeTypes DEF Tick, passVars, bounds
<1> QED
  BY <1>1, <1>2, <1>3, <1>4, <1>5, <1>6, <1>7, <1>8 DEF Next

\* Every variable keeps its type, in every world.
THEOREM TypeCorrect == Spec => []TypeOK
<1>1. TypeOK /\ [Next]_vars => TypeOK'
  <2>1. ASSUME TypeOK, UNCHANGED vars PROVE TypeOK'
    BY <2>1 DEF vars, passVars, history, bounds, TypeOK
  <2> QED BY <2>1, PassTypeOK, OtherTypeOK
<1> QED BY <1>1, InitTypeOK, PTL DEF Spec

-----------------------------------------------------------------------------
(* One release, whose revisions only grow *)

HelmGrows == \A r \in Sources : helm'[r].revision >= helm[r].revision

\* A new revision is a higher one, of a release that is installed.
LEMMA NewRevisionGrows ==
  ASSUME TypeOK, RecordsOK, NEW r \in Sources, NEW v, NEW p, NewRevision(r, v, p)
  PROVE  RecordsOK' /\ HelmGrows /\ helm'[r].revision # 0
<1>1. \A s \in Sources : helm[s].revision \in Nat /\ helm[s].installs \in Nat
  BY DEF TypeOK, Releases
<1>2. \A s \in Sources :
        IF s = r
        THEN /\ helm'[s].revision = helm[s].revision + 1
             /\ helm'[s].installs = IF helm[s].revision = 0 THEN helm[s].installs + 1
                                    ELSE helm[s].installs
        ELSE helm'[s] = helm[s]
  BY NewRevisionFacts DEF TypeOK
<1>3. HelmGrows /\ helm'[r].revision # 0
  BY <1>1, <1>2 DEF HelmGrows
<1>4. RecordsOK'
  BY <1>1, <1>2 DEF RecordsOK
<1> QED BY <1>3, <1>4

\* The same, when nothing happens to Helm's records.
LEMMA SameHelm ==
  ASSUME TypeOK, RecordsOK, helm' = helm
  PROVE  RecordsOK' /\ HelmGrows
<1>1. \A s \in Sources : helm[s].revision \in Nat
  BY DEF TypeOK, Releases
<1> QED BY <1>1 DEF RecordsOK, HelmGrows

\* Nothing is uninstalled: there is no other release, nor another source.
LEMMA CleanupIdle ==
  ASSUME Inv, CleanupStaleResources
  PROVE  helm' = helm /\ mine' = mine /\ pc' = "prepare"
  BY DEF Inv, OneSource, CleanupStaleResources

LEMMA PrepareIdle ==
  ASSUME Inv, Prepare
  PROVE  /\ helm' = helm /\ mine'.revision = mine.revision
         /\ mine'.release = mine.release /\ mine'.kind = mine.kind
         /\ \/ pc' = "ensure" /\ mine' = mine /\ outcome' = outcome
            \/ pc' = "close" /\ outcome' = "Failed" /\ mine'.ready = "Failed"
<1> DEFINE old == IF Kind(read.source) = "Git" THEN {}
                  ELSE {mine.release} \ {None, read.source}
<1>1. PICK gone \in SUBSET old, failed \in BOOLEAN :
        /\ Uninstall(gone)
        /\ IF failed THEN Conclude("Failed")
           ELSE pc' = "ensure" /\ UNCHANGED <<mine, outcome>>
  BY DEF Prepare
<1>2. old = {}
  BY DEF Inv, OneSource, Prepare
<1>3. helm' = helm
  BY <1>1, <1>2, UninstallNothing DEF Inv, TypeOK
<1>4. mine \in Statuses
  BY DEF Inv, TypeOK
<1> QED BY <1>1, <1>3, <1>4 DEF Conclude, Statuses

LEMMA SourceStays ==
  ASSUME OneWorld, OneWorld', TypeOK, Next
  PROVE  Source' = Source
  BY DEF OneWorld, TypeOK, Excuse, Source, Next, Pass, StartPass, CleanupStaleResources, Prepare,
     EnsureRelease, ReleasePending, ReleaseSettled, RestartReadinessClocks,
     AwaitDeployment, AwaitService, Await, Publish, CloseWait, PersistStatus,
     PersistRefused, CallFails, Interrupted, EditSpec, OperateElsewhere,
     UninstallElsewhere, PendingEnds, ComeOrGo, Tick

\* The version of a spec is one.
LEMMA ReadVersion ==
  ASSUME TypeOK, pc # "idle"
  PROVE  /\ read \in Specs /\ read.source \in Sources
         /\ read.version \in Versions /\ read.version # None
  BY NoneAssumption DEF TypeOK, Specs

LEMMA HelmStep ==
  ASSUME OneWorld, OneWorld', Inv, Next
  PROVE  RecordsOK' /\ HelmGrows
<1>0. TypeOK /\ RecordsOK
  BY DEF Inv
<1>1. CASE CleanupStaleResources
  BY <1>0, <1>1, CleanupIdle, SameHelm
<1>2. CASE Prepare
  BY <1>0, <1>2, PrepareIdle, SameHelm
<1>3. CASE EnsureRelease
  BY <1>0, <1>3, NewRevisionGrows, SameHelm, ReadVersion DEF EnsureRelease
<1>4. CASE Interrupted
  BY <1>0, <1>4, NewRevisionGrows, SameHelm, ReadVersion DEF Interrupted
<1>5. CASE OperateElsewhere
  BY <1>0, <1>5, NewRevisionGrows DEF OperateElsewhere
<1>6. CASE UninstallElsewhere
  BY <1>6 DEF UninstallElsewhere, Excuse, OneWorld
<1>7. CASE PendingEnds
  <2>1. PICK r \in Sources, v \in Versions \cup {None} :
          /\ helm[r].pending
          /\ \/ helm' = [helm EXCEPT ![r].pending = FALSE, ![r].version = v]
             \/ NewRevision(r, v, FALSE)
    BY <1>7 DEF PendingEnds
  <2>2. CASE helm' = [helm EXCEPT ![r].pending = FALSE, ![r].version = v]
    <3>1. \A s \in Sources :
            /\ helm'[s].revision = helm[s].revision
            /\ helm'[s].installs = helm[s].installs
            /\ s # r => helm'[s] = helm[s]
      BY <1>0, <2>2 DEF TypeOK, Releases
    <3>2. \A s \in Sources : helm[s].revision \in Nat
      BY <1>0 DEF TypeOK, Releases
    <3>3. helm[r].revision # 0
      BY <1>0, <2>1 DEF RecordsOK
    <3> QED BY <1>0, <3>1, <3>2, <3>3 DEF RecordsOK, HelmGrows
  <2> QED BY <1>0, <2>1, <2>2, NewRevisionGrows
<1>8. CASE ~(\/ CleanupStaleResources \/ Prepare \/ EnsureRelease \/ Interrupted
             \/ OperateElsewhere \/ UninstallElsewhere \/ PendingEnds)
  <2>1. helm' = helm
    BY <1>8 DEF Next, Pass, StartPass, ReleasePending, ReleaseSettled,
       RestartReadinessClocks, AwaitDeployment, AwaitService, Await, Publish,
       CloseWait, PersistStatus, PersistRefused, CallFails, EditSpec, ComeOrGo,
       Tick
  <2> QED BY <1>0, <2>1, SameHelm
<1> QED BY <1>1, <1>2, <1>3, <1>4, <1>5, <1>6, <1>7, <1>8

\* What a pass that concludes something changes of its status.
MineKept ==
  /\ mine'.kind = mine.kind /\ mine'.release = mine.release
  /\ mine'.revision = mine.revision

LEMMA ReadyOnly ==
  ASSUME mine \in Statuses
  PROVE  /\ \A v : mine' = [mine EXCEPT !.ready = v] => MineKept /\ mine'.ready = v
         /\ mine' = mine => MineKept
  BY DEF MineKept, Statuses

\* The steps that leave kind, release and revision alone.
LEMMA MineStep ==
  ASSUME Inv
  PROVE  /\ Prepare => MineKept
         /\ ReleasePending => MineKept
         /\ \A c, next : Await(c, next) => MineKept
<1>1. mine \in Statuses
  BY DEF Inv, TypeOK
<1>2. Prepare => MineKept
  BY PrepareIdle DEF MineKept
<1>3. ReleasePending => MineKept
  BY <1>1, ReadyOnly DEF ReleasePending, Conclude, ReturnError
<1>4. \A c, next : Await(c, next) => MineKept
  BY <1>1, ReadyOnly DEF Await, Conclude, ReturnError
<1> QED BY <1>2, <1>3, <1>4

\* What ReleaseSettled makes of the status of the pass.
LEMMA SettledMine ==
  ASSUME Inv, ReleaseSettled
  PROVE  /\ mine'.kind = mine.kind /\ mine'.revision = mine.revision
         /\ mine'.release \in {mine.release, Source}
         /\ pc' = "close" => mine'.ready = outcome' /\ outcome' = "Failed"
<1>1. mine \in Statuses
  BY DEF Inv, TypeOK
<1>2. read.source = Source
  BY DEF Inv, OneSource, ReleaseSettled
<1>3. /\ Named(mine).kind = mine.kind /\ Named(mine).revision = mine.revision
      /\ Named(mine).release \in {mine.release, Source}
  BY <1>1, <1>2 DEF Named, Statuses
<1>4. \/ mine' = Named(mine) /\ pc' = "restart"
      \/ mine' = mine /\ pc' = "persist"
      \/ mine' = [mine EXCEPT !.ready = "Failed"] /\ outcome' = "Failed"
  BY DEF ReleaseSettled, ReturnError, Conclude
<1> QED BY <1>1, <1>3, <1>4, ReadyOnly DEF MineKept

LEMMA OneSourceStep ==
  ASSUME OneWorld, OneWorld', Inv, Next
  PROVE  OneSource'
<1>0. /\ TypeOK /\ RecordsOK /\ OneSource /\ HelmGrows /\ Source' = Source
      /\ mine \in Statuses /\ status \in Statuses /\ Source \in Sources
  BY HelmStep, SourceStays DEF Inv, TypeOK, Source, Specs
<1>1. helm[Source].revision \in Nat /\ helm'[Source].revision \in Nat
      /\ helm'[Source].revision >= helm[Source].revision
  <2>1. TypeOK'
    BY <1>0, PassTypeOK, OtherTypeOK
  <2> QED BY <1>0, <2>1 DEF HelmGrows, TypeOK, Releases
<1>t. timed' = timed =>
        /\ timed'.revision # 0 => timed'.release = Source' /\ timed'.install = 1
        /\ timed'.revision <= helm'[Source'].revision
  <2>1. timed.revision \in Nat
    BY <1>0 DEF TypeOK, Rollouts
  <2> QED BY <1>0, <1>1, <2>1 DEF OneSource
<1>2. CASE StartPass
  BY <1>0, <1>2, <1>t DEF StartPass, OneSource, Source, history
<1>3. CASE CleanupStaleResources
  BY <1>0, <1>3, <1>t, CleanupIdle DEF CleanupStaleResources, OneSource, history
<1>4. CASE Prepare
  BY <1>0, <1>4, <1>t, MineStep DEF Prepare, MineKept, OneSource, history
<1>5. CASE EnsureRelease
  BY <1>0, <1>5, <1>t DEF EnsureRelease, OneSource, history
<1>6. CASE ReleasePending
  BY <1>0, <1>6, <1>t, MineStep DEF ReleasePending, MineKept, OneSource
<1>7. CASE ReleaseSettled
  BY <1>0, <1>7, <1>t, SettledMine DEF ReleaseSettled, OneSource
<1>8. CASE RestartReadinessClocks
  <2>1. mine'.kind = mine.kind /\ mine'.release = mine.release
    BY <1>0, <1>8 DEF RestartReadinessClocks, ReturnError, Statuses
  <2>2. timed' # timed =>
          timed' = Rollout(Source) /\ helm[Source].revision # 0 /\ helm' = helm
    BY <1>0, <1>8 DEF RestartReadinessClocks, OneSource
  <2>3. helm[Source].revision # 0 =>
          /\ Rollout(Source).release = Source /\ Rollout(Source).install = 1
          /\ Rollout(Source).revision = helm[Source].revision
    BY <1>0, <1>1 DEF Rollout, RecordsOK
  <2> QED BY <1>0, <1>1, <1>8, <1>t, <2>1, <2>2, <2>3 DEF RestartReadinessClocks, OneSource
<1>9. ASSUME NEW c \in Readiness, NEW next, Await(c, next)
      PROVE  OneSource'
  <2>1. pc # "idle"
    BY <1>9 DEF Await, Readiness
  <2> QED BY <1>0, <1>9, <1>t, <2>1, MineStep DEF Await, MineKept, OneSource
<1>10. CASE Publish
  <2>1. mine'.kind \in {mine.kind, Kind(Source)} /\ mine'.release = mine.release
    BY <1>0, <1>10 DEF Publish, Conclude, OneSource, Statuses
  <2> QED BY <1>0, <1>10, <1>t, <2>1 DEF Publish, OneSource, history
<1>11. CASE CloseWait
  BY <1>0, <1>11, <1>t DEF CloseWait, OneSource
<1>12. CASE PersistStatus
  BY <1>0, <1>12, <1>t DEF PersistStatus, EndPass, NoStatus, OneSource, history
<1>13. CASE CallFails
  BY <1>0, <1>13, <1>t DEF CallFails, ReturnError, OneSource, history
<1>14. CASE Interrupted \/ PersistRefused
  <2>1. CASE Interrupted
    BY <1>0, <2>1, <1>t DEF Interrupted, EndPass, NoStatus, OneSource, history, Excuse
  <2>2. CASE PersistRefused
    BY <1>0, <2>2, <1>t DEF PersistRefused, EndPass, NoStatus, OneSource, history, Excuse
  <2> QED BY <1>14, <2>1, <2>2
<1>15. CASE EditSpec
  BY <1>0, <1>15, <1>t DEF EditSpec, OneSource, history, Excuse
<1>16. CASE OperateElsewhere \/ UninstallElsewhere \/ PendingEnds \/ ComeOrGo \/ Tick
  BY <1>0, <1>16, <1>t DEF OperateElsewhere, UninstallElsewhere, PendingEnds,
     ComeOrGo, Tick, passVars, OneSource, history, Excuse
<1> QED
  BY <1>2, <1>3, <1>4, <1>5, <1>6, <1>7, <1>8, <1>9, <1>10, <1>11, <1>12, <1>13,
     <1>14, <1>15, <1>16
     DEF Next, Pass, AwaitDeployment, AwaitService, Readiness

-----------------------------------------------------------------------------
(* What is recorded of the rollout *)

\* A revision that is not higher than the last one seen.
LEMMA RecordedStep ==
  ASSUME OneWorld, OneWorld', Inv, Next
  PROVE  RecordedInv'
<1>0. /\ TypeOK /\ OneSource /\ RecordedInv /\ Source' = Source /\ TypeOK'
      /\ Source \in Sources /\ HelmGrows
  BY HelmStep, SourceStays, PassTypeOK, OtherTypeOK
     DEF Inv, TypeOK, Source, Specs
<1>1. /\ helm[Source].revision \in Nat /\ helm'[Source].revision \in Nat
      /\ helm'[Source].revision >= helm[Source].revision
      /\ mine.revision \in Nat /\ status.revision \in Nat
      /\ timed.revision \in Nat
  BY <1>0 DEF HelmGrows, TypeOK, Releases, Statuses, Rollouts
<1>2. helm[Source].revision # 0 => helm'[Source].revision # 0
  BY <1>1
<1>3. CASE StartPass
  BY <1>0, <1>1, <1>2, <1>3 DEF StartPass, RecordedInv, Early, history
<1>4. CASE CleanupStaleResources
  BY <1>0, <1>2, <1>4, CleanupIdle
     DEF CleanupStaleResources, RecordedInv, Early, history
<1>5. CASE Prepare
  BY <1>0, <1>2, <1>5, PrepareIdle DEF Prepare, RecordedInv, Early, history
<1>6. CASE EnsureRelease
  <2>1. answer' = "nil" => helm'[Source].revision # 0
    <3>1. read.source = Source /\ read.version # None /\ read.version \in Versions
      BY <1>0, <1>6, ReadVersion DEF EnsureRelease, OneSource
    <3>2. helm[Source].version = read.version => helm[Source].revision # 0
      BY <1>0, <3>1 DEF Inv, RecordsOK
    <3>3. \A v : NewRevision(Source, v, FALSE) => helm'[Source].revision # 0
      BY <1>0, NewRevisionGrows DEF Inv
    <3> QED BY <1>2, <1>6, <3>1, <3>2, <3>3 DEF EnsureRelease
  <2> QED BY <1>0, <1>6, <2>1 DEF EnsureRelease, RecordedInv, Early, history
<1>7. CASE ReleasePending
  <2>1. \A c \in Readiness : markers'[c] = markers[c]
    BY <1>0, <1>7 DEF ReleasePending, Set, Readiness, TypeOK, Ages, Clocks
  <2>2. pc' \in {"close", "persist"}
    BY <1>7 DEF ReleasePending, Conclude, ReturnError
  <2> QED BY <1>0, <1>2, <1>7, <2>1, <2>2, MineStep
          DEF ReleasePending, MineKept, RecordedInv, Early
<1>8. CASE ReleaseSettled
  <2>1. \A c \in Readiness : markers'[c] = markers[c]
    BY <1>0, <1>8 DEF ReleaseSettled, Clear, Readiness, TypeOK, Ages, Clocks
  <2>2. pc' \in {"close", "persist", "restart"} /\ pc = "pending"
        /\ (pc' = "restart" => answer = "nil")
    BY <1>8 DEF ReleaseSettled, Conclude, ReturnError
  <2> QED BY <1>0, <1>2, <1>8, <2>1, <2>2, SettledMine
          DEF ReleaseSettled, RecordedInv, Early
<1>9. CASE RestartReadinessClocks
  <2>1. helm[read.source].revision # 0 /\ read.source = Source
    BY <1>0, <1>9 DEF RestartReadinessClocks, RecordedInv, OneSource
  <2>2. timed'.revision = helm[Source].revision
    BY <1>9, <2>1 DEF RestartReadinessClocks, Rollout
  <2>3. \/ pc' = "persist" /\ mine' = mine
        \/ pc' = "deployment" /\ mine'.revision = helm[Source].revision
    BY <1>0, <1>9, <2>1 DEF RestartReadinessClocks, ReturnError, TypeOK, Statuses
  <2>4. \A c \in Readiness : markers'[c] # None => markers[c] # None
    BY <1>0, <1>9, <2>1 DEF RestartReadinessClocks, Clear, Readiness, TypeOK, Ages, Clocks
  <2>5. status.revision <= helm[Source].revision /\ mine.revision <= helm[Source].revision
    BY <1>0, <1>1 DEF RecordedInv, OneSource
  <2>6. status' = status /\ answer' = answer /\ helm' = helm /\ pc = "restart"
    BY <1>9 DEF RestartReadinessClocks
  <2> QED BY <1>0, <1>1, <2>1, <2>2, <2>3, <2>4, <2>5, <2>6 DEF RecordedInv, Early
<1>10. ASSUME NEW c \in Readiness, NEW next \in {"service", "publish"}, Await(c, next)
       PROVE  RecordedInv'
  <2>1. pc \in {"deployment", "service"} /\ pc' \in {"service", "publish", "close", "persist"}
        /\ mine.revision # 0
    BY <1>0, <1>10 DEF Await, Readiness, Conclude, ReturnError, RecordedInv
  <2> QED BY <1>0, <1>2, <1>10, <2>1, MineStep DEF Await, MineKept, RecordedInv, Early
<1>11. CASE Publish
  <2>1. mine'.revision = mine.revision /\ pc' = "close"
    BY <1>0, <1>11 DEF Publish, Conclude, TypeOK, Statuses
  <2> QED BY <1>0, <1>2, <1>11, <2>1 DEF Publish, RecordedInv, Early, history
<1>12. CASE CloseWait
  <2>1. \A c \in Readiness : markers'[c] = markers[c]
    BY <1>0, <1>12 DEF CloseWait, Clear, Readiness, TypeOK, Ages, Clocks
  <2> QED BY <1>0, <1>2, <1>12, <2>1 DEF CloseWait, RecordedInv, Early
<1>13. CASE PersistStatus
  BY <1>0, <1>1, <1>2, <1>13 DEF PersistStatus, EndPass, NoStatus, RecordedInv, Early, history
<1>14. CASE CallFails
  BY <1>0, <1>2, <1>14 DEF CallFails, ReturnError, RecordedInv, Early, history
<1>15. CASE Interrupted \/ PersistRefused
  <2>1. status.revision # 0 \/ \A c \in Readiness : markers[c] = None
    BY <1>15 DEF Interrupted, PersistRefused, Excuse, FirstStatus, OneWorld
  <2>2. CASE Interrupted
    BY <1>0, <1>1, <1>2, <2>1, <2>2
       DEF Interrupted, EndPass, NoStatus, RecordedInv, Early, history, Excuse
  <2>3. CASE PersistRefused
    BY <1>0, <1>1, <1>2, <2>1, <2>3
       DEF PersistRefused, EndPass, NoStatus, RecordedInv, Early, history, Excuse
  <2> QED BY <1>15, <2>2, <2>3
<1>16. CASE Tick
  <2>1. \A c \in Readiness : markers'[c] # None => markers[c] # None
    BY <1>0, <1>16 DEF Tick, Older, Readiness, TypeOK, Ages, Clocks
  <2> QED BY <1>0, <1>2, <1>16, <2>1 DEF Tick, passVars, RecordedInv, Early
<1>17. CASE EditSpec
  BY <1>0, <1>2, <1>17 DEF EditSpec, RecordedInv, Early, history, Excuse
<1>18. CASE OperateElsewhere \/ UninstallElsewhere \/ PendingEnds \/ ComeOrGo
  BY <1>0, <1>2, <1>18 DEF OperateElsewhere, UninstallElsewhere, PendingEnds,
     ComeOrGo, passVars, RecordedInv, Early, history, Excuse
<1> QED
  BY <1>3, <1>4, <1>5, <1>6, <1>7, <1>8, <1>9, <1>10, <1>11, <1>12, <1>13, <1>14,
     <1>15, <1>16, <1>17, <1>18
     DEF Next, Pass, AwaitDeployment, AwaitService, Readiness

-----------------------------------------------------------------------------
(* The clocks *)

\* What the operators on clocks do, in one place.
LEMMA ClockFacts ==
  ASSUME NEW a \in Ages
  PROVE  /\ \A c \in Clocks : Set(a, c, 0)[c] = 0
         /\ \A c \in Clocks : \A d \in Clocks \ {c} : Set(a, c, 0)[d] = a[d]
         /\ \A cs : \A c \in Clocks : Clear(a, cs)[c] = IF c \in cs THEN None ELSE a[c]
  BY DEF Set, Clear, Ages

\* A wait that goes on has begun; one that begins is measured from now.
LEMMA LastingFacts ==
  ASSUME TypeOK, NEW c \in Clocks, Lasting(c)
  PROVE  /\ since'[c] # None /\ since'[c] \in Nat
         /\ since'[c] = IF since[c] = None THEN 0 ELSE since[c]
         /\ \A d \in Clocks \ {c} : since'[d] = since[d]
<1>1. since \in Ages
  BY DEF TypeOK
<1>2. since[c] \in Nat \cup {None}
  BY <1>1 DEF Ages
<1>3. CASE since[c] = None
  BY <1>1, <1>3, ClockFacts, NoneAssumption DEF Lasting
<1>4. CASE since[c] # None
  BY <1>2, <1>4 DEF Lasting
<1> QED BY <1>3, <1>4

\* Clocks and waits grow alike, also when both stop at the limit.
LEMMA OlderEarned ==
  ASSUME TypeOK, NEW c \in Clocks, Earned(c), Tick
  PROVE  Earned(c)'
<1>1. markers[c] \in Nat \cup {None} /\ since[c] \in Nat \cup {None}
  BY DEF TypeOK, Ages
<1>2. Limit(c) \in Nat
  BY TimeoutAssumption DEF Limit
<1>3. /\ markers'[c] = IF markers[c] # None /\ markers[c] <= Limit(c)
                       THEN markers[c] + 1 ELSE markers[c]
      /\ since'[c] = IF since[c] # None /\ since[c] <= Limit(c)
                     THEN since[c] + 1 ELSE since[c]
  BY DEF Tick, Older
<1>4. \A n \in Nat : n # None /\ n + 1 # None
  BY NoneAssumption
<1>5. CASE markers[c] = None
  BY <1>3, <1>5 DEF Earned
<1>6. CASE markers[c] # None
  <2>1. /\ markers[c] \in Nat /\ since[c] \in Nat /\ since[c] # None
        /\ markers[c] <= since[c]
    BY <1>1, <1>6 DEF Earned
  <2>2. since'[c] # None /\ markers'[c] <= since'[c]
    BY <1>2, <1>3, <1>4, <1>6, <2>1
  <2> QED BY <2>2 DEF Earned
<1> QED BY <1>5, <1>6

\* The places of a pass and the clocks are the ones they are.
LEMMA Names ==
  /\ Clocks = {"deployment", "service", "pending"}
  /\ Readiness = {"deployment", "service"}
  /\ "pending" \in Clocks /\ "pending" \notin Readiness
  /\ \A c \in Readiness : c \in Clocks /\ c # "pending"
  BY DEF Clocks, Readiness

\* Steps that leave the clocks of readiness, and the waits, alone.
LEMMA ReadinessKept ==
  ASSUME Inv, NEW c \in Readiness,
         markers'[c] = markers[c], since'[c] = since[c], status' = status,
         timed' = timed,
         \/ pc' = pc /\ mine' = mine
         \/ pc' \in {"service", "publish"} /\ pc \in Readiness
         \/ /\ pc' \in Early \cup {"close", "persist"} /\ pc # "idle"
            /\ mine'.revision = mine.revision
         \/ pc' = "stale" /\ mine' = status
         \/ pc' = "idle"
  PROVE  \/ Earned(c)'
         \/ /\ pc' \in Early \cup {"idle", "close", "persist"}
            /\ status'.revision # 0 /\ status'.revision < timed'.revision
            /\ pc' # "idle" => mine'.revision = status'.revision
<1>1. CASE Earned(c)
  BY <1>1 DEF Earned
<1>2. CASE ~Earned(c)
  BY <1>2 DEF Inv, ReadinessInv, Early, Readiness
<1> QED BY <1>1, <1>2

LEMMA ReadinessStep ==
  ASSUME OneWorld, OneWorld', Inv, Next
  PROVE  ReadinessInv'
<1>0. /\ TypeOK /\ markers \in Ages /\ since \in Ages /\ OneSource /\ RecordedInv
      /\ ReadinessInv /\ mine \in Statuses
  BY DEF Inv, TypeOK
<1>1. /\ mine.revision \in Nat /\ status.revision \in Nat /\ timed.revision \in Nat
      /\ Source \in Sources /\ helm[Source].revision \in Nat
  BY <1>0 DEF TypeOK, Releases, Statuses, Rollouts, Source, Specs
<1> SUFFICES ASSUME NEW c \in Readiness
    PROVE  \/ Earned(c)'
           \/ /\ pc' \in Early \cup {"idle", "close", "persist"}
              /\ status'.revision # 0 /\ status'.revision < timed'.revision
              /\ pc' # "idle" => mine'.revision = status'.revision
  BY DEF ReadinessInv
<1>c. c \in Clocks /\ c # "pending" /\ "pending" \in Clocks
  BY Names
<1>2. CASE StartPass
  BY <1>2, ReadinessKept DEF StartPass, history
<1>3. CASE CleanupStaleResources
  BY <1>3, CleanupIdle, ReadinessKept DEF CleanupStaleResources, history, Early
<1>4. CASE Prepare
  BY <1>4, PrepareIdle, ReadinessKept DEF Prepare, history, Early
<1>5. CASE EnsureRelease
  BY <1>5, ReadinessKept DEF EnsureRelease, history, Early
<1>6. CASE ReleasePending
  <2>1. markers'[c] = markers[c] /\ since'[c] = since[c]
    BY <1>0, <1>c, <1>6, ClockFacts, LastingFacts DEF ReleasePending
  <2>2. pc' \in {"close", "persist"} /\ pc = "pending"
    BY <1>6 DEF ReleasePending, Conclude, ReturnError
  <2> QED BY <1>6, <2>1, <2>2, MineStep, ReadinessKept DEF ReleasePending, MineKept
<1>7. CASE ReleaseSettled
  <2>1. markers'[c] = markers[c] /\ since'[c] = since[c]
    BY <1>0, <1>c, <1>7, ClockFacts DEF ReleaseSettled
  <2>2. pc' \in {"close", "persist", "restart"} /\ pc = "pending"
    BY <1>7 DEF ReleaseSettled, Conclude, ReturnError
  <2> QED BY <1>7, <2>1, <2>2, SettledMine, ReadinessKept DEF ReleaseSettled, Early
<1>8. CASE RestartReadinessClocks
  <2>1. /\ helm[Source].revision # 0 /\ read.source = Source
        /\ mine.revision = status.revision
    BY <1>0, <1>8 DEF RestartReadinessClocks, RecordedInv, OneSource, Early
  <2>2. timed' = Rollout(Source) /\ timed'.revision = helm[Source].revision
    BY <1>8, <2>1 DEF RestartReadinessClocks, Rollout
  <2>3. mine.revision <= timed.revision /\ timed.revision <= helm[Source].revision
    BY <1>0 DEF RecordedInv, OneSource
  <2>4. status' = status
    BY <1>8 DEF RestartReadinessClocks
  <2>5. CASE RevisionMoved /\ markers[c] # None
    <3>1. mine.revision # 0 /\ mine.revision < helm[Source].revision
      BY <1>1, <2>1, <2>3, <2>5 DEF RevisionMoved
    <3>2. CASE fresh
      <4>1. markers' = Clear(markers, Readiness)
        BY <1>8, <2>1, <2>5, <3>2 DEF RestartReadinessClocks
      <4>2. markers'[c] = None
        BY <1>0, <1>c, <4>1, ClockFacts
      <4> QED BY <4>2 DEF Earned
    <3>3. CASE ~fresh
      <4>1. pc' = "persist" /\ mine' = mine
        BY <1>8, <2>1, <2>5, <3>3 DEF RestartReadinessClocks, ReturnError
      <4> QED BY <2>1, <2>2, <2>4, <3>1, <4>1
    <3> QED BY <3>2, <3>3
  <2>6. CASE markers[c] = None
    <3>1. markers' = markers \/ markers' = Clear(markers, Readiness)
      BY <1>8, <2>1 DEF RestartReadinessClocks
    <3>2. markers'[c] = None
      BY <1>0, <1>c, <2>6, <3>1, ClockFacts
    <3> QED BY <3>2 DEF Earned
  <2>7. CASE ~RevisionMoved /\ markers[c] # None
    <3>1. mine.revision = helm[Source].revision
      BY <1>0, <2>1, <2>7 DEF RevisionMoved, RecordedInv
    <3>2. timed.revision = helm[Source].revision
      BY <1>1, <2>3, <3>1
    <3>3. timed = Rollout(Source)
      <4>1. timed.release = Source /\ timed.install = 1 /\ timed \in Rollouts
        BY <1>0, <2>1, <3>2 DEF OneSource, TypeOK
      <4>2. helm[Source].installs = 1
        BY <1>1, <2>1 DEF Inv, RecordsOK
      <4> QED BY <3>2, <4>1, <4>2 DEF Rollout, Rollouts
    <3>4. since' = since /\ markers' = markers
      BY <1>8, <2>1, <2>2, <2>7, <3>3 DEF RestartReadinessClocks
    <3>5. Earned(c)
      BY <1>0, <1>1, <2>1, <3>1, <3>2 DEF ReadinessInv
    <3> QED BY <3>4, <3>5 DEF Earned
  <2> QED BY <2>5, <2>6, <2>7
<1>9. ASSUME NEW d \in Readiness, NEW next \in {"service", "publish"}, Await(d, next)
      PROVE  \/ Earned(c)'
             \/ /\ pc' \in Early \cup {"idle", "close", "persist"}
                /\ status'.revision # 0 /\ status'.revision < timed'.revision
                /\ pc' # "idle" => mine'.revision = status'.revision
  <2>1. d \in Clocks /\ pc \in {"deployment", "service"}
    BY <1>9, Names DEF Await
  <2>2. Earned(c) /\ Earned(d)
    BY <1>0, <1>9, <2>1 DEF ReadinessInv, Early
  <2>3. CASE c # d
    <3>1. markers'[c] = markers[c] /\ since'[c] = since[c]
      BY <1>0, <1>c, <1>9, <2>1, <2>3, ClockFacts, LastingFacts DEF Await
    <3> QED BY <2>2, <3>1 DEF Earned
  <2>4. CASE c = d
    <3>1. CASE markers' = markers /\ since' = since
      BY <2>2, <3>1 DEF Earned
    <3>2. CASE markers' = Clear(markers, {c})
      <4>1. markers'[c] = None
        BY <1>0, <1>c, <3>2, ClockFacts
      <4> QED BY <4>1 DEF Earned
    <3>3. CASE markers' = Set(markers, c, 0) /\ Lasting(c)
      <4>1. markers'[c] = 0 /\ since'[c] # None /\ since'[c] \in Nat
        BY <1>0, <1>c, <3>3, ClockFacts, LastingFacts
      <4> QED BY <4>1 DEF Earned
    <3>4. CASE markers' = markers /\ Lasting(c)
      <4>1. since[c] # None => since'[c] = since[c]
        BY <1>0, <1>c, <3>4, LastingFacts
      <4> QED BY <2>2, <3>4, <4>1 DEF Earned
    <3> QED BY <1>9, <2>4, <3>1, <3>2, <3>3, <3>4 DEF Await
  <2> QED BY <2>3, <2>4
<1>10. CASE Publish
  <2>1. mine'.revision = mine.revision /\ pc' = "close"
    BY <1>0, <1>10 DEF Publish, Conclude, Statuses
  <2> QED BY <1>10, <2>1, ReadinessKept DEF Publish, history
<1>11. CASE CloseWait
  <2>1. markers'[c] = markers[c] /\ since'[c] = since[c]
    BY <1>0, <1>c, <1>11, ClockFacts DEF CloseWait
  <2> QED BY <1>11, <2>1, ReadinessKept DEF CloseWait
<1>12. CASE PersistStatus
  <2>1. CASE Earned(c)
    BY <1>12, <2>1 DEF PersistStatus, Earned, history
  <2>2. CASE ~Earned(c)
    BY <1>0, <1>12, <2>2 DEF PersistStatus, EndPass, history, ReadinessInv
  <2> QED BY <2>1, <2>2
<1>13. CASE CallFails
  BY <1>13, ReadinessKept DEF CallFails, ReturnError, history
<1>14. CASE Interrupted \/ PersistRefused
  BY <1>14, ReadinessKept DEF Interrupted, PersistRefused, EndPass, history, Excuse
<1>15. CASE Tick
  <2>1. CASE Earned(c)
    BY <1>0, <1>c, <1>15, <2>1, OlderEarned
  <2>2. CASE ~Earned(c)
    BY <1>0, <1>15, <2>2 DEF Tick, passVars, ReadinessInv
  <2> QED BY <2>1, <2>2
<1>16. CASE EditSpec
  BY <1>16, ReadinessKept DEF EditSpec, history, Excuse
<1>17. CASE OperateElsewhere \/ UninstallElsewhere \/ PendingEnds \/ ComeOrGo
  BY <1>17, ReadinessKept DEF OperateElsewhere, UninstallElsewhere, PendingEnds,
     ComeOrGo, passVars, history, Excuse
<1> QED
  BY <1>2, <1>3, <1>4, <1>5, <1>6, <1>7, <1>8, <1>9, <1>10, <1>11, <1>12, <1>13,
     <1>14, <1>15, <1>16, <1>17
     DEF Next, Pass, AwaitDeployment, AwaitService, Readiness

-----------------------------------------------------------------------------
(* The wait for Helm, and the invariant *)

\* Steps that leave the marker of a pending release, and its wait, alone, and
\* conclude nothing that the status of the pass does not say.
LEMMA PendingKept ==
  ASSUME Inv, markers'["pending"] = markers["pending"],
         since'["pending"] = since["pending"],
         \/ pc' = pc /\ mine' = mine /\ outcome' = outcome
         \/ pc' = "persist"
         \/ pc' = "idle" /\ outcome' = "None"
         \/ pc' \in {"stale", "prepare", "ensure", "pending"} /\ outcome' = "None"
         \/ pc' = "close" /\ mine'.ready = outcome' /\ outcome' # "Waiting"
         \/ /\ pc \in {"restart"} \cup Readiness
            /\ pc' \in {"publish"} \cup Readiness /\ outcome' = "None"
         \/ pc \in Readiness /\ pc' = "close" /\ outcome' = "Waiting"
  PROVE  PendingInv'
<1>1. PendingInv
  BY DEF Inv
<1>2. Earned("pending")'
  BY <1>1 DEF PendingInv, Earned
<1>3. (pc \in {"restart", "publish"} \cup Readiness => markers["pending"] = None)'
  BY <1>1 DEF PendingInv, Readiness
<1>4. (pc = "close" => IF outcome = "Waiting" THEN markers["pending"] = None
                       ELSE mine.ready = outcome)'
  BY <1>1 DEF PendingInv, Readiness
<1>5. (pc \notin {"close", "persist"} => outcome = "None")'
  BY <1>1 DEF PendingInv
<1> QED BY <1>2, <1>3, <1>4, <1>5 DEF PendingInv

\* The marker is set when the wait begins, kept while it goes on, and goes no
\* later than the wait is over.
LEMMA PendingStep ==
  ASSUME OneWorld, OneWorld', Inv, Next
  PROVE  PendingInv'
<1>0. /\ TypeOK /\ markers \in Ages /\ since \in Ages /\ PendingInv
      /\ mine \in Statuses
  BY DEF Inv, TypeOK
<1>p. "pending" \in Clocks /\ "pending" \notin Readiness
  BY Names
<1>n. pc \notin {"close", "persist"} => outcome = "None"
  BY <1>0 DEF PendingInv
<1>2. CASE StartPass
  BY <1>n, <1>2, PendingKept DEF StartPass, history
<1>3. CASE CleanupStaleResources
  BY <1>n, <1>3, CleanupIdle, PendingKept DEF CleanupStaleResources, history
<1>4. CASE Prepare
  BY <1>n, <1>4, PrepareIdle, PendingKept DEF Prepare, history
<1>5. CASE EnsureRelease
  BY <1>n, <1>5, PendingKept DEF EnsureRelease, history
<1>6. CASE ReleasePending
  <2>1. /\ since'["pending"] # None /\ since'["pending"] \in Nat
        /\ since["pending"] # None => since'["pending"] = since["pending"]
    BY <1>0, <1>p, <1>6, LastingFacts DEF ReleasePending
  <2>2. markers' = Set(markers, "pending", 0) \/ markers' = markers
    BY <1>6 DEF ReleasePending
  <2>3. Earned("pending")'
    <3>1. CASE markers' = Set(markers, "pending", 0)
      <4>1. markers'["pending"] = 0
        BY <1>0, <1>p, <3>1, ClockFacts
      <4> QED BY <2>1, <4>1 DEF Earned
    <3>2. CASE markers' = markers
      BY <1>0, <2>1, <3>2 DEF PendingInv, Earned
    <3> QED BY <2>2, <3>1, <3>2
  <2>4. \/ pc' = "persist"
        \/ pc' = "close" /\ mine'.ready = outcome' /\ outcome' # "Waiting"
    BY <1>0, <1>6, ReadyOnly DEF ReleasePending, Conclude, ReturnError
  <2> QED BY <2>3, <2>4 DEF PendingInv, Readiness
<1>7. CASE ReleaseSettled
  <2> DEFINE kept == markers["pending"] # None /\ ~fresh
  <2>1. CASE kept
    <3>1. markers' = markers /\ since' = since /\ pc' = "persist"
      BY <1>7, <2>1 DEF ReleaseSettled, ReturnError
    <3> QED BY <3>1, PendingKept
  <2>2. CASE ~kept
    <3>1. markers' = Clear(markers, {"pending"})
      BY <1>7, <2>2 DEF ReleaseSettled
    <3>2. markers'["pending"] = None
      BY <1>0, <1>p, <3>1, ClockFacts
    <3>3. \/ pc' = "restart" /\ outcome' = "None"
          \/ pc' = "close" /\ mine'.ready = "Failed" /\ outcome' = "Failed"
      BY <1>0, <1>n, <1>7, <2>2, ReadyOnly DEF ReleaseSettled, Conclude
    <3> QED BY <3>2, <3>3 DEF PendingInv, Earned, Readiness
  <2> QED BY <2>1, <2>2
<1>8. CASE RestartReadinessClocks
  <2>1. markers'["pending"] = markers["pending"] /\ since'["pending"] = since["pending"]
    BY <1>0, <1>p, <1>8, ClockFacts DEF RestartReadinessClocks
  <2>2. \/ pc' = "persist"
        \/ pc' = "deployment" /\ outcome' = "None"
    BY <1>n, <1>8 DEF RestartReadinessClocks, ReturnError
  <2>3. pc = "restart"
    BY <1>8 DEF RestartReadinessClocks
  <2> QED BY <2>1, <2>2, <2>3, PendingKept DEF Readiness
<1>9. ASSUME NEW d \in Readiness, NEW next \in {"service", "publish"}, Await(d, next)
      PROVE  PendingInv'
  <2>1. d \in Clocks /\ d # "pending" /\ pc = d
    BY <1>9, Names DEF Await
  <2>2. markers'["pending"] = markers["pending"] /\ since'["pending"] = since["pending"]
    BY <1>0, <1>p, <1>9, <2>1, ClockFacts, LastingFacts DEF Await
  <2>3. \/ pc' \in {"service", "publish"} /\ outcome' = "None"
        \/ pc' = "persist"
        \/ pc' = "close" /\ outcome' = "Waiting"
        \/ pc' = "close" /\ mine'.ready = outcome' /\ outcome' # "Waiting"
    BY <1>0, <1>n, <1>9, <2>1, ReadyOnly
       DEF Await, Conclude, ReturnError, Readiness
  <2> QED BY <1>9, <2>1, <2>2, <2>3, PendingKept DEF Readiness
<1>10. CASE Publish
  <2>1. pc' = "close" /\ mine'.ready = outcome' /\ outcome' # "Waiting"
    BY <1>0, <1>10 DEF Publish, Conclude, Statuses
  <2> QED BY <1>10, <2>1, PendingKept DEF Publish, history
<1>11. CASE CloseWait
  <2>1. pc = "close" /\ pc' = "persist"
    BY <1>11 DEF CloseWait
  <2>2. CASE markers'["pending"] = None
    BY <2>1, <2>2 DEF PendingInv, Earned, Readiness
  <2>3. CASE markers'["pending"] # None
    <3>1. markers' = markers \/ markers' = Clear(markers, {"pending"})
      BY <1>11 DEF CloseWait
    <3>2. markers' = markers /\ markers["pending"] # None
      <4>1. Clear(markers, {"pending"})["pending"] = None
        BY <1>0, <1>p, ClockFacts
      <4> QED BY <2>3, <3>1, <4>1
    <3>3. mine.ready = outcome
      BY <1>0, <2>1, <3>2 DEF PendingInv
    <3>4. CASE fresh
      <4>1. mine.ready \in Waits
        <5>1. ~InReleasePendingWait => markers' = Clear(markers, {"pending"})
          BY <1>11, <3>4 DEF CloseWait
        <5>2. Clear(markers, {"pending"})["pending"] = None
          BY <1>0, <1>p, ClockFacts
        <5> QED BY <2>3, <5>1, <5>2 DEF InReleasePendingWait
      <4>2. since' = since
        BY <1>11, <3>3, <4>1 DEF CloseWait
      <4> QED BY <2>1, <3>2, <4>2, PendingKept
    <3>5. CASE ~fresh
      <4>1. since' = since
        BY <1>11, <3>2, <3>5 DEF CloseWait
      <4> QED BY <2>1, <3>2, <4>1, PendingKept
    <3> QED BY <3>4, <3>5
  <2> QED BY <2>2, <2>3
<1>12. CASE PersistStatus
  BY <1>12, PendingKept DEF PersistStatus, EndPass, history
<1>13. CASE CallFails
  BY <1>13, PendingKept DEF CallFails, ReturnError, history
<1>14. CASE Interrupted \/ PersistRefused
  BY <1>14, PendingKept DEF Interrupted, PersistRefused, EndPass, history, Excuse
<1>15. CASE Tick
  <2>1. Earned("pending")'
    BY <1>0, <1>p, <1>15, OlderEarned DEF PendingInv
  <2>2. markers["pending"] = None => markers'["pending"] = None
    BY <1>p, <1>15 DEF Tick, Older
  <2> QED BY <1>0, <1>15, <2>1, <2>2 DEF Tick, passVars, PendingInv
<1>16. CASE EditSpec
  BY <1>16, PendingKept DEF EditSpec, history, Excuse
<1>17. CASE OperateElsewhere \/ UninstallElsewhere \/ PendingEnds \/ ComeOrGo
  BY <1>17, PendingKept DEF OperateElsewhere, UninstallElsewhere, PendingEnds,
     ComeOrGo, passVars, history, Excuse
<1> QED
  BY <1>2, <1>3, <1>4, <1>5, <1>6, <1>7, <1>8, <1>9, <1>10, <1>11, <1>12, <1>13,
     <1>14, <1>15, <1>16, <1>17
     DEF Next, Pass, AwaitDeployment, AwaitService, Readiness

\* Nothing is installed, recorded or waited for at first.
LEMMA InitInv == Init => Inv
<1> SUFFICES ASSUME Init PROVE Inv
  OBVIOUS
<1>0. TypeOK
  BY InitTypeOK
<1>1. /\ \A r \in Sources : /\ helm[r].revision = 0 /\ helm[r].installs = 0
                            /\ helm[r].version = None /\ helm[r].pending = FALSE
      /\ pc = "idle" /\ answer = "none" /\ outcome = "None"
      /\ status.revision = 0 /\ status.kind = "None" /\ status.release = None
      /\ mine = status
      /\ timed.revision = 0
  BY DEF Init, NoStatus, NoRollout
<1>2. \A c \in Clocks : markers[c] = None
  BY DEF Init, NoAges
<1>3. Source \in Sources
  BY <1>0 DEF TypeOK, Specs, Source
<1>4. RecordsOK
  BY <1>1 DEF RecordsOK
<1>5. OneSource
  BY <1>1, <1>3 DEF OneSource
<1>6. RecordedInv
  BY <1>1, <1>2, Names DEF RecordedInv, Early
<1>7. ReadinessInv /\ PendingInv
  BY <1>1, <1>2, Names DEF ReadinessInv, PendingInv, Earned
<1> QED BY <1>0, <1>4, <1>5, <1>6, <1>7 DEF Inv

\* A step in which nothing changes.
LEMMA StutterInv ==
  ASSUME Inv, UNCHANGED vars
  PROVE  Inv'
<1> USE DEF vars, passVars, history, bounds
<1>1. TypeOK'
  BY DEF Inv, TypeOK
<1>2. RecordsOK' /\ OneSource' /\ RecordedInv'
  BY DEF Inv, RecordsOK, OneSource, RecordedInv, Source, Early
<1>3. ReadinessInv' /\ PendingInv'
  BY DEF Inv, ReadinessInv, PendingInv, Earned, Early
<1> QED BY <1>1, <1>2, <1>3 DEF Inv

\* What counts as an excuse goes on to count.
LEMMA ExcuseStays ==
  ASSUME TypeOK, [Next]_vars, OneWorld'
  PROVE  OneWorld
  BY DEF OneWorld, TypeOK, Excuse, vars, history, Next, Pass, StartPass,
     CleanupStaleResources, Prepare, EnsureRelease, ReleasePending,
     ReleaseSettled, RestartReadinessClocks, AwaitDeployment, AwaitService,
     Await, Publish, CloseWait, PersistStatus, PersistRefused, CallFails,
     Interrupted, EditSpec, OperateElsewhere, UninstallElsewhere, PendingEnds,
     ComeOrGo, Tick

\* While no release gave way, and its first recorded revision was not lost,
\* every live clock is about the wait that lasts, or is known not to be.
THEOREM Invariant == Spec => [](TypeOK /\ (OneWorld => Inv))
<1>1. ASSUME Inv, Next, OneWorld, OneWorld' PROVE Inv'
  BY <1>1, PassTypeOK, OtherTypeOK, HelmStep, OneSourceStep, RecordedStep,
     ReadinessStep, PendingStep DEF Inv
<1>2. ASSUME TypeOK, OneWorld => Inv, [Next]_vars
      PROVE  (OneWorld => Inv)'
  BY <1>1, <1>2, ExcuseStays, StutterInv
<1>3. Init => (OneWorld => Inv)
  BY InitInv
<1> QED BY <1>2, <1>3, TypeCorrect, PTL DEF Spec

\* Until then no wait is timed out before its time: awaitReadiness,
\* handlePendingRelease and restartReadinessClocks, whatever was refused,
\* failed or died on the way.
THEOREM TimeoutsAreEarned == Spec => TimeoutEarned
<1>1. ASSUME Inv, Next, NEW c \in Clocks, TimesOut(c)
      PROVE  ~Unearned(c)
  <2>0. TypeOK /\ ReadinessInv /\ PendingInv
    BY <1>1 DEF Inv
  <2>1. pc = c /\ outcome' = IF c = "pending" THEN "PendingTimedOut" ELSE "TimedOut"
    BY <1>1 DEF TimesOut
  <2>2. outcome = "None"
    BY <2>0, <2>1, Names DEF PendingInv
  <2>3. Expired(c)
    <3>1. CASE c = "pending"
      <4>1. ReleasePending \/ outcome' # "PendingTimedOut"
        BY <1>1, <2>1, <2>2, <3>1, Names
           DEF Next, Pass, StartPass, CleanupStaleResources, Prepare,
               EnsureRelease, ReleaseSettled, Conclude, ReturnError,
               RestartReadinessClocks, AwaitDeployment, AwaitService, Await,
               Publish, CloseWait, PersistStatus, EndPass, CallFails,
               Interrupted, PersistRefused, EditSpec, OperateElsewhere,
               UninstallElsewhere,
               PendingEnds, ComeOrGo, Tick, passVars, history, Excuse
      <4> QED BY <2>1, <2>2, <3>1, <4>1 DEF ReleasePending, Conclude, ReturnError
    <3>2. CASE c \in Readiness
      <4>1. \/ \E next : Await(c, next)
            \/ outcome' # "TimedOut"
        BY <1>1, <2>1, <2>2, <3>2, Names
           DEF Next, Pass, StartPass, CleanupStaleResources, Prepare,
               EnsureRelease, ReleasePending, ReleaseSettled,
               RestartReadinessClocks, AwaitDeployment, AwaitService, Await,
               Publish, CloseWait, PersistStatus, EndPass, CallFails,
               ReturnError, Interrupted, PersistRefused, EditSpec, OperateElsewhere,
               UninstallElsewhere, PendingEnds, ComeOrGo, Tick, passVars, history, Excuse
      <4> QED BY <2>1, <2>2, <3>2, <4>1, Names DEF Await, Conclude, ReturnError
    <3> QED BY <3>1, <3>2, Names
  <2>4. Earned(c)
    BY <2>0, <2>1, Names DEF ReadinessInv, PendingInv, Early
  <2>5. markers[c] \in Nat \cup {None} /\ since[c] \in Nat \cup {None}
    BY <2>0 DEF TypeOK, Ages
  <2>6. Limit(c) \in Nat
    BY TimeoutAssumption DEF Limit
  <2> QED BY <2>3, <2>4, <2>5, <2>6, NoneAssumption
          DEF Expired, Earned, Unearned
<1>2. ASSUME TypeOK, OneWorld => Inv, [Next]_vars
      PROVE  [\A c \in Clocks : Unearned(c) => excused]_vars
  BY <1>1, <1>2 DEF OneWorld, Unearned
<1> QED BY <1>2, Invariant, PTL DEF Spec, TimeoutEarned

=============================================================================
