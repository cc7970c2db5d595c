------------------------- MODULE HelmReleaseProofs -------------------------
(***************************************************************************)
(* Proofs about HelmRelease, for every set of charts and values, every     *)
(* clock with Grace < Drain and every bound: type correctness, that only a *)
(* kill or a write begun after SIGTERM leaves a release pending, for how   *)
(* long a verdict is trusted, and that EnsureRelease answers nil only for  *)
(* a release that is what the requested chart renders.                     *)
(***************************************************************************)
EXTENDS HelmRelease, SequenceTheorems, TLAPS

\* Storage holds at most one deployed revision, so that Releases.Deployed is
\* well defined.
OneDeployed(h) ==
  \A i, j \in DOMAIN h :
    h[i].status = "deployed" /\ h[j].status = "deployed" => i = j

\* What the diff will memoize and compare.
SeenType ==
  /\ pc = "diff" => seen \in [revision : 1 .. MaxRevision,
                              deployed : Tags \X AnyValues]
  /\ pc = "render" => seen \in [revision : 1 .. MaxRevision,
                                deployed : Tags \X AnyValues,
                                manifest : Manifests \cup {NoManifest},
                                compared : Tags \X AnyValues]

\* A write in progress is recorded.
ApplyPending == pc = "apply" => IsPending(history)

TypeInv == TypeOK /\ OneDeployed(history) /\ SeenType /\ ApplyPending

-----------------------------------------------------------------------------
(* Lemmas about release storage *)

\* deployedRelease finds the one deployed revision, if there is one.
LEMMA DeployedRevisionFacts ==
  ASSUME NEW h \in Seq(Revisions), OneDeployed(h)
  PROVE  /\ DeployedRevision(h) \in 0 .. Len(h)
         /\ DeployedRevision(h) # 0 =>
              /\ DeployedRevision(h) \in DOMAIN h
              /\ h[DeployedRevision(h)] \in Revisions
              /\ h[DeployedRevision(h)].status = "deployed"
         /\ \A i \in DOMAIN h :
              h[i].status = "deployed" => DeployedRevision(h) = i
<1> DEFINE D == {i \in DOMAIN h : h[i].status = "deployed"}
<1>1. DOMAIN h = 1 .. Len(h) /\ Len(h) \in Nat
  BY LenProperties
<1>2. CASE D = {}
  BY <1>1, <1>2 DEF DeployedRevision
<1>3. CASE D # {}
  <2>1. PICK d \in D : TRUE
    BY <1>3
  <2>2. \A j \in D : j = d
    BY <2>1 DEF OneDeployed
  <2>3. \A j \in D : j <= d
    BY <1>1, <2>1, <2>2
  <2>4. (CHOOSE i \in D : \A j \in D : j <= i) = d
    BY <2>1, <2>2, <2>3
  <2>5. DeployedRevision(h) = d
    BY <1>3, <2>4 DEF DeployedRevision
  <2> QED BY <1>1, <2>1, <2>2, <2>5, ElementOfSeq
<1> QED BY <1>2, <1>3

\* A release that exists has a newest revision.
LEMMA LastFacts ==
  ASSUME NEW h \in Seq(Revisions), h # <<>>
  PROVE  /\ Len(h) \in DOMAIN h /\ h[Len(h)] \in Revisions
         /\ h[Len(h)].manifest \in Manifests
<1>1. Len(h) \in DOMAIN h /\ h[Len(h)] \in Revisions
  BY LenProperties, ElementOfSeq, EmptySeq
<1> QED BY <1>1 DEF Revisions

\* Settling a write changes statuses only: the newest revision becomes the one
\* that is deployed.
LEMMA SupersedingFacts ==
  ASSUME NEW h \in Seq(Revisions), h # <<>>
  PROVE  /\ Superseding(h) \in Seq(Revisions)
         /\ Len(Superseding(h)) = Len(h)
         /\ OneDeployed(Superseding(h))
         /\ DeployedRevision(Superseding(h)) = Len(h)
         /\ ~IsPending(Superseding(h))
         /\ \A i \in DOMAIN h :
              /\ Superseding(h)[i].version = h[i].version
              /\ Superseding(h)[i].values = h[i].values
              /\ Superseding(h)[i].manifest = h[i].manifest
<1> DEFINE g == Superseding(h)
           n == Len(h)
<1>1. /\ DOMAIN h = 1 .. n /\ n \in Nat /\ n # 0
      /\ \A i \in 1 .. n : h[i] \in Revisions
  BY LenProperties, ElementOfSeq, EmptySeq
<1>2. DOMAIN g = 1 .. n
  BY <1>1 DEF Superseding
<1>3. ASSUME NEW i \in 1 .. n
      PROVE  /\ g[i] \in Revisions
             /\ g[i].version = h[i].version
             /\ g[i].values = h[i].values
             /\ g[i].manifest = h[i].manifest
             /\ g[i].status = "deployed" <=> i = n
  BY <1>1, <1>3 DEF Superseding, Revisions, Statuses, PendingStates
<1>4. g \in Seq(Revisions)
  <2>1. g = [i \in 1 .. n |-> g[i]]
    BY <1>1 DEF Superseding
  <2> HIDE DEF g
  <2> QED BY <1>1, <1>3, <2>1, IsASeq
<1> HIDE DEF g
<1>5. Len(g) = n
  BY <1>1, <1>2, <1>4, LenProperties
<1>6. OneDeployed(g)
  BY <1>2, <1>3 DEF OneDeployed
<1>7. n \in 1 .. n /\ g[n].status = "deployed"
  <2>1. n \in 1 .. n
    BY <1>1
  <2> HIDE DEF n
  <2> QED BY <1>3, <2>1
<1>8. DeployedRevision(g) = n
  BY <1>2, <1>4, <1>6, <1>7, DeployedRevisionFacts
<1>9. ~IsPending(g)
  BY <1>5, <1>7 DEF IsPending, PendingStates
<1> QED BY <1>1, <1>3, <1>4, <1>5, <1>6, <1>8, <1>9 DEF g

\* A pending revision is stored on top and leaves the deployed one alone.
LEMMA PendingFacts ==
  ASSUME NEW h \in Seq(Revisions), NEW r \in Revisions, OneDeployed(h),
         r.status \in PendingStates
  PROVE  /\ Append(h, r) \in Seq(Revisions)
         /\ Len(Append(h, r)) = Len(h) + 1
         /\ OneDeployed(Append(h, r))
         /\ IsPending(Append(h, r))
<1>1. /\ Append(h, r) \in Seq(Revisions) /\ Len(Append(h, r)) = Len(h) + 1
      /\ \A i \in 1 .. Len(h) : Append(h, r)[i] = h[i]
      /\ Append(h, r)[Len(h) + 1] = r
      /\ Append(h, r) # <<>>
  BY AppendProperties
<1>2. /\ Len(h) \in Nat /\ DOMAIN h = 1 .. Len(h)
      /\ DOMAIN Append(h, r) = 1 .. (Len(h) + 1)
  BY <1>1, LenProperties
<1>3. OneDeployed(Append(h, r))
  <2> SUFFICES ASSUME NEW i \in 1 .. (Len(h) + 1), NEW j \in 1 .. (Len(h) + 1),
                      Append(h, r)[i].status = "deployed",
                      Append(h, r)[j].status = "deployed"
               PROVE  i = j
    BY <1>2 DEF OneDeployed
  <2>1. r.status # "deployed"
    BY DEF PendingStates
  <2>2. i \in 1 .. Len(h) /\ j \in 1 .. Len(h)
    BY <1>1, <1>2, <2>1
  <2> QED BY <1>1, <1>2, <2>2 DEF OneDeployed
<1>4. IsPending(Append(h, r))
  BY <1>1 DEF IsPending
<1> QED BY <1>1, <1>3, <1>4

\* Recording a failure changes the status of the newest revision only.
LEMMA FailFacts ==
  ASSUME NEW h \in Seq(Revisions), OneDeployed(h), h # <<>>
  PROVE  LET g == [h EXCEPT ![Len(h)].status = "failed"]
         IN /\ g \in Seq(Revisions) /\ Len(g) = Len(h)
            /\ OneDeployed(g) /\ ~IsPending(g)
            /\ \A i \in DOMAIN h : /\ g[i].version = h[i].version
                                   /\ g[i].values = h[i].values
                                   /\ g[i].manifest = h[i].manifest
<1> DEFINE g == [h EXCEPT ![Len(h)].status = "failed"]
           n == Len(h)
<1>1. /\ DOMAIN h = 1 .. n /\ n \in Nat /\ n # 0 /\ n \in 1 .. n
      /\ \A i \in 1 .. n : h[i] \in Revisions
  BY LenProperties, ElementOfSeq, EmptySeq
<1>2. [h[n] EXCEPT !.status = "failed"] \in Revisions
  BY <1>1 DEF Revisions, Statuses
<1>3. g = [h EXCEPT ![n] = [h[n] EXCEPT !.status = "failed"]]
  BY <1>1
<1>4. g \in Seq(Revisions) /\ Len(g) = n /\ DOMAIN g = 1 .. n
  BY <1>1, <1>2, <1>3, ExceptSeq, LenProperties
<1>5. \A i \in 1 .. n : g[i].status = IF i = n THEN "failed" ELSE h[i].status
  BY <1>1, <1>3 DEF Revisions
<1>6. \A i \in 1 .. n : /\ g[i].version = h[i].version
                        /\ g[i].values = h[i].values
                        /\ g[i].manifest = h[i].manifest
  BY <1>1, <1>3 DEF Revisions
<1>7. OneDeployed(g)
  BY <1>1, <1>4, <1>5 DEF OneDeployed
<1>8. ~IsPending(g)
  BY <1>1, <1>4, <1>5 DEF IsPending, PendingStates
<1> QED BY <1>1, <1>4, <1>6, <1>7, <1>8

-----------------------------------------------------------------------------
(* Lemmas about rendering and loading *)

\* Values copied forward are values.
LEMMA EffectiveFacts ==
  ASSUME NEW h \in Seq(Revisions), OneDeployed(h), NEW v \in AnyValues
  PROVE  /\ EffectiveValues(h, v) \in AnyValues
         /\ v # NoValues => EffectiveValues(h, v) = v
         /\ DeployedRevision(h) # 0 /\ v = NoValues =>
              EffectiveValues(h, v) = h[DeployedRevision(h)].values
<1>1. h # <<>> => Len(h) \in DOMAIN h /\ h[Len(h)] \in Revisions
  BY LenProperties, ElementOfSeq, EmptySeq
<1>2. DeployedRevision(h) # 0 => /\ h # <<>>
                                /\ h[DeployedRevision(h)] \in Revisions
  BY DeployedRevisionFacts, EmptySeq
<1>3. \A r \in Revisions : r.values \in AnyValues
  BY DEF Revisions
<1> QED BY <1>1, <1>2, <1>3 DEF EffectiveValues, CurrentRevision

\* The release Helm upgrades from is a revision of an existing release.
LEMMA CurrentFacts ==
  ASSUME NEW h \in Seq(Revisions), OneDeployed(h), h # <<>>
  PROVE  h[CurrentRevision(h)] \in Revisions
BY DeployedRevisionFacts, LastFacts DEF CurrentRevision

\* A chart renders to a manifest.
LEMMA RenderedType ==
  ASSUME NEW c \in Charts, NEW v \in AnyValues
  PROVE  Rendered(c, v) \in Manifests
BY DEF Rendered, Charts, Manifests, AnyValues

\* Loading gives a chart that is young enough, and leaves a sound cache.
LEMMA LoadType ==
  ASSUME TypeOK, NEW s \in Specs
  PROVE  /\ LoadChart(s) \in Entries
         /\ LoadChart(s).chart \in Charts
         /\ CacheChart(s) => cache' \in [Tags -> Entries \cup {NoEntry}]
<1>1. LoadChart(s) \in Entries
  <2>1. s.tag \in Tags /\ registry[s.tag] \in Charts
    BY DEF TypeOK, Specs
  <2>2. CASE Hit(s)
    BY <2>1, <2>2 DEF Hit, LoadChart, TypeOK
  <2>3. CASE ~Hit(s)
    BY <2>1, <2>3, ClockAssumption DEF LoadChart, Entries, MaxOutdated
  <2> QED BY <2>2, <2>3
<1>2. LoadChart(s).chart \in Charts
  BY <1>1 DEF Entries
<1>3. CacheChart(s) => cache' \in [Tags -> Entries \cup {NoEntry}]
  BY <1>1 DEF CacheChart, TypeOK
<1> QED BY <1>1, <1>2, <1>3

-----------------------------------------------------------------------------
(* Type correctness *)

\* A process that just started, and no release.
LEMMA TypeInit == Init => TypeInv
<1> SUFFICES ASSUME Init PROVE TypeInv
  OBVIOUS
<1> USE DEF Init
<1>1. history \in Seq(Revisions) /\ Len(history) = 0 /\ OneDeployed(history)
  BY EmptySeq DEF OneDeployed
<1>2. published \subseteq Charts
  OBVIOUS
<1>3. /\ drained \in 0 .. Drain /\ graced \in 0 .. Grace
      /\ edits \in 0 .. MaxEdits /\ pushes \in 0 .. MaxPushes
      /\ manual \in 0 .. MaxManual /\ stops \in 0 .. MaxStops
      /\ faults \in 0 .. MaxFaults
      /\ 0 <= MaxRevision
  BY ClockAssumption, BoundAssumption
<1> QED BY <1>1, <1>2, <1>3 DEF TypeInv, TypeOK, SeenType, ApplyPending

\* EnsureRelease deciding what to do.
LEMMA TypeDecide ==
  ASSUME TypeInv,
         EnsureInstall \/ EnsurePending \/ EnsureSkip \/ EnsureRetry
           \/ EnsureLatched \/ EnsureDiff
  PROVE  TypeInv'
<1> USE DEF TypeInv, TypeOK, SeenType, ApplyPending, Called,
            memoryVars, passVars, stopVars, boundVars, ghostVars
<1>1. CASE EnsureInstall \/ EnsureSkip \/ EnsureRetry \/ EnsureLatched
  BY <1>1 DEF EnsureInstall, EnsureSkip, EnsureRetry, EnsureLatched
<1>2. CASE EnsurePending
  BY <1>2 DEF EnsurePending, vars
<1>3. CASE EnsureDiff
  <2>1. DeployedRevision(history) # 0
    BY <1>3 DEF EnsureDiff, DecideRelease
  <2>2. /\ DeployedRevision(history) \in 1 .. MaxRevision
        /\ Deployed \in Revisions
    <3>1. /\ DeployedRevision(history) \in 1 .. Len(history)
          /\ Deployed \in Revisions
      BY <2>1, DeployedRevisionFacts, LenProperties DEF Deployed
    <3> QED BY <3>1, BoundAssumption, LenProperties
  <2>3. seen' \in [revision : 1 .. MaxRevision, deployed : Tags \X AnyValues]
    BY <1>3, <2>2 DEF EnsureDiff, DeployedFingerprint, Revisions
  <2> QED BY <1>3, <2>3 DEF EnsureDiff
<1> QED BY <1>1, <1>2, <1>3

\* Reading the deployed manifest.
LEMMA TypeReadManifest ==
  ASSUME TypeInv, ReadManifest
  PROVE  TypeInv'
<1> USE DEF TypeInv, SeenType, ApplyPending
<1>1. DeployedRevision(history) # 0 =>
        /\ DeployedFingerprint(Deployed) \in Tags \X AnyValues
        /\ Deployed.manifest \in Manifests
  <2>1. DeployedRevision(history) # 0 => Deployed \in Revisions
    BY DeployedRevisionFacts DEF Deployed, TypeOK
  <2> QED BY <2>1 DEF DeployedFingerprint, Revisions
<1>2. seen.revision \in 1 .. MaxRevision /\ seen.deployed \in Tags \X AnyValues
  BY DEF ReadManifest
<1>3. seen' \in [revision : 1 .. MaxRevision, deployed : Tags \X AnyValues,
                 manifest : Manifests \cup {NoManifest},
                 compared : Tags \X AnyValues]
  BY <1>1, <1>2 DEF ReadManifest, DeployedManifest
<1> QED BY <1>3 DEF TypeOK, ReadManifest, memoryVars, stopVars,
                    boundVars, ghostVars

\* Loading the chart and giving up, or going on to the write.
LEMMA TypeLoad ==
  ASSUME TypeInv, PullFails \/ RenderRefused \/ RenderDiffers \/ WriteRefused
  PROVE  TypeInv'
<1> USE DEF TypeInv, SeenType, ApplyPending, EndPass,
            memoryVars, passVars, stopVars, boundVars, ghostVars
<1>1. CASE PullFails
  BY <1>1, BoundAssumption DEF PullFails, TypeOK
<1>2. CASE RenderRefused \/ RenderDiffers \/ WriteRefused
  <2>1. run \in Specs
    BY <1>2 DEF TypeOK, RenderRefused, RenderDiffers, WriteRefused
  <2>2. cache' \in [Tags -> Entries \cup {NoEntry}]
    BY <1>2, <2>1, LoadType DEF RenderRefused, RenderDiffers, WriteRefused
  <2> QED BY <1>2, <2>1, <2>2 DEF TypeOK, RenderRefused, RenderDiffers,
                                  WriteRefused
<1> QED BY <1>1, <1>2

\* The diff that finds nothing to do memoizes its verdict.
LEMMA TypeRenderSame ==
  ASSUME TypeInv, RenderSame
  PROVE  TypeInv'
<1> USE DEF TypeInv, SeenType, ApplyPending
<1>1. run \in Specs /\ LoadChart(run) \in Entries
  BY LoadType DEF TypeOK, RenderSame
<1>2. cache' \in [Tags -> Entries \cup {NoEntry}]
  BY <1>1, LoadType DEF RenderSame
<1>3. Current \in Revisions
  BY CurrentFacts DEF RenderSame, Renders, Current, TypeOK
<1>4. DeployedFingerprint(Current) \in Tags \X AnyValues
  BY <1>3 DEF DeployedFingerprint, Revisions
<1>5. SpecFingerprint(run) \in Tags \X AnyValues
  BY <1>1 DEF SpecFingerprint, Specs
<1>6. latch' \in Latches
  <2>1. /\ LoadChart(run).chart \in Charts
        /\ LoadChart(run).outdated \in 0 .. MaxOutdated
    BY <1>1 DEF Entries
  <2>2. /\ seen.revision \in 1 .. MaxRevision
        /\ seen.deployed \in Tags \X AnyValues
        /\ seen.compared \in Tags \X AnyValues
    BY DEF RenderSame
  <2>3. 0 \in 0 .. LatchTTL + 1
    BY ClockAssumption
  <2> QED BY <1>4, <1>5, <2>1, <2>2, <2>3 DEF RenderSame, Latches
<1> QED BY <1>2, <1>6
        DEF TypeOK, RenderSame, EndPass, stopVars, boundVars,
            ghostVars

\* The pending revision is a revision.
LEMMA TypeWrite ==
  ASSUME TypeInv, Install \/ Upgrade
  PROVE  TypeInv'
<1> USE DEF TypeInv, SeenType, ApplyPending
<1>1. run \in Specs /\ LoadChart(run).chart \in Charts
  BY LoadType DEF TypeOK, Install, Upgrade
<1>2. cache' \in [Tags -> Entries \cup {NoEntry}]
  BY <1>1, LoadType DEF Install, Upgrade
<1>3. PICK status \in PendingStates : StorePending(LoadChart(run).chart, status)
  BY DEF Install, Upgrade, PendingStates
<1> DEFINE c == LoadChart(run).chart
           v == EffectiveValues(history, run.values)
           r == [version |-> c.version, values |-> v,
                 manifest |-> Rendered(c, v), status |-> status]
<1>4. history \in Seq(Revisions) /\ run.values \in AnyValues
  BY <1>1 DEF TypeOK, Specs
<1>5. v \in AnyValues
  BY <1>4, EffectiveFacts
<1>6. r \in Revisions
  <2>1. c.version \in Tags
    BY <1>1 DEF Charts
  <2>2. Rendered(c, v) \in Manifests
    BY <1>1, <1>5, RenderedType
  <2> HIDE DEF c, v
  <2> QED BY <1>5, <2>1, <2>2 DEF Revisions, Statuses
<1>7. history' = Append(history, r)
  BY <1>3 DEF StorePending
<1>8. r.status \in PendingStates
  OBVIOUS
<1> HIDE DEF r
<1>9. /\ history' \in Seq(Revisions) /\ Len(history') = Len(history) + 1
      /\ OneDeployed(history') /\ IsPending(history')
  BY <1>4, <1>6, <1>7, <1>8, PendingFacts
<1>10. Len(history') <= MaxRevision
  BY <1>3, <1>4, <1>9, BoundAssumption, LenProperties DEF StorePending
<1>11. graced' \in 0 .. Grace
  BY <1>3, ClockAssumption DEF StorePending
<1>12. late' \in BOOLEAN
  BY <1>3 DEF StorePending, TypeOK
<1> QED BY <1>1, <1>2, <1>3, <1>9, <1>10, <1>11, <1>12
        DEF TypeOK, StorePending, Install, Upgrade, boundVars

\* A write is settled: deployed or failed.
LEMMA TypeSettle ==
  ASSUME TypeInv, ApplySucceeds \/ ApplyFails \/ GraceExpires
  PROVE  TypeInv'
<1> USE DEF TypeInv, SeenType, ApplyPending
<1>1. pc = "apply" /\ history \in Seq(Revisions) /\ history # <<>>
  BY DEF ApplySucceeds, ApplyFails, GraceExpires, GraceOver, TypeOK, IsPending
<1>2. /\ history' \in Seq(Revisions) /\ Len(history') = Len(history)
      /\ OneDeployed(history')
  <2>1. CASE ApplySucceeds
    BY <1>1, <2>1, SupersedingFacts DEF ApplySucceeds
  <2>2. CASE ApplyFails \/ GraceExpires
    BY <1>1, <2>2, FailFacts DEF ApplyFails, GraceExpires, FailRelease
  <2> QED BY <2>1, <2>2
<1>3. faults' \in 0 .. MaxFaults
  BY BoundAssumption
     DEF ApplySucceeds, ApplyFails, GraceExpires, TypeOK, boundVars
<1> QED BY <1>1, <1>2, <1>3
        DEF ApplySucceeds, ApplyFails, GraceExpires, FailRelease, EndPass,
            TypeOK, memoryVars, stopVars, boundVars, ghostVars

\* DeleteRelease, with or without success.
LEMMA TypeDelete ==
  ASSUME TypeInv, DeleteRelease
  PROVE  TypeInv'
<1> USE DEF TypeInv, SeenType, ApplyPending
<1>1. /\ history' \in Seq(Revisions) /\ OneDeployed(history')
      /\ Len(history') <= MaxRevision
  <2>1. CASE history' = <<>>
    BY <2>1, EmptySeq, BoundAssumption DEF OneDeployed
  <2>2. CASE UNCHANGED history
    BY <2>2 DEF TypeOK
  <2> QED BY <2>1, <2>2 DEF DeleteRelease
<1>2. edits' \in 0 .. MaxEdits /\ faults' \in 0 .. MaxFaults
  BY BoundAssumption DEF DeleteRelease, TypeOK
<1> QED BY <1>1, <1>2
        DEF TypeOK, DeleteRelease, passVars, stopVars, ghostVars

\* The process is told to stop, exits or is killed.
LEMMA TypeStop ==
  ASSUME TypeInv, Sigterm \/ Exit \/ Kill
  PROVE  TypeInv'
<1> USE DEF TypeInv, SeenType, ApplyPending
<1>1. CASE Sigterm
  <2>1. stops' \in 0 .. MaxStops /\ drained' \in 0 .. Drain /\ graced' \in 0 .. Grace
    BY <1>1, ClockAssumption, BoundAssumption DEF Sigterm, TypeOK
  <2> QED BY <1>1, <2>1 DEF TypeOK, Sigterm, memoryVars, passVars,
                            ghostVars
<1>2. CASE Exit \/ Kill
  <2>1. /\ drained' \in 0 .. Drain /\ graced' \in 0 .. Grace
        /\ faults' \in 0 .. MaxFaults
    BY <1>2, ClockAssumption, BoundAssumption
       DEF Exit, Kill, ForgetAll, TypeOK, boundVars
  <2>2. killed' \in BOOLEAN /\ late' = late /\ published' = published
    BY <1>2 DEF Exit, Kill, TypeOK, ghostVars
  <2> QED BY <1>2, <2>1, <2>2
          DEF Exit, Kill, ForgetAll, EndPass, TypeOK, boundVars
<1> QED BY <1>1, <1>2

\* Edits of the custom resource and of the registry.
LEMMA TypeEdit ==
  ASSUME TypeInv, EditSpec \/ Push
  PROVE  TypeInv'
<1> USE DEF TypeInv, TypeOK, SeenType, ApplyPending, memoryVars,
            passVars, stopVars
<1>1. CASE EditSpec
  BY <1>1, BoundAssumption DEF EditSpec, ghostVars
<1>2. CASE Push
  <2>1. registry' \in [Tags -> Charts] /\ published' \subseteq Charts
    BY <1>2 DEF Push
  <2>2. pushes' \in 0 .. MaxPushes
    BY <1>2, BoundAssumption DEF Push
  <2> QED BY <1>2, <2>1, <2>2 DEF Push
<1> QED BY <1>1, <1>2

\* helm by hand.
LEMMA TypeManual ==
  ASSUME TypeInv, ManualUninstall \/ ManualRollback \/ ManualInstall
  PROVE  TypeInv'
<1> USE DEF TypeInv, SeenType, ApplyPending
<1>1. Manual
  BY DEF ManualUninstall, ManualRollback, ManualInstall
<1>2. manual' \in 0 .. MaxManual
  BY <1>1, BoundAssumption DEF Manual, TypeOK
<1>3. /\ history' \in Seq(Revisions) /\ OneDeployed(history')
      /\ Len(history') <= MaxRevision
  <2>1. CASE ManualUninstall
    BY <2>1, EmptySeq, BoundAssumption DEF ManualUninstall, OneDeployed
  <2>2. CASE ManualRollback
    <3>1. PICK i \in DOMAIN history :
            history' = Superseding(Append(history, history[i]))
      BY <2>2 DEF ManualRollback
    <3>2. history[i] \in Revisions
      BY LenProperties, ElementOfSeq DEF TypeOK
    <3>3. /\ Append(history, history[i]) \in Seq(Revisions)
          /\ Append(history, history[i]) # <<>>
          /\ Len(Append(history, history[i])) = Len(history) + 1
      BY <3>2, AppendProperties DEF TypeOK
    <3>4. /\ history' \in Seq(Revisions) /\ OneDeployed(history')
          /\ Len(history') = Len(history) + 1
      BY <3>1, <3>3, SupersedingFacts
    <3>5. Len(history') <= MaxRevision
      BY <2>2, <3>4, BoundAssumption, LenProperties DEF ManualRollback, TypeOK
    <3> QED BY <3>4, <3>5
  <2>3. CASE ManualInstall
    <3>1. PICK c \in published, v \in AnyValues :
            history' = <<[version |-> c.version, values |-> v,
                          manifest |-> Rendered(c, v), status |-> "deployed"]>>
      BY <2>3 DEF ManualInstall
    <3>2. c \in Charts /\ Rendered(c, v) \in Manifests /\ c.version \in Tags
      BY RenderedType DEF TypeOK, Charts
    <3>3. history'[1] \in Revisions /\ history' = <<history'[1]>>
      BY <3>1, <3>2 DEF Revisions, Statuses
    <3>4. /\ history' \in Seq(Revisions) /\ Len(history') = 1
          /\ DOMAIN history' = {1}
      BY <3>3
    <3>5. OneDeployed(history')
      BY <3>4 DEF OneDeployed
    <3> QED BY <3>1, <3>2, <3>4, <3>5, BoundAssumption
  <2> QED BY <2>1, <2>2, <2>3
<1> QED BY <1>1, <1>2, <1>3
        DEF TypeOK, Manual, memoryVars, passVars, stopVars, ghostVars

\* Time passes: no clock runs past its limit.
LEMMA TypeTick ==
  ASSUME TypeInv, Tick
  PROVE  TypeInv'
<1> USE DEF TypeInv, SeenType, ApplyPending
<1>1. \A e \in Entries \cup Latches, t \in Tags :
        Older(e, t) \in 0 .. MaxOutdated
  BY ClockAssumption DEF Older, Min2, MaxOutdated, Entries, Latches
<1>2. cache' \in [Tags -> Entries \cup {NoEntry}]
  <2>1. ASSUME NEW t \in Tags PROVE Aged(cache[t], t) \in Entries \cup {NoEntry}
    <3>1. CASE cache[t] = NoEntry \/ cache[t].age = CacheTTL
      BY <3>1 DEF Aged
    <3>2. CASE ~(cache[t] = NoEntry \/ cache[t].age = CacheTTL)
      <4>1. cache[t] \in Entries
        BY <3>2 DEF TypeOK
      <4>2. Older(cache[t], t) \in 0 .. MaxOutdated
        BY <1>1, <4>1
      <4>3. cache[t].age + 1 \in 0 .. CacheTTL
        BY <3>2, <4>1, ClockAssumption DEF Entries
      <4> QED BY <3>2, <4>1, <4>2, <4>3 DEF Aged, Entries
    <3> QED BY <3>1, <3>2
  <2> QED BY <2>1 DEF Tick
<1>3. latch' \in Latches \cup {NoLatch}
  <2>1. CASE latch = NoLatch
    BY <2>1 DEF Tick
  <2>2. CASE latch # NoLatch
    <3>1. latch \in Latches /\ latch.spec[1] \in Tags
      BY <2>2 DEF TypeOK, Latches
    <3>2. Older(latch, latch.spec[1]) \in 0 .. MaxOutdated
      BY <1>1, <3>1
    <3>3. Min2(latch.age + 1, LatchTTL + 1) \in 0 .. LatchTTL + 1
      BY <3>1, ClockAssumption DEF Min2, Latches
    <3> QED BY <2>2, <3>1, <3>2, <3>3 DEF Tick, Latches
  <2> QED BY <2>1, <2>2
<1>4. drained' \in 0 .. Drain /\ graced' \in 0 .. Grace
  BY ClockAssumption DEF Tick, TypeOK, Min2
<1> QED BY <1>2, <1>3, <1>4
        DEF TypeOK, Tick, passVars, boundVars, ghostVars

\* No step leaves the types.
LEMMA TypeStep == TypeInv /\ [Next]_vars => TypeInv'
<1> SUFFICES ASSUME TypeInv, [Next]_vars PROVE TypeInv'
  OBVIOUS
<1>1. CASE Next
  BY <1>1, TypeDecide, TypeReadManifest, TypeLoad, TypeRenderSame, TypeWrite, TypeSettle,
     TypeDelete, TypeStop, TypeEdit, TypeManual, TypeTick
     DEF Next, Ensure
<1>2. CASE UNCHANGED vars
  BY <1>2 DEF TypeInv, TypeOK, SeenType, ApplyPending, vars,
              memoryVars, passVars, stopVars, boundVars, ghostVars
<1> QED BY <1>1, <1>2

\* The storage, the memoized verdict, the cached charts and the clocks keep
\* their types, whatever the constants: no age outgrows its limit, storage has
\* one deployed revision.
THEOREM TypeCorrect == Spec => []TypeOK
<1>1. Spec => []TypeInv
  BY TypeInit, TypeStep, PTL DEF Spec
<1>2. TypeInv => TypeOK
  BY DEF TypeInv
<1> QED BY <1>1, <1>2, PTL

-----------------------------------------------------------------------------
(* Shutdown *)

\* While a write that was running at SIGTERM still runs, its grace and the
\* drain are the same clock, and the grace is the shorter of the two.
OneClock == stopping /\ pc = "apply" /\ ~late => drained = graced

StopInv == TypeInv /\ OneClock /\ PendingOnlyByKillOrLate

\* A process that just started is not stopping.
LEMMA StopInit == Init => StopInv
BY TypeInit DEF Init, StopInv, OneClock, PendingOnlyByKillOrLate, IsPending

\* Every step keeps the clocks together until the write is settled.
LEMMA StopStep == StopInv /\ [Next]_vars => StopInv'
<1> SUFFICES ASSUME StopInv, [Next]_vars PROVE OneClock' /\ PendingOnlyByKillOrLate'
  BY TypeStep DEF StopInv
<1> USE DEF OneClock, PendingOnlyByKillOrLate
<1>1. /\ TypeInv /\ OneClock /\ PendingOnlyByKillOrLate
      /\ history \in Seq(Revisions) /\ OneDeployed(history)
      /\ pc = "apply" => IsPending(history) /\ history # <<>>
  BY DEF StopInv, TypeInv, TypeOK, ApplyPending, IsPending
<1>2. CASE EnsureInstall \/ EnsurePending \/ EnsureSkip \/ EnsureRetry
             \/ EnsureLatched \/ EnsureDiff
  BY <1>1, <1>2
     DEF EnsureInstall, EnsurePending, EnsureSkip, EnsureRetry, EnsureLatched,
         EnsureDiff, Called, vars, passVars, stopVars, ghostVars
<1>3. CASE ReadManifest \/ PullFails \/ RenderRefused \/ RenderSame
             \/ RenderDiffers \/ WriteRefused
  BY <1>1, <1>3
     DEF ReadManifest, PullFails, RenderRefused, RenderSame, RenderDiffers, WriteRefused,
         EndPass, stopVars, ghostVars
<1>4. CASE Install \/ Upgrade
  BY <1>1, <1>4 DEF Install, Upgrade, StorePending, TypeInv, TypeOK
<1>5. CASE ApplySucceeds
  BY <1>1, <1>5, SupersedingFacts DEF ApplySucceeds, EndPass
<1>6. CASE ApplyFails \/ GraceExpires
  <2>1. pc = "apply"
    BY <1>6 DEF ApplyFails, GraceExpires, GraceOver
  <2> QED BY <1>1, <1>6, <2>1, FailFacts
          DEF ApplyFails, GraceExpires, FailRelease, EndPass
<1>7. CASE DeleteRelease
  BY <1>1, <1>7 DEF DeleteRelease, passVars, ghostVars, IsPending
<1>8. CASE Sigterm
  BY <1>1, <1>8 DEF Sigterm, passVars, ghostVars
<1>9. CASE Exit
  <2>1. CASE pc = "apply" /\ ~late
    <3>1. stopping /\ drained = Drain /\ graced \in 0 .. Grace
      BY <1>1, <1>9, <2>1 DEF Exit, TypeInv, TypeOK
    <3> QED BY <1>1, <2>1, <3>1, ClockAssumption
  <2>2. CASE pc # "apply" \/ late
    BY <1>1, <1>9, <2>2
       DEF Exit, ForgetAll, EndPass, ghostVars, TypeInv, TypeOK
  <2> QED BY <2>1, <2>2 DEF TypeInv, TypeOK
<1>10. CASE Kill
  BY <1>1, <1>10 DEF Kill, ForgetAll, EndPass, TypeInv, TypeOK
<1>11. CASE EditSpec \/ Push
  BY <1>1, <1>11 DEF EditSpec, Push, passVars, stopVars, ghostVars
<1>12. CASE ManualUninstall \/ ManualRollback \/ ManualInstall
  <2>1. pc # "apply" /\ UNCHANGED <<passVars, stopVars, ghostVars>>
    BY <1>12 DEF ManualUninstall, ManualRollback, ManualInstall, Manual
  <2>2. ~IsPending(history')
    <3>1. CASE ManualUninstall
      BY <3>1 DEF ManualUninstall, IsPending
    <3>2. CASE ManualRollback
      <4>1. PICK i \in DOMAIN history :
              history' = Superseding(Append(history, history[i]))
        BY <3>2 DEF ManualRollback
      <4>2. history[i] \in Revisions
        BY <1>1, LenProperties, ElementOfSeq
      <4>3. /\ Append(history, history[i]) \in Seq(Revisions)
            /\ Append(history, history[i]) # <<>>
        BY <1>1, <4>2, AppendProperties
      <4> QED BY <4>1, <4>3, SupersedingFacts
    <3>3. CASE ManualInstall
      <4>1. Len(history') = 1 /\ history'[1].status = "deployed"
        BY <3>3 DEF ManualInstall
      <4> QED BY <4>1 DEF IsPending, PendingStates
    <3> QED BY <1>12, <3>1, <3>2, <3>3
  <2> QED BY <2>1, <2>2 DEF passVars, stopVars, ghostVars
<1>13. CASE Tick
  <2>1. PendingOnlyByKillOrLate'
    BY <1>1, <1>13 DEF Tick, passVars, ghostVars
  <2>2. OneClock'
    <3>1. /\ pc' = pc /\ late' = late /\ stopping' = stopping
          /\ ~GraceOver
          /\ stopping /\ pc = "apply" =>
               drained' = drained + 1 /\ graced' = Min2(graced + 1, Grace)
      BY <1>13 DEF Tick, passVars, ghostVars
    <3>2. graced \in 0 .. Grace
      BY <1>1 DEF TypeInv, TypeOK
    <3>3. stopping /\ pc = "apply" => graced' = graced + 1
      BY <3>1, <3>2, ClockAssumption DEF GraceOver, Min2
    <3> QED BY <1>1, <3>1, <3>3
  <2> QED BY <2>1, <2>2
<1>14. CASE UNCHANGED vars
  BY <1>1, <1>14 DEF vars, passVars, stopVars, ghostVars
<1> QED BY <1>2, <1>3, <1>4, <1>5, <1>6, <1>7, <1>8, <1>9, <1>10, <1>11,
           <1>12, <1>13, <1>14 DEF Next, Ensure

\* withShutdownGrace and the manager's drain: a write running when SIGTERM
\* arrives is settled before the process exits, for every Grace < Drain; a
\* release is left pending by a kill or by a write begun after SIGTERM only.
THEOREM ShutdownSafe == Spec => []PendingOnlyByKillOrLate
<1>1. Spec => []StopInv
  BY StopInit, StopStep, PTL DEF Spec
<1>2. StopInv => PendingOnlyByKillOrLate
  BY DEF StopInv
<1> QED BY <1>1, <1>2, PTL

-----------------------------------------------------------------------------
(* How long a verdict is trusted                                           *)

\* An archive was replaced in the registry no longer ago than it was pulled; a
\* verdict, at most as long before it was reached as an archive is kept.
ArchiveAge == \A t \in Tags : cache[t] # NoEntry => cache[t].outdated <= cache[t].age
VerdictAge == latch # NoLatch /\ latch.age <= LatchTTL => latch.outdated <= latch.age + CacheTTL

WindowInv == TypeInv /\ ArchiveAge /\ VerdictAge

\* What a pass loads is no more outdated than the cache allows.
LEMMA LoadedAge ==
  ASSUME WindowInv, NEW s \in Specs
  PROVE  /\ LoadChart(s).outdated \in 0 .. CacheTTL
         /\ LoadChart(s) # NoEntry => LoadChart(s).outdated <= LoadChart(s).age
<1>1. CASE Hit(s)
  <2>1. cache[s.tag] \in Entries /\ cache[s.tag] # NoEntry /\ s.tag \in Tags
    BY <1>1 DEF WindowInv, TypeInv, TypeOK, Hit, Specs
  <2>2. cache[s.tag].outdated <= cache[s.tag].age
    BY <2>1 DEF WindowInv, ArchiveAge
  <2>3. cache[s.tag].age \in 0 .. CacheTTL /\ cache[s.tag].outdated \in 0 .. MaxOutdated
    BY <2>1 DEF Entries
  <2>4. cache[s.tag].outdated \in 0 .. CacheTTL
    BY <2>2, <2>3, ClockAssumption DEF MaxOutdated
  <2> QED BY <1>1, <2>2, <2>4 DEF LoadChart
<1>2. CASE ~Hit(s)
  BY <1>2, ClockAssumption DEF LoadChart
<1> QED BY <1>1, <1>2

\* Downloads and hits keep the cache as young as it was.
LEMMA CacheAge == ASSUME WindowInv, NEW s \in Specs, CacheChart(s) PROVE ArchiveAge'
<1>1. CASE s.auth
  BY <1>1 DEF CacheChart, WindowInv, ArchiveAge
<1>2. CASE ~s.auth
  <2>1. s.tag \in Tags /\ cache' = [cache EXCEPT ![s.tag] = LoadChart(s)]
    BY <1>2 DEF CacheChart, Specs
  <2>2. ASSUME NEW t \in Tags, cache'[t] # NoEntry PROVE cache'[t].outdated <= cache'[t].age
    <3>1. CASE t = s.tag
      BY <2>1, <2>2, <3>1, LoadedAge DEF WindowInv, TypeInv, TypeOK
    <3>2. CASE t # s.tag
      BY <2>1, <2>2, <3>2 DEF WindowInv, TypeInv, TypeOK, ArchiveAge
    <3> QED BY <3>1, <3>2
  <2> QED BY <2>2 DEF ArchiveAge
<1> QED BY <1>1, <1>2

LEMMA WindowInit == Init => WindowInv
BY TypeInit DEF Init, WindowInv, ArchiveAge, VerdictAge

LEMMA TickAge == ASSUME WindowInv, Tick PROVE ArchiveAge' /\ VerdictAge'
<1>0. /\ cache \in [Tags -> Entries \cup {NoEntry}] /\ latch \in Latches \cup {NoLatch}
      /\ ArchiveAge /\ VerdictAge
  BY DEF WindowInv, TypeInv, TypeOK
<1>1. ASSUME NEW e, e.outdated \in Nat, NEW t PROVE Older(e, t) <= e.outdated + 1
  BY <1>1, ClockAssumption DEF Older, Min2, MaxOutdated
<1>2. ASSUME NEW t \in Tags, cache'[t] # NoEntry PROVE cache'[t].outdated <= cache'[t].age
  <2> DEFINE e == cache[t]
  <2>1. cache'[t] = Aged(e, t)
    BY DEF Tick
  <2>2. e # NoEntry /\ e \in Entries
    BY <1>0, <1>2, <2>1 DEF Aged
  <2>3. cache'[t] = [e EXCEPT !.age = e.age + 1, !.outdated = Older(e, t)]
    BY <1>2, <2>1, <2>2 DEF Aged
  <2>4. e.age \in Nat /\ e.outdated \in Nat /\ e.outdated <= e.age
    BY <1>0, <2>2, ClockAssumption DEF Entries, ArchiveAge, MaxOutdated
  <2>5. cache'[t].age = e.age + 1 /\ cache'[t].outdated = Older(e, t)
    BY <2>2, <2>3 DEF Entries
  <2>6. Older(e, t) <= e.outdated + 1
    BY <1>1, <2>4
  <2>7. Older(e, t) \in Nat
    BY <2>4, ClockAssumption DEF Older, Min2, MaxOutdated
  <2> QED BY <2>4, <2>5, <2>6, <2>7
<1>3. ASSUME latch' # NoLatch, latch'.age <= LatchTTL
      PROVE  latch'.outdated <= latch'.age + CacheTTL
  <2> DEFINE o == Older(latch, latch.spec[1])
  <2>1. latch # NoLatch /\ latch \in Latches
    BY <1>0, <1>3 DEF Tick
  <2>2. latch' = [latch EXCEPT !.age = Min2(latch.age + 1, LatchTTL + 1), !.outdated = o]
    BY <2>1 DEF Tick
  <2>3. latch'.age = Min2(latch.age + 1, LatchTTL + 1) /\ latch'.outdated = o
    BY <2>1, <2>2 DEF Latches
  <2>4. latch.age \in Nat /\ latch.outdated \in Nat
    BY <2>1, ClockAssumption DEF Latches, MaxOutdated
  <2>5. latch'.age = latch.age + 1 /\ latch.age <= LatchTTL
    BY <1>3, <2>3, <2>4, ClockAssumption DEF Min2
  <2>6. latch.outdated <= latch.age + CacheTTL
    BY <1>0, <2>1, <2>5 DEF VerdictAge
  <2>7. o <= latch.outdated + 1 /\ o \in Nat
    BY <1>1, <2>4, ClockAssumption DEF Older, Min2, MaxOutdated
  <2> QED BY <2>3, <2>4, <2>5, <2>6, <2>7, ClockAssumption
<1> QED BY <1>2, <1>3 DEF ArchiveAge, VerdictAge

\* Only a diff, the clock and the end of the process write cache or verdict.
LEMMA WindowStep == WindowInv /\ [Next]_vars => WindowInv'
<1> SUFFICES ASSUME WindowInv, [Next]_vars PROVE ArchiveAge' /\ VerdictAge'
  BY TypeStep DEF WindowInv
<1>0. ArchiveAge /\ VerdictAge /\ TypeInv
  BY DEF WindowInv
<1>u. ASSUME UNCHANGED <<latch, cache>> PROVE ArchiveAge' /\ VerdictAge'
  BY <1>0, <1>u DEF ArchiveAge, VerdictAge
<1>c. ASSUME UNCHANGED latch, pc # "idle", CacheChart(run) PROVE ArchiveAge' /\ VerdictAge'
  <2>1. run \in Specs
    BY <1>0, <1>c DEF TypeInv, TypeOK
  <2> QED BY <1>0, <1>c, <2>1, CacheAge DEF VerdictAge
<1>1. CASE EnsureInstall \/ EnsurePending \/ EnsureSkip \/ EnsureRetry
             \/ EnsureLatched \/ EnsureDiff \/ ReadManifest \/ PullFails
  BY <1>u, <1>1
     DEF EnsureInstall, EnsurePending, EnsureSkip, EnsureRetry,
         EnsureLatched, EnsureDiff, ReadManifest, PullFails, vars, memoryVars
<1>2. CASE RenderRefused \/ RenderDiffers \/ Install \/ Upgrade \/ WriteRefused
  BY <1>c, <1>2 DEF RenderRefused, RenderDiffers, Install, Upgrade, WriteRefused
<1>3. CASE RenderSame
  <2>1. run \in Specs /\ CacheChart(run)
    BY <1>0, <1>3 DEF RenderSame, TypeInv, TypeOK
  <2>2. latch'.age = 0 /\ latch'.outdated = LoadChart(run).outdated
    BY <1>3 DEF RenderSame
  <2>3. VerdictAge'
    BY <2>1, <2>2, LoadedAge, ClockAssumption DEF VerdictAge
  <2> QED BY <2>1, <2>3, CacheAge
<1>4. CASE ApplySucceeds \/ ApplyFails \/ GraceExpires \/ Sigterm \/ EditSpec \/ Push
             \/ ManualUninstall \/ ManualRollback \/ ManualInstall
  BY <1>u, <1>4
     DEF ApplySucceeds, ApplyFails, GraceExpires, Sigterm, EditSpec, Push,
         ManualUninstall, ManualRollback, ManualInstall, Manual, memoryVars
<1>5. CASE DeleteRelease
  BY <1>0, <1>5 DEF DeleteRelease, ArchiveAge, VerdictAge
<1>6. CASE Exit \/ Kill
  BY <1>6 DEF Exit, Kill, ForgetAll, ArchiveAge, VerdictAge
<1>7. CASE Tick
  BY <1>7, TickAge
<1>8. CASE UNCHANGED vars
  BY <1>u, <1>8 DEF vars, memoryVars
<1> QED BY <1>1, <1>2, <1>3, <1>4, <1>5, <1>6, <1>7, <1>8 DEF Next, Ensure

\* convergenceTTL and chartCacheTTL: for every length of the two, a verdict that
\* still counts was overtaken by a push no longer ago than both together.
THEOREM VerdictsExpire == Spec => []LatchWindow
<1>1. Spec => []WindowInv
  BY WindowInit, WindowStep, PTL DEF Spec
<1>2. WindowInv => LatchWindow
  <2> SUFFICES ASSUME WindowInv, Latched PROVE latch.outdated <= LatchTTL + CacheTTL
    BY DEF LatchWindow
  <2>1. latch # NoLatch /\ latch.age <= LatchTTL
    BY DEF Latched, ConvergenceHolds
  <2>2. latch.outdated <= latch.age + CacheTTL
    BY <2>1 DEF WindowInv, VerdictAge
  <2>3. latch.age \in Nat /\ latch.outdated \in Nat
    BY <2>1, ClockAssumption DEF WindowInv, TypeInv, TypeOK, Latches, MaxOutdated
  <2> QED BY <2>1, <2>2, <2>3, ClockAssumption
<1> QED BY <1>1, <1>2, PTL

-----------------------------------------------------------------------------
(* What a nil answer means *)

\* A revision was rendered from one of the charts in P.
From(r, P) ==
  \E c \in P : r.version = c.version /\ r.manifest = Rendered(c, r.values)

RevisionsSound == \A i \in DOMAIN history : From(history[i], published)

ChartsSound ==
  \A t \in Tags : /\ registry[t] \in published
                  /\ cache[t] # NoEntry => cache[t].chart = registry[t]

\* The manifest the diff will compare is one of a published chart.
SeenSound ==
  pc = "render" /\ seen.manifest # NoManifest =>
    \E c \in published : /\ c.version = seen.compared[1]
                         /\ seen.manifest = Rendered(c, seen.compared[2])

\* The release the diff compared rendered to what the spec renders to.
LatchSound ==
  latch # NoLatch /\ latch.compared = {latch.deployed} =>
    \E c \in published :
      /\ c.version = latch.deployed[1]
      /\ Rendered(c, latch.deployed[2]) =
           Rendered(registry[latch.spec[1]],
                    IF latch.spec[2] = NoValues THEN latch.deployed[2]
                    ELSE latch.spec[2])

WriteSound ==
  pc = "apply" =>
    LET r == history[Len(history)]
    IN /\ run.values # NoValues => r.values = run.values
       /\ r.manifest = Rendered(registry[run.tag], r.values)

Sound ==
  RevisionsSound /\ ChartsSound /\ SeenSound /\ LatchSound /\ WriteSound

RenderInv == TypeInv /\ (pushes = 0 => Sound)

\* As long as no chart is pushed again the registry stands still.
LEMMA NoPush ==
  ASSUME TypeInv, Next \/ UNCHANGED vars, pushes' = 0
  PROVE  pushes = 0 /\ registry' = registry /\ published' = published
<1>1. ~Push
  BY DEF Push, TypeInv, TypeOK
<1> QED BY <1>1
        DEF Next, Ensure, EnsureInstall, EnsurePending, EnsureSkip, EnsureRetry,
            EnsureLatched, EnsureDiff, ReadManifest, PullFails, RenderRefused,
            RenderSame, RenderDiffers, Install, Upgrade, StorePending, WriteRefused,
            ApplySucceeds, ApplyFails, GraceExpires, FailRelease,
            DeleteRelease, Sigterm, Exit, Kill, EditSpec, ManualUninstall,
            ManualRollback, ManualInstall, Manual, Tick, boundVars, ghostVars,
            vars

\* A loaded chart is the registry's.
LEMMA LoadSound ==
  ASSUME TypeInv, ChartsSound, NEW s \in Specs
  PROVE  /\ s.tag \in Tags
         /\ LoadChart(s).chart = registry[s.tag]
         /\ CacheChart(s) =>
              \A t \in Tags : cache'[t] # NoEntry => cache'[t].chart = registry[t]
<1>1. s.tag \in Tags
  BY DEF Specs
<1>2. LoadChart(s).chart = registry[s.tag]
  BY <1>1 DEF LoadChart, Hit, ChartsSound
<1>3. CacheChart(s) =>
        \A t \in Tags : cache'[t] # NoEntry => cache'[t].chart = registry[t]
  BY <1>1, <1>2 DEF CacheChart, ChartsSound, TypeInv, TypeOK
<1> QED BY <1>1, <1>2, <1>3

\* Changing statuses does not change where revisions come from.
LEMMA FromKept ==
  ASSUME NEW h \in Seq(Revisions), NEW g \in Seq(Revisions), Len(g) = Len(h),
         NEW P, \A i \in DOMAIN h : From(h[i], P),
         \A i \in DOMAIN h : /\ g[i].version = h[i].version
                             /\ g[i].values = h[i].values
                             /\ g[i].manifest = h[i].manifest
  PROVE  \A i \in DOMAIN g : From(g[i], P)
<1>1. DOMAIN g = DOMAIN h
  BY LenProperties
<1> QED BY <1>1 DEF From

\* Storing one more revision keeps where revisions come from.
LEMMA FromAppend ==
  ASSUME NEW h \in Seq(Revisions), NEW r \in Revisions, NEW P,
         \A i \in DOMAIN h : From(h[i], P), From(r, P)
  PROVE  \A i \in DOMAIN Append(h, r) : From(Append(h, r)[i], P)
<1>1. /\ Append(h, r) \in Seq(Revisions) /\ Len(Append(h, r)) = Len(h) + 1
      /\ \A i \in 1 .. Len(h) : Append(h, r)[i] = h[i]
      /\ Append(h, r)[Len(h) + 1] = r
  BY AppendProperties
<1>2. /\ Len(h) \in Nat /\ DOMAIN h = 1 .. Len(h)
      /\ DOMAIN Append(h, r) = 1 .. (Len(h) + 1)
  BY <1>1, LenProperties
<1>3. \A i \in 1 .. (Len(h) + 1) : i \in 1 .. Len(h) \/ i = Len(h) + 1
  BY <1>2
<1> QED BY <1>1, <1>2, <1>3

\* Nothing is stored and nothing is memoized at the start.
LEMMA RenderInit == Init => RenderInv
<1> SUFFICES ASSUME Init PROVE Sound
  BY TypeInit DEF RenderInv
<1>1. RevisionsSound
  BY DEF Init, RevisionsSound
<1>2. ChartsSound
  BY DEF Init, ChartsSound
<1> QED BY <1>1, <1>2 DEF Init, Sound, SeenSound, LatchSound, WriteSound

\* Steps that touch neither storage nor the write, nor memoize anything new.
LEMMA SoundQuiet ==
  ASSUME Sound, registry' = registry, published' = published,
         history' = history, pc' = "apply" => pc = "apply" /\ run' = run,
         pc' = "render" => pc = "render" /\ seen' = seen,
         latch' = latch \/ latch' = NoLatch,
         \A t \in Tags : cache'[t] # NoEntry => cache'[t].chart = registry[t]
  PROVE  Sound'
BY DEF Sound, RevisionsSound, ChartsSound, SeenSound, LatchSound, WriteSound

\* The manifest that is read is the deployed revision's.
LEMMA SoundReadManifest ==
  ASSUME TypeInv, Sound, ReadManifest
  PROVE  Sound'
<1>1. history \in Seq(Revisions) /\ OneDeployed(history) /\ RevisionsSound
  BY DEF TypeInv, TypeOK, Sound
<1>2. CASE DeployedRevision(history) = 0
  <2>1. seen'.manifest = NoManifest
    BY <1>2 DEF ReadManifest, DeployedManifest
  <2> QED BY <2>1 DEF Sound, RevisionsSound, ChartsSound, SeenSound, LatchSound,
                      WriteSound, ReadManifest, memoryVars, ghostVars
<1>3. CASE DeployedRevision(history) # 0
  <2>1. /\ seen'.manifest = Deployed.manifest
        /\ seen'.compared[1] = Deployed.version
        /\ seen'.compared[2] = Deployed.values
    BY <1>3 DEF ReadManifest, DeployedManifest, DeployedFingerprint
  <2>2. From(Deployed, published)
    BY <1>1, <1>3, DeployedRevisionFacts DEF RevisionsSound, Deployed
  <2>3. SeenSound'
    BY <2>1, <2>2 DEF SeenSound, From, ReadManifest, ghostVars
  <2> QED BY <2>3 DEF Sound, RevisionsSound, ChartsSound, LatchSound,
                      WriteSound, ReadManifest, memoryVars, ghostVars
<1> QED BY <1>2, <1>3

\* The diff compared what the registry's chart renders with a published chart.
LEMMA SoundRenderSame ==
  ASSUME TypeInv, Sound, RenderSame
  PROVE  Sound'
<1>1. /\ run \in Specs /\ history \in Seq(Revisions) /\ OneDeployed(history)
      /\ run.values \in AnyValues /\ ChartsSound /\ RevisionsSound
  BY DEF TypeInv, TypeOK, RenderSame, Specs, Sound
<1>2. /\ LoadChart(run).chart = registry[run.tag]
      /\ \A t \in Tags : cache'[t] # NoEntry => cache'[t].chart = registry[t]
  BY <1>1, LoadSound DEF RenderSame
<1>3. /\ seen.manifest = Rendered(registry[run.tag],
                                  EffectiveValues(history, run.values))
      /\ seen.manifest # NoManifest
  <2>1. seen.manifest = Rendered(registry[run.tag],
                                 EffectiveValues(history, run.values))
    BY <1>2 DEF RenderSame, RenderManifest
  <2>2. \A chart, v : Rendered(chart, v) # NoManifest
    BY DEF Rendered, NoManifest
  <2> QED BY <2>1, <2>2
<1>4. PICK c \in published : /\ c.version = seen.compared[1]
                             /\ seen.manifest = Rendered(c, seen.compared[2])
  BY <1>3 DEF Sound, SeenSound, RenderSame
<1>5. EffectiveValues(history, run.values) =
        IF run.values = NoValues THEN Current.values ELSE run.values
  BY DEF RenderSame, Renders, EffectiveValues, Current
<1>6. /\ latch'.spec[1] = run.tag /\ latch'.spec[2] = run.values
      /\ latch'.compared = {seen.compared, DeployedFingerprint(Current)}
      /\ DeployedFingerprint(Current)[2] = Current.values
  BY DEF RenderSame, SpecFingerprint, DeployedFingerprint
<1>7. ASSUME latch'.compared = {latch'.deployed}
      PROVE  /\ c.version = latch'.deployed[1]
             /\ Rendered(c, latch'.deployed[2]) =
                  Rendered(registry[latch'.spec[1]],
                           IF latch'.spec[2] = NoValues THEN latch'.deployed[2]
                           ELSE latch'.spec[2])
  <2>1. /\ seen.compared = latch'.deployed
        /\ DeployedFingerprint(Current) = latch'.deployed
    BY <1>6, <1>7
  <2>2. Current.values = latch'.deployed[2]
    BY <1>6, <2>1
  <2>3. Rendered(c, latch'.deployed[2]) =
          Rendered(registry[run.tag],
                   IF run.values = NoValues THEN latch'.deployed[2]
                   ELSE run.values)
    BY <1>3, <1>4, <1>5, <2>1, <2>2
  <2> QED BY <1>4, <1>6, <2>1, <2>3
<1>8. LatchSound'
  <2>1. registry' = registry /\ published' = published
    BY DEF RenderSame, ghostVars
  <2> QED BY <1>7, <2>1 DEF LatchSound
<1> QED BY <1>1, <1>2, <1>8
        DEF Sound, RevisionsSound, ChartsSound, SeenSound, WriteSound,
            RenderSame, EndPass, ghostVars

\* The pending revision is what the registry's chart renders.
LEMMA SoundWrite ==
  ASSUME TypeInv, TypeInv', Sound, Install \/ Upgrade
  PROVE  Sound'
<1>1. /\ run \in Specs /\ history \in Seq(Revisions) /\ OneDeployed(history)
      /\ run.values \in AnyValues /\ ChartsSound /\ RevisionsSound
  BY DEF TypeInv, TypeOK, Install, Upgrade, Specs, Sound
<1>2. /\ run.tag \in Tags /\ LoadChart(run).chart = registry[run.tag]
      /\ \A t \in Tags : cache'[t] # NoEntry => cache'[t].chart = registry[t]
  BY <1>1, LoadSound DEF Install, Upgrade
<1>3. PICK status \in PendingStates : StorePending(LoadChart(run).chart, status)
  BY DEF Install, Upgrade, PendingStates
<1> DEFINE v == EffectiveValues(history, run.values)
           r == [version |-> registry[run.tag].version, values |-> v,
                 manifest |-> Rendered(registry[run.tag], v), status |-> status]
<1>4. /\ registry' = registry /\ published' = published /\ latch' = latch
      /\ run' = run /\ history' = Append(history, r)
  BY <1>2, <1>3 DEF Install, Upgrade, StorePending
<1>5. /\ r.values = v /\ r.manifest = Rendered(registry[run.tag], r.values)
      /\ r.version = registry[run.tag].version /\ registry[run.tag] \in published
  BY <1>1, <1>2 DEF ChartsSound
<1>6. From(r, published)
  BY <1>5 DEF From
<1>7. run.values # NoValues => r.values = run.values
  BY <1>1, <1>5, EffectiveFacts
<1>8. r \in Revisions
  <2>1. v \in AnyValues
    BY <1>1, EffectiveFacts
  <2>2. registry[run.tag] \in Charts /\ registry[run.tag].version \in Tags
    BY <1>2 DEF TypeInv, TypeOK, Charts
  <2>3. Rendered(registry[run.tag], v) \in Manifests
    BY <2>1, <2>2, RenderedType
  <2> HIDE DEF v
  <2> QED BY <2>1, <2>2, <2>3 DEF Revisions, Statuses
<1> HIDE DEF r
<1>9. RevisionsSound'
  BY <1>1, <1>4, <1>6, <1>8, FromAppend DEF RevisionsSound
<1>10. history'[Len(history')] = r
  BY <1>1, <1>4, <1>8, AppendProperties
<1>11. WriteSound'
  BY <1>4, <1>5, <1>7, <1>10 DEF WriteSound
<1>12. pc' # "render"
  BY <1>3 DEF StorePending
<1> QED BY <1>1, <1>2, <1>4, <1>9, <1>11, <1>12
        DEF Sound, ChartsSound, SeenSound, LatchSound

\* A settled write has the manifest it had when it was stored.
LEMMA SoundSettle ==
  ASSUME TypeInv, Sound, ApplySucceeds \/ ApplyFails \/ GraceExpires
  PROVE  Sound'
<1>1. pc = "apply" /\ history \in Seq(Revisions) /\ history # <<>>
      /\ OneDeployed(history) /\ RevisionsSound
  BY DEF ApplySucceeds, ApplyFails, GraceExpires, GraceOver, TypeInv, TypeOK,
         ApplyPending, IsPending, Sound
<1>2. RevisionsSound'
  <2>1. published' = published
    BY DEF ApplySucceeds, ApplyFails, GraceExpires, ghostVars
  <2>2. CASE ApplySucceeds
    <3>1. history' = Superseding(history)
      BY <2>2 DEF ApplySucceeds
    <3> QED BY <1>1, <2>1, <3>1, SupersedingFacts, FromKept DEF RevisionsSound
  <2>3. CASE ApplyFails \/ GraceExpires
    <3>1. history' = [history EXCEPT ![Len(history)].status = "failed"]
      BY <2>3 DEF ApplyFails, GraceExpires, FailRelease
    <3> DEFINE g == [history EXCEPT ![Len(history)].status = "failed"]
    <3>2. /\ g \in Seq(Revisions) /\ Len(g) = Len(history)
          /\ \A i \in DOMAIN history : /\ g[i].version = history[i].version
                                       /\ g[i].values = history[i].values
                                       /\ g[i].manifest = history[i].manifest
      BY <1>1, FailFacts
    <3>3. history' = g
      BY <3>1
    <3> HIDE DEF g
    <3> QED BY <1>1, <2>1, <3>2, <3>3, FromKept DEF RevisionsSound
  <2> QED BY <2>2, <2>3
<1> QED BY <1>2
        DEF Sound, ChartsSound, SeenSound, LatchSound, WriteSound, ApplySucceeds,
            ApplyFails, GraceExpires, FailRelease, EndPass, memoryVars,
            ghostVars

\* helm by hand stores revisions of published charts, too.
LEMMA SoundManual ==
  ASSUME TypeInv, Sound, ManualUninstall \/ ManualRollback \/ ManualInstall
  PROVE  Sound'
<1>1. pc # "apply" /\ UNCHANGED <<registry, memoryVars, passVars, ghostVars>>
  BY DEF ManualUninstall, ManualRollback, ManualInstall, Manual
<1>2. history \in Seq(Revisions) /\ RevisionsSound
  BY DEF TypeInv, TypeOK, Sound
<1>3. \A i \in DOMAIN history' : From(history'[i], published)
  <2>1. CASE ManualUninstall
    BY <2>1 DEF ManualUninstall
  <2>2. CASE ManualRollback
    <3>1. PICK k \in DOMAIN history :
            history' = Superseding(Append(history, history[k]))
      BY <2>2 DEF ManualRollback
    <3> DEFINE h == Append(history, history[k])
    <3>2. history[k] \in Revisions /\ From(history[k], published)
      BY <1>2, LenProperties, ElementOfSeq DEF RevisionsSound
    <3>3. h \in Seq(Revisions) /\ h # <<>>
      BY <1>2, <3>2, AppendProperties
    <3>4. \A i \in DOMAIN h : From(h[i], published)
      BY <1>2, <3>2, FromAppend DEF RevisionsSound
    <3> HIDE DEF h
    <3>5. \A i \in DOMAIN Superseding(h) : From(Superseding(h)[i], published)
      BY <3>3, <3>4, SupersedingFacts, FromKept
    <3> QED BY <3>1, <3>5 DEF h
  <2>3. CASE ManualInstall
    <3>1. PICK c \in published, v \in AnyValues :
            history' = <<[version |-> c.version, values |-> v,
                          manifest |-> Rendered(c, v),
                          status |-> "deployed"]>>
      BY <2>3 DEF ManualInstall
    <3>2. From(history'[1], published) /\ DOMAIN history' = {1}
      BY <3>1 DEF From
    <3> QED BY <3>2
  <2> QED BY <2>1, <2>2, <2>3
<1> QED BY <1>1, <1>3
        DEF Sound, RevisionsSound, ChartsSound, SeenSound, LatchSound, WriteSound,
            memoryVars, passVars, ghostVars

\* Every step without a push keeps all of it.
LEMMA RenderStep == RenderInv /\ [Next]_vars => RenderInv'
<1> SUFFICES ASSUME RenderInv, [Next]_vars, pushes' = 0 PROVE Sound'
  BY TypeStep DEF RenderInv
<1>1. TypeInv /\ TypeInv' /\ Sound /\ ChartsSound
      /\ registry' = registry /\ published' = published
  BY TypeStep, NoPush DEF RenderInv, Sound
<1>2. ASSUME cache' = cache
      PROVE  \A t \in Tags : cache'[t] # NoEntry => cache'[t].chart = registry[t]
  BY <1>1, <1>2 DEF ChartsSound
<1>3. CASE EnsureInstall \/ EnsurePending \/ EnsureSkip \/ EnsureRetry
             \/ EnsureLatched \/ EnsureDiff \/ PullFails \/ Sigterm \/ EditSpec
             \/ Push \/ UNCHANGED vars
  <2>1. /\ cache' = cache /\ latch' = latch /\ history' = history
        /\ pc' = "apply" => pc = "apply" /\ run' = run
        /\ pc' = "render" => pc = "render" /\ seen' = seen
    BY <1>3
       DEF EnsureInstall, EnsurePending, EnsureSkip, EnsureRetry, EnsureLatched,
           EnsureDiff, PullFails, Sigterm, EditSpec, Push, EndPass, vars,
           memoryVars, passVars
  <2> QED BY <1>1, <1>2, <2>1, SoundQuiet
<1>4. CASE RenderRefused \/ RenderDiffers \/ WriteRefused
  <2>1. run \in Specs /\ CacheChart(run)
    BY <1>1, <1>4
       DEF RenderRefused, RenderDiffers, WriteRefused, TypeInv, TypeOK
  <2>2. \A t \in Tags : cache'[t] # NoEntry => cache'[t].chart = registry[t]
    BY <1>1, <2>1, LoadSound
  <2>3. latch' = latch /\ history' = history /\ pc' \notin {"apply", "render"}
    BY <1>4 DEF RenderRefused, RenderDiffers, WriteRefused, EndPass
  <2> QED BY <1>1, <2>2, <2>3, SoundQuiet
<1>5. CASE DeleteRelease
  <2>1. cache' = cache /\ latch' = NoLatch /\ pc' \notin {"apply", "render"}
        /\ (history' = <<>> \/ history' = history)
    BY <1>5 DEF DeleteRelease, passVars
  <2> QED BY <1>1, <2>1
          DEF Sound, RevisionsSound, ChartsSound, SeenSound, LatchSound,
              WriteSound
<1>6. CASE Exit \/ Kill
  <2>1. /\ latch' = NoLatch /\ history' = history /\ pc' \notin {"apply", "render"}
        /\ \A t \in Tags : cache'[t] = NoEntry
    BY <1>6 DEF Exit, Kill, ForgetAll, EndPass
  <2> QED BY <1>1, <2>1, SoundQuiet
<1>7. CASE Tick
  <2>1. ASSUME NEW t \in Tags, cache'[t] # NoEntry
        PROVE  cache'[t].chart = registry[t]
    <3>1. /\ cache[t] # NoEntry
          /\ cache'[t] = [cache[t] EXCEPT !.age = @ + 1,
                                          !.outdated = Older(cache[t], t)]
      BY <1>7, <2>1 DEF Tick, Aged
    <3>2. cache[t] \in Entries
      BY <1>1, <3>1 DEF TypeInv, TypeOK
    <3>3. cache'[t].chart = cache[t].chart
      BY <3>1, <3>2 DEF Entries
    <3> QED BY <1>1, <3>1, <3>3 DEF ChartsSound
  <2>2. LatchSound'
    <3>1. CASE latch = NoLatch
      BY <1>7, <3>1 DEF Tick, LatchSound
    <3>2. CASE latch # NoLatch
      <4>1. latch \in Latches
        BY <1>1, <3>2 DEF TypeInv, TypeOK
      <4>2. /\ latch'.spec = latch.spec /\ latch'.compared = latch.compared
            /\ latch'.deployed = latch.deployed
        BY <1>7, <3>2, <4>1 DEF Tick, Latches
      <4> QED BY <1>1, <3>2, <4>2 DEF Sound, LatchSound
    <3> QED BY <3>1, <3>2
  <2>3. history' = history /\ pc' = pc /\ run' = run /\ seen' = seen
    BY <1>7 DEF Tick, passVars
  <2> QED BY <1>1, <2>1, <2>2, <2>3
          DEF Sound, RevisionsSound, ChartsSound, SeenSound, WriteSound
<1> QED BY <1>1, <1>3, <1>4, <1>5, <1>6, <1>7, SoundReadManifest,
           SoundRenderSame, SoundWrite,
           SoundSettle, SoundManual DEF Next, Ensure

\* Two published charts of one version render alike when charts are honest.
LEMMA HonestRender ==
  ASSUME HonestCharts, NEW c \in published, NEW d \in published,
         c.version = d.version, NEW v
  PROVE  Rendered(c, v) = Rendered(d, v)
BY DEF HonestCharts, Rendered

\* The fast path: the deployed revision has the version and the values asked
\* for, and an honest chart of that version is the one of the tag.
LEMMA SkipRuns ==
  ASSUME TypeInv, Sound, HonestCharts, Skips
  PROVE  Runs(history, want, registry[want.tag])
<1>1. /\ history \in Seq(Revisions) /\ OneDeployed(history)
      /\ want.values \in AnyValues
  BY DEF TypeInv, TypeOK, Specs
<1>2. /\ DeployedRevision(history) # 0
      /\ history[DeployedRevision(history)].version = want.tag
      /\ history[DeployedRevision(history)].values = want.values
  BY DEF Skips, DecideRelease, ReleaseNeedsUpgrade, VersionDrift
<1>3. PICK c \in published :
        /\ c.version = want.tag
        /\ history[DeployedRevision(history)].manifest =
             Rendered(c, want.values)
  BY <1>1, <1>2, DeployedRevisionFacts DEF Sound, RevisionsSound, From
<1>4. Rendered(c, want.values) = Rendered(registry[want.tag], want.values)
  BY <1>3 DEF HonestCharts, Rendered
<1>5. EffectiveValues(history, want.values) = want.values
  BY <1>1, <1>2, EffectiveFacts
<1> QED BY <1>2, <1>3, <1>4, <1>5 DEF Runs

\* The verdict: it still speaks of the deployed revision and of this spec.
LEMMA LatchedRuns ==
  ASSUME TypeInv, Sound, HonestCharts, Latched,
         latch.compared = {latch.deployed}
  PROVE  Runs(history, want, registry[want.tag])
<1>1. /\ history \in Seq(Revisions) /\ OneDeployed(history)
      /\ want.values \in AnyValues
  BY DEF TypeInv, TypeOK, Specs
<1>2. DeployedRevision(history) # 0
  BY DEF Latched, DecideRelease
<1>3. /\ latch # NoLatch
      /\ latch.spec[1] = want.tag /\ latch.spec[2] = want.values
      /\ latch.deployed[1] = Deployed.version
      /\ latch.deployed[2] = Deployed.values
  BY DEF Latched, ConvergenceHolds, SpecFingerprint, DeployedFingerprint
<1>4. PICK c \in published :
        /\ c.version = Deployed.version
        /\ Rendered(c, Deployed.values) =
             Rendered(registry[want.tag],
                      IF want.values = NoValues THEN Deployed.values
                      ELSE want.values)
  BY <1>3 DEF Sound, LatchSound
<1>5. PICK d \in published :
        /\ d.version = Deployed.version
        /\ Deployed.manifest = Rendered(d, Deployed.values)
  BY <1>1, <1>2, DeployedRevisionFacts DEF Sound, RevisionsSound, From, Deployed
<1>6. Rendered(c, Deployed.values) = Rendered(d, Deployed.values)
  BY <1>4, <1>5, HonestRender
<1>7. EffectiveValues(history, want.values) =
        IF want.values = NoValues THEN Deployed.values ELSE want.values
  BY <1>1, <1>2, EffectiveFacts DEF Deployed
<1> QED BY <1>2, <1>4, <1>5, <1>6, <1>7 DEF Runs, Deployed

\* A write that succeeds deploys what it stored.
LEMMA WriteRuns ==
  ASSUME TypeInv, Sound, pc = "apply"
  PROVE  Runs(Superseding(history), run, registry[run.tag])
<1> DEFINE g == Superseding(history)
           n == Len(history)
<1>1. /\ history \in Seq(Revisions) /\ history # <<>>
      /\ run.values \in AnyValues
  BY DEF TypeInv, TypeOK, ApplyPending, IsPending, Specs
<1>2. n \in DOMAIN history /\ n # 0
  BY <1>1, LastFacts, LenProperties
<1>3. /\ g \in Seq(Revisions) /\ OneDeployed(g) /\ DeployedRevision(g) = n
      /\ g[n].values = history[n].values /\ g[n].manifest = history[n].manifest
  BY <1>1, <1>2, SupersedingFacts
<1>4. /\ run.values # NoValues => history[n].values = run.values
      /\ history[n].manifest = Rendered(registry[run.tag], history[n].values)
  BY DEF Sound, WriteSound
<1> HIDE DEF g, n
<1>5. EffectiveValues(g, run.values) = history[n].values
  BY <1>1, <1>2, <1>3, <1>4, EffectiveFacts
<1>6. Runs(g, run, registry[run.tag])
  BY <1>2, <1>3, <1>4, <1>5 DEF Runs
<1> QED BY <1>6 DEF g

\* EnsureRelease answers nil, by the fast path, on a memoized verdict or after
\* a write, only when the deployed revision is what the requested chart
\* renders, for every set of honest charts and values and every history of
\* failures, kills and manual changes.
THEOREM NilAnswerSound == Spec => []NilMeansRendered
<1>1. Spec => []RenderInv
  BY RenderInit, RenderStep, PTL DEF Spec
<1>2. RenderInv => NilMeansRendered
  <2> SUFFICES ASSUME RenderInv, HonestCharts
               PROVE  /\ Skips => Runs(history, want, registry[want.tag])
                      /\ Latched /\ latch.compared = {latch.deployed}
                           => Runs(history, want, registry[want.tag])
                      /\ pc = "apply" =>
                           Runs(Superseding(history), run, registry[run.tag])
    BY DEF NilMeansRendered
  <2>1. TypeInv /\ Sound
    BY DEF RenderInv, HonestCharts
  <2> QED BY <2>1, SkipRuns, LatchedRuns, WriteRuns
<1> QED BY <1>1, <1>2, PTL
=============================================================================
