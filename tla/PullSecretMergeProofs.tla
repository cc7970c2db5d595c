------------------------ MODULE PullSecretMergeProofs ------------------------
(***************************************************************************)
(* Proofs about PullSecretMerge, for every set of accounts, pods and names *)
(* and every bound: type correctness, that the operator bounces a          *)
(* controller's pod no more often than its cap says, and that its merge    *)
(* loses no entry that somebody else wrote.                                *)
(***************************************************************************)
EXTENDS PullSecretMerge, TLAPS

Operator == run["operator"]

\* A pod that was counted is to be deleted: the count is ahead of the deletions.
CountedAhead ==
    /\ Operator.counted # None => Operator.at = "pods"
    /\ \A p \in Pods : Operator.counted = p => deleted[p] < bounces[p]

\* The operator has read the entries of every account that it has yet to merge.
SeenListed ==
    Operator.at = "accounts" => \A sa \in Operator.todo : Operator.seen[sa] # None

\* On the operator's own cluster no script runs.
NoScript == side = "local" => run["job"] = Idle /\ run["cron"] = Idle

Inv == TypeOK /\ BouncesBounded /\ CountedAhead /\ SeenListed /\ NoScript

RunType == [at : {"idle", "accounts", "pods"},
            todo : SUBSET SAs, want : SUBSET Names,
            seen : [SAs -> Maybe(Entries)],
            counted : Maybe(Pods), changed : BOOLEAN]

\* A runner that does nothing.
LEMMA IdleType == Idle \in RunType
BY DEF Idle, RunType, Maybe

\* A runner that is done with an account.
LEMMA AccountDone ==
  ASSUME NEW r, NEW sa \in SAs, run[r] \in RunType
  PROVE  DoneAccount(r, sa) \in RunType
<1>1. [run[r].seen EXCEPT ![sa] = None] \in [SAs -> Maybe(Entries)]
  BY DEF RunType, Maybe
<1>2. run[r].todo \ {sa} \in SUBSET SAs
  BY DEF RunType
<1> QED BY <1>1, <1>2 DEF DoneAccount, RunType

LEMMA Initially == Init => Inv
<1> SUFFICES ASSUME Init PROVE Inv
  OBVIOUS
<1> USE MergeAssumption
<1>1. run \in [Runners -> RunType]
  BY IdleType DEF Init
<1>2. TypeOK
  BY <1>1 DEF Init, TypeOK, RunType, NoPod, Entries, Maybe, SAs
<1>3. BouncesBounded
  BY DEF Init, BouncesBounded
<1>4. CountedAhead /\ SeenListed /\ NoScript
  BY DEF Init, CountedAhead, SeenListed, NoScript, Operator, Runners, Idle
<1> QED BY <1>2, <1>3, <1>4 DEF Inv

-----------------------------------------------------------------------------
(* Type correctness.                                                       *)

LEMMA TypeMerge ==
  ASSUME Inv, NEW r \in Runners, Merge(r)
  PROVE  TypeOK'
<1> USE MergeAssumption
<1>0. TypeOK /\ run \in [Runners -> RunType] /\ run[r] \in RunType
  BY DEF Inv, TypeOK, RunType
<1>t. ASSUME NEW sa \in SAs
      PROVE  DoneAccount(r, sa) \in RunType
  BY <1>0, AccountDone
<1>e. ASSUME NEW again \in BOOLEAN, End(r, again)
      PROVE  run' \in [Runners -> RunType] /\ due' \subseteq Runners
  BY <1>0, <1>e, IdleType DEF End, TypeOK
<1>1. CASE Start(r)
  <2>1. ListedAccounts \subseteq SAs
    BY DEF ListedAccounts
  <2>2. run' \in [Runners -> RunType]
    BY <1>0, <1>1, <2>1, IdleType DEF Start, RunType, TypeOK
  <2> QED BY <1>0, <1>1, <2>2 DEF Start, TypeOK, RunType, cluster, pods, bounds
<1>2. CASE ListPods(r)
  <2>1. CASE MayBounce(r)
    <3>1. run' \in [Runners -> RunType] /\ due' = due
      BY <1>0, <1>2, <2>1 DEF ListPods, RunType
    <3> QED BY <1>0, <1>2, <3>1 DEF ListPods, TypeOK, RunType, cluster, pods, bounds
  <2>2. CASE ~MayBounce(r)
    <3>1. run' \in [Runners -> RunType] /\ due' \subseteq Runners
      BY <1>e, <1>2, <2>2 DEF ListPods
    <3> QED BY <1>0, <1>2, <3>1 DEF ListPods, TypeOK, RunType, cluster, pods, bounds
  <2> QED BY <2>1, <2>2
<1>3. CASE Finish(r)
  <2>1. run' \in [Runners -> RunType] /\ due' \subseteq Runners
    BY <1>0, <1>e, <1>3 DEF Finish, End, Runners, TypeOK, RunType
  <2> QED BY <1>0, <1>3, <2>1 DEF Finish, TypeOK, RunType, cluster, pods, bounds
<1>4. ASSUME NEW sa \in SAs, ReadAccount(r, sa) PROVE TypeOK'
  <2>1. run' \in [Runners -> RunType]
    BY <1>0, <1>4 DEF ReadAccount, RunType, TypeOK
  <2> QED BY <1>0, <1>4, <2>1 DEF ReadAccount, TypeOK, RunType, cluster, pods, bounds
<1>5. ASSUME NEW sa \in SAs, SkipAccount(r, sa) PROVE TypeOK'
  <2>1. run' \in [Runners -> RunType]
    BY <1>0, <1>t, <1>5 DEF SkipAccount
  <2> QED BY <1>0, <1>5, <2>1 DEF SkipAccount, TypeOK, RunType, cluster, pods, bounds
<1>6. ASSUME NEW sa \in SAs, Write(r, sa), run[r].seen[sa] # None,
             UNCHANGED <<cluster, desired, pods, bounds>>
      PROVE  TypeOK'
  <2>1. run' \in [Runners -> RunType]
    BY <1>0, <1>t, <1>6 DEF Write, RunType
  <2>2. run[r].seen[sa] \in Entries /\ run[r].want \in SUBSET Names
    BY <1>0, <1>6 DEF RunType, Maybe
  <2>3. run[r].seen[sa] \cup run[r].want \in Entries
    BY <2>2 DEF Entries
  <2>4. entries' \in [SAs -> Maybe(Entries)]
    BY <1>0, <1>6, <2>3 DEF Write, TypeOK, Maybe
  <2> QED BY <1>0, <1>6, <2>1, <2>4 DEF Write, TypeOK, RunType, cluster, pods, bounds
<1>7. ASSUME NEW sa \in SAs, PatchAccount(r, sa) PROVE TypeOK'
  BY <1>6, <1>7 DEF PatchAccount
<1>8. ASSUME NEW sa \in SAs, r = "operator", MergeAccount(sa) PROVE TypeOK'
  <2>1. sa \in Operator.todo /\ Operator.at = "accounts"
    BY <1>8 DEF MergeAccount, AtAccount, NextIs, Operator
  <2>2. run[r].seen[sa] # None
    BY <1>8, <2>1 DEF Inv, SeenListed, Operator
  <2>3. CASE UnchangedSince("operator", sa)
    BY <1>6, <1>8, <2>2, <2>3 DEF MergeAccount
  <2>4. CASE ~UnchangedSince("operator", sa)
    <3>1. run' \in [Runners -> RunType] /\ due' \subseteq Runners
      BY <1>e, <1>8, <2>4 DEF MergeAccount
    <3> QED BY <1>0, <1>8, <2>4, <3>1 DEF MergeAccount, TypeOK, RunType, cluster, pods, bounds
  <2> QED BY <2>3, <2>4
<1>9. ASSUME NEW p \in Pods, DeletePod(r, p) PROVE TypeOK'
  <2>1. run' \in [Runners -> RunType]
    BY <1>0, <1>9 DEF DeletePod, RunType, Maybe
  <2>2. pod' \in [Pods -> [state : {"none", "starting", "backoff", "running"},
                           entries : Entries]]
    BY <1>0, <1>9 DEF DeletePod, TypeOK, NoPod, Entries
  <2>3. deleted' \in [Pods -> 0..MaxBounces]
    <3>1. CASE r = "operator" /\ pod[p] # NoPod
      <4>1. deleted[p] < bounces[p] /\ bounces[p] \in 0..MaxBounces /\ deleted[p] \in 0..MaxBounces
        BY <1>0, <1>9, <3>1 DEF DeletePod, Inv, CountedAhead, TypeOK, Operator
      <4>2. deleted[p] + 1 \in 0..MaxBounces
        BY <4>1
      <4> QED BY <1>0, <1>9, <3>1, <4>2 DEF DeletePod, TypeOK
    <3>2. CASE ~(r = "operator" /\ pod[p] # NoPod)
      BY <1>0, <1>9, <3>2 DEF DeletePod, TypeOK
    <3> QED BY <3>1, <3>2
  <2> QED BY <1>0, <1>9, <2>1, <2>2, <2>3 DEF DeletePod, TypeOK, RunType, cluster, bounds
<1>10. ASSUME NEW p \in Pods, r = "operator", CountBounce(p) PROVE TypeOK'
  <2>1. run' \in [Runners -> RunType]
    BY <1>0, <1>10 DEF CountBounce, RunType, Maybe
  <2>2. bounces' \in [Pods -> 0..MaxBounces]
    BY <1>0, <1>10 DEF CountBounce, BelowCap, TypeOK
  <2> QED BY <1>0, <1>10, <2>1, <2>2 DEF CountBounce, TypeOK, RunType, cluster, bounds
<1> QED BY <1>1, <1>2, <1>3, <1>4, <1>5, <1>7, <1>8, <1>9, <1>10 DEF Merge

\* Everything else: failures, the kubelet, charts, administrators, settings.
Elsewhere ==
    \/ \E r \in Runners : Fail(r)
    \/ Kubelet
    \/ \E sa \in SAs : CreateAccount(sa) \/ EditAccount(sa)
    \/ GrowDesired
    \/ \E p \in Pods : UpgradeChart(p)

LEMMA TypeElsewhere ==
  ASSUME Inv, Elsewhere
  PROVE  TypeOK'
<1> USE MergeAssumption
<1>0. TypeOK /\ run \in [Runners -> RunType]
  BY DEF Inv, TypeOK, RunType
<1>1. ASSUME NEW r \in Runners, Fail(r) PROVE TypeOK'
  <2>1. run' \in [Runners -> RunType] /\ due' \subseteq Runners
    BY <1>0, <1>1, IdleType DEF Fail, End, TypeOK
  <2> QED BY <1>0, <1>1, <2>1 DEF Fail, TypeOK, RunType, cluster, pods
<1>2. ASSUME NEW p \in Pods, CreatePod(p) PROVE TypeOK'
  <2>1. entries[p] \in Entries
    BY <1>0, <1>2 DEF CreatePod, TypeOK, Maybe, SAs
  <2>2. pod' \in [Pods -> [state : {"none", "starting", "backoff", "running"},
                           entries : Entries]]
    BY <1>0, <1>2, <2>1 DEF CreatePod, TypeOK
  <2> QED BY <1>0, <1>2, <2>2 DEF CreatePod, TypeOK, cluster, bounds
<1>3. ASSUME NEW p \in Pods, Pull(p) PROVE TypeOK'
  <2>1. pod' \in [Pods -> [state : {"none", "starting", "backoff", "running"},
                           entries : Entries]]
    BY <1>0, <1>3 DEF Pull, TypeOK
  <2> QED BY <1>0, <1>3, <2>1 DEF Pull, TypeOK, cluster, bounds
<1>4. ASSUME NEW sa \in SAs, CreateAccount(sa) PROVE TypeOK'
  <2>1. entries' \in [SAs -> Maybe(Entries)]
    BY <1>0, <1>4 DEF CreateAccount, TypeOK, Maybe, Entries
  <2> QED BY <1>0, <1>4, <2>1 DEF CreateAccount, TypeOK, cluster, pods, bounds
<1>5. ASSUME NEW sa \in SAs, EditAccount(sa) PROVE TypeOK'
  <2>1. entries[sa] \in Entries
    BY <1>0, <1>5 DEF EditAccount, TypeOK, Maybe
  <2>2. /\ entries[sa] \cup {AdminName} \in Entries
        /\ \A n \in entries[sa] : entries[sa] \ {n} \in Entries
    BY <2>1 DEF Entries
  <2>3. PICK v \in Entries : entries' = [entries EXCEPT ![sa] = v]
    BY <1>5, <2>2 DEF EditAccount
  <2>4. entries' \in [SAs -> Maybe(Entries)]
    BY <1>0, <2>3 DEF TypeOK, Maybe
  <2> QED BY <1>0, <1>5, <2>4 DEF EditAccount, Edit, TypeOK, cluster, pods
<1>6. CASE GrowDesired
  <2>1. run' \in [Runners -> RunType]
    BY <1>0, <1>6, IdleType DEF GrowDesired, Runners
  <2> QED BY <1>0, <1>6, <2>1 DEF GrowDesired, Edit, TypeOK, RunType, cluster, pods
<1>7. ASSUME NEW p \in Pods, UpgradeChart(p) PROVE TypeOK'
  <2>1. run' \in [Runners -> RunType]
    <3>1. ASSUME NEW r \in Runners PROVE run'[r] \in RunType
      <4>1. CASE run[r].at # "pods"
        BY <1>0, <1>7, <4>1 DEF UpgradeChart
      <4>2. CASE run[r].at = "pods"
        <5>1. run'[r] = [run[r] EXCEPT !.todo = @ \ {p},
                                       !.counted = IF @ = p THEN None ELSE @]
          BY <1>7, <4>2 DEF UpgradeChart
        <5>2. run[r] \in RunType
          BY <1>0
        <5>3. PICK T, c : /\ T = run[r].todo \ {p}
                          /\ c = IF run[r].counted = p THEN None ELSE run[r].counted
          OBVIOUS
        <5>4. T \in SUBSET SAs /\ c \in Maybe(Pods)
          BY <5>2, <5>3 DEF RunType, Maybe
        <5>5. run'[r] = [run[r] EXCEPT !.todo = T, !.counted = c]
          BY <5>1, <5>3
        <5> QED BY <5>2, <5>4, <5>5 DEF RunType
      <4> QED BY <4>1, <4>2
    <3> QED BY <1>7, <3>1 DEF UpgradeChart
  <2>2. pod' \in [Pods -> [state : {"none", "starting", "backoff", "running"},
                           entries : Entries]]
    BY <1>0, <1>7 DEF UpgradeChart, TypeOK, NoPod, Entries
  <2>3. bounces' \in [Pods -> 0..MaxBounces] /\ deleted' \in [Pods -> 0..MaxBounces]
    <3>1. 0 \in 0..MaxBounces
      OBVIOUS
    <3> QED BY <1>0, <1>7, <3>1 DEF UpgradeChart, TypeOK
  <2>4. Edit /\ UNCHANGED <<desired, entries, due>>
    BY <1>7 DEF UpgradeChart
  <2>5. edits' \in 0..MaxEdits /\ faults' = faults /\ UNCHANGED <<side, polls, pullable>>
    BY <1>0, <2>4 DEF Edit, TypeOK, cluster
  <2> QED BY <1>0, <2>1, <2>2, <2>3, <2>4, <2>5 DEF TypeOK, RunType
<1> QED BY <1>1, <1>2, <1>3, <1>4, <1>5, <1>6, <1>7 DEF Elsewhere, Kubelet

-----------------------------------------------------------------------------
(* Bounces.                                                                *)

LEMMA BouncesStep ==
  ASSUME Inv, Next, TypeOK'
  PROVE  BouncesBounded' /\ CountedAhead'
<1> USE MergeAssumption
<1>0. TypeOK /\ run \in [Runners -> RunType] /\ BouncesBounded /\ CountedAhead
  BY DEF Inv, TypeOK, RunType
<1>t. /\ "operator" \in Runners /\ Operator \in RunType
      /\ bounces \in [Pods -> Nat] /\ deleted \in [Pods -> Nat]
  BY <1>0 DEF Operator, Runners, TypeOK
\* Steps that touch neither counts nor what the operator has counted.
<1>u. ASSUME bounces' = bounces, deleted' = deleted,
             \/ Operator' = Idle
             \/ Operator'.counted = Operator.counted /\ Operator'.at = Operator.at
             \/ Operator'.counted = None
      PROVE  BouncesBounded' /\ CountedAhead'
  <2>1. BouncesBounded'
    BY <1>0, <1>u DEF BouncesBounded
  <2>2. CountedAhead'
    BY <1>0, <1>u DEF CountedAhead, Idle, SAs
  <2> QED BY <2>1, <2>2
<1>1. ASSUME NEW r \in Runners, Start(r) PROVE BouncesBounded' /\ CountedAhead'
  <2>1. r # "operator" => Operator' = Operator
    BY <1>0, <1>t, <1>1 DEF Start, Operator
  <2>2. r = "operator" => Operator'.counted = None
    BY <1>0, <1>t, <1>1 DEF Start, Operator, Idle
  <2> QED BY <1>u, <1>1, <2>1, <2>2 DEF Start, pods
<1>2. ASSUME NEW r \in Runners, ListPods(r) PROVE BouncesBounded' /\ CountedAhead'
  <2>1. r # "operator" => Operator' = Operator
    BY <1>0, <1>t, <1>2 DEF ListPods, End, Operator
  <2>2. r = "operator" => Operator'.counted = None
    <3>1. r = "operator" => Operator.counted = None
      BY <1>0, <1>2 DEF ListPods, Operator, CountedAhead
    <3> QED BY <1>0, <1>t, <1>2, <3>1 DEF ListPods, End, Operator, Idle, RunType
  <2> QED BY <1>u, <1>2, <2>1, <2>2 DEF ListPods, pods
<1>3. ASSUME NEW r \in Runners, Finish(r) \/ Fail(r) PROVE BouncesBounded' /\ CountedAhead'
  <2>1. Operator' = Operator \/ Operator' = Idle
    BY <1>0, <1>t, <1>3 DEF Finish, Fail, End, Operator
  <2>2. bounces' = bounces /\ deleted' = deleted
    BY <1>3 DEF Finish, Fail, pods
  <2> QED BY <1>u, <2>1, <2>2
<1>4. ASSUME NEW r \in Runners, NEW sa \in SAs,
             \/ ReadAccount(r, sa) \/ SkipAccount(r, sa) \/ PatchAccount(r, sa)
             \/ r = "operator" /\ MergeAccount(sa)
      PROVE  BouncesBounded' /\ CountedAhead'
  <2>1. bounces' = bounces /\ deleted' = deleted
    BY <1>4 DEF ReadAccount, SkipAccount, PatchAccount, MergeAccount, pods
  <2>2. \/ Operator' = Idle
        \/ Operator'.counted = Operator.counted /\ Operator'.at = Operator.at
    <3>1. CASE ReadAccount(r, sa)
      BY <1>0, <1>t, <3>1 DEF ReadAccount, Operator, RunType
    <3>2. CASE SkipAccount(r, sa)
      BY <1>0, <1>t, <3>2 DEF SkipAccount, DoneAccount, Operator, RunType
    <3>3. ASSUME Write(r, sa)
          PROVE  Operator'.counted = Operator.counted /\ Operator'.at = Operator.at
      BY <1>0, <1>t, <3>3 DEF Write, DoneAccount, Operator, RunType
    <3>4. CASE r = "operator" /\ MergeAccount(sa)
      BY <1>0, <1>t, <3>3, <3>4 DEF MergeAccount, End, Operator
    <3> QED BY <1>4, <3>1, <3>2, <3>3, <3>4 DEF PatchAccount
  <2> QED BY <1>u, <2>1, <2>2
<1>5. ASSUME NEW r \in Runners, NEW p \in Pods, DeletePod(r, p)
      PROVE  BouncesBounded' /\ CountedAhead'
  <2>1. CASE r = "operator"
    <3>1. Operator.counted = p /\ deleted[p] < bounces[p]
      BY <1>0, <1>5, <2>1 DEF DeletePod, CountedAhead, Operator
    <3>2. bounces' = bounces
      BY <1>5 DEF DeletePod
    <3>3. \A q \in Pods : deleted'[q] <= bounces[q] /\ bounces[q] <= MaxBounces
      BY <1>0, <1>t, <1>5, <2>1, <3>1 DEF DeletePod, BouncesBounded
    <3>4. Operator'.counted = None
      BY <1>0, <1>t, <1>5, <2>1 DEF DeletePod, Operator, RunType
    <3> QED BY <3>2, <3>3, <3>4 DEF BouncesBounded, CountedAhead, SAs
  <2>2. CASE r # "operator"
    <3>1. Operator' = Operator /\ bounces' = bounces /\ deleted' = deleted
      BY <1>0, <1>t, <1>5, <2>2 DEF DeletePod, Operator
    <3> QED BY <1>u, <3>1
  <2> QED BY <2>1, <2>2
<1>6. ASSUME NEW p \in Pods, CountBounce(p) PROVE BouncesBounded' /\ CountedAhead'
  <2>1. CASE BelowCap(p)
    <3>1. /\ bounces' = [bounces EXCEPT ![p] = @ + 1] /\ deleted' = deleted
          /\ bounces[p] < MaxBounces
      BY <1>6, <2>1 DEF CountBounce, BelowCap
    <3>2. BouncesBounded'
      BY <1>0, <1>t, <3>1 DEF BouncesBounded
    <3>3. Operator'.counted = p /\ Operator'.at = "pods"
      BY <1>0, <1>t, <1>6, <2>1 DEF CountBounce, Operator, RunType
    <3>4. deleted'[p] < bounces'[p]
      BY <1>0, <1>t, <3>1 DEF BouncesBounded
    <3> QED BY <3>2, <3>3, <3>4 DEF CountedAhead
  <2>2. CASE ~BelowCap(p)
    <3>1. Operator'.counted = None /\ bounces' = bounces /\ deleted' = deleted
      BY <1>0, <1>t, <1>6, <2>2 DEF CountBounce, Operator, RunType
    <3> QED BY <1>u, <3>1
  <2> QED BY <2>1, <2>2
<1>7. ASSUME NEW p \in Pods, UpgradeChart(p) PROVE BouncesBounded' /\ CountedAhead'
  <2>1. BouncesBounded'
    <3>1. \A q \in Pods : \/ q = p /\ bounces'[q] = 0 /\ deleted'[q] = 0
                          \/ bounces'[q] = bounces[q] /\ deleted'[q] = deleted[q]
      BY <1>t, <1>7 DEF UpgradeChart
    <3> QED BY <1>0, <3>1 DEF BouncesBounded
  <2>2. Operator'.counted # None =>
           Operator'.counted = Operator.counted /\ Operator'.counted # p /\ Operator'.at = "pods"
    BY <1>0, <1>t, <1>7 DEF UpgradeChart, Operator, RunType, CountedAhead
  <2>3. \A q \in Pods \ {p} : bounces'[q] = bounces[q] /\ deleted'[q] = deleted[q]
    BY <1>t, <1>7 DEF UpgradeChart
  <2> QED BY <1>0, <2>1, <2>2, <2>3 DEF CountedAhead, SAs
<1>8. CASE GrowDesired
  <2>1. Operator' = Operator /\ bounces' = bounces /\ deleted' = deleted
    BY <1>0, <1>t, <1>8 DEF GrowDesired, Operator, pods
  <2> QED BY <1>u, <2>1
<1>9. ASSUME \/ Kubelet
             \/ \E sa \in SAs : CreateAccount(sa) \/ EditAccount(sa)
      PROVE  BouncesBounded' /\ CountedAhead'
  <2>1. run' = run /\ bounces' = bounces /\ deleted' = deleted
    BY <1>9 DEF Kubelet, CreatePod, Pull, CreateAccount, EditAccount, pods
  <2> QED BY <1>u, <2>1 DEF Operator
<1> QED BY <1>1, <1>2, <1>3, <1>4, <1>5, <1>6, <1>7, <1>8, <1>9 DEF Next, Merge

-----------------------------------------------------------------------------
(* What the runners have read, and which of them run.                      *)

LEMMA SeenStep ==
  ASSUME Inv, Next, TypeOK'
  PROVE  SeenListed'
<1> USE MergeAssumption
<1>0. TypeOK /\ run \in [Runners -> RunType] /\ SeenListed
  BY DEF Inv, TypeOK, RunType
<1>t. "operator" \in Runners /\ Operator \in RunType
  BY <1>0 DEF Operator, Runners
<1>u. ASSUME \/ Operator' = Operator
             \/ Operator'.at # "accounts"
             \/ \E sa : /\ Operator'.at = Operator.at
                        /\ Operator'.todo = Operator.todo \ {sa}
                        /\ \A b \in SAs \ {sa} : Operator'.seen[b] = Operator.seen[b]
      PROVE  SeenListed'
  <2>1. Operator.todo \subseteq SAs
    BY <1>t DEF RunType
  <2> QED BY <1>0, <1>u, <2>1 DEF SeenListed
<1>1. ASSUME NEW r \in Runners, Start(r) PROVE SeenListed'
  <2>1. CASE r = "operator"
    <3>1. Operator'.seen = entries /\ Operator'.todo = ListedAccounts
      BY <1>0, <1>t, <1>1, <2>1 DEF Start, Operator, Idle
    <3> QED BY <3>1 DEF SeenListed, ListedAccounts
  <2>2. CASE r # "operator"
    BY <1>0, <1>t, <1>u, <1>1, <2>2 DEF Start, Operator
  <2> QED BY <2>1, <2>2
<1>2. ASSUME NEW r \in Runners, ListPods(r) \/ Finish(r) \/ Fail(r) PROVE SeenListed'
  <2>1. r # "operator" => Operator' = Operator
    BY <1>0, <1>t, <1>2 DEF ListPods, Finish, Fail, End, Operator
  <2>2. r = "operator" => Operator'.at # "accounts"
    BY <1>0, <1>t, <1>2 DEF ListPods, Finish, Fail, End, Operator, Idle, RunType
  <2> QED BY <1>u, <2>1, <2>2
<1>3. ASSUME NEW r \in Runners, NEW sa \in SAs,
             \/ ReadAccount(r, sa) \/ SkipAccount(r, sa) \/ PatchAccount(r, sa)
             \/ r = "operator" /\ MergeAccount(sa)
      PROVE  SeenListed'
  <2>1. CASE r # "operator"
    <3>1. Operator' = Operator
      BY <1>0, <1>t, <1>3, <2>1 DEF ReadAccount, SkipAccount, PatchAccount, Write, Operator
    <3> QED BY <1>u, <3>1
  <2>2. CASE r = "operator" /\ ReadAccount(r, sa)
    \* Never enabled: it has read them all.
    <3>1. sa \in Operator.todo /\ Operator.at = "accounts" /\ Operator.seen[sa] = None
      BY <2>2 DEF ReadAccount, AtAccount, NextIs, Operator
    <3> QED BY <1>0, <3>1 DEF SeenListed
  <2>3. ASSUME r = "operator",
               \/ Operator' = DoneAccount(r, sa)
               \/ Operator' = [DoneAccount(r, sa) EXCEPT !.changed = TRUE]
        PROVE  SeenListed'
    <3> DEFINE done == DoneAccount(r, sa)
    <3>1. done = [Operator EXCEPT !.todo = @ \ {sa}, !.seen[sa] = None]
      BY <2>3 DEF DoneAccount, Operator
    <3>2. /\ done.at = Operator.at /\ done.todo = Operator.todo \ {sa}
          /\ \A b \in SAs \ {sa} : done.seen[b] = Operator.seen[b]
      BY <1>t, <3>1 DEF RunType
    <3>3. done \in RunType
      <4>1. run[r] \in RunType
        BY <1>t, <2>3 DEF Operator
      <4> HIDE DEF done
      <4> QED BY <4>1, AccountDone DEF done
    <3>4. /\ Operator'.at = done.at /\ Operator'.todo = done.todo
          /\ Operator'.seen = done.seen
      BY <2>3, <3>3 DEF RunType
    <3> HIDE DEF done
    <3> QED BY <1>u, <3>2, <3>4
  <2>4. CASE r = "operator" /\ SkipAccount(r, sa)
    BY <1>0, <1>t, <2>3, <2>4 DEF SkipAccount, Operator
  <2>5. CASE r = "operator" /\ MergeAccount(sa)
    <3>1. CASE UnchangedSince("operator", sa)
      BY <1>0, <1>t, <2>3, <2>5, <3>1 DEF MergeAccount, Write, Operator
    <3>2. CASE ~UnchangedSince("operator", sa)
      <4>1. Operator' = Idle
        BY <1>0, <1>t, <2>5, <3>2 DEF MergeAccount, End, Operator
      <4> QED BY <1>u, <4>1 DEF Idle
    <3> QED BY <3>1, <3>2
  <2> QED BY <1>3, <2>1, <2>2, <2>4, <2>5 DEF PatchAccount
<1>4. ASSUME \/ \E r \in Runners, p \in Pods : DeletePod(r, p)
             \/ \E p \in Pods : CountBounce(p) \/ UpgradeChart(p)
      PROVE  SeenListed'
  <2>1. Operator' = Operator \/ Operator'.at = "pods"
    <3>1. ASSUME NEW r \in Runners, NEW p \in Pods, DeletePod(r, p)
          PROVE  Operator' = Operator \/ Operator'.at = "pods"
      BY <1>0, <1>t, <3>1 DEF DeletePod, Operator, RunType
    <3>2. ASSUME NEW p \in Pods, CountBounce(p) PROVE Operator'.at = "pods"
      BY <1>0, <1>t, <3>2 DEF CountBounce, Operator, RunType
    <3>3. ASSUME NEW p \in Pods, UpgradeChart(p)
          PROVE  Operator' = Operator \/ Operator'.at = "pods"
      BY <1>0, <1>t, <3>3 DEF UpgradeChart, Operator, RunType
    <3> QED BY <1>4, <3>1, <3>2, <3>3
  <2> QED BY <1>u, <2>1
<1>5. CASE GrowDesired
  BY <1>0, <1>t, <1>u, <1>5 DEF GrowDesired, Operator
<1>6. ASSUME \/ Kubelet
             \/ \E sa \in SAs : CreateAccount(sa) \/ EditAccount(sa)
      PROVE  SeenListed'
  BY <1>u, <1>6 DEF Kubelet, CreatePod, Pull, CreateAccount, EditAccount, Operator
<1> QED BY <1>1, <1>2, <1>3, <1>4, <1>5, <1>6 DEF Next, Merge

\* A script starts only where it is shipped to.
LEMMA NoScriptStep ==
  ASSUME Inv, Next
  PROVE  NoScript'
<1> USE MergeAssumption
<1>0. run \in [Runners -> RunType] /\ NoScript
  BY DEF Inv, TypeOK, RunType
<1> SUFFICES ASSUME side' = "local"
             PROVE  run'["job"] = Idle /\ run'["cron"] = Idle
  BY DEF NoScript
<1>1. side = "local"
  <2>1. CASE \E r \in Runners : Merge(r) \/ Fail(r)
    <3>1. PICK r \in Runners : Merge(r) \/ Fail(r)
      BY <2>1
    <3>2. UNCHANGED cluster
      <4>1. CASE Start(r) \/ ListPods(r) \/ Finish(r) \/ Fail(r)
        BY <4>1 DEF Start, ListPods, Finish, Fail
      <4>2. CASE \E sa \in SAs : ReadAccount(r, sa) \/ SkipAccount(r, sa) \/ PatchAccount(r, sa)
        BY <4>2 DEF ReadAccount, SkipAccount, PatchAccount
      <4>3. CASE \/ \E p \in Pods : DeletePod(r, p) \/ CountBounce(p)
                 \/ \E sa \in SAs : MergeAccount(sa)
        BY <4>3 DEF DeletePod, CountBounce, MergeAccount
      <4> QED BY <3>1, <4>1, <4>2, <4>3 DEF Merge
    <3> QED BY <3>2 DEF cluster
  <2>2. CASE Kubelet
    BY <2>2 DEF Kubelet, CreatePod, Pull, cluster
  <2>3. CASE \E sa \in SAs : CreateAccount(sa) \/ EditAccount(sa)
    BY <2>3 DEF CreateAccount, EditAccount, Edit, cluster
  <2>4. CASE GrowDesired
    BY <2>4 DEF GrowDesired, Edit, cluster
  <2>5. CASE \E p \in Pods : UpgradeChart(p)
    BY <2>5 DEF UpgradeChart, Edit, cluster
  <2> QED BY <2>1, <2>2, <2>3, <2>4, <2>5 DEF Next
<1>2. run["job"] = Idle /\ run["cron"] = Idle /\ "job" \in Runners /\ "cron" \in Runners
  BY <1>0, <1>1 DEF NoScript, Runners
<1>3. ASSUME NEW r \in Runners \ {"operator"}, Merge(r) \/ Fail(r) PROVE FALSE
  <2>1. run[r] = Idle /\ ~Runs(r)
    BY <1>1, <1>2 DEF Runners, Runs
  <2>2. run[r].at = "idle"
    BY <2>1 DEF Idle
  <2> QED BY <1>3, <2>1, <2>2 DEF Merge, Fail, Start, ListPods, Finish, ReadAccount, SkipAccount,
             PatchAccount, DeletePod, AtAccount
<1>4. ASSUME Merge("operator") \/ Fail("operator")
      PROVE  run'["job"] = run["job"] /\ run'["cron"] = run["cron"]
  BY <1>0, <1>2, <1>4 DEF Merge, Fail, Start, ListPods, Finish, ReadAccount, SkipAccount,
     PatchAccount, MergeAccount, Write, DeletePod, CountBounce, End
<1>5. ASSUME NEW p \in Pods, UpgradeChart(p)
      PROVE  run'["job"] = run["job"] /\ run'["cron"] = run["cron"]
  <2>1. run["job"].at # "pods" /\ run["cron"].at # "pods"
    BY <1>2 DEF Idle
  <2> QED BY <1>2, <1>5, <2>1 DEF UpgradeChart
<1>6. ASSUME GrowDesired
      PROVE  run'["job"] = Idle /\ run'["cron"] = run["cron"]
  BY <1>0, <1>2, <1>6 DEF GrowDesired
<1>7. ASSUME \/ Kubelet
             \/ \E sa \in SAs : CreateAccount(sa) \/ EditAccount(sa)
      PROVE  run' = run
  BY <1>7 DEF Kubelet, CreatePod, Pull, CreateAccount, EditAccount
<1> QED BY <1>2, <1>3, <1>4, <1>5, <1>6, <1>7 DEF Next, Runners

-----------------------------------------------------------------------------
(* The theorems.                                                           *)

LEMMA Invariant == Spec => []Inv
<1>1. Init => Inv
  BY Initially
<1>2. Inv /\ [Next]_vars => Inv'
  <2> SUFFICES ASSUME Inv, [Next]_vars PROVE Inv'
    OBVIOUS
  <2>1. CASE Next
    <3>1. TypeOK'
      BY <2>1, TypeMerge, TypeElsewhere DEF Next, Elsewhere
    <3> QED BY <2>1, <3>1, BouncesStep, SeenStep, NoScriptStep DEF Inv
  <2>2. CASE UNCHANGED vars
    BY <2>2 DEF vars, cluster, pods, bounds, Inv, TypeOK, BouncesBounded, CountedAhead, SeenListed,
       NoScript, Operator
  <2> QED BY <2>1, <2>2
<1> QED BY <1>1, <1>2, PTL DEF Spec

\* Accounts, pods, counts and running merges are well typed, in particular no
\* merge writes what it has not read.
THEOREM TypeCorrect == Spec => []TypeOK
<1>1. Inv => TypeOK
  BY DEF Inv
<1> QED BY <1>1, Invariant, PTL

\* restartImagePullBackOffPods deletes at most MaxBounces pods of a controller:
\* the annotation is ahead of the deletion whatever fails in between.
THEOREM BouncesAreBounded == Spec => []BouncesBounded
<1>1. Inv => BouncesBounded
  BY DEF Inv
<1> QED BY <1>1, Invariant, PTL

\* The step lemma of the next theorem: an account is written only by a merge that
\* has read its present entries.
LEMMA KeptStep ==
  ASSUME Inv, [Next]_vars, side = "local", edits' = edits,
         NEW sa \in SAs, entries[sa] # None
  PROVE  entries[sa] \subseteq entries'[sa]
<1> USE MergeAssumption
<1>0. TypeOK /\ run \in [Runners -> RunType] /\ entries \in [SAs -> Maybe(Entries)]
  BY DEF Inv, TypeOK, RunType
<1>1. CASE UNCHANGED vars
  BY <1>1 DEF vars
<1>2. ASSUME NEW r \in Runners, Merge(r) PROVE entries[sa] \subseteq entries'[sa]
  <2>1. CASE r # "operator"
    <3>1. run[r] = Idle /\ ~Runs(r) /\ run[r].at = "idle"
      BY <2>1 DEF Inv, NoScript, Runners, Runs, Idle
    <3> QED BY <1>2, <2>1, <3>1 DEF Merge, Start, ListPods, Finish, ReadAccount, SkipAccount,
               PatchAccount, DeletePod, AtAccount
  <2>2. ASSUME NEW b \in SAs, MergeAccount(b) PROVE entries[sa] \subseteq entries'[sa]
    BY <1>0, <2>2 DEF MergeAccount, UnchangedSince, Write
  <2> QED BY <1>2, <2>1, <2>2 DEF Merge, Start, ListPods, Finish, ReadAccount, SkipAccount,
             PatchAccount, DeletePod, CountBounce
<1>3. ASSUME NEW b \in SAs, CreateAccount(b) PROVE entries[sa] \subseteq entries'[sa]
  BY <1>0, <1>3 DEF CreateAccount
<1>4. ASSUME \/ \E b \in SAs : EditAccount(b)
             \/ GrowDesired
             \/ \E p \in Pods : UpgradeChart(p)
      PROVE  FALSE
  <2>1. edits \in Nat
    BY <1>0 DEF TypeOK
  <2>2. edits' = edits + 1
    BY <1>4 DEF EditAccount, GrowDesired, UpgradeChart, Edit
  <2> QED BY <2>1, <2>2
<1>5. ASSUME Kubelet \/ \E r \in Runners : Fail(r) PROVE entries' = entries
  BY <1>5 DEF Kubelet, CreatePod, Pull, Fail
<1> QED BY <1>1, <1>2, <1>3, <1>4, <1>5 DEF Next

\* The operator's merge of imagePullSecrets loses no entry that a chart or an
\* administrator wrote, however their writes fall between its reads and writes.
THEOREM EntriesAreKept == Spec => EntriesKept
<1>1. Inv /\ [Next]_vars =>
        [side = "local" /\ edits' = edits =>
           \A sa \in SAs : entries[sa] # None => entries[sa] \subseteq entries'[sa]]_vars
  BY KeptStep
<1> QED BY <1>1, Invariant, PTL DEF Spec, EntriesKept
=============================================================================
