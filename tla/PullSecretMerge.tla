--------------------------- MODULE PullSecretMerge ---------------------------
(***************************************************************************)
(* How the names of the delivered pull secrets get into the service        *)
(* accounts of one namespace, and how pods that could not pull their image *)
(* get to use them.  A pod takes the names from its service account when   *)
(* it is created and keeps them.                                           *)
(*                                                                         *)
(* On the operator's own cluster ("local") the AIWorkload reconcile does   *)
(* it (operator/internal/controller/aiworkload/pullsecrets.go); on the     *)
(* others ("downstream") a shell script that Fleet ships does it, run once *)
(* by a Job and every five minutes by a CronJob                            *)
(* (operator/internal/cluster/sa_merge.go).  PullSecrets has the delivery  *)
(* of the secrets themselves; here they are good.                          *)
(***************************************************************************)
EXTENDS Naturals

CONSTANTS
    Accounts,    \* service accounts the charts create, besides "default"
    Pods,        \* accounts under which a chart runs a pod
    Names,       \* pull secrets that may be delivered
    AdminName,   \* a secret that an administrator added
    None,
    Sides,       \* the clusters to look at: "local", "downstream"
    MaxBounces,  \* chartPodMaxBounces, 3 in the code
    MaxEdits,    \* bound on changes by administrators, charts and settings
    MaxFaults    \* bound on runs that fail

SAs == Accounts \cup {"default"}

ASSUME MergeAssumption ==
    /\ "default" \notin Accounts /\ Pods \subseteq SAs
    /\ AdminName \notin Names /\ None \notin SAs
    /\ Sides \subseteq {"local", "downstream"} /\ Sides # {}
    /\ MaxBounces \in Nat \ {0} /\ {MaxEdits, MaxFaults} \subseteq Nat

Entries == SUBSET (Names \cup {AdminName})
Maybe(S) == S \cup {None}

Runners == {"operator", "job", "cron"}
Idle == [at |-> "idle", todo |-> {}, want |-> {}, seen |-> [sa \in SAs |-> None],
         counted |-> None, changed |-> FALSE]
NoPod == [state |-> "none", entries |-> {}]

VARIABLES
    side,      \* which cluster this is
    polls,     \* the workload is an app: reconciled every 30 seconds
    desired,   \* names of the secrets delivered to the namespace
    entries,   \* imagePullSecrets of each account; None: no such account yet
    pullable,  \* pods whose image the desired secrets give access to
    pod,       \* each controller's pod: its state and its imagePullSecrets
    bounces,   \* bounce-count annotation of the pod's controller
    deleted,   \* how many pods of the controller the operator has deleted
    due,       \* runners that are to run: request queued, Job not complete
    run,       \* the running merges: step, accounts or pods left, desired names
               \*   and account entries as read, the pod that has been counted and
               \*   is to be deleted, whether something changed
    edits, faults

cluster == <<side, polls, pullable>>
pods    == <<pod, bounces, deleted>>
bounds  == <<edits, faults>>
vars    == <<cluster, desired, entries, pods, due, run, bounds>>

-----------------------------------------------------------------------------
Runs(r) == IF side = "local" THEN r = "operator" ELSE r # "operator"

\* Lists are worked off in their order; any fixed order stands for it.
NextIs(r, x) == run[r].todo # {} /\ x = CHOOSE y \in run[r].todo : TRUE

DoneAccount(r, sa) == [run[r] EXCEPT !.todo = @ \ {sa}, !.seen[sa] = None]

End(r, again) == /\ run' = [run EXCEPT ![r] = Idle]
                 /\ due' = IF again THEN due \cup {r} ELSE due \ {r}

Init ==
    /\ side \in Sides /\ polls \in BOOLEAN
    /\ \E n \in Names : desired = {n}
    /\ entries = [sa \in SAs |-> IF sa = "default" THEN {} ELSE None]
    /\ pullable \in SUBSET Pods
    /\ pod = [p \in Pods |-> NoPod]
    /\ bounces = [p \in Pods |-> 0] /\ deleted = [p \in Pods |-> 0]
    /\ due = {r \in Runners : Runs(r)}
    /\ run = [r \in Runners |-> Idle]
    /\ edits = 0 /\ faults = 0

-----------------------------------------------------------------------------
(* A merge.                                                                *)

AccountsChartOnly == {sa \in Accounts : entries[sa] # None}  \* mutant: no default

\* The accounts to patch: those of charts, and "default".
ListedAccounts == {sa \in SAs : entries[sa] # None}

\* The operator lists the accounts with their entries, the script their names.
Start(r) ==
    /\ Runs(r) /\ r \in due /\ run[r] = Idle
    /\ run' = [run EXCEPT ![r] =
          [Idle EXCEPT !.at = "accounts", !.todo = ListedAccounts, !.want = desired,
                       !.seen = IF r = "operator" THEN entries ELSE @]]
    /\ UNCHANGED <<cluster, desired, entries, pods, due, bounds>>

AtAccount(r, sa) == run[r].at = "accounts" /\ NextIs(r, sa)

ReadAccount(r, sa) ==
    /\ AtAccount(r, sa) /\ run[r].seen[sa] = None
    /\ run' = [run EXCEPT ![r].seen[sa] = entries[sa]]
    /\ UNCHANGED <<cluster, desired, entries, pods, due, bounds>>

\* The account has what it needs.
SkipAccount(r, sa) ==
    /\ AtAccount(r, sa) /\ run[r].seen[sa] # None
    /\ run[r].want \subseteq run[r].seen[sa]
    /\ run' = [run EXCEPT ![r] = DoneAccount(r, sa)]
    /\ UNCHANGED <<cluster, desired, entries, pods, due, bounds>>

UnchangedSinceAlways(r, sa) == TRUE  \* mutant: a patch instead of an update

\* The operator updates the account it read: refused when it has changed since.
UnchangedSince(r, sa) == entries[sa] = run[r].seen[sa]

Write(r, sa) ==
    /\ entries' = [entries EXCEPT ![sa] = run[r].seen[sa] \cup run[r].want]
    /\ run' = [run EXCEPT ![r] = [DoneAccount(r, sa) EXCEPT !.changed = TRUE]]
    /\ UNCHANGED due

MergeAccount(sa) ==
    /\ AtAccount("operator", sa) /\ ~(run["operator"].want \subseteq run["operator"].seen[sa])
    /\ IF UnchangedSince("operator", sa) THEN Write("operator", sa)
       ELSE entries' = entries /\ End("operator", TRUE)
    /\ UNCHANGED <<cluster, desired, pods, bounds>>

\* The script replaces the list by the union with what it read before.
PatchAccount(r, sa) ==
    /\ r # "operator" /\ AtAccount(r, sa) /\ run[r].seen[sa] # None
    /\ ~(run[r].want \subseteq run[r].seen[sa])
    /\ Write(r, sa)
    /\ UNCHANGED <<cluster, desired, pods, bounds>>

MayBounceAlways(r) == TRUE                 \* mutant: no PATCHED in the script
MayBounceIfPatched(r) == run[r].changed    \* mutant: the operator does as the script

\* The script looks at pods only if it has patched an account, the operator always.
MayBounce(r) == r = "operator" \/ run[r].changed

ListPods(r) ==
    /\ run[r].at = "accounts" /\ run[r].todo = {}
    /\ IF MayBounce(r)
       THEN /\ run' = [run EXCEPT ![r].at = "pods", ![r].want = {},
                                  ![r].todo = {p \in Pods : pod[p].state = "backoff"}]
            /\ UNCHANGED due
       ELSE End(r, r = "cron")
    /\ UNCHANGED <<cluster, desired, entries, pods, bounds>>

BelowCapOrAt(p) == bounces[p] <= MaxBounces  \* mutant: off by one

BelowCap(p) == bounces[p] < MaxBounces

\* The operator counts the bounce on the pod's controller, up to a cap ...
CountBounce(p) ==
    /\ run["operator"].at = "pods" /\ run["operator"].counted = None
    /\ NextIs("operator", p)
    /\ IF BelowCap(p)
       THEN /\ bounces' = [bounces EXCEPT ![p] = @ + 1]
            /\ run' = [run EXCEPT !["operator"].counted = p]
       ELSE /\ bounces' = bounces
            /\ run' = [run EXCEPT !["operator"].todo = @ \ {p}]
    /\ UNCHANGED <<cluster, desired, entries, pod, deleted, due, bounds>>

\* ... then deletes the pod by its name, which a StatefulSet's next pod has too.
DeletePod(r, p) ==
    /\ run[r].at = "pods"
    /\ IF r = "operator" THEN run[r].counted = p ELSE NextIs(r, p)
    /\ pod' = [pod EXCEPT ![p] = NoPod]
    /\ deleted' = IF r = "operator" /\ pod[p] # NoPod
                  THEN [deleted EXCEPT ![p] = @ + 1] ELSE deleted
    /\ run' = [run EXCEPT ![r].counted = None, ![r].todo = @ \ {p},
                          ![r].changed = @ \/ pod[p] # NoPod]
    /\ UNCHANGED <<cluster, desired, entries, bounces, due, bounds>>

\* The operator looks again in 30 seconds unless nothing had to be changed.
Finish(r) ==
    /\ run[r].at = "pods" /\ run[r].todo = {}
    /\ End(r, CASE r = "operator" -> run[r].changed \/ polls
                [] r = "job"      -> FALSE
                [] r = "cron"     -> TRUE)
    /\ UNCHANGED <<cluster, desired, entries, pods, bounds>>

\* A call fails or the process dies; the merge starts over.
Fail(r) ==
    /\ run[r] # Idle /\ faults < MaxFaults /\ faults' = faults + 1
    /\ End(r, TRUE)
    /\ UNCHANGED <<cluster, desired, entries, pods, edits>>

-----------------------------------------------------------------------------
(* The cluster.                                                            *)

\* A pod is created once its account exists.
CreatePod(p) ==
    /\ pod[p] = NoPod /\ entries[p] # None
    /\ pod' = [pod EXCEPT ![p] = [state |-> "starting", entries |-> entries[p]]]
    /\ UNCHANGED <<cluster, desired, entries, bounces, deleted, due, run, bounds>>

\* The kubelet pulls the image, or reports ImagePullBackOff.
Pull(p) ==
    /\ pod[p].state = "starting"
    /\ pod' = [pod EXCEPT ![p].state =
          IF p \in pullable /\ desired \subseteq pod[p].entries THEN "running" ELSE "backoff"]
    /\ UNCHANGED <<cluster, desired, entries, bounces, deleted, due, run, bounds>>

\* A chart's account appears some time after the namespace.
CreateAccount(sa) ==
    /\ entries[sa] = None /\ entries' = [entries EXCEPT ![sa] = {}]
    /\ UNCHANGED <<cluster, desired, pods, due, run, bounds>>

Edit == edits < MaxEdits /\ edits' = edits + 1 /\ UNCHANGED <<cluster, faults>>

\* An administrator adds an entry, or removes one.
EditAccount(sa) ==
    /\ Edit /\ entries[sa] # None
    /\ \/ entries' = [entries EXCEPT ![sa] = @ \cup {AdminName}]
       \/ \E n \in entries[sa] : entries' = [entries EXCEPT ![sa] = @ \ {n}]
    /\ entries' # entries
    /\ UNCHANGED <<desired, pods, due, run>>

\* One more secret is delivered: a request for the operator, a new Job (which
\* replaces the old one and its pod) for the script.
GrowDesired ==
    /\ Edit
    /\ \E n \in Names \ desired : desired' = desired \cup {n}
    /\ due' = due \cup {r \in Runners \ {"cron"} : Runs(r)}
    /\ run' = [run EXCEPT !["job"] = Idle]
    /\ UNCHANGED <<entries, pods>>

\* A chart upgrade replaces the controller, which has no count yet, and its pod:
\* who has listed the old pod will not find it.
UpgradeChart(p) ==
    /\ Edit
    /\ run' = [r \in Runners |->
          IF run[r].at # "pods" THEN run[r]
          ELSE [run[r] EXCEPT !.todo = @ \ {p}, !.counted = IF @ = p THEN None ELSE @]]
    /\ pod' = [pod EXCEPT ![p] = NoPod]
    /\ bounces' = [bounces EXCEPT ![p] = 0] /\ deleted' = [deleted EXCEPT ![p] = 0]
    /\ UNCHANGED <<desired, entries, due>>

-----------------------------------------------------------------------------
Merge(r) ==
    \/ Start(r) \/ ListPods(r) \/ Finish(r)
    \/ \E sa \in SAs : ReadAccount(r, sa) \/ SkipAccount(r, sa) \/ PatchAccount(r, sa)
    \/ \E p \in Pods : DeletePod(r, p)
    \/ r = "operator" /\ \/ \E sa \in SAs : MergeAccount(sa)
                         \/ \E p \in Pods : CountBounce(p)

Kubelet == \E p \in Pods : CreatePod(p) \/ Pull(p)

Next ==
    \/ \E r \in Runners : Merge(r) \/ Fail(r)
    \/ Kubelet
    \/ \E sa \in SAs : CreateAccount(sa) \/ EditAccount(sa)
    \/ GrowDesired
    \/ \E p \in Pods : UpgradeChart(p)

Spec == Init /\ [][Next]_vars

\* The work queue, the Job and the CronJob run what is due; Kubernetes creates
\* pods and pulls their images.  Charts, administrators and settings owe nothing.
Fairness == /\ \A r \in Runners : WF_vars(Merge(r))
            /\ \A p \in Pods : WF_vars(CreatePod(p) \/ Pull(p))

FairSpec == Spec /\ Fairness

-----------------------------------------------------------------------------
(* Properties.                                                             *)

TypeOK ==
    /\ side \in Sides /\ polls \in BOOLEAN /\ pullable \subseteq Pods
    /\ desired \subseteq Names
    /\ entries \in [SAs -> Maybe(Entries)]
    /\ pod \in [Pods -> [state : {"none", "starting", "backoff", "running"},
                         entries : Entries]]
    /\ bounces \in [Pods -> 0..MaxBounces] /\ deleted \in [Pods -> 0..MaxBounces]
    /\ due \subseteq Runners
    /\ run \in [Runners -> [at : {"idle", "accounts", "pods"},
                            todo : SUBSET SAs, want : SUBSET Names,
                            seen : [SAs -> Maybe(Entries)],
                            counted : Maybe(Pods), changed : BOOLEAN]]
    /\ edits \in 0..MaxEdits /\ faults \in 0..MaxFaults

\* The operator deletes at most MaxBounces pods of a controller, whatever fails
\* between the count and the deletion.
BouncesBounded == \A p \in Pods : deleted[p] <= bounces[p] /\ bounces[p] <= MaxBounces

\* The operator's merge loses no entry that somebody else wrote meanwhile.
EntriesKept ==
    [][side = "local" /\ edits' = edits =>
         \A sa \in SAs : entries[sa] # None => entries[sa] \subseteq entries'[sa]]_vars

Served == side = "downstream" \/ polls

\* Accounts that come late, entries that are removed, names that are added: in
\* the end every account has all desired names.
AccountsConverge ==
    Served => <>[](\A sa \in SAs : entries[sa] # None => desired \subseteq entries[sa])

\* A pod that cannot pull its image is not deleted for ever.
BrokenStays ==
    \A p \in Pods : [](p \notin pullable) =>
        <>[](entries[p] = None \/ pod[p].state = "backoff")

\* On the local cluster a pod that can pull its image with the desired secrets
\* comes to run, unless its controller has used up its bounces.
PodsRecover ==
    side = "local" /\ polls =>
        \A p \in Pods : [](p \in pullable) =>
            <>[](\/ entries[p] = None \/ pod[p].state = "running"
                 \/ bounces[p] = MaxBounces)

(* Properties that the code does not have: section 4 of README.md.         *)

\* "so late-created SAs (and Pods that came up before their SA was patched)
\* eventually converge"
PodsConverge ==
    side = "downstream" =>
        \A p \in Pods : [](p \in pullable) =>
            <>[](entries[p] = None \/ pod[p].state = "running")

\* "The merge is a union, so patching "default" only ADDS creds and never
\* clobbers existing entries."
ScriptKeepsEntries ==
    [][side = "downstream" /\ edits' = edits =>
         \A sa \in SAs : entries[sa] # None => entries[sa] \subseteq entries'[sa]]_vars
=============================================================================
