----------------------------- MODULE PullSecrets -----------------------------
(***************************************************************************)
(* Delivery of registry credentials, as pull secrets, to the clusters and  *)
(* namespaces a workload installs into, and their withdrawal when it is    *)
(* deleted (operator/internal/controller/aiworkload/pullsecrets.go,        *)
(* app.go, the injectors of blueprint.go, operator/internal/cluster).      *)
(*                                                                         *)
(* A reconcile first injects: it writes the secret to the operator's own   *)
(* cluster, if that is a target, and records the namespace in the status.  *)
(* Once the status is stored it delivers: every recorded namespace gets    *)
(* the secret as it is now, the own cluster directly, each other cluster   *)
(* through a Fleet bundle.  Then it adds the names to the service accounts *)
(* (in one step here; PullSecretMerge has the details).                    *)
(***************************************************************************)
EXTENDS Naturals

CONSTANTS
    Workloads,
    Profiles,      \* what the workloads may be: functions to [kind, vendor]
    Clusters,      \* clusters other than the operator's own
    Namespaces,
    Existing,      \* namespaces of the own cluster that are there anyway
    WellKnown,     \* the credentials are in a secret with a well-known name
    None,
    MaxRotations,  \* bound on changes of the credentials
    MaxEdits,      \* bound on changes of the workloads
    MaxFaults      \* bound on failed calls and crashes

\* An App deployed with Helm, by a Fleet bundle or through git, or a blueprint.
Kinds   == {"helm", "fleet", "gitops", "blueprint"}
Vendors == {"suse", "nvidia"}
Local   == "local"
Sites   == Clusters \cup {Local}

ASSUME PullSecretsAssumption ==
    /\ Profiles \subseteq [Workloads -> [kind : Kinds, vendor : Vendors]]
    /\ Profiles # {} /\ Local \notin Clusters /\ Existing \subseteq Namespaces
    /\ {MaxRotations, MaxEdits, MaxFaults} \subseteq Nat
    /\ None \notin Workloads \cup Nat /\ WellKnown \in BOOLEAN

Credential == 0..MaxRotations
Content    == Credential \cup {None}
Places     == Sites \X Namespaces

\* An empty list of target clusters means the own cluster.
Specs == [targets : (SUBSET Sites) \ {{}}, spaces : (SUBSET Namespaces) \ {{}}]

VARIABLES
    profile,   \* kind and vendor of each workload
    cred,      \* the credentials now; None: not configured
    life,      \* of each workload: "live", "deleting", "gone"
    spec,      \* target clusters; namespace (App), namespaces (components)
    recorded,  \* namespaces in Status.PullSecretDeliveries
    spaces,    \* namespaces that exist on the own cluster
    local,     \* the pull secret in each namespace of the own cluster
    refs,      \* namespaces of the own cluster whose accounts name the secret
    bundle,    \* what each workload's Fleet bundles deliver
    had,       \* of each workload: all namespaces it had at any time
    came,      \* workloads that had the own cluster as a target at any time
    due,       \* the work queue
    pass,      \* the reconcile in progress
    rotations, edits, faults

secret == <<profile, cred, rotations>>
object == <<life, spec, had, came>>
own    == <<spaces, local, refs>>
bounds == <<edits, faults>>
vars   == <<secret, object, recorded, own, bundle, due, pass, bounds>>

Kind(w)    == profile[w].kind
IsApp(w)   == Kind(w) # "blueprint"
Running(w) == life[w] # "gone"

\* One worker.  spec and names are the copy of the object in memory.
Idle == [w |-> None, at |-> "idle", spec |-> [targets |-> {}, spaces |-> {}],
         names |-> {}, todo |-> {}, content |-> None, err |-> FALSE]

At(w, step) == pass.w = w /\ pass.at = step

End(again) == pass' = Idle /\ due' = IF again THEN due \cup {pass.w} ELSE due

\* Lists are worked off in their order; the own cluster comes first.
NextIs(x) == x \in pass.todo /\ x = CHOOSE y \in pass.todo : TRUE
NextPlace(p) == /\ p \in pass.todo
                /\ \A q \in pass.todo : p[1] = Local \/ q[1] # Local
                /\ p = CHOOSE q \in pass.todo : q[1] = p[1]

Init ==
    /\ profile \in Profiles /\ cred \in {0, None}
    /\ life = [w \in Workloads |-> "live"]
    /\ \E n \in Namespaces, t \in (SUBSET Sites) \ {{}} :
         spec = [w \in Workloads |-> [targets |-> t, spaces |-> {n}]]
    /\ recorded = [w \in Workloads |-> {}]
    /\ spaces = Existing /\ local = [n \in Namespaces |-> None] /\ refs = {}
    /\ bundle = [w \in Workloads |-> [p \in Clusters \X Namespaces |-> None]]
    /\ had = [w \in Workloads |-> spec[w].spaces]
    /\ came = {w \in Workloads : Local \in spec[w].targets}
    /\ due = Workloads /\ pass = Idle
    /\ rotations = 0 /\ edits = 0 /\ faults = 0

-----------------------------------------------------------------------------
(* Injection.                                                              *)

\* An App's namespace is injected once, a blueprint's components every time.
ToInject(w) == IF IsApp(w) THEN spec[w].spaces \ recorded[w] ELSE spec[w].spaces

Begin(w) ==
    /\ pass = Idle /\ w \in due /\ due' = due \ {w}
    /\ life[w] = "live"
    /\ pass' = [Idle EXCEPT !.w = w, !.at = "inject", !.spec = spec[w],
                            !.names = recorded[w], !.todo = ToInject(w)]
    /\ UNCHANGED <<secret, object, recorded, own, bundle, bounds>>

WritesLocalAlways == TRUE  \* mutant: the secret is written locally regardless

WritesLocal == Local \in pass.spec.targets

\* Without credentials there is nothing to inject.
Inject(w, n) ==
    /\ At(w, "inject") /\ NextIs(n)
    /\ IF cred = None
       THEN /\ pass' = [pass EXCEPT !.todo = @ \ {n}]
            /\ UNCHANGED <<spaces, local>>
       ELSE /\ pass' = [pass EXCEPT !.todo = @ \ {n}, !.names = @ \cup {n}]
            /\ IF WritesLocal
               THEN spaces' = spaces \cup {n} /\ local' = [local EXCEPT ![n] = cred]
               ELSE UNCHANGED <<spaces, local>>
    /\ UNCHANGED <<secret, object, recorded, refs, bundle, due, bounds>>

\* A call of the injector fails, perhaps after the namespace was made.  The
\* one for SUSE logs that and injects nothing; the one for NVIDIA stops.
InjectFails(w, n) ==
    /\ At(w, "inject") /\ NextIs(n) /\ cred # None
    /\ faults < MaxFaults /\ faults' = faults + 1
    /\ spaces' \in {spaces} \cup (IF WritesLocal THEN {spaces \cup {n}} ELSE {})
    /\ pass' = IF profile[w].vendor = "suse" THEN [pass EXCEPT !.todo = @ \ {n}]
               ELSE [pass EXCEPT !.todo = {}, !.err = TRUE]
    /\ UNCHANGED <<secret, object, recorded, local, refs, bundle, due, edits>>

\* The workload is given another specification.
Becomes(w, s) ==
    /\ spec' = [spec EXCEPT ![w] = s]
    /\ had' = [had EXCEPT ![w] = @ \cup s.spaces]
    /\ came' = IF Local \in s.targets THEN came \cup {w} ELSE came

Injected(w) == At(w, "inject") /\ pass.todo = {}
Unchanged(w) == life[w] = "live" /\ spec[w] = pass.spec

\* The HelmOp that Fleet made from the git file has another namespace.  The
\* object is updated, and read back with the status it had.
SyncSpecFromHelmOp(w) ==
    /\ Injected(w) /\ Kind(w) = "gitops" /\ Unchanged(w)
    /\ edits < MaxEdits /\ edits' = edits + 1
    /\ \E n \in Namespaces : Becomes(w, [spec[w] EXCEPT !.spaces = {n}])
    /\ pass' = [pass EXCEPT !.spec = spec'[w], !.names = recorded[w]]
    /\ due' = due \cup {w}
    /\ UNCHANGED <<secret, life, recorded, own, bundle, faults>>

\* The git file is gone, so the workload goes too: no finalizer, no cleanup.
DeleteAIWorkload(w) ==
    /\ Injected(w) /\ Kind(w) = "gitops" /\ Unchanged(w)
    /\ edits < MaxEdits /\ edits' = edits + 1
    /\ life' = [life EXCEPT ![w] = "gone"]
    /\ pass' = Idle /\ due' = due \ {w}
    /\ UNCHANGED <<secret, spec, had, came, recorded, own, bundle, faults>>

\* Any other change since the object was read is a conflict.  The status is
\* stored even if the reconcile failed; its change queues the workload again.
PersistStatus(w) ==
    /\ Injected(w)
    /\ IF ~Unchanged(w) THEN End(TRUE) /\ recorded' = recorded
       ELSE /\ recorded' = [recorded EXCEPT ![w] = pass.names]
            /\ IF pass.err \/ pass.names = {}
               THEN End(pass.err \/ Kind(w) = "helm")
               ELSE /\ pass' = [pass EXCEPT !.at = "build"]
                    /\ due' = IF recorded' = recorded THEN due ELSE due \cup {w}
    /\ UNCHANGED <<secret, object, own, bundle, bounds>>

-----------------------------------------------------------------------------
(* Delivery.                                                               *)

BuildSecrets(w) ==
    /\ At(w, "build")
    /\ pass' = [pass EXCEPT !.at = "ship", !.content = cred,
          !.todo = IF cred = None THEN {} ELSE pass.spec.targets \X pass.names]
    /\ UNCHANGED <<secret, object, recorded, own, bundle, due, bounds>>

\* A secret cannot be written to a namespace that is not there.
DeliverLocal(w, n) ==
    /\ At(w, "ship") /\ NextPlace(<<Local, n>>)
    /\ IF n \in spaces
       THEN /\ local' = [local EXCEPT ![n] = pass.content]
            /\ pass' = [pass EXCEPT !.todo = @ \ {<<Local, n>>}] /\ due' = due
       ELSE local' = local /\ End(TRUE)
    /\ UNCHANGED <<secret, object, recorded, spaces, refs, bundle, bounds>>

ApplyPullSecretBundle(w, p) ==
    /\ At(w, "ship") /\ p[1] # Local /\ NextPlace(p)
    /\ bundle' = [bundle EXCEPT ![w][p] = pass.content]
    /\ pass' = [pass EXCEPT !.todo = @ \ {p}]
    /\ UNCHANGED <<secret, object, recorded, own, due, bounds>>

PollsNever(w) == FALSE  \* mutant: the last reconcile is the last

\* An App deployed with Helm is looked at every 30 seconds.
Polls(w) == Kind(w) = "helm"

\* After a change the operator looks again, until nothing needs changing.
ReconcilePullSecrets(w) ==
    /\ At(w, "ship") /\ pass.todo = {}
    /\ refs' = IF WritesLocal THEN refs \cup (pass.names \cap spaces) ELSE refs
    /\ End(Polls(w) \/ refs' # refs)
    /\ UNCHANGED <<secret, object, recorded, spaces, local, bundle, bounds>>

-----------------------------------------------------------------------------
(* Deletion.                                                               *)

Owned(w) == {p \in Clusters \X Namespaces : bundle[w][p] # None}

OwnedTargets(w) == {p \in Owned(w) : p[1] \in spec[w].targets}  \* mutant: by the spec

\* The bundles are found by their owner labels.
OwnedBundles(w) == Owned(w)

BeginDeletion(w) ==
    /\ pass = Idle /\ w \in due /\ due' = due \ {w}
    /\ life[w] = "deleting"
    /\ pass' = [Idle EXCEPT !.w = w, !.at = "cleanup", !.spec = spec[w],
                            !.names = recorded[w], !.todo = OwnedBundles(w)]
    /\ UNCHANGED <<secret, object, recorded, own, bundle, bounds>>

CleanupPullSecretBundle(w, p) ==
    /\ At(w, "cleanup") /\ NextIs(p)
    /\ bundle' = [bundle EXCEPT ![w][p] = None]
    /\ pass' = [pass EXCEPT !.todo = @ \ {p}]
    /\ UNCHANGED <<secret, object, recorded, own, due, bounds>>

PrunedIfLocal(w) == IF WritesLocal THEN pass.names ELSE {}  \* mutant: by the spec

\* The namespaces to prune are those on record.
Pruned(w) == pass.names

BeginPrune(w) ==
    /\ At(w, "cleanup") /\ pass.todo = {}
    /\ pass' = [pass EXCEPT !.at = "prune", !.todo = Pruned(w)]
    /\ UNCHANGED <<secret, object, recorded, own, bundle, due, bounds>>

PruneLocalSAImagePullSecrets(w, n) ==
    /\ At(w, "prune") /\ NextIs(n)
    /\ refs' = refs \ {n}
    /\ pass' = [pass EXCEPT !.todo = @ \ {n}]
    /\ UNCHANGED <<secret, object, recorded, spaces, local, bundle, due, bounds>>

RemoveFinalizer(w) ==
    /\ At(w, "prune") /\ pass.todo = {}
    /\ life' = [life EXCEPT ![w] = "gone"]
    /\ pass' = Idle /\ due' = due \ {w}
    /\ UNCHANGED <<secret, spec, had, came, recorded, own, bundle, bounds>>

-----------------------------------------------------------------------------
(* What happens around the operator.                                       *)

CredentialToBlueprints == {w \in Workloads : Running(w) /\ ~IsApp(w)}  \* mutant: not all

\* Workloads that a change of a well-known secret queues.
CredentialSecretToAIWorkloads == {w \in Workloads : Running(w)}

\* The credentials are changed, configured or removed.
ChangeCredentials ==
    /\ rotations < MaxRotations /\ rotations' = rotations + 1
    /\ cred' \in {rotations'} \cup ({None} \ {cred})
    /\ due' = IF WellKnown THEN due \cup CredentialSecretToAIWorkloads ELSE due
    /\ UNCHANGED <<profile, object, recorded, own, bundle, pass, bounds>>

Edit == edits < MaxEdits /\ edits' = edits + 1 /\ UNCHANGED faults

\* Other targets or namespaces; an App has one namespace.
EditSpec(w) ==
    /\ Edit /\ life[w] = "live"
    /\ \E s \in Specs :
         /\ s # spec[w] /\ (IsApp(w) => \E n \in Namespaces : s.spaces = {n})
         /\ Becomes(w, s)
    /\ due' = due \cup {w}
    /\ UNCHANGED <<secret, life, recorded, own, bundle, pass>>

Delete(w) ==
    /\ Edit /\ life[w] = "live"
    /\ life' = [life EXCEPT ![w] = "deleting"] /\ due' = due \cup {w}
    /\ UNCHANGED <<secret, spec, had, came, recorded, own, bundle, pass>>

\* Helm or Fleet installs the chart and makes its namespace.
InstallChart(w) ==
    /\ life[w] = "live" /\ Local \in spec[w].targets
    /\ ~(spec[w].spaces \subseteq spaces) /\ spaces' = spaces \cup spec[w].spaces
    /\ UNCHANGED <<secret, object, recorded, local, refs, bundle, due, pass, bounds>>

\* A call fails, and the workload is tried again ...
Fail ==
    /\ pass # Idle /\ faults < MaxFaults /\ faults' = faults + 1
    /\ End(TRUE)
    /\ UNCHANGED <<secret, object, recorded, own, bundle, edits>>

\* ... or the operator restarts, and every workload is.
Restart ==
    /\ faults < MaxFaults /\ faults' = faults + 1
    /\ pass' = Idle /\ due' = {w \in Workloads : Running(w)}
    /\ UNCHANGED <<secret, object, recorded, own, bundle, edits>>

-----------------------------------------------------------------------------
Step(w) ==
    \/ Begin(w) \/ PersistStatus(w) \/ BuildSecrets(w) \/ ReconcilePullSecrets(w)
    \/ \E n \in Namespaces : Inject(w, n) \/ DeliverLocal(w, n)
    \/ \E p \in Clusters \X Namespaces : ApplyPullSecretBundle(w, p)
    \/ BeginDeletion(w) \/ BeginPrune(w) \/ RemoveFinalizer(w)
    \/ \E p \in Clusters \X Namespaces : CleanupPullSecretBundle(w, p)
    \/ \E n \in Namespaces : PruneLocalSAImagePullSecrets(w, n)

Next ==
    \/ \E w \in Workloads :
         \/ Step(w) \/ InstallChart(w)
         \/ \E n \in Namespaces : InjectFails(w, n)
         \/ SyncSpecFromHelmOp(w) \/ DeleteAIWorkload(w)
         \/ EditSpec(w) \/ Delete(w)
    \/ ChangeCredentials \/ Fail \/ Restart

Spec == Init /\ [][Next]_vars

\* The queue serves every workload in it, the worker goes on, and charts are
\* installed where they are to be.
Fairness ==
    /\ \A w \in Workloads : SF_vars(Step(w)) /\ WF_vars(InstallChart(w))

FairSpec == Spec /\ Fairness

-----------------------------------------------------------------------------
(* Properties.                                                             *)

TypeOK ==
    /\ profile \in Profiles /\ cred \in Content
    /\ life \in [Workloads -> {"live", "deleting", "gone"}]
    /\ spec \in [Workloads -> Specs]
    /\ recorded \in [Workloads -> SUBSET Namespaces]
    /\ spaces \subseteq Namespaces /\ refs \subseteq Namespaces
    /\ had \in [Workloads -> SUBSET Namespaces] /\ came \subseteq Workloads
    /\ local \in [Namespaces -> Content]
    /\ bundle \in [Workloads -> [Clusters \X Namespaces -> Content]]
    /\ due \subseteq Workloads
    /\ pass.w \in Workloads \cup {None}
    /\ pass.at \in {"idle", "inject", "build", "ship", "cleanup", "prune"}
    /\ pass.spec \in [targets : SUBSET Sites, spaces : SUBSET Namespaces]
    /\ pass.names \subseteq Namespaces /\ pass.content \in Content
    /\ pass.todo \subseteq (IF pass.at \in {"ship", "cleanup"} THEN Places ELSE Namespaces)
    /\ rotations \in 0..MaxRotations /\ edits \in 0..MaxEdits /\ faults \in 0..MaxFaults

\* What the operator finds or makes on the own cluster: a secret, the accounts
\* that name it, a namespace.
Touched == refs \cup {n \in Namespaces : local[n] # None} \cup (spaces \ Existing)

\* A workload that only ever targeted other clusters leaves the own cluster
\* alone, also where a namespace happens to have the name of one of its own.
LocalUntouched == \A n \in Touched : \E w \in came : n \in had[w]

\* The same of each namespace by itself.  It fails: one that was recorded while
\* the workload ran elsewhere is served when the own cluster becomes a target.
ForeignUntouched ==
    [][\A n \in Touched' \ Touched :
         \E w \in Workloads : n \in spec[w].spaces \cup pass.spec.spaces]_vars

\* A pull secret is named by accounts only where a workload has it on record,
\* and not after that workload's deletion, whatever was edited meanwhile.
RefsAreOnRecord ==
    \A n \in refs : \E w \in Workloads :
        n \in recorded[w] /\ (Running(w) \/ Kind(w) = "gitops")

\* No bundle outlives its workload, however its targets and namespaces changed
\* and whatever failed (a workload that goes with its git file is another matter).
GoneLeavesNoBundle ==
    \A w \in Workloads : ~Running(w) /\ Kind(w) # "gitops" => Owned(w) = {}

Delivered(w) ==
    \A p \in spec[w].targets \X spec[w].spaces :
        cred = IF p[1] = Local THEN local[p[2]] ELSE bundle[w][p]

\* A namespace on record, that the workload no longer has, is not there.
Stuck(w) == Local \in spec[w].targets /\ ~(recorded[w] \subseteq spec[w].spaces \cup spaces)

\* New credentials reach every target of every workload, unless a failed
\* injection went unnoticed, or the delivery to a namespace fails for good.
CredentialsFollow ==
    WellKnown => \A w \in Workloads :
        profile[w].vendor = "nvidia" \/ Polls(w) =>
            <>[](life[w] = "live" /\ cred # None => Delivered(w) \/ Stuck(w))

\* One namespace that is not there keeps nothing from the others.  It fails: the
\* first that fails ends the delivery, and no namespace leaves the record.
OthersFollow ==
    WellKnown => \A w \in Workloads :
        Polls(w) => <>[](life[w] = "live" /\ cred # None => Delivered(w))

\* Another workload's deletion takes its secret's name from the accounts it
\* shares with this one; a polled workload puts it back.
RefsFollow ==
    \A w \in Workloads : Kind(w) = "helm" =>
        <>[](life[w] = "live" /\ Local \in spec[w].targets =>
               spec[w].spaces \cap recorded[w] \subseteq refs \/ Stuck(w))
=============================================================================
