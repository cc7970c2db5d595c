------------------------------ MODULE Settings ------------------------------
(***************************************************************************)
(* The Settings controller (operator/internal/controller/settings, with    *)
(* operator/internal/credentials and the client holder of infra/rancher).  *)
(* One object, Settings, says which git repositories Fleet follows, which  *)
(* registries are in use and how to reach Rancher.  A pass works off one   *)
(* stage after another; a stage reads what it needs when it starts and     *)
(* then makes its writes one by one, any of which can fail.  Rancher is    *)
(* here for one habit: it does not watch the secrets its ClusterRepos      *)
(* name, and reads them again only when the ClusterRepo changes.           *)
(***************************************************************************)
EXTENDS Naturals, Sequences, SequencesExt

CONSTANTS
    Catalogs,      \* names of blueprint catalogs
    Registries,    \* registries with one repository each
    Openshell,     \* public repositories without credentials
    Fixed, Public, Gated, \* NVIDIA's fixed, public-team and gated-team ones
    FleetSpaces,   \* Fleet's workspaces, which hold copies of the credentials
    InitialSpecs,  \* what Settings may say at first
    None,
    MaxEdits,      \* bound on changes by users, each with a version of its own
    MaxFaults      \* bound on failed calls and crashes

Fleet   == "fleet"          \* the customer's own repository
Nvidia  == "nvidia"
Cattle  == "cattle-system"  \* where ClusterRepos look for credentials
Sites   == Catalogs \cup {Fleet}
Auth    == Registries \cup {Nvidia}
Spaces  == FleetSpaces \cup {Cattle}
Team    == Public \cup Gated
Repos   == Registries \cup Openshell \cup Fixed \cup Team
Sources == {"known", "own"} \* a secret with a well-known name, or another

Version  == 0..MaxEdits
Material == Version \cup {None}

\* A git source is absent, open, or needs a credential; ref names the secret
\* of a registry; mirrored: registryEndpoints are set; token, pinned: the
\* Rancher client's token and CA are set.
Specs == [git : [Sites -> {"absent", "open", "cred"}],
          ref : [Auth -> Sources \cup {None}],
          mirrored : BOOLEAN, token : BOOLEAN, pinned : BOOLEAN]

RepoSpecs == [url : {"public", "mirror"}, secret : BOOLEAN] \cup {None}
Clients   == [token : Version, ca : Material] \cup {None}

ASSUME SettingsAssumption ==
    /\ {MaxEdits, MaxFaults} \subseteq Nat /\ Gated # {}
    /\ InitialSpecs \subseteq Specs /\ InitialSpecs # {}

\* None is not one of the things there may be.
ASSUME NoneAssumption ==
    /\ None \notin Nat /\ None \notin {"open", "cred", "absent"} \cup Sources
    /\ None \notin [url : {"public", "mirror"}, secret : BOOLEAN]
    /\ None \notin [token : Version, ca : Material]

\* Everything has a name of its own, and there are finitely many of each kind.
ASSUME NamesAssumption ==
    /\ \A S \in {Catalogs, Registries, Openshell, Fixed, Public, Gated, FleetSpaces} :
          IsFiniteSet(S)
    /\ Fleet \notin Catalogs /\ Nvidia \notin Registries \cup Catalogs
    /\ Cattle \notin FleetSpaces
    /\ Registries \cap (Openshell \cup Fixed \cup Team) = {}
    /\ Openshell \cap (Fixed \cup Team) = {} /\ Fixed \cap Team = {} /\ Public \cap Gated = {}

VARIABLES
    spec,       \* Settings.Spec
    cred,       \* the content of the registries' secrets, by source
    raw,        \* NVIDIA's well-known secret has a token but no user name
    badCA,      \* registries whose configured CA cannot be read
    gitCred,    \* the credential of each git source
    rancher,    \* what the client needs: token, pinned CA, discovered CA
    gitRepo,    \* Fleet's GitRepos: None, or how they are configured
    gitMirror,  \* Fleet's copy of each git credential
    mirror,     \* the copies of the registries' credentials
    repo,       \* Rancher's ClusterRepos
    known,      \* the credentials Rancher last read for each of them
    holder,     \* the client that the workload controller uses
    observed,   \* Status.ObservedGeneration is the current one
    due,        \* the work queue holds the object
    pass,       \* the reconcile in progress
    swallowed,  \* what the last attempt at failed without the pass failing
    edits, faults

secrets == <<cred, raw, badCA, gitCred, rancher>>
git     == <<gitRepo, gitMirror>>
charts  == <<mirror, repo, known>>
bounds  == <<edits, faults>>
vars    == <<spec, secrets, git, charts, holder, observed, due, pass, swallowed,
             bounds>>

\* spec is the copy in memory; nv is what was found to refer to NVIDIA's secret;
\* blind: its well-known secret could not be given a user name.
Idle == [at |-> "idle", spec |-> None, agenda |-> <<>>, stage |-> None,
         todo |-> <<>>, nv |-> None, blind |-> FALSE]

Stage(name, on)         == [name |-> name, on |-> on]
Write(what, on, value)  == [what |-> what, on |-> on, value |-> value]
Misconfigured           == Write("error", None, None)

\* f[x] for each x in some order; f[x] and then g[x] for each.
ForEach(f)    == LET s == SetToSeq(DOMAIN f) IN [i \in DOMAIN s |-> f[s[i]]]
ForEach2(f, g) ==
    LET s == SetToSeq(DOMAIN f)
    IN  [i \in 1..(2 * Len(s)) |-> IF i % 2 = 1 THEN f[s[(i + 1) \div 2]] ELSE g[s[i \div 2]]]

Init ==
    /\ spec \in InitialSpecs
    /\ \E v \in {0, None} :
         /\ cred = [r \in Auth |-> [s \in Sources |-> IF s = "known" THEN v ELSE None]]
         /\ raw = (v = 0)
    /\ gitCred = [g \in Sites |-> 0]
    /\ rancher = [token |-> 0, pinned |-> None, internal |-> 0]
    /\ badCA = {}
    /\ gitRepo = [g \in Sites |-> None] /\ gitMirror = [g \in Sites |-> None]
    /\ mirror = [r \in Auth |-> [n \in Spaces |-> None]]
    /\ repo = [n \in Repos |-> None] /\ known = [n \in Repos |-> None]
    /\ holder = None /\ observed = FALSE /\ due = TRUE /\ pass = Idle
    /\ swallowed = {} /\ edits = 0 /\ faults = 0

-----------------------------------------------------------------------------
(* Which secret a registry uses.                                           *)

Content(r, s) == IF s = None \/ (r = Nvidia /\ s = "known" /\ raw) THEN None
                 ELSE cred[r][s]

\* What the Settings name wins if it can be read, then a well-known secret.
EffectiveRef(r, ref) ==
    IF Content(r, ref) = None /\ Content(r, "known") # None THEN "known" ELSE ref

\* Looking for NVIDIA's secret, the controller adds a missing user name.
LacksUser(ref) == Content(Nvidia, ref) = None /\ cred[Nvidia]["known"] # None /\ raw

-----------------------------------------------------------------------------
(* The git repositories.                                                   *)

Wanted(g) == pass.spec.git[g]

GitWrites(g) ==
    CASE Wanted(g) = "absent" /\ gitRepo[g] = None -> <<>>
      [] Wanted(g) = "absent" /\ gitRepo[g] # None -> <<Write("gitRepo", g, None)>>
      [] Wanted(g) = "open"   -> <<Write("gitRepo", g, "open")>>
      [] Wanted(g) = "cred" /\ gitCred[g] = None -> <<Misconfigured>>
      [] OTHER -> <<Write("gitMirror", g, gitCred[g]), Write("gitRepo", g, "cred")>>

KeepApplied == {c \in Catalogs : gitRepo[c] = Wanted(c)} \* mutant: keep after applying

Keep == {c \in Catalogs : Wanted(c) # "absent"}

\* Each repository that is not kept goes, and then its copy of the credential.
PruneWrites ==
    LET stale == {c \in Catalogs \ Keep : gitRepo[c] # None}
    IN  ForEach2([c \in stale |-> Write("gitRepo", c, None)],
                 [c \in stale |-> Write("gitMirror", c, None)])

-----------------------------------------------------------------------------
(* The registries.                                                         *)

Url == IF pass.spec.mirrored THEN "mirror" ELSE "public"

ApplyRepo(n, url, secret) == Write("repo", n, [url |-> url, secret |-> secret])
ApplyRepos(S, url, secret) == ForEach([n \in S |-> ApplyRepo(n, url, secret)])
DeleteRepos(S) == ForEach([n \in S |-> Write("repo", n, None)])
PruneTeam(keep) == DeleteRepos({n \in Team \ keep : repo[n] # None})

PruneRegistrySecretFirst(r, names) ==  \* mutant: the secret goes before the repositories
    <<Write("unmirror", r, None)>> \o DeleteRepos(names)

PruneRegistry(r, names) == DeleteRepos(names) \o <<Write("unmirror", r, None)>>

\* The copy that the ClusterRepos use comes first.
AuthWrites(r, v) ==
    <<Write("mirror", <<r, Cattle>>, v)>>
      \o ForEach([n \in FleetSpaces |-> Write("mirror", <<r, n>>, v)])

ChangedLate(r, v) == FALSE  \* mutant: computed after the copy is overwritten

RegistryAuthChanged(r, v) == mirror[r][Cattle] # v

ForceRead(n) == Write("force", n, None)

ForceUpdate(names, changed) ==
    IF changed THEN ForEach([n \in names |-> ForceRead(n)]) ELSE <<>>

ApplyWithSecret(S, url, changed) ==
    IF changed THEN ForEach2([n \in S |-> ApplyRepo(n, url, TRUE)], [n \in S |-> ForceRead(n)])
    ELSE ApplyRepos(S, url, TRUE)

ReadOrPrune(r, v, prune, writes) ==
    CASE v = None -> prune
      [] v # None /\ r \in badCA -> <<Misconfigured>>
      [] OTHER -> AuthWrites(r, v) \o writes

RegistryWrites(r) ==
    LET v == Content(r, EffectiveRef(r, pass.spec.ref[r]))
    IN  ReadOrPrune(r, v, PruneRegistry(r, {r}),
                    ApplyWithSecret({r}, Url, RegistryAuthChanged(r, v)))

OpenshellWrites == ApplyRepos(Openshell, Url, FALSE)

NoNvidia == PruneTeam({}) \o PruneRegistry(Nvidia, Fixed)

\* A mirror without credentials is anonymous; with credentials, every name
\* points at it; with credentials that cannot be read there is nothing.
MirroredWrites(ref) ==
    LET v        == Content(Nvidia, ref)
        names(s) == ApplyRepos(Fixed, "mirror", s) \o ApplyRepos(Team, "mirror", s)
    IN  IF ref = None
        THEN <<Write("unmirror", Nvidia, None)>> \o names(FALSE) \o PruneTeam(Team)
        ELSE ReadOrPrune(Nvidia, v, NoNvidia,
               names(TRUE) \o PruneTeam(Team)
                 \o ForceUpdate(Fixed \cup Team, RegistryAuthChanged(Nvidia, v)))

NvidiaWrites(ref) ==
    CASE pass.spec.mirrored -> MirroredWrites(ref)
      [] ~pass.spec.mirrored /\ ref = None -> NoNvidia
      [] OTHER -> ApplyRepos(Fixed, "public", FALSE)

\* Connected to NGC: the public repositories are anonymous, the gated ones
\* exist only while the credentials can be read.
NGCTeamWrites ==
    LET v      == Content(Nvidia, pass.nv)
        public == ApplyRepos(Public, "public", FALSE)
        gated  == ApplyWithSecret(Gated, "public", RegistryAuthChanged(Nvidia, v))
    IN  IF pass.spec.mirrored \/ pass.nv = None THEN <<>>
        ELSE ReadOrPrune(Nvidia, v,
               <<Write("unmirror", Nvidia, None)>> \o public \o PruneTeam(Public),
               public \o gated)

-----------------------------------------------------------------------------
(* A pass.                                                                 *)

Retry == pass' = Idle /\ due' = TRUE

Begin ==
    /\ pass = Idle /\ due /\ due' = FALSE
    /\ pass' = [Idle EXCEPT !.at = "wire", !.spec = spec]
    /\ UNCHANGED <<spec, secrets, git, charts, holder, observed, swallowed, bounds>>

Agenda(s) ==
    <<Stage("git", Fleet)>>
      \o ForEach([c \in {g \in Catalogs : s.git[g] # "absent"} |-> Stage("git", c)])
      \o <<Stage("prune", None)>> \o ForEach([r \in Registries |-> Stage("registry", r)])
      \o <<Stage("openshell", None), Stage("nvidia", None), Stage("team", None)>>

NextStageIs(name) == pass.at = "stages" /\ pass.todo = <<>> /\ pass.agenda # <<>>
               /\ Head(pass.agenda).name = name

\* NVIDIA's well-known secret gets its user name when it is looked for.
Looks == (pass.at = "wire" \/ NextStageIs("nvidia"))
         /\ LacksUser(pass.spec.ref[Nvidia]) /\ ~pass.blind

AddUser ==
    /\ Looks /\ raw' = FALSE /\ due' = TRUE
    /\ UNCHANGED <<spec, cred, badCA, gitCred, rancher, git, charts, holder, observed,
                   pass, swallowed, bounds>>

\* The error is not reported: the secret counts as not found.
AddUserFails ==
    /\ Looks /\ faults < MaxFaults /\ faults' = faults + 1
    /\ pass' = [pass EXCEPT !.blind = TRUE]
    /\ UNCHANGED <<spec, secrets, git, charts, holder, observed, due, swallowed, edits>>

Refs == [r \in Auth |-> EffectiveRef(r, pass.spec.ref[r])]

\* The refs that were found are written into the Settings, and the object in
\* memory becomes what the API server answers.
Wire ==
    /\ pass.at = "wire" /\ ~Looks
    /\ spec' = [spec EXCEPT !.ref =
                  [r \in Auth |-> IF Refs[r] = pass.spec.ref[r] THEN @[r] ELSE Refs[r]]]
    /\ LET copy == IF Refs = pass.spec.ref THEN pass.spec ELSE spec'
       IN  pass' = [pass EXCEPT !.at = "stages", !.spec = copy, !.agenda = Agenda(copy),
                                !.blind = FALSE]
    /\ observed' = (observed /\ spec' = spec) /\ due' = (due \/ spec' # spec)
    /\ UNCHANGED <<secrets, git, charts, holder, swallowed, bounds>>

WireFails ==
    /\ pass.at = "wire" /\ ~Looks /\ Refs # pass.spec.ref
    /\ faults < MaxFaults /\ faults' = faults + 1 /\ Retry
    /\ UNCHANGED <<spec, secrets, git, charts, holder, observed, swallowed, edits>>

Writes(s, ref) ==
    CASE s.name = "git"       -> GitWrites(s.on)
      [] s.name = "prune"     -> PruneWrites
      [] s.name = "registry"  -> RegistryWrites(s.on)
      [] s.name = "openshell" -> OpenshellWrites
      [] s.name = "nvidia"    -> NvidiaWrites(ref)
      [] s.name = "team"      -> NGCTeamWrites

\* What a stage that reports no error may leave undone.
Leaves(s) ==
    CASE s.name = "git"    -> {s.on}
      [] s.name = "prune"  -> Catalogs \ Keep
      [] s.name = "nvidia" -> {Nvidia}
      [] OTHER             -> {}

StartStage ==
    /\ pass.at = "stages" /\ pass.todo = <<>> /\ pass.agenda # <<>> /\ ~Looks
    /\ LET s   == Head(pass.agenda)
           ref == EffectiveRef(Nvidia, pass.spec.ref[Nvidia])
       IN  /\ pass' = [pass EXCEPT !.stage = s, !.agenda = Tail(@), !.todo = Writes(s, ref),
                                   !.nv = IF s.name = "nvidia" THEN ref ELSE @,
                                   !.blind = FALSE]
           /\ swallowed' = IF pass.blind THEN swallowed \cup Leaves(s)
                                         ELSE swallowed \ Leaves(s)
    /\ UNCHANGED <<spec, secrets, git, charts, holder, observed, due, bounds>>

Does(what) == pass.todo # <<>> /\ Head(pass.todo).what = what
              /\ pass' = [pass EXCEPT !.todo = Tail(@)]
On         == Head(pass.todo).on
Value      == Head(pass.todo).value

\* The controller watches the GitRepos, so its own changes wake it again.
WriteGitRepo ==
    /\ Does("gitRepo") /\ gitRepo' = [gitRepo EXCEPT ![On] = Value]
    /\ due' = (due \/ gitRepo' # gitRepo)
    /\ UNCHANGED <<spec, secrets, gitMirror, charts, holder, observed, swallowed, bounds>>

WriteGitMirror ==
    /\ Does("gitMirror") /\ gitMirror' = [gitMirror EXCEPT ![On] = Value]
    /\ UNCHANGED <<spec, secrets, gitRepo, charts, holder, observed, due, swallowed, bounds>>

WriteMirror ==
    /\ Does("mirror") /\ mirror' = [mirror EXCEPT ![On[1]][On[2]] = Value]
    /\ UNCHANGED <<spec, secrets, git, repo, known, holder, observed, due, swallowed, bounds>>

DeleteAuthSecret ==
    /\ Does("unmirror") /\ mirror' = [mirror EXCEPT ![On] = [n \in Spaces |-> None]]
    /\ UNCHANGED <<spec, secrets, git, repo, known, holder, observed, due, swallowed, bounds>>

\* What Rancher finds in the secret that a ClusterRepo names.
Reads(n, r) == IF r = None \/ ~r.secret THEN None
               ELSE mirror[IF n \in Registries THEN n ELSE Nvidia][Cattle]

WriteRepo ==
    /\ Does("repo") /\ repo' = [repo EXCEPT ![On] = Value]
    /\ known' = [known EXCEPT ![On] = IF repo[On] = Value THEN @ ELSE Reads(On, Value)]
    /\ UNCHANGED <<spec, secrets, git, mirror, holder, observed, due, swallowed, bounds>>

ForceUpdateRepo ==
    /\ Does("force") /\ known' = [known EXCEPT ![On] = Reads(On, repo[On])]
    /\ UNCHANGED <<spec, secrets, git, mirror, repo, holder, observed, due, swallowed, bounds>>

SwallowsNone == FALSE  \* mutant: a catalog's error ends the pass

\* Errors of the blueprint catalogs are only logged.
Swallows == pass.stage.name \in {"git", "prune"} /\ pass.stage.on # Fleet

StageEnds ==
    \/ /\ Swallows /\ pass' = [pass EXCEPT !.todo = <<>>]
       /\ swallowed' = swallowed \cup Leaves(pass.stage) /\ due' = due
    \/ ~Swallows /\ Retry /\ swallowed' = swallowed

StageErrors ==
    /\ pass.todo # <<>> /\ Head(pass.todo) = Misconfigured /\ StageEnds
    /\ UNCHANGED <<spec, secrets, git, charts, holder, observed, bounds>>

\* One failing deletion of a copy does not keep the others from being tried.
WriteFails ==
    /\ pass.todo # <<>> /\ Head(pass.todo) # Misconfigured /\ StageEnds
    /\ faults < MaxFaults /\ faults' = faults + 1
    /\ \/ Head(pass.todo).what # "unmirror" /\ mirror' = mirror
       \/ /\ Head(pass.todo).what = "unmirror"
          /\ \E left \in (SUBSET Spaces) \ {{}} :
               mirror' = [mirror EXCEPT ![On] = [n \in Spaces |-> IF n \in left THEN @[n] ELSE None]]
    /\ UNCHANGED <<spec, secrets, git, repo, known, holder, observed, edits>>

\* Without a token there is no client; a pinned CA has no substitute.
RefreshClient ==
    /\ pass.at = "stages" /\ pass.todo = <<>> /\ pass.agenda = <<>>
    /\ holder' = IF ~pass.spec.token \/ rancher.token = None THEN None
                 ELSE [token |-> rancher.token,
                       ca |-> IF pass.spec.pinned THEN rancher.pinned ELSE rancher.internal]
    /\ pass' = [pass EXCEPT !.at = "status"]
    /\ UNCHANGED <<spec, secrets, git, charts, observed, due, swallowed, bounds>>

\* The status is written on the latest object.  A new time stamp, to the
\* second, is a change that wakes the controller again.
UpdateStatus ==
    /\ pass.at = "status" /\ pass' = Idle /\ observed' = TRUE
    /\ \E newSecond \in BOOLEAN : due' = (due \/ ~observed \/ newSecond)
    /\ UNCHANGED <<spec, secrets, git, charts, holder, swallowed, bounds>>

UpdateStatusFails ==
    /\ pass.at = "status" /\ faults < MaxFaults /\ faults' = faults + 1 /\ Retry
    /\ UNCHANGED <<spec, secrets, git, charts, holder, observed, swallowed, edits>>

Crash ==
    /\ faults < MaxFaults /\ faults' = faults + 1 /\ Retry /\ holder' = None
    /\ UNCHANGED <<spec, secrets, git, charts, observed, swallowed, edits>>

-----------------------------------------------------------------------------
(* Everybody else.  Each change of Settings, and of a secret that is well  *)
(* known or that Settings name, wakes the controller.                      *)

Changed == edits < MaxEdits /\ edits' = edits + 1 /\ faults' = faults
Fresh   == {edits + 1, None}  \* a new content, or the secret is deleted

Edit(new) ==
    /\ Changed /\ new # spec /\ spec' = new /\ observed' = FALSE /\ due' = TRUE
    /\ UNCHANGED <<secrets, git, charts, holder, pass, swallowed>>

EditSettings ==
    \/ \E g \in Sites, w \in {"absent", "open", "cred"} : Edit([spec EXCEPT !.git[g] = w])
    \/ \E r \in Auth, f \in {"own", None} : Edit([spec EXCEPT !.ref[r] = f])
    \/ Edit([spec EXCEPT !.mirrored = ~@])
    \/ Edit([spec EXCEPT !.token = ~@])
    \/ Edit([spec EXCEPT !.pinned = ~@])

WatchedWellKnown(r, s) == s = "known"  \* mutant: secrets that Settings name are not watched

Watched(r, s) == s = "known" \/ spec.ref[r] = s

ChangeCredentials(r, s) ==
    /\ Changed
    /\ \E v \in Fresh : cred[r][s] # v /\ cred' = [cred EXCEPT ![r][s] = v]
    /\ IF r = Nvidia /\ s = "known" THEN raw' \in BOOLEAN /\ (raw' => cred'[r][s] # None)
                                    ELSE raw' = raw
    /\ due' = (due \/ Watched(r, s))
    /\ UNCHANGED <<spec, badCA, gitCred, rancher, git, charts, holder, observed, pass,
                   swallowed>>

ChangeCA(r) ==
    /\ Changed /\ due' = TRUE
    /\ badCA' = IF r \in badCA THEN badCA \ {r} ELSE badCA \cup {r}
    /\ UNCHANGED <<spec, cred, raw, gitCred, rancher, git, charts, holder, observed, pass,
                   swallowed>>

ChangeGitCredential(g) ==
    /\ Changed
    /\ \E v \in Fresh : gitCred[g] # v /\ gitCred' = [gitCred EXCEPT ![g] = v]
    /\ due' = (due \/ spec.git[g] = "cred")
    /\ UNCHANGED <<spec, cred, raw, badCA, rancher, git, charts, holder, observed, pass,
                   swallowed>>

\* Nobody watches the CA that is discovered in Rancher's namespace.
ChangeRancher(what) ==
    /\ Changed
    /\ \E v \in Fresh : rancher[what] # v /\ rancher' = [rancher EXCEPT ![what] = v]
    /\ due' = (due \/ (what = "token" /\ spec.token) \/ (what = "pinned" /\ spec.pinned))
    /\ UNCHANGED <<spec, cred, raw, badCA, gitCred, git, charts, holder, observed, pass,
                   swallowed>>

\* A GitRepo is deleted by hand, or Fleet writes its status.
GitRepoEvent(g) ==
    /\ gitRepo[g] # None /\ due' = TRUE
    /\ \/ Changed /\ gitRepo' = [gitRepo EXCEPT ![g] = None]
       \/ UNCHANGED <<gitRepo, bounds>>
    /\ UNCHANGED <<spec, secrets, gitMirror, charts, holder, observed, pass, swallowed>>

\* About once an hour.
RancherRefresh(n) ==
    /\ repo[n] # None /\ known' = [known EXCEPT ![n] = Reads(n, repo[n])]
    /\ UNCHANGED <<spec, secrets, git, mirror, repo, holder, observed, due, pass,
                   swallowed, bounds>>

Users ==
    \/ EditSettings
    \/ \E r \in Auth : ChangeCA(r) \/ \E s \in Sources : ChangeCredentials(r, s)
    \/ \E g \in Sites : ChangeGitCredential(g) \/ GitRepoEvent(g)
    \/ \E what \in {"token", "pinned", "internal"} : ChangeRancher(what)
    \/ \E n \in Repos : RancherRefresh(n)

Controller ==
    \/ Begin \/ AddUser \/ Wire \/ StartStage \/ StageErrors
    \/ WriteGitRepo \/ WriteGitMirror \/ WriteMirror \/ DeleteAuthSecret \/ WriteRepo
    \/ ForceUpdateRepo \/ RefreshClient \/ UpdateStatus

Failures == AddUserFails \/ WireFails \/ WriteFails \/ UpdateStatusFails \/ Crash

Next == Controller \/ Failures \/ Users

Spec     == Init /\ [][Next]_vars
FairSpec == Spec /\ WF_vars(Controller)

-----------------------------------------------------------------------------
(* What the Settings ask for.                                              *)

Refused(g) == spec.git[g] = "cred" /\ gitCred[g] = None

GitApplied(g) ==
    IF spec.git[g] = "absent" THEN gitRepo[g] = None
    ELSE gitRepo[g] = spec.git[g] /\ (spec.git[g] = "cred" => gitMirror[g] = gitCred[g])

InUse(r) == LET ref == EffectiveRef(r, spec.ref[r]) IN Content(r, ref)
Tidy(r)  == mirror[r] = [n \in Spaces |-> InUse(r)]

At(url, secret) == [url |-> url, secret |-> secret]
Place           == IF spec.mirrored THEN "mirror" ELSE "public"

\* The repositories there should be, in a table instead of a procedure.
Desired(n) ==
    LET nvidia == IF spec.ref[Nvidia] = None THEN "unused"
                  ELSE IF InUse(Nvidia) = None THEN "unreadable" ELSE "readable"
    IN  CASE n \in Registries -> IF InUse(n) = None THEN None ELSE At(Place, TRUE)
          [] n \in Openshell  -> At(Place, FALSE)
          [] n \in Fixed \cup Team /\ spec.mirrored ->
               IF nvidia = "unreadable" THEN None ELSE At("mirror", nvidia = "readable")
          [] n \in Fixed \cup Public /\ ~spec.mirrored ->
               IF nvidia = "unused" THEN None ELSE At("public", FALSE)
          [] n \in Gated /\ ~spec.mirrored ->
               IF nvidia = "readable" THEN At("public", TRUE) ELSE None

RegistriesApplied ==
    /\ \A r \in Auth : spec.ref[r] = EffectiveRef(r, spec.ref[r]) /\ Tidy(r)
    /\ \A n \in Repos : repo[n] = Desired(n)

\* The discovered CA is left out: see ChangeRancher.
ClientApplied ==
    IF ~spec.token \/ rancher.token = None THEN holder = None
    ELSE /\ holder # None /\ holder.token = rancher.token
         /\ spec.pinned => holder.ca = rancher.pinned

\* What stops a pass, and so everything after it: the customer's repository,
\* or the CA of a registry in use.
Blocked == Refused(Fleet) \/ \E r \in badCA : InUse(r) # None

Applied ==
    /\ GitApplied(Fleet) /\ ClientApplied /\ observed
    /\ \A c \in Catalogs : Refused(c) \/ GitApplied(c) \/ c \in swallowed
    /\ RegistriesApplied
    /\ LacksUser(spec.ref[Nvidia]) => Nvidia \in swallowed

Quiet == pass = Idle /\ ~due

-----------------------------------------------------------------------------
(* Properties.                                                             *)

\* Types.
TypeOK ==
    /\ spec \in Specs /\ cred \in [Auth -> [Sources -> Material]] /\ raw \in BOOLEAN
    /\ badCA \subseteq Auth /\ gitCred \in [Sites -> Material]
    /\ rancher \in [{"token", "pinned", "internal"} -> Material]
    /\ gitRepo \in [Sites -> {None, "open", "cred"}] /\ gitMirror \in [Sites -> Material]
    /\ mirror \in [Auth -> [Spaces -> Material]]
    /\ repo \in [Repos -> RepoSpecs] /\ known \in [Repos -> Material]
    /\ holder \in Clients /\ observed \in BOOLEAN /\ due \in BOOLEAN
    /\ pass.at \in {"idle", "wire", "stages", "status"}
    /\ pass.spec \in Specs \cup {None}
    /\ swallowed \subseteq Catalogs \cup {Nvidia}
    /\ edits \in 0..MaxEdits /\ faults \in 0..MaxFaults

\* When the controller has nothing left to do, everything the Settings ask for
\* is there and nothing else, whatever was changed, failed or crashed on the
\* way (Reconcile; the watches of SetupWithManager and enqueueSettingsForSecret).
QuietMeansApplied == Quiet => Applied

\* A repository names a secret that exists; only while a pass is taking the
\* gated NVIDIA repositories down, or is to be repeated, may it be missing
\* (reconcileRegistryRepo, pruneRegistryRepos, reconcileNGCTeamRepos).
NoDanglingSecret ==
    \A n \in Repos : repo[n] # None /\ repo[n].secret =>
      \/ Reads(n, repo[n]) # None
      \/ n \notin Registries /\ ~Quiet

\* If no call fails, Rancher has read the credentials that the secrets of its
\* repositories hold now: a change never goes by without a forced update
\* (applyRegistryAuthSecret, forceUpdateClusterRepo).
RotationReaches ==
    Quiet /\ faults = 0 =>
      \A n \in Repos : repo[n] # None => known[n] = Reads(n, repo[n])

\* The same whether or not calls fail: "The caller bumps spec.forceUpdate when
\* this reports a change so Rancher re-reads the secret immediately"
\* (applyRegistryAuthSecret).
RotationForced ==
    Quiet => \A n \in Repos : repo[n] # None => known[n] = Reads(n, repo[n])

\* A catalog that the Settings name keeps its GitRepo, however often applying
\* it fails; if the controller deletes one, a pass is due that will bring it
\* back (reconcileBlueprintCatalogs: "a transient error must not delete a
\* previously-working catalog").
KeptCatalogStays ==
    [][ \A c \in Catalogs :
          gitRepo[c] # None /\ gitRepo'[c] = None /\ pass.todo # pass'.todo
            => spec.git[c] = "absent" \/ due ]_vars

\* Unless the customer's repository or a registry's CA is misconfigured for
\* good, the Settings are in force in the end; a misconfigured catalog does
\* not stand in the way (Reconcile).
Converge == <>[]~Blocked => <>[]Applied
=============================================================================
