---------------------------- MODULE SettingsProofs ----------------------------
(***************************************************************************)
(* Proofs about Settings, for any registries, catalogs, repositories and   *)
(* bounds: what a pass still has to do accounts for all that is not yet as *)
(* the Settings ask, and for all that Rancher has not read yet.            *)
(***************************************************************************)
EXTENDS Settings, FiniteSetTheorems, SequenceTheorems, TLAPS

-----------------------------------------------------------------------------
(* The invariant.                                                          *)

WriteType ==
    [what : {"gitRepo"}, on : Sites, value : {None, "open", "cred"}]
      \cup [what : {"gitMirror"}, on : Sites, value : Material]
      \cup [what : {"mirror"}, on : Auth \X Spaces, value : Version]
      \cup [what : {"unmirror"}, on : Auth, value : {None}]
      \cup [what : {"repo"}, on : Repos, value : RepoSpecs]
      \cup [what : {"force"}, on : Repos, value : {None}]
      \cup [what : {"error"}, on : {None}, value : {None}]

StageType ==
    [name : {"git"}, on : Sites] \cup [name : {"registry"}, on : Registries]
      \cup [name : {"prune", "openshell", "nvidia", "team"}, on : {None}]

PassType == [at : {"idle", "wire", "stages", "status"}, spec : Specs \cup {None},
             agenda : Seq(StageType), stage : StageType \cup {None}, todo : Seq(WriteType),
             nv : Sources \cup {None}, blind : BOOLEAN]

\* The writes that the stage, and the stages that the pass, still has to do.
Pending == Range(pass.todo)
Ahead   == Range(pass.agenda)

\* The shape of a pass.
PassOK ==
    /\ pass \in PassType
    /\ pass.at = "idle" => pass = Idle
    /\ pass.at # "idle" => pass.spec \in Specs
    /\ pass.at \in {"wire", "status"} => pass.agenda = <<>> /\ pass.todo = <<>>
    /\ pass.todo # <<>> => pass.stage \in StageType
    /\ pass.blind => \/ pass.at = "wire"
                     \/ NextStageIs("nvidia")

\* NVIDIA's stage comes before the team's, which is the last.
AgendaOK ==
    /\ \A i \in DOMAIN pass.agenda : pass.agenda[i].name = "team" => i = Len(pass.agenda)
    /\ Stage("nvidia", None) \in Ahead => Stage("team", None) \in Ahead

\* The copy in cattle-system is written first, a registry's copies go last, and
\* an error is all there is.
Ordered(s) ==
    \A i \in DOMAIN s :
        /\ s[i].what = "mirror" /\ s[i].on[2] = Cattle => i = 1
        /\ s[i].what = "unmirror" /\ s[i].on \in Registries => i = Len(s)
        /\ s[i] = Misconfigured => Len(s) = 1

\* A stage whose errors are swallowed writes about nothing that it may not leave.
TodoOK ==
    /\ Ordered(pass.todo)
    /\ pass.todo # <<>> /\ Swallows =>
         \A w \in Pending : \/ w = Misconfigured
                            \/ w.what \in {"gitRepo", "gitMirror"} /\ w.on \in Leaves(pass.stage)

Typed == TypeOK /\ PassOK /\ AgendaOK /\ TodoOK

\* Whose credential a repository uses, if any.
Owner(n) == IF n \in Registries THEN n ELSE Nvidia
Plain(r) == r = None \/ ~r.secret

RepoIn(R, n)    == {w \in R : w.what = "repo" /\ w.on = n}
CattleIn(R, r)  == {w \in R : w.what = "mirror" /\ w.on = <<r, Cattle>>}
RepoWrites(n)   == RepoIn(Pending, n)
CattleWrites(r) == CattleIn(Pending, r)
Refreshing(n)   == ForceRead(n) \in Pending \/ \E w \in RepoWrites(n) : w.value # repo[n]

\* Public repositories never use a credential, and after NVIDIA's stage its
\* fixed ones do not, unless there is a mirror.
PlainOK ==
    /\ \A n \in Openshell : Plain(repo[n]) /\ \A w \in RepoWrites(n) : Plain(w.value)
    /\ pass.at = "stages" /\ Stage("nvidia", None) \notin Ahead
         /\ ~pass.spec.mirrored /\ pass.nv # None =>
         \A n \in Fixed : /\ Plain(repo[n]) \/ RepoWrites(n) # {}
                          /\ \A w \in RepoWrites(n) : Plain(w.value)

\* Where copies are deleted, nothing is left that uses them, nor will there be.
UnmirrorOK ==
    \A r \in Auth : Write("unmirror", r, None) \in Pending =>
        \A n \in Repos : Owner(n) = r =>
            /\ Plain(repo[n]) \/ RepoWrites(n) # {}
            /\ \A w \in RepoWrites(n) : Plain(w.value)

\* A new credential is on its way to Rancher before it is copied.
MirrorOK ==
    \A r \in Auth : \A w \in CattleWrites(r) : w.value # mirror[r][Cattle] =>
        \A n \in Repos : Owner(n) = r => Plain(repo[n]) \/ Refreshing(n)

\* A registry's repository comes after the copy of its credential.
RegistryOK ==
    \A n \in Registries :
        /\ Plain(repo[n]) \/ mirror[n][Cattle] # None
        /\ \A w \in RepoWrites(n) :
              Plain(w.value) \/ mirror[n][Cattle] # None \/ CattleWrites(n) # {}

\* As long as no call failed: what Rancher has not read it will be made to read.
ReadOK ==
    faults = 0 =>
        \A n \in Repos : repo[n] # None => known[n] = Reads(n, repo[n]) \/ Refreshing(n)

CopiesInv == PlainOK /\ UnmirrorOK /\ MirrorOK /\ RegistryOK /\ ReadOK

\* An error that will end the pass.
Stops == Misconfigured \in Pending /\ ~Swallows

Want(g) == IF spec.git[g] = "absent" THEN None ELSE spec.git[g]

GitGoing(g) ==
    \/ Stage("git", g) \in Ahead
    \/ g # Fleet /\ spec.git[g] = "absent" /\ Stage("prune", None) \in Ahead
    \/ Refused(g) /\ (g = Fleet => Stops)
    \/ g \in swallowed
    \/ /\ gitRepo[g] = Want(g) \/ Write("gitRepo", g, Want(g)) \in Pending
       /\ spec.git[g] = "cred" =>
            gitMirror[g] = gitCred[g] \/ Write("gitMirror", g, gitCred[g]) \in Pending

MirrorGoing(r) ==
    IF InUse(r) = None
    THEN mirror[r] = [m \in Spaces |-> None] \/ Write("unmirror", r, None) \in Pending
    ELSE \A m \in Spaces :
            mirror[r][m] = InUse(r) \/ Write("mirror", <<r, m>>, InUse(r)) \in Pending

RepoGoing(n) == repo[n] = Desired(n) \/ Write("repo", n, Desired(n)) \in Pending

RegistryGoing(r) ==
    Stage("registry", r) \in Ahead \/ Stops \/ (MirrorGoing(r) /\ RepoGoing(r))

OpenshellGoing ==
    Stage("openshell", None) \in Ahead \/ \A n \in Openshell : RepoGoing(n)

NvidiaGoing ==
    \/ Stage("nvidia", None) \in Ahead \/ Stops
    \/ /\ \A n \in Fixed : RepoGoing(n)
       /\ \/ ~spec.mirrored /\ spec.ref[Nvidia] # None /\ Stage("team", None) \in Ahead
          \/ MirrorGoing(Nvidia) /\ \A n \in Team : RepoGoing(n)

UserGoing ==
    Stage("nvidia", None) \in Ahead \/ (LacksUser(spec.ref[Nvidia]) => Nvidia \in swallowed)

\* No write that is still to come is about something else.
WritesFit ==
    \A w \in Pending :
        /\ w.what = "gitRepo" => w.value = Want(w.on)
        /\ w.what = "gitMirror" /\ spec.git[w.on] = "cred" => w.value = gitCred[w.on]
        /\ w.what = "mirror" => w.value = InUse(w.on[1])
        /\ w.what = "unmirror" => InUse(w.on) = None
        /\ w.what = "repo" => w.value = Desired(w.on)

\* What the pass has behind it is done, or is about to be.
Behind ==
    /\ \A r \in Auth : spec.ref[r] = EffectiveRef(r, spec.ref[r])
    /\ \A g \in Sites : GitGoing(g)
    /\ \A r \in Registries : RegistryGoing(r)
    /\ OpenshellGoing /\ NvidiaGoing /\ UserGoing /\ WritesFit

\* As long as no change has made another pass due.
GoingOK ==
    /\ pass.at # "idle" => pass.spec = spec
    /\ pass.at # "wire" => Behind
    /\ pass.at = "stages" /\ Stage("nvidia", None) \notin Ahead => pass.nv = spec.ref[Nvidia]
    /\ pass.at \in {"status", "idle"} => ClientApplied
    /\ pass.at = "idle" => observed

GoingInv == due \/ GoingOK

-----------------------------------------------------------------------------
(* Sequences.                                                              *)

\* SetToSeq lists a finite set: an injection from as many numbers is onto.
LEMMA SetListed ==
    ASSUME NEW S, IsFiniteSet(S)
    PROVE  SetToSeq(S) \in Seq(S) /\ Range(SetToSeq(S)) = S
  <1> DEFINE n == Cardinality(S)
  <1>1. n \in Nat /\ ExistsBijection(1..n, S)
    BY FS_CardinalityType
  <1>2. PICK b \in Bijection(1..n, S) : TRUE
    BY <1>1 DEF ExistsBijection
  <1>3. \E f \in [1..n -> S] : IsInjective(f)
    BY <1>2 DEF Bijection, Injection
  <1> DEFINE s == SetToSeq(S)
  <1>4. s \in [1..n -> S] /\ IsInjective(s)
    BY <1>3 DEF SetToSeq
  <1>5. s \in Injection(1..n, S)
    BY <1>4 DEF Injection
  <1>6. IsFiniteSet(1..n) /\ Cardinality(1..n) = n
    BY <1>1, FS_Interval
  <1>7. s \in Surjection(1..n, S)
    <2> HIDE DEF s
    <2>1. Cardinality(1..n) = Cardinality(S) <=> s \in Surjection(1..n, S)
      BY <1>5, FS_Injection
    <2> QED BY <2>1, <1>6
  <1> QED BY <1>1, <1>4, <1>7 DEF Surjection, Range

\* ForEach lists the values of its function.
LEMMA ForEachListed ==
    ASSUME NEW f, NEW T, IsFiniteSet(DOMAIN f), \A x \in DOMAIN f : f[x] \in T
    PROVE  ForEach(f) \in Seq(T) /\ Range(ForEach(f)) = {f[x] : x \in DOMAIN f}
  <1>1. PICK s : s = SetToSeq(DOMAIN f)
    OBVIOUS
  <1>2. s \in Seq(DOMAIN f) /\ Range(s) = DOMAIN f
    BY <1>1, SetListed
  <1>3. ForEach(f) = [i \in DOMAIN s |-> f[s[i]]]
    BY <1>1 DEF ForEach
  <1>4. DOMAIN s = 1..Len(s) /\ Len(s) \in Nat /\ \A i \in DOMAIN s : s[i] \in DOMAIN f
    BY <1>2
  <1>5. ForEach(f) \in Seq(T)
    BY <1>3, <1>4
  <1> QED BY <1>2, <1>3, <1>4, <1>5 DEF Range

\* ForEach2 lists the values of both its functions.
LEMMA ForEach2Listed ==
    ASSUME NEW f, NEW g, NEW T, IsFiniteSet(DOMAIN f), DOMAIN g = DOMAIN f,
           \A x \in DOMAIN f : f[x] \in T /\ g[x] \in T
    PROVE  /\ ForEach2(f, g) \in Seq(T)
           /\ Range(ForEach2(f, g)) = {f[x] : x \in DOMAIN f} \cup {g[x] : x \in DOMAIN f}
  <1>1. PICK s : s = SetToSeq(DOMAIN f)
    OBVIOUS
  <1>2. s \in Seq(DOMAIN f) /\ Range(s) = DOMAIN f
    BY <1>1, SetListed
  <1>4. DOMAIN s = 1..Len(s) /\ Len(s) \in Nat /\ \A i \in 1..Len(s) : s[i] \in DOMAIN f
    BY <1>2
  <1>3. PICK t : t = ForEach2(f, g)
    OBVIOUS
  <1>5. t = [i \in 1..(2 * Len(s)) |->
                IF i % 2 = 1 THEN f[s[(i + 1) \div 2]] ELSE g[s[i \div 2]]]
    BY <1>1, <1>3 DEF ForEach2
  <1>6. DOMAIN t = 1..(2 * Len(s)) /\ 2 * Len(s) \in Nat
    BY <1>4, <1>5
  <1>7. \A i \in 1..(2 * Len(s)) :
          /\ i % 2 = 1 => (i + 1) \div 2 \in 1..Len(s)
          /\ i % 2 # 1 => i \div 2 \in 1..Len(s)
    BY <1>4
  <1>8. \A i \in 1..(2 * Len(s)) :
          \E j \in 1..Len(s) : t[i] = f[s[j]] \/ t[i] = g[s[j]]
    BY <1>5, <1>7
  <1>9. t \in Seq(T)
    <2>1. \A i \in 1..(2 * Len(s)) : t[i] \in T
      BY <1>8, <1>4
    <2>2. t \in [1..(2 * Len(s)) -> T]
      BY <2>1, <1>5
    <2> QED BY <2>2, <1>6
  <1>10. \A j \in 1..Len(s) : t[2 * j - 1] = f[s[j]] /\ t[2 * j] = g[s[j]]
    <2> SUFFICES ASSUME NEW j \in 1..Len(s) PROVE t[2 * j - 1] = f[s[j]] /\ t[2 * j] = g[s[j]]
      OBVIOUS
    <2>1. 2 * j - 1 \in 1..(2 * Len(s)) /\ 2 * j \in 1..(2 * Len(s))
      BY <1>4
    <2>2. (2 * j - 1) % 2 = 1 /\ (2 * j) % 2 = 0 /\ (2 * j) \div 2 = j
          /\ (2 * j - 1 + 1) \div 2 = j
      BY <1>4
    <2> QED BY <1>5, <2>1, <2>2
  <1>11. Range(t) = {t[i] : i \in 1..(2 * Len(s))}
    BY <1>6 DEF Range
  <1>12. \A x \in DOMAIN f : \E j \in 1..Len(s) : s[j] = x
    BY <1>2, <1>4 DEF Range
  <1>13. \A x \in DOMAIN f : f[x] \in Range(t) /\ g[x] \in Range(t)
    <2> SUFFICES ASSUME NEW x \in DOMAIN f PROVE f[x] \in Range(t) /\ g[x] \in Range(t)
      OBVIOUS
    <2>1. PICK j \in 1..Len(s) : s[j] = x
      BY <1>12
    <2>2. 2 * j - 1 \in 1..(2 * Len(s)) /\ 2 * j \in 1..(2 * Len(s))
      BY <1>4
    <2> QED BY <2>1, <2>2, <1>10, <1>11
  <1>14. \A y \in Range(t) : \E x \in DOMAIN f : y = f[x] \/ y = g[x]
    BY <1>8, <1>11, <1>4
  <1> QED BY <1>3, <1>9, <1>13, <1>14

\* Joining two lists joins what they list.
LEMMA JoinListed ==
    ASSUME NEW T, NEW s \in Seq(T), NEW t \in Seq(T)
    PROVE  s \o t \in Seq(T) /\ Range(s \o t) = Range(s) \cup Range(t)
  BY RangeConcatenation

\* The first element and the rest, and the last element and what is before it.
LEMMA ConsListed ==
    ASSUME NEW T, NEW x \in T, NEW s \in Seq(T)
    PROVE  /\ <<x>> \o s \in Seq(T) /\ Range(<<x>> \o s) = {x} \cup Range(s)
           /\ Len(<<x>> \o s) = 1 + Len(s) /\ <<x>> \o s # <<>>
           /\ \A i \in DOMAIN (<<x>> \o s) : i # 1 => (<<x>> \o s)[i] \in Range(s)
           /\ Head(<<x>> \o s) = x
  <1>1. <<x>> \in Seq(T) /\ Len(<<x>>) = 1 /\ Range(<<x>>) = {x}
    BY DEF Range
  <1> DEFINE t == <<x>> \o s
  <1>3. /\ t \in Seq(T) /\ Len(t) = 1 + Len(s)
        /\ \A i \in 1..(1 + Len(s)) : t[i] = IF i <= 1 THEN x ELSE s[i - 1]
    BY <1>1, ConcatProperties
  <1>4. Range(t) = {x} \cup Range(s)
    <2>1. \A a \in Seq(T) : Range(a \o s) = Range(a) \cup Range(s)
      BY JoinListed
    <2> QED BY <1>1, <2>1
  <1> HIDE DEF t
  <1>5. \A i \in DOMAIN t : i # 1 => t[i] \in Range(s)
    BY <1>3 DEF Range
  <1>6. t # <<>> /\ Head(t) = x
    BY <1>3
  <1> QED BY <1>3, <1>4, <1>5, <1>6, Zenon DEF t

\* Appending one element adds it at the end.
LEMMA SnocListed ==
    ASSUME NEW T, NEW x \in T, NEW s \in Seq(T)
    PROVE  /\ s \o <<x>> \in Seq(T) /\ Range(s \o <<x>>) = Range(s) \cup {x}
           /\ Len(s \o <<x>>) = Len(s) + 1
           /\ \A i \in DOMAIN (s \o <<x>>) : i # Len(s \o <<x>>) => (s \o <<x>>)[i] \in Range(s)
  <1>1. <<x>> \in Seq(T) /\ Len(<<x>>) = 1 /\ Range(<<x>>) = {x}
    BY DEF Range
  <1> DEFINE t == s \o <<x>>
  <1>3. /\ t \in Seq(T) /\ Len(t) = Len(s) + 1
        /\ \A i \in 1..(Len(s) + 1) : t[i] = IF i <= Len(s) THEN s[i] ELSE <<x>>[i - Len(s)]
    BY <1>1, ConcatProperties
  <1>4. Range(t) = Range(s) \cup {x}
    <2>1. \A a \in Seq(T) : Range(s \o a) = Range(s) \cup Range(a)
      BY JoinListed
    <2> QED BY <1>1, <2>1
  <1> HIDE DEF t
  <1>5. \A i \in DOMAIN t : i # Len(t) => t[i] \in Range(s)
    BY <1>3 DEF Range
  <1> QED BY <1>3, <1>4, <1>5, Zenon DEF t

\* What any list lists.
LEMMA Listed ==
    ASSUME NEW T, NEW s \in Seq(T)
    PROVE  /\ Range(s) \subseteq T /\ DOMAIN s = 1..Len(s) /\ Len(s) \in Nat
           /\ Range(s) = {} <=> s = <<>>
           /\ \A i \in DOMAIN s : s[i] \in Range(s)
  <1>1. DOMAIN s = 1..Len(s) /\ Len(s) \in Nat /\ \A i \in DOMAIN s : s[i] \in T
    OBVIOUS
  <1>2. Range(s) \subseteq T /\ \A i \in DOMAIN s : s[i] \in Range(s)
    BY <1>1 DEF Range
  <1>3. s = <<>> => Range(s) = {}
    BY DEF Range
  <1>4. s # <<>> => 1 \in DOMAIN s
    BY <1>1
  <1> QED BY <1>1, <1>2, <1>3, <1>4

\* Taking the head off.
LEMMA SplitHead ==
    ASSUME NEW T, NEW s \in Seq(T), s # <<>>
    PROVE  /\ Head(s) \in T /\ Tail(s) \in Seq(T) /\ Len(Tail(s)) = Len(s) - 1
           /\ Range(s) = {Head(s)} \cup Range(Tail(s)) /\ Head(s) = s[1] /\ 1 \in DOMAIN s
           /\ \A i \in DOMAIN Tail(s) : i + 1 \in DOMAIN s /\ Tail(s)[i] = s[i + 1]
  <1>1. PICK t : t = Tail(s)
    OBVIOUS
  <1>2. /\ Head(s) \in T /\ t \in Seq(T) /\ Len(t) = Len(s) - 1 /\ Len(s) \in Nat \ {0}
        /\ \A i \in 1..Len(t) : t[i] = s[i + 1]
    BY <1>1, HeadTailProperties
  <1>3. Head(s) = s[1] /\ 1 \in DOMAIN s
    BY <1>2
  <1>4. DOMAIN t = 1..Len(t) /\ DOMAIN s = 1..Len(s)
    BY <1>2
  <1>5. \A i \in DOMAIN t : i + 1 \in DOMAIN s /\ t[i] = s[i + 1]
    BY <1>2, <1>4
  <1>6. \A j \in DOMAIN s : j = 1 \/ (j - 1 \in DOMAIN t /\ t[j - 1] = s[j])
    BY <1>2, <1>4
  <1>7. Range(s) = {Head(s)} \cup Range(t)
    BY <1>3, <1>5, <1>6 DEF Range
  <1> QED BY <1>1, <1>2, <1>3, <1>5, <1>7

-----------------------------------------------------------------------------
(* The writes of each stage.                                               *)

\* Writes that may come anywhere.
Harmless(w) == /\ ~(w.what = "mirror" /\ w.on[2] = Cattle)
               /\ ~(w.what = "unmirror" /\ w.on \in Registries)
               /\ w # Misconfigured

\* Harmless writes may come in any order.
LEMMA HarmlessOrdered ==
    ASSUME NEW s \in Seq(WriteType), \A w \in Range(s) : Harmless(w)
    PROVE  Ordered(s)
  BY Listed DEF Ordered, Harmless

\* One write before harmless ones, as long as it is not one that goes last.
LEMMA ConsOrdered ==
    ASSUME NEW x \in WriteType, NEW s \in Seq(WriteType), \A w \in Range(s) : Harmless(w),
           x.what = "unmirror" => x.on \notin Registries, x # Misconfigured
    PROVE  Ordered(<<x>> \o s)
  <1>1. PICK t : t = <<x>> \o s
    OBVIOUS
  <1>2. /\ t \in Seq(WriteType) /\ Len(t) = 1 + Len(s) /\ Len(s) \in Nat /\ t[1] = x
        /\ \A i \in DOMAIN t : i # 1 => t[i] \in Range(s)
    <2>1. t # <<>> /\ Head(t) = x /\ t \in Seq(WriteType)
      BY <1>1, ConsListed, Zenon
    <2>2. Len(t) = 1 + Len(s) /\ \A i \in DOMAIN t : i # 1 => t[i] \in Range(s)
      BY <1>1, ConsListed, Zenon
    <2> QED BY <2>1, <2>2, Listed, SplitHead
  <1>3. Ordered(t)
    BY <1>2 DEF Ordered, Harmless
  <1> QED BY <1>1, <1>3, Zenon

\* One write after harmless ones, as long as it is not one that goes first.
LEMMA SnocOrdered ==
    ASSUME NEW x \in WriteType, NEW s \in Seq(WriteType), \A w \in Range(s) : Harmless(w),
           x.what # "mirror", x # Misconfigured
    PROVE  Ordered(s \o <<x>>)
  <1>1. PICK t : t = s \o <<x>>
    OBVIOUS
  <1>2. /\ t \in Seq(WriteType) /\ Len(t) = Len(s) + 1 /\ Len(s) \in Nat /\ t[Len(t)] = x
        /\ \A i \in DOMAIN t : i # Len(t) => t[i] \in Range(s)
    <2>1. Len(t) = Len(s) + 1 /\ \A i \in DOMAIN t : i # Len(t) => t[i] \in Range(s)
      BY <1>1, SnocListed, Zenon
    <2>2. t \in Seq(WriteType)
      BY <1>1, SnocListed, Zenon
    <2>3. t[Len(t)] = x
      BY <1>1, <2>1
    <2> QED BY <2>1, <2>2, <2>3
  <1>3. Ordered(t)
    BY <1>2 DEF Ordered, Harmless
  <1> QED BY <1>1, <1>3, Zenon

\* Every set that a stage goes through is finite.
LEMMA Finite ==
    /\ IsFiniteSet(Registries) /\ IsFiniteSet(Openshell) /\ IsFiniteSet(FleetSpaces)
    /\ \A S \in SUBSET Catalogs : IsFiniteSet(S)
    /\ \A S \in SUBSET (Fixed \cup Team) : IsFiniteSet(S)
    /\ \A r \in Registries : IsFiniteSet({r})
  <1>1. IsFiniteSet(Fixed \cup Team)
    BY NamesAssumption, FS_Union DEF Team
  <1> QED BY <1>1, NamesAssumption, FS_Subset, FS_Singleton

\* Which kinds a name belongs to (internal/naming, the constants of
\* settings_controller.go).
LEMMA Named ==
    /\ \A n \in Repos : Owner(n) \in Auth
    /\ Registries \subseteq Auth /\ Nvidia \in Auth /\ Nvidia \notin Registries
    /\ Cattle \in Spaces /\ FleetSpaces \subseteq Spaces /\ Cattle \notin FleetSpaces
    /\ Registries \subseteq Repos /\ Openshell \subseteq Repos /\ Fixed \subseteq Repos
    /\ Team \subseteq Repos /\ Public \subseteq Team /\ Gated \subseteq Team
    /\ Catalogs \subseteq Sites /\ Fleet \in Sites /\ Fleet \notin Catalogs
    /\ Nvidia \notin Sites
  BY NamesAssumption DEF Owner, Auth, Spaces, Repos, Team, Sites, Nvidia, Fleet

\* The sets of writes that the stages are made of.
Applying(S, url, secret) == {ApplyRepo(n, url, secret) : n \in S}
Deleting(S)              == {Write("repo", n, None) : n \in S}
Forcing(S)               == {ForceRead(n) : n \in S}
Copying(r, v)            == {Write("mirror", <<r, m>>, v) : m \in Spaces}

\* The writes that stages are made of are writes.
LEMMA WriteTypes ==
    /\ \A n \in Repos : /\ Write("repo", n, None) \in WriteType
                        /\ ForceRead(n) \in WriteType
                        /\ \A url \in {"public", "mirror"}, b \in BOOLEAN :
                              ApplyRepo(n, url, b) \in WriteType
    /\ \A r \in Auth : /\ Write("unmirror", r, None) \in WriteType
                       /\ \A m \in Spaces, v \in Version :
                            Write("mirror", <<r, m>>, v) \in WriteType
    /\ Misconfigured \in WriteType
  BY DEF WriteType, Write, ForceRead, ApplyRepo, Misconfigured, RepoSpecs

\* What ApplyRepos writes (applyClusterRepo).
LEMMA ApplyListed ==
    ASSUME NEW S \in SUBSET Repos, IsFiniteSet(S), NEW url \in {"public", "mirror"},
           NEW b \in BOOLEAN
    PROVE  ApplyRepos(S, url, b) \in Seq(WriteType)
           /\ Range(ApplyRepos(S, url, b)) = Applying(S, url, b)
  <1>1. PICK f : f = [n \in S |-> ApplyRepo(n, url, b)]
    OBVIOUS
  <1>2. DOMAIN f = S /\ \A x \in S : f[x] = ApplyRepo(x, url, b) /\ f[x] \in WriteType
    BY <1>1, WriteTypes
  <1>3. ForEach(f) \in Seq(WriteType) /\ Range(ForEach(f)) = {f[x] : x \in S}
    BY <1>2, ForEachListed
  <1>4. {f[x] : x \in S} = Applying(S, url, b)
    BY <1>2 DEF Applying
  <1> QED BY <1>1, <1>3, <1>4 DEF ApplyRepos

\* What DeleteRepos writes (deleteClusterRepo).
LEMMA DeleteListed ==
    ASSUME NEW S \in SUBSET Repos, IsFiniteSet(S)
    PROVE  DeleteRepos(S) \in Seq(WriteType) /\ Range(DeleteRepos(S)) = Deleting(S)
  <1>1. PICK f : f = [n \in S |-> Write("repo", n, None)]
    OBVIOUS
  <1>2. DOMAIN f = S /\ \A x \in S : f[x] = Write("repo", x, None) /\ f[x] \in WriteType
    BY <1>1, WriteTypes
  <1>3. ForEach(f) \in Seq(WriteType) /\ Range(ForEach(f)) = {f[x] : x \in S}
    BY <1>2, ForEachListed
  <1>4. {f[x] : x \in S} = Deleting(S)
    BY <1>2 DEF Deleting
  <1> QED BY <1>1, <1>3, <1>4 DEF DeleteRepos

\* What ForceUpdate writes (forceUpdateClusterRepo).
LEMMA ForceListed ==
    ASSUME NEW S \in SUBSET Repos, IsFiniteSet(S), NEW changed \in BOOLEAN
    PROVE  ForceUpdate(S, changed) \in Seq(WriteType)
           /\ Range(ForceUpdate(S, changed)) = IF changed THEN Forcing(S) ELSE {}
  <1>1. PICK f : f = [n \in S |-> ForceRead(n)]
    OBVIOUS
  <1>2. DOMAIN f = S /\ \A x \in S : f[x] = ForceRead(x) /\ f[x] \in WriteType
    BY <1>1, WriteTypes
  <1>3. ForEach(f) \in Seq(WriteType) /\ Range(ForEach(f)) = {f[x] : x \in S}
    BY <1>2, ForEachListed
  <1>4. {f[x] : x \in S} = Forcing(S)
    BY <1>2 DEF Forcing
  <1>5. <<>> \in Seq(WriteType) /\ Range(<<>>) = {}
    BY DEF Range
  <1> QED BY <1>1, <1>3, <1>4, <1>5 DEF ForceUpdate

\* What ApplyWithSecret writes: every repository, and a forced update if the
\* secret changed.
LEMMA ApplyWithSecretListed ==
    ASSUME NEW S \in SUBSET Repos, IsFiniteSet(S), NEW url \in {"public", "mirror"},
           NEW changed \in BOOLEAN
    PROVE  ApplyWithSecret(S, url, changed) \in Seq(WriteType)
           /\ Range(ApplyWithSecret(S, url, changed)) =
                Applying(S, url, TRUE) \cup (IF changed THEN Forcing(S) ELSE {})
  <1>1. PICK f : f = [n \in S |-> ApplyRepo(n, url, TRUE)]
    OBVIOUS
  <1>2. PICK g : g = [n \in S |-> ForceRead(n)]
    OBVIOUS
  <1>3. DOMAIN f = S /\ DOMAIN g = S /\ \A x \in S : /\ f[x] = ApplyRepo(x, url, TRUE)
                                                     /\ g[x] = ForceRead(x)
                                                     /\ f[x] \in WriteType /\ g[x] \in WriteType
    BY <1>1, <1>2, WriteTypes
  <1>4. /\ ForEach2(f, g) \in Seq(WriteType)
        /\ Range(ForEach2(f, g)) = {f[x] : x \in S} \cup {g[x] : x \in S}
    <2>1. /\ IsFiniteSet(DOMAIN f) /\ DOMAIN g = DOMAIN f
          /\ \A x \in DOMAIN f : f[x] \in WriteType /\ g[x] \in WriteType
      BY <1>3
    <2>2. /\ ForEach2(f, g) \in Seq(WriteType)
          /\ Range(ForEach2(f, g)) = {f[x] : x \in DOMAIN f} \cup {g[x] : x \in DOMAIN f}
      BY <2>1, ForEach2Listed
    <2> QED BY <2>2, <1>3
  <1>5. {f[x] : x \in S} = Applying(S, url, TRUE) /\ {g[x] : x \in S} = Forcing(S)
    BY <1>3 DEF Applying, Forcing
  <1>6. CASE changed
    <2>1. ApplyWithSecret(S, url, changed) = ForEach2(f, g)
      BY <1>1, <1>2, <1>6 DEF ApplyWithSecret
    <2> QED BY <2>1, <1>4, <1>5, <1>6
  <1>7. CASE ~changed
    BY <1>7, ApplyListed DEF ApplyWithSecret
  <1> QED BY <1>6, <1>7

\* The copy in cattle-system comes first, and whatever follows the copies.
LEMMA AuthListed ==
    ASSUME NEW r \in Auth, NEW v \in Version, NEW s \in Seq(WriteType),
           \A w \in Range(s) : Harmless(w)
    PROVE  /\ AuthWrites(r, v) \o s \in Seq(WriteType)
           /\ Range(AuthWrites(r, v) \o s) = Copying(r, v) \cup Range(s)
           /\ Ordered(AuthWrites(r, v) \o s)
  <1>1. PICK f : f = [m \in FleetSpaces |-> Write("mirror", <<r, m>>, v)]
    OBVIOUS
  <1>2. /\ DOMAIN f = FleetSpaces
        /\ \A m \in FleetSpaces : f[m] = Write("mirror", <<r, m>>, v) /\ f[m] \in WriteType
    BY <1>1, WriteTypes, Named
  <1>3. PICK c : c = ForEach(f)
    OBVIOUS
  <1>4. c \in Seq(WriteType) /\ Range(c) = {f[m] : m \in FleetSpaces}
    BY <1>2, <1>3, ForEachListed, Finite
  <1>5. PICK a : a = Write("mirror", <<r, Cattle>>, v)
    OBVIOUS
  <1>6. a \in WriteType /\ <<a>> \in Seq(WriteType)
    BY <1>5, WriteTypes, Named
  <1>7. AuthWrites(r, v) \o s = <<a>> \o (c \o s)
    <2>1. AuthWrites(r, v) = <<a>> \o c
      BY <1>1, <1>3, <1>5 DEF AuthWrites
    <2> QED BY <2>1, <1>4, <1>6, ConcatAssociative
  <1>8. c \o s \in Seq(WriteType) /\ Range(c \o s) = Range(c) \cup Range(s)
    BY <1>4, JoinListed
  <1>9. \A w \in Range(c \o s) : Harmless(w)
    <2>1. \A m \in FleetSpaces : Harmless(f[m])
      BY <1>2, Named DEF Harmless, Write, Misconfigured
    <2> QED BY <2>1, <1>4, <1>8
  <1>10. Ordered(<<a>> \o (c \o s))
    <2>1. a.what # "unmirror" /\ a # Misconfigured
      BY <1>5 DEF Write, Misconfigured
    <2> QED BY <2>1, <1>6, <1>8, <1>9, ConsOrdered
  <1>11. Copying(r, v) = {a} \cup Range(c)
    BY <1>2, <1>4, <1>5 DEF Copying, Spaces
  <1>12. PICK cs : cs = c \o s
    OBVIOUS
  <1>13. <<a>> \o cs \in Seq(WriteType) /\ Range(<<a>> \o cs) = {a} \cup Range(cs)
    BY <1>6, <1>8, <1>12, ConsListed
  <1> QED BY <1>7, <1>8, <1>10, <1>11, <1>12, <1>13

\* What a sequence of writes amounts to.
Lists(s, R) == s \in Seq(WriteType) /\ Range(s) = R /\ Ordered(s)

\* Nothing is a list of nothing.
LEMMA EmptyLists == Lists(<<>>, {})
  BY DEF Lists, Ordered, Range

\* One write is a list of itself.
LEMMA OneLists == ASSUME NEW w \in WriteType PROVE Lists(<<w>>, {w})
  BY DEF Lists, Ordered, Range

\* Repositories, GitRepos and forced updates may be written in any order.
LEMMA HarmlessLists ==
    /\ \A S : \A w \in Deleting(S) : Harmless(w)
    /\ \A S : \A w \in Forcing(S) : Harmless(w)
    /\ \A S, url, b : \A w \in Applying(S, url, b) : Harmless(w)
    /\ Harmless(Write("unmirror", Nvidia, None))
    /\ \A g, v : Harmless(Write("gitRepo", g, v)) /\ Harmless(Write("gitMirror", g, v))
  BY Named DEF Harmless, Deleting, Applying, Forcing, Write, ApplyRepo, ForceRead, Misconfigured

\* What is found in a secret, and the name under which it is looked for.
LEMMA ContentType ==
    ASSUME TypeOK, NEW r \in Auth, NEW s \in Sources \cup {None}
    PROVE  /\ Content(r, s) \in Material
           /\ Content(r, s) # None => Content(r, s) \in Version
           /\ EffectiveRef(r, s) \in Sources \cup {None}
  BY DEF TypeOK, Content, EffectiveRef, Material, Sources

\* What the stage of a git site writes (reconcileBlueprintCatalogs, the Fleet
\* repository).
LEMMA GitListed ==
    ASSUME TypeOK, pass.spec \in Specs, NEW g \in Sites
    PROVE  /\ Wanted(g) \in {"absent", "open", "cred"}
           /\ Wanted(g) = "absent" /\ gitRepo[g] = None => Lists(GitWrites(g), {})
           /\ Wanted(g) = "absent" /\ gitRepo[g] # None =>
                Lists(GitWrites(g), {Write("gitRepo", g, None)})
           /\ Wanted(g) = "open" => Lists(GitWrites(g), {Write("gitRepo", g, "open")})
           /\ Wanted(g) = "cred" /\ gitCred[g] = None => Lists(GitWrites(g), {Misconfigured})
           /\ Wanted(g) = "cred" /\ gitCred[g] # None =>
                Lists(GitWrites(g), {Write("gitMirror", g, gitCred[g]), Write("gitRepo", g, "cred")})
  <1>1. Wanted(g) \in {"absent", "open", "cred"}
    BY DEF Specs, Wanted
  <1>2. /\ \A v \in {None, "open", "cred"} : Write("gitRepo", g, v) \in WriteType
        /\ Write("gitMirror", g, gitCred[g]) \in WriteType
    BY DEF WriteType, Write, TypeOK
  <1>3. CASE Wanted(g) = "absent" /\ gitRepo[g] = None
    <2>1. GitWrites(g) = <<>>
      BY <1>3 DEF GitWrites
    <2> QED BY <2>1, <1>3, EmptyLists
  <1>4. CASE Wanted(g) = "absent" /\ gitRepo[g] # None
    BY <1>4, <1>2, OneLists DEF GitWrites
  <1>5. CASE Wanted(g) = "open"
    BY <1>5, <1>2, OneLists DEF GitWrites
  <1>6. CASE Wanted(g) = "cred" /\ gitCred[g] = None
    <2>1. GitWrites(g) = <<Misconfigured>>
      BY <1>6 DEF GitWrites
    <2> QED BY <2>1, <1>6, WriteTypes, OneLists
  <1>7. CASE Wanted(g) = "cred" /\ gitCred[g] # None
    <2>1. PICK a, b : a = Write("gitMirror", g, gitCred[g]) /\ b = Write("gitRepo", g, "cred")
      OBVIOUS
    <2>2. GitWrites(g) = <<a, b>>
      BY <1>7, <2>1 DEF GitWrites
    <2>3. a \in WriteType /\ b \in WriteType /\ Harmless(a) /\ Harmless(b)
      BY <1>2, <2>1, HarmlessLists
    <2>4. <<a, b>> \in Seq(WriteType) /\ Range(<<a, b>>) = {a, b}
      BY <2>3 DEF Range
    <2>5. Ordered(<<a, b>>)
      BY <2>3, <2>4, HarmlessOrdered
    <2> QED BY <2>1, <2>2, <2>4, <2>5, <1>7 DEF Lists
  <1> QED BY <1>1, <1>3, <1>4, <1>5, <1>6, <1>7

\* The catalogs' repositories that are to go.
Stale == {c \in Catalogs \ Keep : gitRepo[c] # None}

\* What pruning the catalogs writes.
LEMMA PruneListed ==
    ASSUME TypeOK, pass.spec \in Specs
    PROVE  Lists(PruneWrites, {Write("gitRepo", c, None) : c \in Stale}
                                \cup {Write("gitMirror", c, None) : c \in Stale})
  <1>1. PICK f : f = [c \in Stale |-> Write("gitRepo", c, None)]
    OBVIOUS
  <1>2. PICK g : g = [c \in Stale |-> Write("gitMirror", c, None)]
    OBVIOUS
  <1>3. Stale \subseteq Catalogs
    BY DEF Stale
  <1>4. /\ IsFiniteSet(DOMAIN f) /\ DOMAIN g = DOMAIN f
        /\ \A x \in DOMAIN f : f[x] \in WriteType /\ g[x] \in WriteType
    BY <1>1, <1>2, <1>3, Finite, Named DEF WriteType, Write, Material
  <1>5. PruneWrites = ForEach2(f, g)
    BY <1>1, <1>2 DEF PruneWrites, Stale
  <1>6. /\ PruneWrites \in Seq(WriteType)
        /\ Range(PruneWrites) = {f[x] : x \in DOMAIN f} \cup {g[x] : x \in DOMAIN f}
    BY <1>4, <1>5, ForEach2Listed
  <1>7. Range(PruneWrites) = {Write("gitRepo", c, None) : c \in Stale}
                                \cup {Write("gitMirror", c, None) : c \in Stale}
    BY <1>1, <1>2, <1>6
  <1>8. \A w \in Range(PruneWrites) : Harmless(w)
    BY <1>7, HarmlessLists
  <1> QED BY <1>6, <1>7, <1>8, HarmlessOrdered DEF Lists

\* Where a pass takes its charts from.
LEMMA UrlType == ASSUME pass.spec \in Specs
                 PROVE  Url \in {"public", "mirror"} /\ pass.spec.mirrored \in BOOLEAN
  BY DEF Url, Specs

\* What the stage of a registry writes: its copies and its repository, or the
\* removal of both.
LEMMA RegistryListed ==
    ASSUME TypeOK, pass.spec \in Specs, NEW r \in Registries,
           NEW v, v = Content(r, EffectiveRef(r, pass.spec.ref[r]))
    PROVE  /\ v # None => v \in Version
           /\ v = None =>
                Lists(RegistryWrites(r), Deleting({r}) \cup {Write("unmirror", r, None)})
           /\ v # None /\ r \in badCA => Lists(RegistryWrites(r), {Misconfigured})
           /\ v # None /\ r \notin badCA =>
                Lists(RegistryWrites(r),
                      Copying(r, v) \cup Applying({r}, Url, TRUE)
                        \cup (IF mirror[r][Cattle] # v THEN Forcing({r}) ELSE {}))
  <1>1. r \in Auth /\ r \in Repos /\ {r} \in SUBSET Repos /\ IsFiniteSet({r})
    BY Named, Finite
  <1>2. v # None => v \in Version
    BY <1>1, ContentType DEF Specs
  <1>3. RegistryWrites(r) = ReadOrPrune(r, v, PruneRegistry(r, {r}),
                              ApplyWithSecret({r}, Url, RegistryAuthChanged(r, v)))
    BY DEF RegistryWrites
  <1>4. CASE v = None
    <2>1. PICK u : u = Write("unmirror", r, None)
      OBVIOUS
    <2>2. u \in WriteType /\ u.what # "mirror" /\ u # Misconfigured
      BY <1>1, <2>1, WriteTypes DEF Write, Misconfigured
    <2>3. PICK d : d = DeleteRepos({r})
      OBVIOUS
    <2>4. d \in Seq(WriteType) /\ Range(d) = Deleting({r}) /\ \A w \in Range(d) : Harmless(w)
      BY <1>1, <2>3, DeleteListed, HarmlessLists
    <2>5. RegistryWrites(r) = d \o <<u>>
      BY <1>3, <1>4, <2>1, <2>3 DEF ReadOrPrune, PruneRegistry
    <2>6. Ordered(d \o <<u>>)
      BY <2>2, <2>4, SnocOrdered
    <2>7. d \o <<u>> \in Seq(WriteType) /\ Range(d \o <<u>>) = Range(d) \cup {u}
      BY <2>2, <2>4, SnocListed
    <2> QED BY <1>4, <2>1, <2>4, <2>5, <2>6, <2>7 DEF Lists
  <1>5. CASE v # None /\ r \in badCA
    <2>1. RegistryWrites(r) = <<Misconfigured>>
      BY <1>3, <1>5 DEF ReadOrPrune
    <2> QED BY <2>1, <1>2, <1>5, WriteTypes, OneLists
  <1>6. CASE v # None /\ r \notin badCA
    <2>1. PICK s : s = ApplyWithSecret({r}, Url, RegistryAuthChanged(r, v))
      OBVIOUS
    <2>2. RegistryAuthChanged(r, v) \in BOOLEAN
      BY DEF RegistryAuthChanged
    <2>3. /\ s \in Seq(WriteType)
          /\ Range(s) = Applying({r}, Url, TRUE)
                          \cup (IF RegistryAuthChanged(r, v) THEN Forcing({r}) ELSE {})
      BY <1>1, <2>1, <2>2, UrlType, ApplyWithSecretListed
    <2>4. \A w \in Range(s) : Harmless(w)
      BY <2>3, HarmlessLists
    <2>5. RegistryWrites(r) = AuthWrites(r, v) \o s
      BY <1>3, <1>6, <2>1 DEF ReadOrPrune
    <2>6. Lists(RegistryWrites(r), Copying(r, v) \cup Range(s))
      <3>1. /\ AuthWrites(r, v) \o s \in Seq(WriteType)
            /\ Range(AuthWrites(r, v) \o s) = Copying(r, v) \cup Range(s)
            /\ Ordered(AuthWrites(r, v) \o s)
        BY <1>1, <1>2, <1>6, <2>3, <2>4, AuthListed
      <3> QED BY <3>1, <2>5, Zenon DEF Lists
    <2> QED BY <1>2, <1>6, <2>3, <2>6 DEF RegistryAuthChanged
  <1> QED BY <1>2, <1>4, <1>5, <1>6

\* The writes of a registry's stage as a set, when the registry is in use.
LEMMA RegistryInUse ==
    ASSUME Typed, pass.spec \in Specs, NEW r \in Registries, r \notin badCA,
           NEW v, v = Content(r, EffectiveRef(r, pass.spec.ref[r])), v # None,
           NEW F, F = IF mirror[r][Cattle] # v THEN {r} ELSE {}
    PROVE  Range(RegistryWrites(r))
             = Copying(r, v) \cup Applying({r}, Url, TRUE) \cup Forcing(F)
  <1>0. TypeOK
    BY DEF Typed
  <1>1. PICK s, A : s = RegistryWrites(r) /\ A = Copying(r, v) \cup Applying({r}, Url, TRUE)
    OBVIOUS
  <1>2. Lists(s, A \cup (IF mirror[r][Cattle] # v THEN Forcing({r}) ELSE {}))
    BY <1>0, <1>1, RegistryListed
  <1>3. Range(s) = A \cup (IF mirror[r][Cattle] # v THEN Forcing({r}) ELSE {})
    BY <1>2 DEF Lists
  <1>4. Forcing({}) = {}
    BY DEF Forcing
  <1>5. (IF mirror[r][Cattle] # v THEN Forcing({r}) ELSE {}) = Forcing(F)
    <2>1. CASE mirror[r][Cattle] # v
      BY <2>1
    <2>2. CASE mirror[r][Cattle] = v
      BY <1>4, <2>2
    <2> QED BY <2>1, <2>2
  <1>6. Range(s) = A \cup Forcing(F)
    BY <1>3, <1>5
  <1> QED BY <1>1, <1>6

\* What OpenShell's stage writes.
LEMMA OpenshellListed ==
    ASSUME pass.spec \in Specs
    PROVE  Lists(OpenshellWrites, Applying(Openshell, Url, FALSE))
  <1>1. /\ OpenshellWrites \in Seq(WriteType)
        /\ Range(OpenshellWrites) = Applying(Openshell, Url, FALSE)
    BY ApplyListed, UrlType, Finite, Named DEF OpenshellWrites
  <1> QED BY <1>1, HarmlessLists, HarmlessOrdered DEF Lists

\* What goes when there are no credentials for NVIDIA's repositories.
Clearing == Deleting({n \in Team : repo[n] # None}) \cup Deleting(Fixed)
              \cup {Write("unmirror", Nvidia, None)}

\* What is written if NVIDIA is not asked for: everything of it is removed.
LEMMA NoNvidiaListed == Lists(NoNvidia, Clearing)
  <1>1. PICK S : S = {n \in Team \ {} : repo[n] # None}
    OBVIOUS
  <1>2. S \in SUBSET Repos /\ IsFiniteSet(S) /\ IsFiniteSet(Fixed) /\ Fixed \in SUBSET Repos
    BY <1>1, Finite, Named
  <1>3. PICK t : t = DeleteRepos(S)
    OBVIOUS
  <1>4. PICK f : f = DeleteRepos(Fixed)
    OBVIOUS
  <1>5. /\ t \in Seq(WriteType) /\ Range(t) = Deleting(S)
        /\ f \in Seq(WriteType) /\ Range(f) = Deleting(Fixed)
    BY <1>2, <1>3, <1>4, DeleteListed
  <1>6. PICK u : u = Write("unmirror", Nvidia, None)
    OBVIOUS
  <1>7. u \in WriteType
    BY <1>6, WriteTypes, Named
  <1>8. PICK p : p = f \o <<u>>
    OBVIOUS
  <1>9. p \in Seq(WriteType) /\ Range(p) = Deleting(Fixed) \cup {u}
    BY <1>5, <1>7, <1>8, SnocListed, Zenon
  <1>10. t \o p \in Seq(WriteType) /\ Range(t \o p) = Range(t) \cup Range(p)
    BY <1>5, <1>9, JoinListed
  <1>11. NoNvidia = t \o p
    BY <1>1, <1>3, <1>4, <1>6, <1>8 DEF NoNvidia, PruneTeam, PruneRegistry
  <1>12. Range(t \o p) = Clearing
    BY <1>1, <1>5, <1>6, <1>9, <1>10 DEF Clearing
  <1>13. \A w \in Clearing : Harmless(w)
    BY HarmlessLists DEF Clearing
  <1>14. Ordered(t \o p)
    BY <1>10, <1>12, <1>13, HarmlessOrdered
  <1> QED BY <1>10, <1>11, <1>12, <1>14, Zenon DEF Lists

\* NVIDIA's fixed and team repositories, all at the mirror.
LEMMA NamesListed ==
    ASSUME NEW b \in BOOLEAN
    PROVE  /\ ApplyRepos(Fixed, "mirror", b) \o ApplyRepos(Team, "mirror", b) \in Seq(WriteType)
           /\ Range(ApplyRepos(Fixed, "mirror", b) \o ApplyRepos(Team, "mirror", b))
                = Applying(Fixed \cup Team, "mirror", b)
  <1>1. PICK f, t : f = ApplyRepos(Fixed, "mirror", b) /\ t = ApplyRepos(Team, "mirror", b)
    OBVIOUS
  <1>2. /\ f \in Seq(WriteType) /\ Range(f) = Applying(Fixed, "mirror", b)
        /\ t \in Seq(WriteType) /\ Range(t) = Applying(Team, "mirror", b)
    BY <1>1, ApplyListed, Finite, Named
  <1>3. f \o t \in Seq(WriteType) /\ Range(f \o t) = Range(f) \cup Range(t)
    BY <1>2, JoinListed
  <1>4. Applying(Fixed \cup Team, "mirror", b)
          = Applying(Fixed, "mirror", b) \cup Applying(Team, "mirror", b)
    BY DEF Applying
  <1> QED BY <1>1, <1>2, <1>3, <1>4, Zenon

\* What pruning the team's repositories writes.
LEMMA PruneTeamListed ==
    ASSUME NEW keep
    PROVE  /\ PruneTeam(keep) \in Seq(WriteType)
           /\ Range(PruneTeam(keep)) = Deleting({n \in Team \ keep : repo[n] # None})
  <1>1. PICK S : S = {n \in Team \ keep : repo[n] # None}
    OBVIOUS
  <1>2. S \in SUBSET Repos /\ IsFiniteSet(S)
    BY <1>1, Finite, Named
  <1> QED BY <1>1, <1>2, DeleteListed DEF PruneTeam

\* With all of them wanted, nothing is pruned.
LEMMA NothingPruned == PruneTeam(Team) \in Seq(WriteType) /\ Range(PruneTeam(Team)) = {}
  BY PruneTeamListed DEF Deleting

\* What NVIDIA's stage writes with a mirror.
LEMMA MirroredListed ==
    ASSUME TypeOK, pass.spec \in Specs, NEW ref \in Sources \cup {None},
           NEW v, v = Content(Nvidia, ref)
    PROVE  /\ v # None => v \in Version
           /\ ref = None =>
                Lists(MirroredWrites(ref), {Write("unmirror", Nvidia, None)}
                        \cup Applying(Fixed \cup Team, "mirror", FALSE))
           /\ ref # None /\ v = None => Lists(MirroredWrites(ref), Clearing)
           /\ ref # None /\ v # None /\ Nvidia \in badCA =>
                Lists(MirroredWrites(ref), {Misconfigured})
           /\ ref # None /\ v # None /\ Nvidia \notin badCA =>
                Lists(MirroredWrites(ref),
                      Copying(Nvidia, v) \cup Applying(Fixed \cup Team, "mirror", TRUE)
                        \cup (IF mirror[Nvidia][Cattle] # v THEN Forcing(Fixed \cup Team) ELSE {}))
  <1>1. PICK p : p = PruneTeam(Team)
    OBVIOUS
  <1>2. p \in Seq(WriteType) /\ Range(p) = {}
    BY <1>1, NothingPruned
  <1>3. v # None => v \in Version
    BY ContentType, Named
  <1>4. CASE ref = None
    <2>1. PICK f, t : f = ApplyRepos(Fixed, "mirror", FALSE) /\ t = ApplyRepos(Team, "mirror", FALSE)
      OBVIOUS
    <2>2. PICK m : m = f \o t
      OBVIOUS
    <2>3. m \in Seq(WriteType) /\ Range(m) = Applying(Fixed \cup Team, "mirror", FALSE)
      BY <2>1, <2>2, NamesListed, Zenon
    <2>4. PICK u : u = Write("unmirror", Nvidia, None)
      OBVIOUS
    <2>5. u \in WriteType /\ Harmless(u)
      BY <2>4, WriteTypes, Named, HarmlessLists
    <2>6. PICK n : n = <<u>> \o m
      OBVIOUS
    <2>7. n \in Seq(WriteType) /\ Range(n) = {u} \cup Range(m)
      BY <2>3, <2>5, <2>6, ConsListed, Zenon
    <2>8. MirroredWrites(ref) = (<<u>> \o m) \o p \/ MirroredWrites(ref) = <<u>> \o (m \o p)
      BY <1>1, <1>4, <2>1, <2>2, <2>4, Zenon DEF MirroredWrites
    <2>9. <<u>> \in Seq(WriteType)
      BY <2>5
    <2>10. (<<u>> \o m) \o p = <<u>> \o (m \o p)
      BY <2>3, <2>9, <1>2, ConcatAssociative
    <2>11. MirroredWrites(ref) = n \o p
      BY <2>6, <2>8, <2>10
    <2>12. n \o p \in Seq(WriteType) /\ Range(n \o p) = Range(n) \cup Range(p)
      BY <1>2, <2>7, JoinListed
    <2>13. Range(n \o p) = {u} \cup Applying(Fixed \cup Team, "mirror", FALSE)
      BY <1>2, <2>3, <2>7, <2>12
    <2>14. \A w \in Range(n \o p) : Harmless(w)
      BY <2>5, <2>13, HarmlessLists
    <2>15. Lists(n \o p, Range(n \o p))
      BY <2>12, <2>14, HarmlessOrdered DEF Lists
    <2>16. Lists(MirroredWrites(ref), {u} \cup Applying(Fixed \cup Team, "mirror", FALSE))
      BY <2>11, <2>13, <2>15, Zenon
    <2> QED BY <1>3, <1>4, <2>4, <2>16
  <1>5. CASE ref # None /\ v = None
    <2>1. MirroredWrites(ref) = NoNvidia
      BY <1>5 DEF MirroredWrites, ReadOrPrune
    <2> QED BY <2>1, <1>5, NoNvidiaListed
  <1>6. CASE ref # None /\ v # None /\ Nvidia \in badCA
    <2>1. MirroredWrites(ref) = <<Misconfigured>>
      BY <1>6 DEF MirroredWrites, ReadOrPrune
    <2> QED BY <2>1, <1>3, <1>6, WriteTypes, OneLists
  <1>7. CASE ref # None /\ v # None /\ Nvidia \notin badCA
    <2>1. PICK f, t : f = ApplyRepos(Fixed, "mirror", TRUE) /\ t = ApplyRepos(Team, "mirror", TRUE)
      OBVIOUS
    <2>2. PICK m : m = f \o t
      OBVIOUS
    <2>3. m \in Seq(WriteType) /\ Range(m) = Applying(Fixed \cup Team, "mirror", TRUE)
      BY <2>1, <2>2, NamesListed, Zenon
    <2>4. PICK changed : changed = RegistryAuthChanged(Nvidia, v)
      OBVIOUS
    <2>5. changed \in BOOLEAN /\ changed = (mirror[Nvidia][Cattle] # v)
      BY <2>4 DEF RegistryAuthChanged
    <2>6. PICK u : u = ForceUpdate(Fixed \cup Team, changed)
      OBVIOUS
    <2>7. /\ u \in Seq(WriteType)
          /\ Range(u) = IF changed THEN Forcing(Fixed \cup Team) ELSE {}
      BY <2>5, <2>6, ForceListed, Finite, Named
    <2>8. m \o p \in Seq(WriteType) /\ Range(m \o p) = Range(m) \cup Range(p)
      <3>1. m \in Seq(WriteType) /\ p \in Seq(WriteType)
        BY <1>2, <2>3
      <3> QED BY <3>1, JoinListed, SMTT(30)
    <2>9. PICK s : s = (m \o p) \o u
      OBVIOUS
    <2>10. s \in Seq(WriteType) /\ Range(s) = Range(m) \cup Range(u)
      <3>1. s \in Seq(WriteType) /\ Range(s) = Range(m \o p) \cup Range(u)
        <4>1. m \o p \in Seq(WriteType) /\ u \in Seq(WriteType)
          BY <2>7, <2>8
        <4>2. /\ (m \o p) \o u \in Seq(WriteType)
              /\ Range((m \o p) \o u) = Range(m \o p) \cup Range(u)
          <5>1. PICK a \in Seq(WriteType) : a = m \o p
            BY <4>1
          <5>2. a \o u \in Seq(WriteType) /\ Range(a \o u) = Range(a) \cup Range(u)
            BY <4>1, JoinListed
          <5> QED BY <5>1, <5>2
        <4> QED BY <4>2, <2>9
      <3> QED BY <1>2, <2>8, <3>1
    <2>11. m \o (p \o u) = s
      <3>1. m \in Seq(WriteType) /\ p \in Seq(WriteType) /\ u \in Seq(WriteType)
        BY <1>2, <2>3, <2>7
      <3>2. (m \o p) \o u = m \o (p \o u)
        BY <3>1, ConcatAssociative
      <3> QED BY <2>9, <3>2
    <2>12. MirroredWrites(ref) = AuthWrites(Nvidia, v) \o s
      <3>1. MirroredWrites(ref) = ReadOrPrune(Nvidia, v, NoNvidia, (m \o p) \o u)
            \/ MirroredWrites(ref) = ReadOrPrune(Nvidia, v, NoNvidia, m \o (p \o u))
        BY <1>1, <1>7, <2>1, <2>2, <2>4, <2>6, Zenon DEF MirroredWrites
      <3> QED BY <1>7, <2>9, <2>11, <3>1 DEF ReadOrPrune
    <2>13. \A w \in Range(s) : Harmless(w)
      BY <2>3, <2>7, <2>10, HarmlessLists
    <2>14. /\ AuthWrites(Nvidia, v) \o s \in Seq(WriteType)
           /\ Range(AuthWrites(Nvidia, v) \o s) = Copying(Nvidia, v) \cup Range(s)
           /\ Ordered(AuthWrites(Nvidia, v) \o s)
      BY <1>3, <1>7, <2>10, <2>13, AuthListed, Named
    <2>15. Lists(MirroredWrites(ref), Copying(Nvidia, v) \cup Range(s))
      BY <2>12, <2>14, Zenon DEF Lists
    <2>16. Copying(Nvidia, v) \cup Range(s)
             = Copying(Nvidia, v) \cup Applying(Fixed \cup Team, "mirror", TRUE)
                 \cup (IF mirror[Nvidia][Cattle] # v THEN Forcing(Fixed \cup Team) ELSE {})
      BY <2>3, <2>5, <2>7, <2>10
    <2> QED BY <1>3, <1>7, <2>15, <2>16
  <1> QED BY <1>3, <1>4, <1>5, <1>6, <1>7

\* What NVIDIA's stage writes.
LEMMA NvidiaListed ==
    ASSUME TypeOK, pass.spec \in Specs, NEW ref \in Sources \cup {None}
    PROVE  /\ pass.spec.mirrored => NvidiaWrites(ref) = MirroredWrites(ref)
           /\ ~pass.spec.mirrored /\ ref = None => Lists(NvidiaWrites(ref), Clearing)
           /\ ~pass.spec.mirrored /\ ref # None =>
                Lists(NvidiaWrites(ref), Applying(Fixed, "public", FALSE))
  <1>1. CASE pass.spec.mirrored
    BY <1>1 DEF NvidiaWrites
  <1>2. CASE ~pass.spec.mirrored /\ ref = None
    <2>1. NvidiaWrites(ref) = NoNvidia
      BY <1>2 DEF NvidiaWrites
    <2> QED BY <2>1, <1>2, NoNvidiaListed
  <1>3. CASE ~pass.spec.mirrored /\ ref # None
    <2>1. NvidiaWrites(ref) = ApplyRepos(Fixed, "public", FALSE)
      BY <1>3 DEF NvidiaWrites
    <2>2. /\ ApplyRepos(Fixed, "public", FALSE) \in Seq(WriteType)
          /\ Range(ApplyRepos(Fixed, "public", FALSE)) = Applying(Fixed, "public", FALSE)
      BY ApplyListed, Finite, Named
    <2> QED BY <1>3, <2>1, <2>2, HarmlessLists, HarmlessOrdered DEF Lists
  <1> QED BY <1>1, <1>2, <1>3

\* What the stage of NVIDIA's team repositories writes.
LEMMA TeamListed ==
    ASSUME TypeOK, pass.spec \in Specs, pass.nv \in Sources \cup {None},
           NEW v, v = Content(Nvidia, pass.nv)
    PROVE  /\ v # None => v \in Version
           /\ pass.spec.mirrored \/ pass.nv = None => Lists(NGCTeamWrites, {})
           /\ ~pass.spec.mirrored /\ pass.nv # None /\ v = None =>
                Lists(NGCTeamWrites,
                      {Write("unmirror", Nvidia, None)} \cup Applying(Public, "public", FALSE)
                        \cup Deleting({n \in Team \ Public : repo[n] # None}))
           /\ ~pass.spec.mirrored /\ pass.nv # None /\ v # None /\ Nvidia \in badCA =>
                Lists(NGCTeamWrites, {Misconfigured})
           /\ ~pass.spec.mirrored /\ pass.nv # None /\ v # None /\ Nvidia \notin badCA =>
                Lists(NGCTeamWrites,
                      Copying(Nvidia, v) \cup Applying(Public, "public", FALSE)
                        \cup Applying(Gated, "public", TRUE)
                        \cup (IF mirror[Nvidia][Cattle] # v THEN Forcing(Gated) ELSE {}))
  <1>1. v # None => v \in Version
    BY ContentType, Named
  <1>2. CASE pass.spec.mirrored \/ pass.nv = None
    <2>1. NGCTeamWrites = <<>>
      BY <1>2 DEF NGCTeamWrites
    <2> QED BY <1>1, <1>2, <2>1, EmptyLists
  <1>3. PICK p : p = ApplyRepos(Public, "public", FALSE)
    OBVIOUS
  <1>4. p \in Seq(WriteType) /\ Range(p) = Applying(Public, "public", FALSE)
    BY <1>3, ApplyListed, Finite, Named
  <1>5. CASE ~pass.spec.mirrored /\ pass.nv # None /\ v = None
    <2>1. PICK t : t = PruneTeam(Public)
      OBVIOUS
    <2>2. t \in Seq(WriteType) /\ Range(t) = Deleting({n \in Team \ Public : repo[n] # None})
      BY <2>1, PruneTeamListed
    <2>3. PICK u : u = Write("unmirror", Nvidia, None)
      OBVIOUS
    <2>4. u \in WriteType /\ Harmless(u) /\ <<u>> \in Seq(WriteType)
      BY <2>3, WriteTypes, Named, HarmlessLists
    <2>5. (<<u>> \o p) \o t = <<u>> \o (p \o t)
      BY <1>4, <2>2, <2>4, ConcatAssociative
    <2>6. NGCTeamWrites = <<u>> \o (p \o t)
      <3>1. NGCTeamWrites = (<<u>> \o p) \o t \/ NGCTeamWrites = <<u>> \o (p \o t)
        BY <1>3, <1>5, <2>1, <2>3 DEF NGCTeamWrites, ReadOrPrune
      <3> QED BY <3>1, <2>5
    <2>7. PICK s : s = p \o t
      OBVIOUS
    <2>8. s \in Seq(WriteType) /\ Range(s) = Range(p) \cup Range(t)
      <3>1. p \in Seq(WriteType) /\ t \in Seq(WriteType)
        BY <1>4, <2>2
      <3> QED BY <3>1, <2>7, JoinListed
    <2>9. <<u>> \o s \in Seq(WriteType) /\ Range(<<u>> \o s) = {u} \cup Range(s)
      BY <2>4, <2>8, ConsListed
    <2>10. \A w \in {u} \cup Range(s) : Harmless(w)
      <3>1. /\ \A w \in Range(p) : Harmless(w)
            /\ \A w \in Range(t) : Harmless(w)
        BY <1>4, <2>2, HarmlessLists, Zenon
      <3> QED BY <3>1, <2>4, <2>8
    <2>11. Ordered(<<u>> \o s)
      BY <2>9, <2>10, HarmlessOrdered
    <2>12. Lists(NGCTeamWrites, {u} \cup Range(s))
      BY <2>6, <2>7, <2>9, <2>11, Zenon DEF Lists
    <2>13. {u} \cup Range(s)
             = {Write("unmirror", Nvidia, None)} \cup Applying(Public, "public", FALSE)
                 \cup Deleting({n \in Team \ Public : repo[n] # None})
      BY <1>4, <2>2, <2>3, <2>8
    <2> QED BY <1>1, <1>5, <2>12, <2>13
  <1>6. CASE ~pass.spec.mirrored /\ pass.nv # None /\ v # None /\ Nvidia \in badCA
    <2>1. NGCTeamWrites = <<Misconfigured>>
      BY <1>6 DEF NGCTeamWrites, ReadOrPrune
    <2> QED BY <2>1, <1>1, <1>6, WriteTypes, OneLists
  <1>7. CASE ~pass.spec.mirrored /\ pass.nv # None /\ v # None /\ Nvidia \notin badCA
    <2>1. PICK changed : changed = RegistryAuthChanged(Nvidia, v)
      OBVIOUS
    <2>2. changed \in BOOLEAN /\ changed = (mirror[Nvidia][Cattle] # v)
      BY <2>1 DEF RegistryAuthChanged
    <2>3. PICK g : g = ApplyWithSecret(Gated, "public", changed)
      OBVIOUS
    <2>4. /\ g \in Seq(WriteType)
          /\ Range(g) = Applying(Gated, "public", TRUE) \cup (IF changed THEN Forcing(Gated) ELSE {})
      BY <2>2, <2>3, ApplyWithSecretListed, Finite, Named
    <2>5. PICK s : s = p \o g
      OBVIOUS
    <2>6. s \in Seq(WriteType) /\ Range(s) = Range(p) \cup Range(g)
      <3>1. p \in Seq(WriteType) /\ g \in Seq(WriteType)
        BY <1>4, <2>4
      <3>2. p \o g \in Seq(WriteType) /\ Range(p \o g) = Range(p) \cup Range(g)
        BY <3>1, JoinListed
      <3> QED BY <2>5, <3>2
    <2>7. \A w \in Range(s) : Harmless(w)
      <3>1. /\ \A w \in Range(p) : Harmless(w)
            /\ \A w \in Applying(Gated, "public", TRUE) : Harmless(w)
            /\ \A w \in Forcing(Gated) : Harmless(w)
        BY <1>4, HarmlessLists, Zenon
      <3> QED BY <3>1, <2>4, <2>6
    <2>8. NGCTeamWrites = AuthWrites(Nvidia, v) \o s
      BY <1>3, <1>7, <2>1, <2>3, <2>5 DEF NGCTeamWrites, ReadOrPrune
    <2>9. /\ AuthWrites(Nvidia, v) \o s \in Seq(WriteType)
          /\ Range(AuthWrites(Nvidia, v) \o s) = Copying(Nvidia, v) \cup Range(s)
          /\ Ordered(AuthWrites(Nvidia, v) \o s)
      BY <1>1, <1>7, <2>6, <2>7, AuthListed, Named
    <2>10. Lists(NGCTeamWrites, Copying(Nvidia, v) \cup Range(s))
      BY <2>8, <2>9, Zenon DEF Lists
    <2>11. Copying(Nvidia, v) \cup Range(s)
             = Copying(Nvidia, v) \cup Applying(Public, "public", FALSE)
                 \cup Applying(Gated, "public", TRUE)
                 \cup (IF mirror[Nvidia][Cattle] # v THEN Forcing(Gated) ELSE {})
      BY <1>4, <2>2, <2>4, <2>6
    <2> QED BY <1>1, <1>7, <2>10, <2>11
  <1> QED
    <2>1. pass.spec.mirrored \in BOOLEAN
      BY UrlType
    <2> QED BY <1>1, <1>2, <1>5, <1>6, <1>7, <2>1

-----------------------------------------------------------------------------
(* How a pass moves.                                                       *)

\* What remains of ordered writes is ordered.
LEMMA TailOrdered ==
    ASSUME NEW s \in Seq(WriteType), s # <<>>, Ordered(s)
    PROVE  Ordered(Tail(s))
  <1>1. PICK t : t = Tail(s)
    OBVIOUS
  <1>2. /\ t \in Seq(WriteType) /\ Len(t) = Len(s) - 1 /\ Len(s) \in Nat
        /\ \A i \in DOMAIN t : i + 1 \in DOMAIN s /\ t[i] = s[i + 1]
    BY <1>1, SplitHead, Listed
  <1>3. DOMAIN t = 1..Len(t) /\ Len(t) \in Nat
    BY <1>2
  <1>4. Ordered(t)
    <2> SUFFICES ASSUME NEW i \in DOMAIN t
                 PROVE  /\ t[i].what = "mirror" /\ t[i].on[2] = Cattle => i = 1
                        /\ t[i].what = "unmirror" /\ t[i].on \in Registries => i = Len(t)
                        /\ t[i] = Misconfigured => Len(t) = 1
      BY DEF Ordered
    <2>1. i + 1 \in DOMAIN s /\ t[i] = s[i + 1] /\ i \in Nat /\ i >= 1 /\ i <= Len(t)
      BY <1>2, <1>3
    <2>2. /\ s[i + 1].what = "mirror" /\ s[i + 1].on[2] = Cattle => i + 1 = 1
          /\ s[i + 1].what = "unmirror" /\ s[i + 1].on \in Registries => i + 1 = Len(s)
          /\ s[i + 1] = Misconfigured => Len(s) = 1
      BY <2>1 DEF Ordered
    <2> QED BY <2>1, <2>2, <1>2, <1>3
  <1> QED BY <1>1, <1>4, Zenon

\* The head of the writes is done, or the rest of them is given up.
Advancing == pass.todo # <<>> /\ pass' = [pass EXCEPT !.todo = Tail(@)]
Dropping  == pass.todo # <<>> /\ Swallows /\ pass' = [pass EXCEPT !.todo = <<>>]

\* The ways in which a step moves the pass.
LEMMA Moves ==
    ASSUME [Next]_vars
    PROVE  \/ pass' = pass \/ Begin \/ AddUserFails \/ Wire \/ StartStage
           \/ Advancing \/ Dropping \/ pass' = Idle \/ RefreshClient
  <1>1. CASE UNCHANGED vars
    BY <1>1 DEF vars
  <1>2. CASE Users
    BY <1>2 DEF Users, EditSettings, Edit, ChangeCA, ChangeCredentials, ChangeGitCredential,
                GitRepoEvent, ChangeRancher, RancherRefresh
  <1>3. CASE Controller
    BY <1>3 DEF Controller, AddUser, StageErrors, StageEnds, Retry, WriteGitRepo, WriteGitMirror,
                WriteMirror, DeleteAuthSecret, WriteRepo, ForceUpdateRepo, Does, UpdateStatus,
                Advancing, Dropping
  <1>4. CASE Failures
    BY <1>4 DEF Failures, WireFails, WriteFails, StageEnds, Retry, UpdateStatusFails, Crash,
                Advancing, Dropping
  <1> QED BY <1>1, <1>2, <1>3, <1>4 DEF Next

\* The stages of a pass, the team's last and Fleet's first (Reconcile).
LEMMA AgendaListed ==
    ASSUME NEW s \in Specs
    PROVE  /\ Agenda(s) \in Seq(StageType)
           /\ Range(Agenda(s)) =
                {Stage("git", g) : g \in {Fleet} \cup {c \in Catalogs : s.git[c] # "absent"}}
                  \cup {Stage("registry", r) : r \in Registries}
                  \cup {Stage(n, None) : n \in {"prune", "openshell", "nvidia", "team"}}
           /\ \A i \in DOMAIN Agenda(s) : Agenda(s)[i].name = "team" => i = Len(Agenda(s))
           /\ Agenda(s) # <<>> /\ Head(Agenda(s)) = Stage("git", Fleet)
  <1>1. PICK C : C = {g \in Catalogs : s.git[g] # "absent"}
    OBVIOUS
  <1>2. PICK f, h : /\ f = [c \in C |-> Stage("git", c)]
                    /\ h = [r \in Registries |-> Stage("registry", r)]
    OBVIOUS
  <1>3. /\ DOMAIN f = C /\ DOMAIN h = Registries /\ IsFiniteSet(C) /\ IsFiniteSet(Registries)
        /\ \A c \in C : f[c] = Stage("git", c) /\ f[c] \in StageType
        /\ \A r \in Registries : h[r] = Stage("registry", r) /\ h[r] \in StageType
    BY <1>1, <1>2, Finite, Named DEF StageType, Stage
  <1>4. PICK F, H : F = ForEach(f) /\ H = ForEach(h)
    OBVIOUS
  <1>5. F \in Seq(StageType) /\ Range(F) = {f[c] : c \in C}
    BY <1>3, <1>4, ForEachListed
  <1>6. H \in Seq(StageType) /\ Range(H) = {h[r] : r \in Registries}
    BY <1>3, <1>4, ForEachListed
  <1>7. PICK g, p, o, n, t : /\ g = Stage("git", Fleet) /\ p = Stage("prune", None)
                             /\ o = Stage("openshell", None) /\ n = Stage("nvidia", None)
                             /\ t = Stage("team", None)
    OBVIOUS
  <1>8. {g, p, o, n, t} \subseteq StageType
    BY <1>7, Named DEF StageType, Stage
  <1>9. PICK z : z = <<o, n, t>>
    OBVIOUS
  <1>10. /\ z \in Seq(StageType) /\ Len(z) = 3 /\ Range(z) = {o, n, t}
         /\ z[1] = o /\ z[2] = n /\ z[3] = t
    BY <1>8, <1>9 DEF Range
  <1>11. PICK a1, a2, a3 : a1 = <<g>> \o F /\ a2 = a1 \o <<p>> /\ a3 = a2 \o H
    OBVIOUS
  <1>12. a1 \in Seq(StageType) /\ Range(a1) = {g} \cup Range(F) /\ a1 # <<>> /\ Head(a1) = g
    BY <1>5, <1>8, <1>11, ConsListed, Zenon
  <1>13. a2 \in Seq(StageType) /\ Range(a2) = Range(a1) \cup {p}
    BY <1>8, <1>11, <1>12, SnocListed, Zenon
  <1>14. a3 \in Seq(StageType) /\ Range(a3) = Range(a2) \cup Range(H)
    <2>1. a2 \in Seq(StageType) /\ H \in Seq(StageType)
      BY <1>6, <1>13
    <2>2. a3 = a2 \o H
      BY <1>11
    <2> QED BY <2>1, <2>2, JoinListed
  <1>15. PICK a : a = a3 \o z
    OBVIOUS
  <1>16. a \in Seq(StageType) /\ Range(a) = Range(a3) \cup Range(z)
    <2>1. a3 \in Seq(StageType) /\ z \in Seq(StageType)
      BY <1>10, <1>14
    <2> QED BY <2>1, <1>15, JoinListed
  <1>17. /\ Len(a) = Len(a3) + 3 /\ Len(a3) \in Nat /\ DOMAIN a = 1..Len(a)
         /\ \A i \in DOMAIN a : a[i] = IF i <= Len(a3) THEN a3[i] ELSE z[i - Len(a3)]
    <2>1. a3 \in Seq(StageType) /\ z \in Seq(StageType) /\ a \in Seq(StageType)
      BY <1>10, <1>14, <1>16
    <2>2. /\ Len(a) = Len(a3) + Len(z) /\ Len(a3) \in Nat /\ DOMAIN a = 1..Len(a)
          /\ \A i \in 1..(Len(a3) + Len(z)) : a[i] = IF i <= Len(a3) THEN a3[i] ELSE z[i - Len(a3)]
      BY <2>1, <1>15, ConcatProperties
    <2> QED BY <2>2, <1>10
  <1>18. \A x \in Range(a3) : x.name # "team"
    BY <1>3, <1>5, <1>6, <1>7, <1>12, <1>13, <1>14 DEF Stage
  <1>19. \A i \in DOMAIN a : a[i].name = "team" => i = Len(a)
    <2> SUFFICES ASSUME NEW i \in DOMAIN a, a[i].name = "team" PROVE i = Len(a)
      OBVIOUS
    <2>1. ~(i <= Len(a3))
      <3>1. i <= Len(a3) => a3[i] \in Range(a3)
        BY <1>14, <1>17 DEF Range
      <3> QED BY <3>1, <1>17, <1>18
    <2>2. i - Len(a3) \in 1..3 /\ a[i] = z[i - Len(a3)]
      BY <1>17, <2>1
    <2>3. z[1].name # "team" /\ z[2].name # "team"
      BY <1>7, <1>10 DEF Stage
    <2> QED BY <2>2, <2>3, <1>17
  <1>20. a # <<>> /\ Head(a) = g
    <2>1. a1 \in Seq(StageType) /\ Len(a1) \in Nat /\ 1 \in DOMAIN a1 /\ a1[1] = g
      BY <1>12, SplitHead, Listed
    <2>2. 1 <= Len(a2) /\ a2[1] = g
      <3>1. <<p>> \in Seq(StageType) /\ Len(<<p>>) = 1
        BY <1>8
      <3> QED BY <2>1, <3>1, <1>11, ConcatProperties
    <2>3. 1 <= Len(a3) /\ a3[1] = g
      BY <2>2, <1>6, <1>11, <1>13, ConcatProperties
    <2> QED BY <2>3, <1>16, <1>17
  <1>21. Agenda(s) = a
    BY <1>1, <1>2, <1>4, <1>7, <1>9, <1>11, <1>15, Zenon DEF Agenda
  <1>22. Range(a) = {Stage("git", x) : x \in {Fleet} \cup C}
                     \cup {Stage("registry", r) : r \in Registries}
                     \cup {Stage(x, None) : x \in {"prune", "openshell", "nvidia", "team"}}
    BY <1>3, <1>5, <1>6, <1>7, <1>10, <1>12, <1>13, <1>14, <1>16
  <1> QED BY <1>1, <1>7, <1>16, <1>19, <1>20, <1>21, <1>22

-----------------------------------------------------------------------------
(* The shape of a pass, and the types.                                     *)

\* A stage's writes are well formed; if its errors are swallowed, they are
\* about what it may leave.
LEMMA StageListed ==
    ASSUME TypeOK, PassOK, NEW s \in StageType, NEW ref \in Sources \cup {None}
    PROVE  pass.spec \in Specs =>
           /\ Lists(Writes(s, ref), Range(Writes(s, ref)))
           /\ s.name \in {"git", "prune"} /\ s.on # Fleet =>
                \A w \in Range(Writes(s, ref)) :
                    \/ w = Misconfigured
                    \/ w.what \in {"gitRepo", "gitMirror"} /\ w.on \in Leaves(s)
  <1> SUFFICES ASSUME pass.spec \in Specs
               PROVE  /\ Lists(Writes(s, ref), Range(Writes(s, ref)))
                      /\ s.name \in {"git", "prune"} /\ s.on # Fleet =>
                           \A w \in Range(Writes(s, ref)) :
                               \/ w = Misconfigured
                               \/ w.what \in {"gitRepo", "gitMirror"} /\ w.on \in Leaves(s)
    OBVIOUS
  <1>1. CASE s.name = "git"
    <2>1. s.on \in Sites /\ Writes(s, ref) = GitWrites(s.on) /\ Leaves(s) = {s.on}
      BY <1>1 DEF StageType, Writes, Leaves
    <2>2. PICK R : Lists(GitWrites(s.on), R) /\
                   \A w \in R : w = Misconfigured \/ (w.what \in {"gitRepo", "gitMirror"} /\ w.on = s.on)
      <3>1. PICK g \in Sites : g = s.on
        BY <2>1
      <3> DEFINE Fits(R) == Lists(GitWrites(g), R) /\
                   \A w \in R : w = Misconfigured \/ (w.what \in {"gitRepo", "gitMirror"} /\ w.on = g)
      <3> SUFFICES \E R : Fits(R)
        BY <3>1
      <3>a. \A v : /\ Write("gitRepo", g, v).what = "gitRepo" /\ Write("gitRepo", g, v).on = g
                   /\ Write("gitMirror", g, v).what = "gitMirror" /\ Write("gitMirror", g, v).on = g
        BY DEF Write
      <3>2. CASE Wanted(g) = "absent" /\ gitRepo[g] = None
        <4>1. Fits({})
          BY <3>2, <3>a, GitListed
        <4> HIDE DEF Fits
        <4> QED BY <4>1
      <3>3. CASE Wanted(g) = "absent" /\ gitRepo[g] # None
        <4>1. Fits({Write("gitRepo", g, None)})
          BY <3>3, <3>a, GitListed
        <4> HIDE DEF Fits
        <4> QED BY <4>1
      <3>4. CASE Wanted(g) = "open"
        <4>1. Fits({Write("gitRepo", g, "open")})
          BY <3>4, <3>a, GitListed
        <4> HIDE DEF Fits
        <4> QED BY <4>1
      <3>5. CASE Wanted(g) = "cred" /\ gitCred[g] = None
        <4>1. Fits({Misconfigured})
          BY <3>5, <3>a, GitListed
        <4> HIDE DEF Fits
        <4> QED BY <4>1
      <3>6. CASE Wanted(g) = "cred" /\ gitCred[g] # None
        <4>1. Fits({Write("gitMirror", g, gitCred[g]), Write("gitRepo", g, "cred")})
          BY <3>6, <3>a, GitListed
        <4> HIDE DEF Fits
        <4> QED BY <4>1
      <3> QED BY <3>2, <3>3, <3>4, <3>5, <3>6, GitListed
    <2> QED BY <1>1, <2>1, <2>2 DEF Lists
  <1>2. CASE s.name = "prune"
    <2>1. Writes(s, ref) = PruneWrites /\ Leaves(s) = Catalogs \ Keep
      BY <1>2 DEF Writes, Leaves
    <2>2. \A w \in {Write("gitRepo", c, None) : c \in Stale}
                     \cup {Write("gitMirror", c, None) : c \in Stale} :
            w.what \in {"gitRepo", "gitMirror"} /\ w.on \in Catalogs \ Keep
      BY DEF Write, Stale
    <2> QED BY <2>1, <2>2, PruneListed, Zenon DEF Lists
  <1>3. CASE s.name = "registry"
    <2>1. s.on \in Registries /\ Writes(s, ref) = RegistryWrites(s.on)
      BY <1>3 DEF StageType, Writes
    <2>2. \A r \in Registries : Lists(RegistryWrites(r), Range(RegistryWrites(r)))
      <3> SUFFICES ASSUME NEW r \in Registries
                   PROVE  Lists(RegistryWrites(r), Range(RegistryWrites(r)))
        OBVIOUS
      <3>1. PICK v : v = Content(r, EffectiveRef(r, pass.spec.ref[r]))
        OBVIOUS
      <3>2. CASE v = None
        BY <3>1, <3>2, RegistryListed, Zenon DEF Lists
      <3>3. CASE v # None /\ r \in badCA
        BY <3>1, <3>3, RegistryListed, Zenon DEF Lists
      <3>4. CASE v # None /\ r \notin badCA
        BY <3>1, <3>4, RegistryListed, Zenon DEF Lists
      <3> QED BY <3>2, <3>3, <3>4
    <2> QED BY <1>3, <2>1, <2>2
  <1>4. CASE s.name = "openshell"
    <2>1. Writes(s, ref) = OpenshellWrites
      BY <1>4 DEF Writes
    <2> QED BY <1>4, <2>1, OpenshellListed DEF Lists
  <1>5. CASE s.name = "nvidia"
    <2>1. Writes(s, ref) = NvidiaWrites(ref)
      BY <1>5 DEF Writes
    <2>2. Lists(NvidiaWrites(ref), Range(NvidiaWrites(ref)))
      <3>1. PICK v : v = Content(Nvidia, ref)
        OBVIOUS
      <3>2. CASE ~pass.spec.mirrored
        BY <3>2, NvidiaListed, Zenon DEF Lists
      <3>3. CASE pass.spec.mirrored
        <4>1. NvidiaWrites(ref) = MirroredWrites(ref)
          BY <3>3, NvidiaListed
        <4>2. Lists(MirroredWrites(ref), Range(MirroredWrites(ref)))
          <5>1. CASE ref = None
            BY <3>1, <5>1, MirroredListed, Zenon DEF Lists
          <5>2. CASE ref # None /\ v = None
            BY <3>1, <5>2, MirroredListed, Zenon DEF Lists
          <5>3. CASE ref # None /\ v # None /\ Nvidia \in badCA
            BY <3>1, <5>3, MirroredListed, Zenon DEF Lists
          <5>4. CASE ref # None /\ v # None /\ Nvidia \notin badCA
            BY <3>1, <5>4, MirroredListed, Zenon DEF Lists
          <5> QED BY <5>1, <5>2, <5>3, <5>4
        <4> QED BY <4>1, <4>2
      <3> QED BY <3>2, <3>3
    <2> QED BY <1>5, <2>1, <2>2
  <1>6. CASE s.name = "team"
    <2>1. Writes(s, ref) = NGCTeamWrites
      BY <1>6 DEF Writes
    <2>2. Lists(NGCTeamWrites, Range(NGCTeamWrites))
      <3>1. PICK v : v = Content(Nvidia, pass.nv)
        OBVIOUS
      <3>2. pass.nv \in Sources \cup {None}
        BY DEF PassOK, PassType
      <3>3. CASE pass.spec.mirrored \/ pass.nv = None
        BY <3>1, <3>2, <3>3, TeamListed, Zenon DEF Lists
      <3>4. CASE ~pass.spec.mirrored /\ pass.nv # None /\ v = None
        BY <3>1, <3>2, <3>4, TeamListed, Zenon DEF Lists
      <3>5. CASE ~pass.spec.mirrored /\ pass.nv # None /\ v # None /\ Nvidia \in badCA
        BY <3>1, <3>2, <3>5, TeamListed, Zenon DEF Lists
      <3>6. CASE ~pass.spec.mirrored /\ pass.nv # None /\ v # None /\ Nvidia \notin badCA
        BY <3>1, <3>2, <3>6, TeamListed, Zenon DEF Lists
      <3> QED BY <3>3, <3>4, <3>5, <3>6
    <2> QED BY <1>6, <2>1, <2>2
  <1> QED BY <1>1, <1>2, <1>3, <1>4, <1>5, <1>6 DEF StageType

\* No pass: nothing to do.
LEMMA IdleOK == /\ Idle \in PassType /\ Idle.agenda = <<>> /\ Idle.todo = <<>> /\ Idle.at = "idle"
                /\ ~Idle.blind
  BY DEF Idle, PassType

\* The stage that starts, and what the pass looks like after.
LEMMA StageStarts ==
    ASSUME Typed, StartStage
    PROVE  \E s \in StageType, ref \in Sources \cup {None} :
             /\ s = Head(pass.agenda) /\ ref = EffectiveRef(Nvidia, pass.spec.ref[Nvidia])
             /\ pass.at = "stages" /\ pass.spec \in Specs
             /\ pass.todo = <<>> /\ pass.agenda # <<>>
             /\ pass'.at = "stages" /\ pass'.spec = pass.spec /\ pass'.stage = s
             /\ pass'.agenda = Tail(pass.agenda) /\ pass'.todo = Writes(s, ref)
             /\ pass'.nv = (IF s.name = "nvidia" THEN ref ELSE pass.nv) /\ ~pass'.blind
             /\ swallowed' = (IF pass.blind THEN swallowed \cup Leaves(s) ELSE swallowed \ Leaves(s))
             /\ pass' \in PassType
  <1>1. pass \in PassType /\ pass.at = "stages" /\ pass.spec \in Specs
    BY DEF StartStage, Typed, PassOK
  <1>2. pass.agenda \in Seq(StageType) /\ pass.agenda # <<>> /\ pass.todo = <<>>
    BY <1>1 DEF StartStage, PassType
  <1>3. Head(pass.agenda) \in StageType /\ Tail(pass.agenda) \in Seq(StageType)
    BY <1>2, SplitHead
  <1>4. EffectiveRef(Nvidia, pass.spec.ref[Nvidia]) \in Sources \cup {None}
    BY <1>1, ContentType, Named DEF Specs, Typed
  <1>5. PICK s \in StageType, ref \in Sources \cup {None} :
          s = Head(pass.agenda) /\ ref = EffectiveRef(Nvidia, pass.spec.ref[Nvidia])
    BY <1>3, <1>4
  <1>6. PICK todo : todo = Writes(s, ref)
    OBVIOUS
  <1>7. todo \in Seq(WriteType)
    BY <1>1, <1>6, StageListed DEF Typed, Lists
  <1>8. /\ pass' = [pass EXCEPT !.stage = s, !.agenda = Tail(pass.agenda), !.todo = todo,
                               !.nv = IF s.name = "nvidia" THEN ref ELSE pass.nv,
                               !.blind = FALSE]
        /\ swallowed' = (IF pass.blind THEN swallowed \cup Leaves(s) ELSE swallowed \ Leaves(s))
    BY <1>5, <1>6 DEF StartStage
  <1>9. /\ pass'.at = "stages" /\ pass'.spec = pass.spec /\ pass'.stage = s
        /\ pass'.agenda = Tail(pass.agenda) /\ pass'.todo = todo
        /\ pass'.nv = (IF s.name = "nvidia" THEN ref ELSE pass.nv) /\ ~pass'.blind
    BY <1>1, <1>8 DEF PassType
  <1>10. pass' \in PassType
    BY <1>1, <1>3, <1>7, <1>8 DEF PassType
  <1> QED BY <1>1, <1>2, <1>5, <1>6, <1>8, <1>9, <1>10

\* A write is taken from the front of what its stage has to do.
LEMMA Advances ==
    ASSUME Typed, Advancing
    PROVE  /\ pass.todo \in Seq(WriteType) /\ pass.todo # <<>> /\ pass.at = "stages"
           /\ Head(pass.todo) \in WriteType
           /\ pass' \in PassType /\ pass'.at = "stages" /\ pass'.spec = pass.spec
           /\ pass'.agenda = pass.agenda /\ pass'.stage = pass.stage /\ pass'.nv = pass.nv
           /\ pass'.blind = pass.blind /\ ~pass.blind
           /\ pass'.todo = Tail(pass.todo) /\ pass'.todo \in Seq(WriteType)
           /\ Pending = {Head(pass.todo)} \cup Pending'
           /\ Ordered(pass'.todo)
           /\ \A w \in Pending' : ~(w.what = "mirror" /\ w.on[2] = Cattle)
           /\ Head(pass.todo).what = "unmirror" /\ Head(pass.todo).on \in Registries =>
                Pending' = {}
           /\ Head(pass.todo) = Misconfigured => Pending' = {}
  <1>1. pass \in PassType /\ pass.todo # <<>> /\ pass' = [pass EXCEPT !.todo = Tail(pass.todo)]
    BY DEF Advancing, Typed, PassOK
  <1>2. pass.todo \in Seq(WriteType)
    BY <1>1 DEF PassType
  <1>3. pass.at = "stages"
    BY <1>1, IdleOK DEF Typed, PassOK, PassType
  <1>4. PICK t : t = Tail(pass.todo)
    OBVIOUS
  <1>5. /\ Head(pass.todo) \in WriteType /\ t \in Seq(WriteType) /\ Len(t) = Len(pass.todo) - 1
        /\ Range(pass.todo) = {Head(pass.todo)} \cup Range(t)
        /\ Head(pass.todo) = pass.todo[1] /\ 1 \in DOMAIN pass.todo
        /\ \A i \in DOMAIN t : i + 1 \in DOMAIN pass.todo /\ t[i] = pass.todo[i + 1]
    BY <1>1, <1>2, <1>4, SplitHead
  <1>6. /\ pass'.at = "stages" /\ pass'.spec = pass.spec /\ pass'.agenda = pass.agenda
        /\ pass'.stage = pass.stage /\ pass'.nv = pass.nv /\ pass'.blind = pass.blind
        /\ pass'.todo = t
    BY <1>1, <1>3, <1>4 DEF PassType
  <1>7. pass' \in PassType
    BY <1>1, <1>4, <1>5 DEF PassType
  <1>8. ~pass.blind
    BY <1>1, <1>3 DEF Typed, PassOK, NextStageIs
  <1>9. Ordered(pass.todo) /\ Ordered(t)
    BY <1>1, <1>2, <1>4, TailOrdered DEF Typed, TodoOK
  <1>10. Pending = {Head(pass.todo)} \cup Pending' /\ Pending' = Range(t)
    BY <1>5, <1>6 DEF Pending
  <1>11. Len(t) \in Nat /\ DOMAIN t = 1..Len(t) /\ \A w \in Range(t) : \E i \in DOMAIN t : w = t[i]
    BY <1>5 DEF Range
  <1>12. \A w \in Range(t) : ~(w.what = "mirror" /\ w.on[2] = Cattle)
    <2> SUFFICES ASSUME NEW w \in Range(t) PROVE ~(w.what = "mirror" /\ w.on[2] = Cattle)
      OBVIOUS
    <2>1. PICK i \in DOMAIN t : w = t[i]
      BY <1>11
    <2>2. i \in Nat /\ i >= 1 /\ i + 1 \in DOMAIN pass.todo /\ w = pass.todo[i + 1]
      BY <1>5, <1>11, <2>1
    <2>3. w.what = "mirror" /\ w.on[2] = Cattle => i + 1 = 1
      BY <1>9, <2>2 DEF Ordered
    <2> QED BY <2>2, <2>3
  <1>13. Len(pass.todo) = 1 => Range(t) = {}
    BY <1>5, <1>11
  <1>14. Head(pass.todo).what = "unmirror" /\ Head(pass.todo).on \in Registries => Range(t) = {}
    BY <1>5, <1>9, <1>13 DEF Ordered
  <1>15. Head(pass.todo) = Misconfigured => Range(t) = {}
    BY <1>5, <1>9, <1>13 DEF Ordered
  <1>16. /\ \A w \in Pending' : ~(w.what = "mirror" /\ w.on[2] = Cattle)
         /\ Head(pass.todo).what = "unmirror" /\ Head(pass.todo).on \in Registries => Pending' = {}
         /\ Head(pass.todo) = Misconfigured => Pending' = {}
    BY <1>10, <1>12, <1>14, <1>15
  <1>17. Ordered(pass'.todo) /\ pass'.todo \in Seq(WriteType) /\ pass'.todo = Tail(pass.todo)
    BY <1>4, <1>5, <1>6, <1>9, Zenon
  <1> QED BY <1>1, <1>2, <1>3, <1>5, <1>6, <1>7, <1>8, <1>10, <1>16, <1>17

\* An error that the stage swallows drops what the stage still had to write, git
\* objects of its own only.
LEMMA Drops ==
    ASSUME Typed, Dropping
    PROVE  /\ pass.todo \in Seq(WriteType) /\ pass.at = "stages" /\ Head(pass.todo) \in Pending
           /\ pass' \in PassType /\ pass'.at = "stages" /\ pass'.spec = pass.spec
           /\ pass'.agenda = pass.agenda /\ pass'.stage = pass.stage /\ pass'.nv = pass.nv
           /\ ~pass.blind /\ pass'.blind = pass.blind /\ pass'.todo = <<>> /\ Pending' = {}
           /\ \A w \in Pending : \/ w = Misconfigured
                                 \/ /\ w.what \in {"gitRepo", "gitMirror"}
                                    /\ w.on \in Leaves(pass.stage)
  <1>1. pass \in PassType /\ pass.todo # <<>> /\ pass' = [pass EXCEPT !.todo = <<>>] /\ Swallows
    BY DEF Dropping, Typed, PassOK
  <1>2. pass.at = "stages" /\ pass.todo \in Seq(WriteType)
    BY <1>1, IdleOK DEF Typed, PassOK, PassType
  <1>3. /\ pass'.at = "stages" /\ pass'.spec = pass.spec /\ pass'.agenda = pass.agenda
        /\ pass'.stage = pass.stage /\ pass'.nv = pass.nv /\ pass'.blind = pass.blind
        /\ pass'.todo = <<>>
    BY <1>1, <1>2 DEF PassType
  <1>4. pass' \in PassType
    <2>1. <<>> \in Seq(WriteType)
      OBVIOUS
    <2> QED BY <1>1, <2>1 DEF PassType
  <1>5. ~pass.blind
    BY <1>1, <1>2 DEF Typed, PassOK, NextStageIs
  <1>6. Pending' = {} /\ Head(pass.todo) \in Pending
    BY <1>1, <1>2, <1>3, SplitHead DEF Pending, Range
  <1> QED BY <1>1, <1>2, <1>3, <1>4, <1>5, <1>6 DEF Typed, TodoOK

\* Every step keeps the shape of a pass.
LEMMA PassStep ==
    ASSUME Typed, [Next]_vars
    PROVE  PassOK'
  <1> USE DEF Typed
  <1>1. CASE pass' = pass
    BY <1>1 DEF PassOK, NextStageIs
  <1>2. CASE Begin
    <2>1. /\ pass' \in PassType /\ pass'.at = "wire" /\ pass'.spec = spec /\ pass'.agenda = <<>>
          /\ pass'.todo = <<>>
      <3>1. pass' = [Idle EXCEPT !.at = "wire", !.spec = spec] /\ spec \in Specs
        BY <1>2 DEF Begin, TypeOK
      <3> QED BY <3>1, IdleOK DEF PassType
    <2> QED BY <2>1 DEF PassOK, TypeOK
  <1>3. CASE AddUserFails
    <2>1. /\ pass \in PassType /\ pass' = [pass EXCEPT !.blind = TRUE] /\ Looks
      BY <1>3 DEF AddUserFails, PassOK
    <2>2. /\ pass' \in PassType /\ pass'.at = pass.at /\ pass'.spec = pass.spec
          /\ pass'.agenda = pass.agenda /\ pass'.todo = pass.todo /\ pass'.stage = pass.stage
      BY <2>1 DEF PassType
    <2>3. pass.at \in {"wire", "stages"}
      BY <2>1 DEF Looks, NextStageIs
    <2> QED BY <2>1, <2>2, <2>3 DEF PassOK, Looks, NextStageIs
  <1>4. CASE Wire
    <2>1. PICK copy : /\ copy = (IF Refs = pass.spec.ref THEN pass.spec ELSE spec')
                      /\ pass' = [pass EXCEPT !.at = "stages", !.spec = copy,
                                              !.agenda = Agenda(copy), !.blind = FALSE]
      BY <1>4 DEF Wire
    <2>2. pass \in PassType /\ pass.at = "wire" /\ pass.spec \in Specs /\ pass.todo = <<>>
      BY <1>4 DEF Wire, PassOK
    <2>3. spec' \in Specs
      <3>1. spec \in Specs /\ spec' = [spec EXCEPT !.ref =
                  [r \in Auth |-> IF Refs[r] = pass.spec.ref[r] THEN spec.ref[r] ELSE Refs[r]]]
        BY <1>4 DEF Wire, TypeOK
      <3>2. \A r \in Auth : Refs[r] \in Sources \cup {None}
        BY <2>2, ContentType DEF Refs, Specs
      <3> QED BY <3>1, <3>2 DEF Specs
    <2>4. copy \in Specs /\ Agenda(copy) \in Seq(StageType)
      BY <2>1, <2>2, <2>3, AgendaListed
    <2>5. /\ pass' \in PassType /\ pass'.at = "stages" /\ pass'.spec = copy /\ pass'.todo = <<>>
          /\ ~pass'.blind
      BY <2>1, <2>2, <2>4 DEF PassType
    <2> QED BY <2>4, <2>5 DEF PassOK
  <1>5. CASE StartStage
    BY <1>5, StageStarts DEF PassOK
  <1>6. CASE Advancing
    <2>1. pass.todo # <<>> /\ pass.stage \in StageType /\ pass.spec \in Specs
      BY <1>6, Advances DEF PassOK
    <2> QED BY <2>1, <1>6, Advances DEF PassOK
  <1>7. CASE Dropping
    BY <1>7, Drops DEF PassOK
  <1>8. CASE pass' = Idle
    BY <1>8, IdleOK DEF PassOK
  <1>9. CASE RefreshClient
    <2>1. /\ pass \in PassType /\ pass.at = "stages" /\ pass.todo = <<>> /\ pass.agenda = <<>>
          /\ pass' = [pass EXCEPT !.at = "status"] /\ ~pass.blind
      BY <1>9 DEF RefreshClient, PassOK, NextStageIs
    <2>2. /\ pass' \in PassType /\ pass'.at = "status" /\ pass'.todo = <<>> /\ pass'.agenda = <<>>
          /\ pass'.spec = pass.spec /\ ~pass'.blind
      BY <2>1 DEF PassType
    <2> QED BY <2>1, <2>2 DEF PassOK
  <1> QED BY <1>1, <1>2, <1>3, <1>4, <1>5, <1>6, <1>7, <1>8, <1>9, Moves

\* Every step keeps NVIDIA's stage before the team's.
LEMMA AgendaStep ==
    ASSUME Typed, [Next]_vars
    PROVE  AgendaOK'
  <1>1. pass' .agenda = pass.agenda => AgendaOK'
    BY DEF Typed, AgendaOK, Ahead
  <1>2. pass'.agenda = <<>> => AgendaOK'
    BY DEF AgendaOK, Ahead, Range
  <1>3. CASE Begin
    BY <1>2, <1>3, IdleOK DEF Begin, Idle
  <1>4. CASE AddUserFails
    BY <1>1, <1>4 DEF AddUserFails, Typed, PassOK, PassType
  <1>5. CASE Wire
    <2>1. PICK copy : /\ copy \in Specs /\ pass'.agenda = Agenda(copy)
      <3>1. pass \in PassType /\ PassOK' /\ pass'.at = "stages"
        BY <1>5, PassStep DEF Typed, PassOK, Wire, PassType
      <3>2. pass'.spec \in Specs /\ pass'.agenda = Agenda(pass'.spec)
        BY <1>5, <3>1 DEF Wire, PassOK, PassType
      <3> QED BY <3>2
    <2>2. Stage("team", None) \in Range(Agenda(copy))
      BY <2>1, AgendaListed
    <2>3. \A i \in DOMAIN Agenda(copy) : Agenda(copy)[i].name = "team" => i = Len(Agenda(copy))
      BY <2>1, AgendaListed, Zenon
    <2> QED BY <2>1, <2>2, <2>3 DEF AgendaOK, Ahead
  <1>6. CASE StartStage
    <2>1. PICK a, t : a = pass.agenda /\ t = Tail(pass.agenda)
      OBVIOUS
    <2>2. pass'.agenda = t /\ a # <<>>
      BY <1>6, <2>1, StageStarts
    <2>3. a \in Seq(StageType)
      BY <2>1 DEF Typed, PassOK, PassType
    <2>4. /\ t \in Seq(StageType) /\ Len(t) = Len(a) - 1 /\ Range(a) = {Head(a)} \cup Range(t)
          /\ Head(a) = a[1] /\ 1 \in DOMAIN a
          /\ \A i \in DOMAIN t : i + 1 \in DOMAIN a /\ t[i] = a[i + 1]
      BY <2>1, <2>2, <2>3, SplitHead
    <2>5. /\ \A i \in DOMAIN a : a[i].name = "team" => i = Len(a)
          /\ Stage("nvidia", None) \in Range(a) => Stage("team", None) \in Range(a)
      BY <2>1 DEF Typed, AgendaOK, Ahead
    <2>6. Len(a) \in Nat /\ DOMAIN t = 1..Len(t) /\ Len(t) \in Nat
      BY <2>3, <2>4
    <2>7. \A i \in DOMAIN t : t[i].name = "team" => i = Len(t)
      <3> SUFFICES ASSUME NEW i \in DOMAIN t, t[i].name = "team" PROVE i = Len(t)
        OBVIOUS
      <3>1. i + 1 = Len(a) /\ i \in Nat
        BY <2>4, <2>5, <2>6
      <3> QED BY <3>1, <2>4, <2>6
    <2>8. Head(a) = Stage("team", None) => Range(t) = {}
      <3>1. Head(a) = Stage("team", None) => Len(t) = 0
        BY <2>4, <2>5, <2>6 DEF Stage
      <3> QED BY <3>1, <2>6 DEF Range
    <2>9. Stage("nvidia", None) \in Range(t) => Stage("team", None) \in Range(t)
      BY <2>4, <2>5, <2>8
    <2> QED BY <2>2, <2>7, <2>9 DEF AgendaOK, Ahead
  <1>7. CASE Advancing
    BY <1>1, <1>7, Advances
  <1>8. CASE Dropping
    BY <1>1, <1>8, Drops
  <1>9. CASE pass' = Idle
    BY <1>2, <1>9, IdleOK
  <1>10. CASE RefreshClient
    BY <1>1, <1>10 DEF RefreshClient, Typed, PassOK, PassType
  <1>11. CASE pass' = pass
    BY <1>1, <1>11
  <1> QED BY <1>3, <1>4, <1>5, <1>6, <1>7, <1>8, <1>9, <1>10, <1>11, Moves

\* Every step keeps the writes in order.
LEMMA TodoStep ==
    ASSUME Typed, [Next]_vars
    PROVE  TodoOK'
  <1>1. CASE pass' = pass
    BY <1>1 DEF Typed, TodoOK, Pending, Swallows, Leaves, Keep, Wanted
  <1>2. pass'.todo = <<>> => TodoOK'
    BY EmptyLists DEF TodoOK, Lists
  <1>3. CASE Begin
    BY <1>2, <1>3 DEF Begin, Idle
  <1>4. CASE AddUserFails
    <2>1. pass \in PassType /\ pass.todo = <<>> /\ pass' = [pass EXCEPT !.blind = TRUE]
      BY <1>4 DEF AddUserFails, Looks, NextStageIs, Typed, PassOK
    <2>2. pass'.todo = <<>>
      BY <2>1 DEF PassType
    <2> QED BY <1>2, <2>2
  <1>5. CASE Wire
    <2>1. pass \in PassType /\ pass.todo = <<>>
      BY <1>5 DEF Wire, Typed, PassOK
    <2>2. pass'.todo = pass.todo
      BY <1>5, <2>1 DEF Wire, PassType
    <2> QED BY <1>2, <2>1, <2>2
  <1>6. CASE StartStage
    <2>1. PICK s \in StageType, ref \in Sources \cup {None} :
            pass'.stage = s /\ pass'.todo = Writes(s, ref) /\ pass.spec \in Specs
      BY <1>6, StageStarts
    <2>2. /\ Ordered(Writes(s, ref))
          /\ s.name \in {"git", "prune"} /\ s.on # Fleet =>
                \A w \in Range(Writes(s, ref)) :
                    \/ w = Misconfigured
                    \/ w.what \in {"gitRepo", "gitMirror"} /\ w.on \in Leaves(s)
      BY <2>1, StageListed DEF Typed, Lists
    <2>3. Leaves(s)' = Leaves(s)
      <3>1. pass'.spec = pass.spec
        BY <1>6, StageStarts
      <3> QED BY <3>1 DEF Leaves, Keep, Wanted
    <2> QED BY <2>1, <2>2, <2>3 DEF TodoOK, Pending, Swallows
  <1>7. CASE Advancing
    <2>1. /\ Ordered(pass'.todo) /\ pass'.stage = pass.stage /\ pass'.spec = pass.spec
          /\ Pending' \subseteq Pending /\ pass.todo # <<>>
      BY <1>7, Advances
    <2>2. Swallows' = Swallows /\ Leaves(pass.stage)' = Leaves(pass.stage)
      BY <2>1 DEF Swallows, Leaves, Keep, Wanted
    <2> QED BY <2>1, <2>2 DEF Typed, TodoOK
  <1>8. CASE Dropping
    BY <1>2, <1>8, Drops
  <1>9. CASE pass' = Idle
    BY <1>2, <1>9, IdleOK
  <1>10. CASE RefreshClient
    BY <1>2, <1>10 DEF RefreshClient, Typed, PassOK, PassType
  <1> QED BY <1>1, <1>3, <1>4, <1>5, <1>6, <1>7, <1>8, <1>9, <1>10, Moves

\* The types of what the head of the writes says.
LEMMA HeadType ==
    ASSUME Typed, NEW what, Does(what)
    PROVE  /\ Advancing /\ pass.todo # <<>> /\ Head(pass.todo) \in WriteType
           /\ Head(pass.todo).what = what
           /\ what = "gitRepo" => On \in Sites /\ Value \in {None, "open", "cred"}
           /\ what = "gitMirror" => On \in Sites /\ Value \in Material
           /\ what = "mirror" => On \in Auth \X Spaces /\ Value \in Version /\ Value \in Material
           /\ what = "unmirror" => On \in Auth
           /\ what = "repo" => On \in Repos /\ Value \in RepoSpecs
           /\ what = "force" => On \in Repos
  <1>1. Advancing /\ Head(pass.todo).what = what
    BY DEF Does, Advancing
  <1>2. Head(pass.todo) \in WriteType /\ pass.todo # <<>>
    BY <1>1, Advances
  <1>3. PICK h \in WriteType : h = Head(pass.todo)
    BY <1>2
  <1> QED BY <1>1, <1>2, <1>3 DEF WriteType, On, Value, Material

\* What Rancher reads with a repository.
LEMMA ReadsType ==
    ASSUME TypeOK, NEW n \in Repos, NEW r
    PROVE  Reads(n, r) \in Material
  BY Named DEF TypeOK, Reads, Auth, Material, Spaces

\* Every step keeps the types.
LEMMA TypeStep ==
    ASSUME Typed, [Next]_vars
    PROVE  TypeOK'
  <1> USE DEF Typed
  <1>0. pass'.at \in {"idle", "wire", "stages", "status"} /\ pass'.spec \in Specs \cup {None}
    BY PassStep DEF PassOK, PassType
  <1>1. CASE UNCHANGED vars
    BY <1>1 DEF vars, secrets, git, charts, bounds, TypeOK
  <1>2. CASE EditSettings
    <2>1. spec' \in Specs
      <3>1. spec \in Specs
        BY DEF TypeOK
      <3>2. ASSUME NEW g \in Sites, NEW w \in {"absent", "open", "cred"}, Edit([spec EXCEPT !.git[g] = w])
            PROVE  spec' \in Specs
        BY <3>1, <3>2 DEF Edit, Specs
      <3>3. ASSUME NEW r \in Auth, NEW f \in {"own", None}, Edit([spec EXCEPT !.ref[r] = f])
            PROVE  spec' \in Specs
        BY <3>1, <3>3 DEF Edit, Specs, Sources
      <3>4. ASSUME \/ Edit([spec EXCEPT !.mirrored = ~@]) \/ Edit([spec EXCEPT !.token = ~@])
                   \/ Edit([spec EXCEPT !.pinned = ~@])
            PROVE  spec' \in Specs
        BY <3>1, <3>4 DEF Edit, Specs
      <3> QED BY <1>2, <3>2, <3>3, <3>4 DEF EditSettings
    <2>2. /\ Changed /\ observed' = FALSE /\ due' = TRUE
          /\ UNCHANGED <<secrets, git, charts, holder, pass, swallowed>>
      BY <1>2 DEF EditSettings, Edit
    <2>3. edits' \in 0..MaxEdits /\ faults' \in 0..MaxFaults
      BY <2>2, SettingsAssumption DEF Changed, TypeOK
    <2>4. UNCHANGED <<cred, raw, badCA, gitCred, rancher, gitRepo, gitMirror, mirror, repo, known>>
      BY <2>2 DEF secrets, git, charts
    <2> QED BY <1>0, <2>1, <2>2, <2>3, <2>4 DEF TypeOK
  <1>3. ASSUME NEW r \in Auth, ChangeCA(r) \/ \E s \in Sources : ChangeCredentials(r, s)
        PROVE  TypeOK'
    <2>1. CASE ChangeCA(r)
      BY <1>0, <2>1, SettingsAssumption DEF ChangeCA, Changed, git, charts, TypeOK
    <2>2. ASSUME NEW s \in Sources, ChangeCredentials(r, s) PROVE TypeOK'
      <3>1. cred' \in [Auth -> [Sources -> Material]]
        <4>1. PICK v \in Fresh : cred' = [cred EXCEPT ![r][s] = v]
          BY <2>2 DEF ChangeCredentials
        <4>2. v \in Material
          BY <2>2, <4>1, SettingsAssumption DEF ChangeCredentials, Changed, Fresh, Material, Version, TypeOK
        <4> QED BY <4>1, <4>2 DEF TypeOK
      <3>2. raw' \in BOOLEAN
        BY <2>2 DEF ChangeCredentials, TypeOK
      <3>3. due' \in BOOLEAN
        BY <2>2 DEF ChangeCredentials, TypeOK, Watched
      <3> QED BY <1>0, <2>2, <3>1, <3>2, <3>3, SettingsAssumption
              DEF ChangeCredentials, Changed, git, charts, TypeOK
    <2> QED BY <1>3, <2>1, <2>2
  <1>4. ASSUME NEW g \in Sites, ChangeGitCredential(g) \/ GitRepoEvent(g)
        PROVE  TypeOK'
    <2>1. CASE ChangeGitCredential(g)
      <3>1. gitCred' \in [Sites -> Material]
        <4>1. PICK v \in Fresh : gitCred' = [gitCred EXCEPT ![g] = v]
          BY <2>1 DEF ChangeGitCredential
        <4>2. v \in Material
          BY <2>1, <4>1, SettingsAssumption DEF ChangeGitCredential, Changed, Fresh, Material, Version, TypeOK
        <4> QED BY <4>1, <4>2 DEF TypeOK
      <3> QED BY <1>0, <2>1, <3>1, SettingsAssumption
              DEF ChangeGitCredential, Changed, git, charts, TypeOK
    <2>2. CASE GitRepoEvent(g)
      BY <1>0, <2>2, SettingsAssumption
         DEF GitRepoEvent, Changed, secrets, charts, bounds, TypeOK
    <2> QED BY <1>4, <2>1, <2>2
  <1>5. ASSUME NEW what \in {"token", "pinned", "internal"}, ChangeRancher(what)
        PROVE  TypeOK'
    <2>1. rancher' \in [{"token", "pinned", "internal"} -> Material]
      <3>1. PICK v \in Fresh : rancher' = [rancher EXCEPT ![what] = v]
        BY <1>5 DEF ChangeRancher
      <3>2. v \in Material
        BY <1>5, <3>1, SettingsAssumption DEF ChangeRancher, Changed, Fresh, Material, Version, TypeOK
      <3> QED BY <3>1, <3>2 DEF TypeOK
    <2>2. due' \in BOOLEAN
      BY <1>5 DEF ChangeRancher, TypeOK, Specs
    <2> QED BY <1>0, <1>5, <2>1, <2>2, SettingsAssumption
            DEF ChangeRancher, Changed, git, charts, TypeOK
  <1>6. ASSUME NEW n \in Repos, RancherRefresh(n) PROVE TypeOK'
    BY <1>0, <1>6, ReadsType DEF RancherRefresh, secrets, git, bounds, TypeOK
  <1>7. CASE Begin \/ AddUser \/ UpdateStatus
    BY <1>0, <1>7 DEF Begin, AddUser, UpdateStatus, secrets, git, charts, bounds, TypeOK
  <1>8. CASE Wire
    <2>1. spec' \in Specs
      <3>1. spec \in Specs /\ spec' = [spec EXCEPT !.ref =
                  [r \in Auth |-> IF Refs[r] = pass.spec.ref[r] THEN spec.ref[r] ELSE Refs[r]]]
        BY <1>8 DEF Wire, TypeOK
      <3>2. \A r \in Auth : Refs[r] \in Sources \cup {None}
        BY <1>8, ContentType DEF Wire, Refs, Specs, PassOK
      <3> QED BY <3>1, <3>2 DEF Specs
    <2>2. observed' \in BOOLEAN /\ due' \in BOOLEAN
      BY <1>8 DEF Wire, TypeOK
    <2> QED BY <1>0, <1>8, <2>1, <2>2 DEF Wire, secrets, git, charts, bounds, TypeOK
  <1>9. CASE StartStage
    <2>1. swallowed' \subseteq Catalogs \cup {Nvidia}
      <3>1. PICK s \in StageType : s = Head(pass.agenda) /\ pass.at = "stages" /\ pass.agenda # <<>>
        BY <1>9, StageStarts
      <3>2. swallowed' = (IF pass.blind THEN swallowed \cup Leaves(s) ELSE swallowed \ Leaves(s))
        BY <1>9, <3>1, StageStarts
      <3>3. pass.blind => Leaves(s) = {Nvidia}
        BY <3>1 DEF PassOK, NextStageIs, Leaves
      <3> QED BY <3>2, <3>3 DEF TypeOK
    <2> QED BY <1>0, <1>9, <2>1 DEF StartStage, secrets, git, charts, bounds, TypeOK
  <1>10. CASE WriteGitRepo
    <2>1. On \in Sites /\ Value \in {None, "open", "cred"}
      BY <1>10, HeadType DEF WriteGitRepo
    <2> QED BY <1>0, <1>10, <2>1 DEF WriteGitRepo, secrets, charts, bounds, TypeOK
  <1>11. CASE WriteGitMirror
    <2>1. On \in Sites /\ Value \in Material
      BY <1>11, HeadType DEF WriteGitMirror
    <2> QED BY <1>0, <1>11, <2>1 DEF WriteGitMirror, secrets, charts, bounds, TypeOK
  <1>12. CASE WriteMirror
    <2>1. On \in Auth \X Spaces /\ Value \in Material
      BY <1>12, HeadType DEF WriteMirror
    <2>2. mirror' \in [Auth -> [Spaces -> Material]]
      <3>1. mirror' = [mirror EXCEPT ![On[1]][On[2]] = Value] /\ On[1] \in Auth /\ On[2] \in Spaces
        BY <1>12, <2>1 DEF WriteMirror
      <3> QED BY <2>1, <3>1 DEF TypeOK
    <2> QED BY <1>0, <1>12, <2>2 DEF WriteMirror, secrets, git, bounds, TypeOK
  <1>13. CASE DeleteAuthSecret
    <2>1. mirror' = [mirror EXCEPT ![On] = [n \in Spaces |-> None]] /\ On \in Auth
      BY <1>13, HeadType DEF DeleteAuthSecret
    <2>2. mirror' \in [Auth -> [Spaces -> Material]]
      BY <2>1 DEF TypeOK, Material
    <2> QED BY <1>0, <1>13, <2>2 DEF DeleteAuthSecret, secrets, git, bounds, TypeOK
  <1>14. CASE WriteRepo
    <2>1. On \in Repos /\ Value \in RepoSpecs /\ Reads(On, Value) \in Material
      BY <1>14, HeadType, ReadsType DEF WriteRepo
    <2> QED BY <1>0, <1>14, <2>1 DEF WriteRepo, secrets, git, bounds, TypeOK
  <1>15. CASE ForceUpdateRepo
    <2>1. On \in Repos /\ Reads(On, repo[On]) \in Material
      BY <1>15, HeadType, ReadsType DEF ForceUpdateRepo
    <2> QED BY <1>0, <1>15, <2>1 DEF ForceUpdateRepo, secrets, git, bounds, TypeOK
  <1>16. ASSUME pass.todo # <<>>, StageEnds
         PROVE  swallowed' \subseteq Catalogs \cup {Nvidia} /\ due' \in BOOLEAN
    <2>1. Swallows => Leaves(pass.stage) \subseteq Catalogs
      <3>1. pass.stage \in StageType
        BY <1>16 DEF PassOK
      <3> QED BY <3>1 DEF Swallows, Leaves, StageType, Sites
    <2> QED BY <2>1, <1>16 DEF StageEnds, Retry, TypeOK
  <1>17. CASE StageErrors
    <2>1. swallowed' \subseteq Catalogs \cup {Nvidia} /\ due' \in BOOLEAN
      BY <1>16, <1>17 DEF StageErrors
    <2> QED BY <1>0, <1>17, <2>1 DEF StageErrors, secrets, git, charts, bounds, TypeOK
  <1>18. CASE WriteFails
    <2>1. swallowed' \subseteq Catalogs \cup {Nvidia} /\ due' \in BOOLEAN
      BY <1>16, <1>18 DEF WriteFails
    <2>2. mirror' \in [Auth -> [Spaces -> Material]]
      <3>1. CASE mirror' = mirror
        BY <3>1 DEF TypeOK
      <3>2. CASE mirror' # mirror
        <4>1. PICK left : mirror' = [mirror EXCEPT ![On] = [n \in Spaces |->
                                        IF n \in left THEN mirror[On][n] ELSE None]]
          BY <1>18, <3>2 DEF WriteFails
        <4>2. Head(pass.todo) \in WriteType /\ Head(pass.todo).what = "unmirror"
          <5>1. pass.todo \in Seq(WriteType) /\ pass.todo # <<>>
            BY <1>18 DEF WriteFails, PassOK, PassType
          <5> QED BY <5>1, <1>18, <3>2, SplitHead DEF WriteFails
        <4>3. On \in Auth
          BY <4>2 DEF WriteType, On
        <4>4. [n \in Spaces |-> IF n \in left THEN mirror[On][n] ELSE None] \in [Spaces -> Material]
          BY <4>3 DEF TypeOK, Material
        <4> QED BY <4>1, <4>3, <4>4 DEF TypeOK
      <3> QED BY <3>1, <3>2
    <2> QED BY <1>0, <1>18, <2>1, <2>2, SettingsAssumption DEF WriteFails, secrets, git, TypeOK
  <1>19. CASE RefreshClient
    <2>1. holder' \in Clients
      <3>1. pass.spec \in Specs
        BY <1>19 DEF RefreshClient, PassOK
      <3>2. CASE ~pass.spec.token \/ rancher.token = None
        BY <1>19, <3>2 DEF RefreshClient, Clients
      <3>3. CASE ~(~pass.spec.token \/ rancher.token = None)
        <4>1. holder' = [token |-> rancher.token,
                         ca |-> IF pass.spec.pinned THEN rancher.pinned ELSE rancher.internal]
          BY <1>19, <3>3 DEF RefreshClient
        <4>2. rancher.token \in Version /\ rancher.pinned \in Material /\ rancher.internal \in Material
          BY <3>3 DEF TypeOK, Material
        <4> QED BY <4>1, <4>2 DEF Clients
      <3> QED BY <3>2, <3>3
    <2> QED BY <1>0, <1>19, <2>1 DEF RefreshClient, secrets, git, charts, bounds, TypeOK
  <1>20. CASE AddUserFails \/ WireFails \/ UpdateStatusFails \/ Crash
    <2>1. faults' \in 0..MaxFaults /\ edits' = edits /\ due' \in BOOLEAN /\ holder' \in Clients
      <3>1. faults < MaxFaults /\ faults' = faults + 1 /\ edits' = edits
        BY <1>20 DEF AddUserFails, WireFails, UpdateStatusFails, Crash
      <3>2. faults' \in 0..MaxFaults
        BY <3>1, SettingsAssumption DEF TypeOK
      <3>3. due' \in BOOLEAN
        BY <1>20 DEF AddUserFails, WireFails, UpdateStatusFails, Crash, Retry, TypeOK
      <3>4. holder' = holder \/ holder' = None
        BY <1>20 DEF AddUserFails, WireFails, UpdateStatusFails, Crash
      <3> QED BY <3>1, <3>2, <3>3, <3>4 DEF Clients, TypeOK
    <2>2. UNCHANGED <<spec, cred, raw, badCA, gitCred, rancher, gitRepo, gitMirror, mirror, repo,
                      known, observed, swallowed>>
      BY <1>20 DEF AddUserFails, WireFails, UpdateStatusFails, Crash, secrets, git, charts
    <2> QED BY <1>0, <2>1, <2>2 DEF TypeOK
  <1>21. CASE Users
    BY <1>2, <1>3, <1>4, <1>5, <1>6, <1>21 DEF Users
  <1> QED BY <1>1, <1>7, <1>8, <1>9, <1>10, <1>11, <1>12, <1>13, <1>14, <1>15, <1>17, <1>18, <1>19,
             <1>20, <1>21 DEF Next, Controller, Failures

\* Types and shape are inductive by themselves.
LEMMA TypedStep == Typed /\ [Next]_vars => Typed'
  BY TypeStep, PassStep, AgendaStep, TodoStep DEF Typed

-----------------------------------------------------------------------------
(* Copies and what Rancher has read.                                       *)

Writing == \/ WriteGitRepo \/ WriteGitMirror \/ WriteMirror \/ DeleteAuthSecret
           \/ WriteRepo \/ ForceUpdateRepo

\* What making one write changes.
Effect(h) ==
    /\ Advancing /\ h = Head(pass.todo) /\ h # Misconfigured
    /\ gitRepo' = IF h.what = "gitRepo" THEN [gitRepo EXCEPT ![h.on] = h.value] ELSE gitRepo
    /\ gitMirror' = IF h.what = "gitMirror" THEN [gitMirror EXCEPT ![h.on] = h.value]
                    ELSE gitMirror
    /\ mirror' = IF h.what = "mirror" THEN [mirror EXCEPT ![h.on[1]][h.on[2]] = h.value]
                 ELSE IF h.what = "unmirror"
                      THEN [mirror EXCEPT ![h.on] = [m \in Spaces |-> None]] ELSE mirror
    /\ repo' = IF h.what = "repo" THEN [repo EXCEPT ![h.on] = h.value] ELSE repo
    /\ known' = IF h.what = "repo"
                THEN [known EXCEPT ![h.on] = IF repo[h.on] = h.value THEN known[h.on]
                                             ELSE Reads(h.on, h.value)]
                ELSE IF h.what = "force"
                     THEN [known EXCEPT ![h.on] = Reads(h.on, repo[h.on])] ELSE known
    /\ ~due' => ~due /\ gitRepo' = gitRepo
    /\ UNCHANGED <<spec, secrets, holder, observed, swallowed, bounds>>

\* Each action that writes does what the first of the writes says.
LEMMA Effects ==
    ASSUME Typed, Writing
    PROVE  \E h \in WriteType : Effect(h)
  <1>1. CASE WriteGitRepo
    <2>1. Does("gitRepo")
      BY <1>1 DEF WriteGitRepo
    <2>2. PICK h \in WriteType : h = Head(pass.todo) /\ h.what = "gitRepo" /\ Advancing
      BY <2>1, HeadType, Zenon
    <2>3. Effect(h)
      <3>1. ~due' => ~due /\ gitRepo' = gitRepo
        BY <1>1, Zenon DEF WriteGitRepo
      <3> QED BY <1>1, <2>2, <3>1, SMTT(30) DEF Effect, WriteGitRepo, On, Value, Misconfigured, Write, charts
    <2> QED BY <2>3
  <1>2. CASE WriteGitMirror
    <2>1. Does("gitMirror")
      BY <1>2 DEF WriteGitMirror
    <2>2. PICK h \in WriteType : h = Head(pass.todo) /\ h.what = "gitMirror" /\ Advancing
      BY <2>1, HeadType, Zenon
    <2>3. Effect(h)
      BY <1>2, <2>2 DEF Effect, WriteGitMirror, On, Value, Misconfigured, Write, charts
    <2> QED BY <2>3
  <1>3. CASE WriteMirror
    <2>1. Does("mirror")
      BY <1>3 DEF WriteMirror
    <2>2. PICK h \in WriteType : h = Head(pass.todo) /\ h.what = "mirror" /\ Advancing
      BY <2>1, HeadType, Zenon
    <2>3. Effect(h)
      BY <1>3, <2>2 DEF Effect, WriteMirror, On, Value, Misconfigured, Write, git
    <2> QED BY <2>3
  <1>4. CASE DeleteAuthSecret
    <2>1. Does("unmirror")
      BY <1>4 DEF DeleteAuthSecret
    <2>2. PICK h \in WriteType : h = Head(pass.todo) /\ h.what = "unmirror" /\ Advancing
      BY <2>1, HeadType, Zenon
    <2>3. Effect(h)
      <3>1. h # Misconfigured
        BY <2>2 DEF Misconfigured, Write
      <3>2. On = h.on /\ UNCHANGED <<spec, secrets, git, holder, observed, due, swallowed, bounds>>
        BY <1>4, <2>2 DEF On, DeleteAuthSecret
      <3> QED BY <1>4, <2>2, <3>1, <3>2, SMTT(30) DEF Effect, DeleteAuthSecret, On, git
    <2> QED BY <2>3
  <1>5. CASE WriteRepo
    <2>1. Does("repo")
      BY <1>5 DEF WriteRepo
    <2>2. PICK h \in WriteType : h = Head(pass.todo) /\ h.what = "repo" /\ Advancing
      BY <2>1, HeadType, Zenon
    <2>3. Effect(h)
      BY <1>5, <2>2 DEF Effect, WriteRepo, On, Value, Misconfigured, Write, git
    <2> QED BY <2>3
  <1>6. CASE ForceUpdateRepo
    <2>1. Does("force")
      BY <1>6 DEF ForceUpdateRepo
    <2>2. PICK h \in WriteType : h = Head(pass.todo) /\ h.what = "force" /\ Advancing
      BY <2>1, HeadType, Zenon
    <2>3. Effect(h)
      <3>1. h # Misconfigured
        BY <2>2 DEF Misconfigured, Write
      <3>2. On = h.on /\ UNCHANGED <<spec, secrets, git, holder, observed, due, swallowed, bounds>>
        BY <1>6, <2>2 DEF On, ForceUpdateRepo
      <3> QED BY <1>6, <2>2, <3>1, <3>2, SMTT(30) DEF Effect, ForceUpdateRepo, On, git
    <2> QED BY <2>3
  <1> QED BY <1>1, <1>2, <1>3, <1>4, <1>5, <1>6 DEF Writing

\* A write keeps what is promised of copies and of what Rancher has read.
LEMMA WritingCopies ==
    ASSUME Typed, CopiesInv, Writing
    PROVE  CopiesInv'
  <1>0. PICK h \in WriteType : Effect(h)
    BY Effects
  <1>1. /\ Advancing /\ h = Head(pass.todo) /\ h # Misconfigured
        /\ mirror' = IF h.what = "mirror" THEN [mirror EXCEPT ![h.on[1]][h.on[2]] = h.value]
                     ELSE IF h.what = "unmirror"
                          THEN [mirror EXCEPT ![h.on] = [m \in Spaces |-> None]] ELSE mirror
        /\ repo' = IF h.what = "repo" THEN [repo EXCEPT ![h.on] = h.value] ELSE repo
        /\ known' = IF h.what = "repo"
                    THEN [known EXCEPT ![h.on] = IF repo[h.on] = h.value THEN known[h.on]
                                                 ELSE Reads(h.on, h.value)]
                    ELSE IF h.what = "force"
                         THEN [known EXCEPT ![h.on] = Reads(h.on, repo[h.on])] ELSE known
        /\ UNCHANGED bounds
    BY <1>0 DEF Effect
  <1>2. PICK P : P = Pending'
    OBVIOUS
  <1>3. /\ Pending = {h} \cup P
        /\ \A w \in P : ~(w.what = "mirror" /\ w.on[2] = Cattle)
        /\ h.what = "unmirror" /\ h.on \in Registries => P = {}
        /\ pass'.at = pass.at /\ pass'.agenda = pass.agenda /\ pass'.nv = pass.nv
        /\ pass'.spec = pass.spec
    BY <1>1, <1>2, Advances
  <1>4. /\ repo \in [Repos -> RepoSpecs] /\ known \in [Repos -> Material]
        /\ mirror \in [Auth -> [Spaces -> Material]]
    BY DEF Typed, TypeOK
  <1>5. /\ h.what = "repo" => h.on \in Repos
        /\ h.what = "force" => h.on \in Repos /\ h = ForceRead(h.on)
        /\ h.what = "unmirror" => h.on \in Auth /\ h = Write("unmirror", h.on, None)
        /\ h.what = "mirror" => h.on \in Auth \X Spaces /\ h.value \in Version
    BY DEF WriteType, ForceRead, Write
  <1>6. \A n : RepoWrites(n)' = RepoIn(P, n) /\ CattleWrites(n)' = {}
    BY <1>2, <1>3 DEF RepoWrites, CattleWrites, RepoIn, CattleIn
  <1>7. \A n : /\ RepoIn(P, n) \subseteq RepoWrites(n)
               /\ \A w \in RepoWrites(n) : w \in RepoIn(P, n) \/ (w = h /\ h.what = "repo" /\ h.on = n)
               /\ h.what = "repo" /\ h.on = n => h \in RepoWrites(n)
    BY <1>3 DEF RepoWrites, RepoIn
  <1>8. \A n \in Repos : \/ repo'[n] = repo[n] /\ (h.what = "repo" => h.on # n)
                         \/ repo'[n] = h.value /\ h.what = "repo" /\ h.on = n
    BY <1>1, <1>4, <1>5
  \* Whatever is or is to be plain stays so.
  <1>9. ASSUME NEW n \in Repos, Plain(repo[n]) \/ RepoWrites(n) # {},
               \A w \in RepoWrites(n) : Plain(w.value)
        PROVE  /\ Plain(repo'[n]) \/ RepoIn(P, n) # {}
               /\ \A w \in RepoIn(P, n) : Plain(w.value)
    <2>1. CASE repo'[n] = repo[n] /\ (h.what = "repo" => h.on # n)
      BY <1>7, <1>9, <2>1
    <2>2. CASE repo'[n] = h.value /\ h.what = "repo" /\ h.on = n
      BY <1>7, <1>9, <2>2
    <2> QED BY <1>8, <2>1, <2>2
  <1>10. PlainOK'
    <2>1. ASSUME NEW n \in Openshell
          PROVE  Plain(repo'[n]) /\ \A w \in RepoIn(P, n) : Plain(w.value)
      <3>1. n \in Repos /\ Plain(repo[n]) /\ \A w \in RepoWrites(n) : Plain(w.value)
        BY <2>1, Named DEF CopiesInv, PlainOK
      <3>2. CASE repo'[n] = repo[n]
        BY <1>7, <3>1, <3>2
      <3>3. CASE repo'[n] = h.value /\ h.what = "repo" /\ h.on = n
        BY <1>7, <3>1, <3>3
      <3> QED BY <1>8, <3>1, <3>2, <3>3
    <2>3. ASSUME pass.at = "stages", Stage("nvidia", None) \notin Ahead, ~pass.spec.mirrored,
                 pass.nv # None, NEW n \in Fixed
          PROVE  /\ Plain(repo'[n]) \/ RepoIn(P, n) # {}
                 /\ \A w \in RepoIn(P, n) : Plain(w.value)
      <3>1. /\ n \in Repos
            /\ Plain(repo[n]) \/ RepoWrites(n) # {}
            /\ \A w \in RepoWrites(n) : Plain(w.value)
        BY <2>3, Named DEF CopiesInv, PlainOK
      <3> QED BY <3>1, <1>9
    <2>4. Ahead' = Ahead
      BY <1>3 DEF Ahead
    <2> QED BY <1>3, <1>6, <2>1, <2>3, <2>4 DEF PlainOK, Plain
  <1>11. UnmirrorOK'
    <2>1. ASSUME NEW r \in Auth, Write("unmirror", r, None) \in P, NEW n \in Repos, Owner(n) = r
          PROVE  /\ Plain(repo'[n]) \/ RepoIn(P, n) # {}
                 /\ \A w \in RepoIn(P, n) : Plain(w.value)
      <3>1. /\ Plain(repo[n]) \/ RepoWrites(n) # {}
            /\ \A w \in RepoWrites(n) : Plain(w.value)
        BY <1>3, <2>1 DEF CopiesInv, UnmirrorOK
      <3> QED BY <3>1, <1>9
    <2> QED BY <1>2, <1>6, <2>1 DEF UnmirrorOK, Plain, Owner
  <1>12. MirrorOK'
    BY <1>6 DEF MirrorOK
  <1>13. RegistryOK'
    <2> SUFFICES ASSUME NEW n \in Registries
                 PROVE  /\ Plain(repo'[n]) \/ mirror'[n][Cattle] # None
                        /\ \A w \in RepoIn(P, n) : Plain(w.value) \/ mirror'[n][Cattle] # None
      BY <1>6 DEF RegistryOK, Plain
    <2>1. /\ n \in Repos /\ n \in Auth /\ Owner(n) = n /\ Cattle \in Spaces
          /\ Plain(repo[n]) \/ mirror[n][Cattle] # None
          /\ \A w \in RepoWrites(n) :
               Plain(w.value) \/ mirror[n][Cattle] # None \/ CattleWrites(n) # {}
      BY Named DEF CopiesInv, RegistryOK, Owner
    <2>2. CattleWrites(n) # {} => h.what = "mirror" /\ h.on = <<n, Cattle>>
      BY <1>3 DEF CattleWrites, CattleIn
    <2>3. CASE h.what = "mirror" /\ h.on = <<n, Cattle>>
      <3>1. mirror'[n][Cattle] = h.value
        BY <1>1, <1>4, <2>1, <2>3
      <3>2. h.value # None
        BY <1>5, <2>3, NoneAssumption, SettingsAssumption DEF Version
      <3> QED BY <3>1, <3>2
    <2>4. CASE h.what = "unmirror" /\ h.on = n
      <3>1. P = {} /\ Write("unmirror", n, None) \in Pending
        BY <1>3, <1>5, <2>4
      <3>2. Plain(repo[n]) \/ RepoWrites(n) # {}
        BY <2>1, <3>1 DEF CopiesInv, UnmirrorOK
      <3>3. RepoWrites(n) = {} /\ repo' = repo
        BY <1>1, <1>7, <2>4, <3>1 DEF RepoIn
      <3> QED BY <3>1, <3>2, <3>3 DEF RepoIn
    <2>5. CASE ~(h.what = "mirror" /\ h.on = <<n, Cattle>>) /\ ~(h.what = "unmirror" /\ h.on = n)
      <3>1. mirror'[n][Cattle] = mirror[n][Cattle]
        <4>1. CASE h.what = "mirror"
          <5>1. h.on[1] \in Auth /\ h.on[2] \in Spaces /\ h.on = <<h.on[1], h.on[2]>>
            BY <1>5, <4>1
          <5>2. mirror' = [mirror EXCEPT ![h.on[1]][h.on[2]] = h.value]
            BY <1>1, <4>1
          <5>3. h.on[1] # n \/ h.on[2] # Cattle
            BY <2>5, <4>1, <5>1
          <5> QED BY <1>4, <2>1, <5>1, <5>2, <5>3
        <4>2. CASE h.what = "unmirror"
          BY <1>1, <1>4, <1>5, <2>1, <2>5, <4>2
        <4>3. CASE h.what # "mirror" /\ h.what # "unmirror"
          BY <1>1, <4>3
        <4> QED BY <4>1, <4>2, <4>3
      <3>2. \A w \in RepoWrites(n) : Plain(w.value) \/ mirror[n][Cattle] # None
        BY <2>1, <2>2, <2>5
      <3> QED BY <1>7, <1>8, <2>1, <3>1, <3>2
    <2> QED BY <2>3, <2>4, <2>5
  <1>14. ReadOK'
    <2> SUFFICES ASSUME faults = 0, NEW n \in Repos, repo'[n] # None
                 PROVE  \/ known'[n] = Reads(n, repo[n])' \/ ForceRead(n) \in P
                        \/ \E w \in RepoIn(P, n) : w.value # repo'[n]
      BY <1>1, <1>2, <1>6 DEF ReadOK, Refreshing, bounds, ForceRead, Write
    <2>1. PICK o : o = Owner(n)
      OBVIOUS
    <2>2. o \in Auth /\ Cattle \in Spaces
      BY <2>1, Named
    <2>3. /\ Reads(n, repo[n])' = IF Plain(repo'[n]) THEN None ELSE mirror'[o][Cattle]
          /\ \A v : Reads(n, v) = IF Plain(v) THEN None ELSE mirror[o][Cattle]
      BY <2>1 DEF Reads, Plain, Owner
    <2>4. CASE h.what = "repo" /\ h.on = n /\ repo[n] # h.value
      BY <1>1, <1>4, <2>3, <2>4
    <2>5. CASE h.what = "force" /\ h.on = n
      BY <1>1, <1>4, <2>3, <2>5
    <2>6. CASE ~(h.what = "repo" /\ h.on = n /\ repo[n] # h.value) /\ ~(h.what = "force" /\ h.on = n)
      <3>1. repo'[n] = repo[n] /\ known'[n] = known[n]
        BY <1>1, <1>4, <1>5, <2>6
      <3>2. known[n] = Reads(n, repo[n]) \/ Refreshing(n)
        BY <3>1 DEF CopiesInv, ReadOK
      <3>3. Refreshing(n) => \/ ForceRead(n) \in P
                             \/ \E w \in RepoIn(P, n) : w.value # repo[n]
        <4>1. ForceRead(n) = h => FALSE
          BY <2>6 DEF ForceRead, Write
        <4>2. \A w \in RepoWrites(n) : w.value # repo[n] => w \in RepoIn(P, n)
          BY <1>7, <2>6
        <4> QED BY <4>1, <4>2, <1>3 DEF Refreshing
      <3>4. Plain(repo[n]) \/ mirror'[o][Cattle] = mirror[o][Cattle]
            \/ (\/ ForceRead(n) \in P
                \/ \E w \in RepoIn(P, n) : w.value # repo[n])
        <4>1. CASE h.what = "mirror"
          <5>1. h.on[1] \in Auth /\ h.on[2] \in Spaces /\ h.on = <<h.on[1], h.on[2]>>
            BY <1>5, <4>1
          <5>2. mirror' = [mirror EXCEPT ![h.on[1]][h.on[2]] = h.value]
            BY <1>1, <4>1
          <5>3. CASE h.on = <<o, Cattle>>
            <6>1. h \in CattleWrites(o) /\ mirror'[o][Cattle] = h.value
              BY <1>3, <1>4, <2>2, <4>1, <5>2, <5>3 DEF CattleWrites, CattleIn
            <6>2. h.value # mirror[o][Cattle] => Plain(repo[n]) \/ Refreshing(n)
              BY <2>1, <2>2, <6>1 DEF CopiesInv, MirrorOK
            <6> QED BY <3>3, <6>1, <6>2
          <5>4. CASE h.on # <<o, Cattle>>
            <6>1. h.on[1] # o \/ h.on[2] # Cattle
              BY <5>1, <5>4
            <6> QED BY <1>4, <2>2, <5>1, <5>2, <6>1
          <5> QED BY <5>3, <5>4
        <4>2. CASE h.what = "unmirror"
          <5>1. CASE h.on = o
            <6>1. /\ Plain(repo[n]) \/ RepoWrites(n) # {}
                  /\ \A w \in RepoWrites(n) : Plain(w.value)
              BY <1>3, <1>5, <2>1, <4>2, <5>1 DEF CopiesInv, UnmirrorOK
            <6>2. RepoWrites(n) \subseteq RepoIn(P, n)
              BY <1>7, <4>2
            <6> QED BY <6>1, <6>2
          <5>2. CASE h.on # o
            BY <1>1, <1>4, <1>5, <2>2, <4>2, <5>2
          <5> QED BY <5>1, <5>2
        <4>3. CASE h.what # "mirror" /\ h.what # "unmirror"
          BY <1>1, <4>3
        <4> QED BY <4>1, <4>2, <4>3
      <3> QED BY <2>3, <3>1, <3>2, <3>3, <3>4
    <2> QED BY <2>4, <2>5, <2>6
  <1> QED BY <1>10, <1>11, <1>12, <1>13, <1>14 DEF CopiesInv

\* What may be said of the writes R of a stage when it starts.
StageCopies(R) ==
    /\ \A n \in Openshell : \A w \in RepoIn(R, n) : Plain(w.value)
    /\ \A r \in Auth : Write("unmirror", r, None) \in R =>
         \A n \in Repos : Owner(n) = r =>
            /\ Plain(repo[n]) \/ RepoIn(R, n) # {}
            /\ \A w \in RepoIn(R, n) : Plain(w.value)
    /\ \A r \in Auth : \A w \in CattleIn(R, r) : w.value # mirror[r][Cattle] =>
         \A n \in Repos : Owner(n) = r =>
            Plain(repo[n]) \/ ForceRead(n) \in R \/ \E x \in RepoIn(R, n) : x.value # repo[n]
    /\ \A n \in Registries : \A w \in RepoIn(R, n) :
            Plain(w.value) \/ mirror[n][Cattle] # None \/ CattleIn(R, n) # {}

\* What each kind of write is about.
LEMMA KindsOfWrites ==
    /\ \A S, url, b, n : RepoIn(Applying(S, url, b), n) =
                           IF n \in S THEN {ApplyRepo(n, url, b)} ELSE {}
    /\ \A S, n : RepoIn(Deleting(S), n) = IF n \in S THEN {Write("repo", n, None)} ELSE {}
    /\ \A S, n : RepoIn(Forcing(S), n) = {} /\ (n \in S => ForceRead(n) \in Forcing(S))
    /\ \A r, v, n : RepoIn(Copying(r, v), n) = {}
    /\ \A r, n : RepoIn({Write("unmirror", r, None)}, n) = {}
    /\ \A n : RepoIn({Misconfigured}, n) = {} /\ RepoIn({}, n) = {}
    /\ \A S, url, b, r : CattleIn(Applying(S, url, b), r) = {}
    /\ \A S, r : CattleIn(Deleting(S), r) = {} /\ CattleIn(Forcing(S), r) = {}
    /\ \A r, v, q : CattleIn(Copying(r, v), q) =
                      IF q = r THEN {Write("mirror", <<r, Cattle>>, v)} ELSE {}
    /\ \A r, q : CattleIn({Write("unmirror", r, None)}, q) = {}
    /\ \A r : CattleIn({Misconfigured}, r) = {} /\ CattleIn({}, r) = {}
  <1>1. /\ \A S, url, b, n : RepoIn(Applying(S, url, b), n) =
                           IF n \in S THEN {ApplyRepo(n, url, b)} ELSE {}
        /\ \A S, n : RepoIn(Deleting(S), n) = IF n \in S THEN {Write("repo", n, None)} ELSE {}
        /\ \A S, n : RepoIn(Forcing(S), n) = {} /\ (n \in S => ForceRead(n) \in Forcing(S))
    BY DEF RepoIn, Applying, Deleting, Forcing, ApplyRepo, ForceRead, Write
  <1>2. /\ \A r, v, n : RepoIn(Copying(r, v), n) = {}
        /\ \A r, n : RepoIn({Write("unmirror", r, None)}, n) = {}
        /\ \A n : RepoIn({Misconfigured}, n) = {} /\ RepoIn({}, n) = {}
        BY DEF RepoIn, Copying, Write, Misconfigured
  <1>3. /\ \A S, url, b, r : CattleIn(Applying(S, url, b), r) = {}
        /\ \A S, r : CattleIn(Deleting(S), r) = {} /\ CattleIn(Forcing(S), r) = {}
        /\ \A r, q : CattleIn({Write("unmirror", r, None)}, q) = {}
        /\ \A r : CattleIn({Misconfigured}, r) = {} /\ CattleIn({}, r) = {}
        BY DEF CattleIn, Applying, Deleting, Forcing, ApplyRepo, ForceRead, Write, Misconfigured
  <1>4. \A r, v, q : CattleIn(Copying(r, v), q) =
                      IF q = r THEN {Write("mirror", <<r, Cattle>>, v)} ELSE {}
    BY Named DEF CattleIn, Copying, Write
  <1> QED BY <1>1, <1>2, <1>3, <1>4

\* Unmirroring occurs only where it is listed.
LEMMA UnmirrorsOnly ==
    /\ \A S, url, b, r : Write("unmirror", r, None) \notin Applying(S, url, b)
    /\ \A S, r : /\ Write("unmirror", r, None) \notin Deleting(S)
                 /\ Write("unmirror", r, None) \notin Forcing(S)
    /\ \A r, v, q : Write("unmirror", q, None) \notin Copying(r, v)
    /\ \A r, q : Write("unmirror", q, None) \in {Write("unmirror", r, None)} => q = r
    /\ \A q : Write("unmirror", q, None) # Misconfigured
  BY DEF Applying, Deleting, Forcing, Copying, ApplyRepo, ForceRead, Write, Misconfigured

\* Which writes leave a repository without a credential.
LEMMA PlainValues ==
    /\ \A n : Plain(Write("repo", n, None).value) /\ Write("repo", n, None).value = None
    /\ \A n, url : Plain(ApplyRepo(n, url, FALSE).value)
    /\ \A n, url, r : ~Plain(r) => ApplyRepo(n, url, FALSE).value # r
    /\ Plain(None)
    /\ \A r, v : Write("mirror", <<r, Cattle>>, v).value = v
  BY DEF Plain, Write, ApplyRepo

\* The names of the repositories do not overlap.
LEMMA Disjoint ==
    /\ \A n \in Openshell : n \notin Registries /\ n \notin Fixed /\ n \notin Team
                            /\ n \notin Public /\ n \notin Gated /\ Owner(n) = Nvidia
    /\ \A n \in Fixed : n \notin Registries /\ n \notin Team /\ n \notin Public /\ n \notin Gated
                        /\ n \notin Openshell /\ Owner(n) = Nvidia
    /\ \A n \in Team : n \notin Registries /\ n \notin Openshell /\ n \notin Fixed
                       /\ Owner(n) = Nvidia
    /\ \A n \in Registries : n \notin Openshell /\ n \notin Fixed /\ n \notin Team
                             /\ n \notin Public /\ n \notin Gated /\ n \notin Fixed \cup Team
                             /\ Owner(n) = n /\ n # Nvidia
    /\ \A n \in Repos : n \in Registries \/ n \in Openshell \/ n \in Fixed \/ n \in Team
    /\ \A n : n \in Team <=> n \in Public \/ n \in Gated
    /\ \A n \in Public : n \notin Gated
  BY NamesAssumption DEF Owner, Team, Repos

\* A stage that touches neither repositories nor copies is safe for them.
LEMMA NoRepoCopies ==
    ASSUME NEW R, \A n : RepoIn(R, n) = {}, \A r : CattleIn(R, r) = {},
           \A r : Write("unmirror", r, None) \notin R
    PROVE  StageCopies(R)
  BY DEF StageCopies

\* Copies go, and nothing is or will be left that uses them.
LEMMA UnmirrorCopies ==
    ASSUME NEW R, NEW q, \A r : CattleIn(R, r) = {},
           \A r : Write("unmirror", r, None) \in R => r = q,
           \A n : \A w \in RepoIn(R, n) : Plain(w.value),
           \A n \in Repos : Owner(n) = q => Plain(repo[n]) \/ RepoIn(R, n) # {}
    PROVE  StageCopies(R)
  BY DEF StageCopies

\* A credential is copied, and whatever uses it is refreshed if it is new.
LEMMA MirrorCopies ==
    ASSUME NEW R, NEW q, NEW v,
           \A r : \A w \in CattleIn(R, r) : r = q /\ w = Write("mirror", <<q, Cattle>>, v),
           CattleIn(R, q) # {}, \A r : Write("unmirror", r, None) \notin R,
           \A n \in Repos : \A w \in RepoIn(R, n) : Plain(w.value) \/ (Owner(n) = q /\ n \notin Openshell),
           mirror[q][Cattle] # v =>
             \A n \in Repos : Owner(n) = q =>
                Plain(repo[n]) \/ ForceRead(n) \in R \/ \E x \in RepoIn(R, n) : x.value # repo[n]
    PROVE  StageCopies(R)
  <1>1. \A n \in Openshell : \A w \in RepoIn(R, n) : Plain(w.value)
    BY Named
  <1>2. \A n \in Registries : \A w \in RepoIn(R, n) :
            Plain(w.value) \/ mirror[n][Cattle] # None \/ CattleIn(R, n) # {}
    BY Named, Disjoint
  <1>3. \A r : \A w \in CattleIn(R, r) : r = q /\ w.value = v
    BY PlainValues
  <1> QED BY <1>1, <1>2, <1>3 DEF StageCopies

\* The parts that stages are made of: everything in S and T goes, and the copies;
\* S is read anonymously, T goes, and the copies; P is read anonymously and S
\* with the copied credential, F once more.
Cleared(S, T, q)         == Deleting(S) \cup Deleting(T) \cup {Write("unmirror", q, None)}
Anonymous(S, T, url, q)  == {Write("unmirror", q, None)} \cup Applying(S, url, FALSE) \cup Deleting(T)
Copied(P, S, F, url, q, v) ==
    Copying(q, v) \cup Applying(P, "public", FALSE) \cup (Applying(S, url, TRUE) \cup Forcing(F))

\* What each kind of write is about, write by write.
LEMMA EachWrite ==
    /\ \A S, url, b, n, w : w \in RepoIn(Applying(S, url, b), n) =>
                              n \in S /\ w = ApplyRepo(n, url, b)
    /\ \A S, url, b, n : n \in S => ApplyRepo(n, url, b) \in RepoIn(Applying(S, url, b), n)
    /\ \A S, n, w : w \in RepoIn(Deleting(S), n) => n \in S /\ w = Write("repo", n, None)
    /\ \A S, n : n \in S => Write("repo", n, None) \in RepoIn(Deleting(S), n)
    /\ \A r, v, q, w : w \in CattleIn(Copying(r, v), q) =>
                         q = r /\ w = Write("mirror", <<r, Cattle>>, v)
    /\ \A r, v : Write("mirror", <<r, Cattle>>, v) \in CattleIn(Copying(r, v), r)
  <1>1. /\ \A S, url, b, n, w : w \in RepoIn(Applying(S, url, b), n) =>
                              n \in S /\ w = ApplyRepo(n, url, b)
        /\ \A S, url, b, n : n \in S => ApplyRepo(n, url, b) \in RepoIn(Applying(S, url, b), n)
    BY DEF RepoIn, Applying, ApplyRepo, Write
  <1>2. /\ \A S, n, w : w \in RepoIn(Deleting(S), n) => n \in S /\ w = Write("repo", n, None)
        /\ \A S, n : n \in S => Write("repo", n, None) \in RepoIn(Deleting(S), n)
    BY DEF RepoIn, Deleting, Write
  <1>3. \A r, v, q, w : w \in CattleIn(Copying(r, v), q) =>
                         q = r /\ w = Write("mirror", <<r, Cattle>>, v)
    <2> TAKE r, v, q, w
    <2> HAVE w \in CattleIn(Copying(r, v), q)
    <2>1. PICK X : X = IF q = r THEN {Write("mirror", <<r, Cattle>>, v)} ELSE {}
      OBVIOUS
    <2>2. w \in X
      BY <2>1, KindsOfWrites, Zenon
    <2> QED BY <2>1, <2>2
  <1>4. \A r, v : Write("mirror", <<r, Cattle>>, v) \in CattleIn(Copying(r, v), r)
    BY KindsOfWrites
  <1> QED BY <1>1, <1>2, <1>3, <1>4

\* What a removal writes about copies and repositories.
LEMMA ClearingParts ==
    ASSUME NEW S, NEW T, NEW q
    PROVE  /\ \A r : CattleIn(Cleared(S, T, q), r) = {}
           /\ \A r : Write("unmirror", r, None) \in Cleared(S, T, q) => r = q
           /\ \A n : \A w \in RepoIn(Cleared(S, T, q), n) : Plain(w.value) /\ (n \in S \/ n \in T)
           /\ \A n : n \in S \/ n \in T => RepoIn(Cleared(S, T, q), n) # {}
  <1>1. PICK A, B, C, R : /\ A = Deleting(S) /\ B = Deleting(T) /\ C = {Write("unmirror", q, None)}
                          /\ R = A \cup B \cup C
    OBVIOUS
  <1>2. R = Cleared(S, T, q)
    BY <1>1 DEF Cleared
  <1>3. /\ \A n, w : w \in RepoIn(A, n) => n \in S /\ w = Write("repo", n, None)
        /\ \A n, w : w \in RepoIn(B, n) => n \in T /\ w = Write("repo", n, None)
        /\ \A n : n \in S => Write("repo", n, None) \in RepoIn(A, n)
        /\ \A n : n \in T => Write("repo", n, None) \in RepoIn(B, n)
    BY <1>1, EachWrite
  <1>4. /\ \A n : RepoIn(C, n) = {}
        /\ \A r : CattleIn(A, r) = {} /\ CattleIn(B, r) = {} /\ CattleIn(C, r) = {}
    BY <1>1, KindsOfWrites, Zenon
  <1>5. /\ \A r : Write("unmirror", r, None) \notin A /\ Write("unmirror", r, None) \notin B
        /\ \A r : Write("unmirror", r, None) \in C => r = q
    BY <1>1, UnmirrorsOnly
  <1>6. /\ \A n, w : w \in RepoIn(R, n) <=>
                          w \in RepoIn(A, n) \/ w \in RepoIn(B, n) \/ w \in RepoIn(C, n)
        /\ \A r, w : w \in CattleIn(R, r) <=>
                          w \in CattleIn(A, r) \/ w \in CattleIn(B, r) \/ w \in CattleIn(C, r)
        /\ \A w : w \in R <=> w \in A \/ w \in B \/ w \in C
    BY <1>1 DEF RepoIn, CattleIn
  <1>7. \A n, w : w \in RepoIn(R, n) => w = Write("repo", n, None) /\ (n \in S \/ n \in T)
    BY <1>3, <1>4, <1>6
  <1>8. \A n : n \in S \/ n \in T => Write("repo", n, None) \in RepoIn(R, n)
    BY <1>3, <1>6
  <1>9. \A r : CattleIn(R, r) = {}
    BY <1>4, <1>6
  <1>10. \A r : Write("unmirror", r, None) \in R => r = q
    BY <1>5, <1>6, Zenon
  <1> QED BY <1>2, <1>7, <1>8, <1>9, <1>10, PlainValues

\* What a switch to anonymous access writes about copies and repositories.
LEMMA AnonymousParts ==
    ASSUME NEW S, NEW T, NEW url, NEW q
    PROVE  /\ \A r : CattleIn(Anonymous(S, T, url, q), r) = {}
           /\ \A r : Write("unmirror", r, None) \in Anonymous(S, T, url, q) => r = q
           /\ \A n : \A w \in RepoIn(Anonymous(S, T, url, q), n) :
                Plain(w.value) /\ (n \in S \/ n \in T)
           /\ \A n : n \in S \/ n \in T => RepoIn(Anonymous(S, T, url, q), n) # {}
  <1>1. PICK A, B, C, R :
          /\ A = {Write("unmirror", q, None)} /\ B = Applying(S, url, FALSE) /\ C = Deleting(T)
          /\ R = A \cup B \cup C
    OBVIOUS
  <1>2. R = Anonymous(S, T, url, q)
    BY <1>1 DEF Anonymous
  <1>3. /\ \A n, w : w \in RepoIn(B, n) => n \in S /\ w = ApplyRepo(n, url, FALSE)
        /\ \A n, w : w \in RepoIn(C, n) => n \in T /\ w = Write("repo", n, None)
        /\ \A n : n \in S => ApplyRepo(n, url, FALSE) \in RepoIn(B, n)
        /\ \A n : n \in T => Write("repo", n, None) \in RepoIn(C, n)
    BY <1>1, EachWrite
  <1>4. /\ \A n : RepoIn(A, n) = {}
        /\ \A r : CattleIn(A, r) = {} /\ CattleIn(B, r) = {} /\ CattleIn(C, r) = {}
    BY <1>1, KindsOfWrites, Zenon
  <1>5. /\ \A r : Write("unmirror", r, None) \notin B /\ Write("unmirror", r, None) \notin C
        /\ \A r : Write("unmirror", r, None) \in A => r = q
    <2>1. \A r : Write("unmirror", r, None) \in A => r = q
      BY <1>1 DEF Write
    <2> QED BY <1>1, <2>1, UnmirrorsOnly
  <1>6. /\ \A n, w : w \in RepoIn(R, n) <=>
                          w \in RepoIn(A, n) \/ w \in RepoIn(B, n) \/ w \in RepoIn(C, n)
        /\ \A r, w : w \in CattleIn(R, r) <=>
                          w \in CattleIn(A, r) \/ w \in CattleIn(B, r) \/ w \in CattleIn(C, r)
        /\ \A w : w \in R <=> w \in A \/ w \in B \/ w \in C
    BY <1>1 DEF RepoIn, CattleIn
  <1>7. \A n, w : w \in RepoIn(R, n) =>
          \/ n \in S /\ w = ApplyRepo(n, url, FALSE)
          \/ n \in T /\ w = Write("repo", n, None)
    BY <1>3, <1>4, <1>6
  <1>8. \A n : /\ n \in S => ApplyRepo(n, url, FALSE) \in RepoIn(R, n)
               /\ n \in T => Write("repo", n, None) \in RepoIn(R, n)
    BY <1>3, <1>6
  <1>9. \A r : CattleIn(R, r) = {}
    BY <1>4, <1>6
  <1>10. \A r : Write("unmirror", r, None) \in R => r = q
    BY <1>5, <1>6, Zenon
  <1>11. \A n : \A w \in RepoIn(R, n) : Plain(w.value) /\ (n \in S \/ n \in T)
    <2>1. ASSUME NEW n, NEW w \in RepoIn(R, n)
          PROVE  Plain(w.value) /\ (n \in S \/ n \in T)
      <3>1. CASE n \in S /\ w = ApplyRepo(n, url, FALSE)
        BY <3>1, PlainValues
      <3>2. CASE n \in T /\ w = Write("repo", n, None)
        BY <3>2, PlainValues
      <3> QED BY <1>7, <3>1, <3>2
    <2> QED BY <2>1
  <1>12. \A n : n \in S \/ n \in T => RepoIn(R, n) # {}
    BY <1>8
  <1> QED BY <1>2, <1>9, <1>10, <1>11, <1>12

\* What copying a credential writes about copies and repositories.
LEMMA CopyingParts ==
    ASSUME NEW P, NEW S, NEW F, NEW url, NEW q, NEW v
    PROVE  /\ \A r : \A w \in CattleIn(Copied(P, S, F, url, q, v), r) :
                r = q /\ w = Write("mirror", <<q, Cattle>>, v)
           /\ CattleIn(Copied(P, S, F, url, q, v), q) # {}
           /\ \A r : Write("unmirror", r, None) \notin Copied(P, S, F, url, q, v)
           /\ \A n : \A w \in RepoIn(Copied(P, S, F, url, q, v), n) :
                (Plain(w.value) /\ n \in P /\ w = ApplyRepo(n, "public", FALSE)) \/ n \in S
           /\ \A n \in P : ApplyRepo(n, "public", FALSE) \in RepoIn(Copied(P, S, F, url, q, v), n)
           /\ \A n \in F : ForceRead(n) \in Copied(P, S, F, url, q, v)
  <1>1. PICK A, B, D, T, E, G, R :
          /\ A = Copying(q, v) /\ B = Applying(P, "public", FALSE) /\ D = Applying(S, url, TRUE)
          /\ E = {} /\ G = Forcing(F) /\ T = D \cup G \cup E /\ R = A \cup B \cup T
    OBVIOUS
  <1>2. R = Copied(P, S, F, url, q, v)
    <2>1. T = D \cup G
      BY <1>1
    <2> QED BY <1>1, <2>1 DEF Copied
  <1>3. /\ \A n, w : w \in RepoIn(B, n) => n \in P /\ w = ApplyRepo(n, "public", FALSE)
        /\ \A n, w : w \in RepoIn(D, n) => n \in S /\ w = ApplyRepo(n, url, TRUE)
        /\ \A n : n \in P => ApplyRepo(n, "public", FALSE) \in RepoIn(B, n)
        /\ \A r, w : w \in CattleIn(A, r) => r = q /\ w = Write("mirror", <<q, Cattle>>, v)
        /\ Write("mirror", <<q, Cattle>>, v) \in CattleIn(A, q)
    BY <1>1, EachWrite
  <1>4. /\ \A n : RepoIn(A, n) = {} /\ RepoIn(E, n) = {}
        /\ \A r : CattleIn(B, r) = {} /\ CattleIn(D, r) = {} /\ CattleIn(E, r) = {}
    BY <1>1, KindsOfWrites, Zenon
  <1>5. /\ \A n : RepoIn(G, n) = {} /\ CattleIn(G, n) = {}
        /\ \A r : Write("unmirror", r, None) \notin G
    BY <1>1, KindsOfWrites, UnmirrorsOnly
  <1>6. \A r : /\ Write("unmirror", r, None) \notin A /\ Write("unmirror", r, None) \notin B
               /\ Write("unmirror", r, None) \notin D /\ Write("unmirror", r, None) \notin E
    BY <1>1, UnmirrorsOnly
  <1>7. /\ \A n, w : w \in RepoIn(R, n) <=>
                          w \in RepoIn(A, n) \/ w \in RepoIn(B, n) \/ w \in RepoIn(T, n)
        /\ \A r, w : w \in CattleIn(R, r) <=>
                          w \in CattleIn(A, r) \/ w \in CattleIn(B, r) \/ w \in CattleIn(T, r)
        /\ \A w : w \in R <=> w \in A \/ w \in B \/ w \in T
    BY <1>1 DEF RepoIn, CattleIn
  <1>8. /\ \A n, w : w \in RepoIn(T, n) <=>
                          w \in RepoIn(D, n) \/ w \in RepoIn(G, n) \/ w \in RepoIn(E, n)
        /\ \A r, w : w \in CattleIn(T, r) <=>
                          w \in CattleIn(D, r) \/ w \in CattleIn(G, r) \/ w \in CattleIn(E, r)
        /\ \A w : w \in T <=> w \in D \/ w \in G \/ w \in E
    BY <1>1 DEF RepoIn, CattleIn
  <1>9. \A n, w : w \in RepoIn(R, n) =>
              (n \in P /\ w = ApplyRepo(n, "public", FALSE)) \/ n \in S
    BY <1>3, <1>4, <1>5, <1>7, <1>8
  <1>10. \A r, w : w \in CattleIn(R, r) => r = q /\ w = Write("mirror", <<q, Cattle>>, v)
    BY <1>3, <1>4, <1>5, <1>7, <1>8
  <1>11. Write("mirror", <<q, Cattle>>, v) \in CattleIn(R, q)
    BY <1>3, <1>7
  <1>12. \A r : Write("unmirror", r, None) \notin R
    BY <1>5, <1>6, <1>7, <1>8, Zenon
  <1>13. \A n \in P : ApplyRepo(n, "public", FALSE) \in RepoIn(R, n)
    BY <1>3, <1>7
  <1>14. \A n \in F : ForceRead(n) \in R
    BY <1>1, <1>7, <1>8, KindsOfWrites
  <1> QED BY <1>2, <1>9, <1>10, <1>11, <1>12, <1>13, <1>14, PlainValues

\* A registry's stage is safe for copies, and leaves NVIDIA's repositories
\* alone.
LEMMA RegistryCopies ==
    ASSUME Typed, pass.spec \in Specs, NEW r \in Registries
    PROVE  StageCopies(Range(RegistryWrites(r)))
           /\ \A n \in Fixed : RepoIn(Range(RegistryWrites(r)), n) = {}
  <1>1. PICK v : v = Content(r, EffectiveRef(r, pass.spec.ref[r]))
    OBVIOUS
  <1>2. PICK R : R = Range(RegistryWrites(r))
    OBVIOUS
  <1>3. \A n \in Repos : Owner(n) = r <=> n = r
    BY Disjoint, Named
  <1>4. r \notin Fixed /\ r \in Repos /\ r \notin Openshell
    BY Disjoint, Named
  <1>5. CASE v = None
    <2>1. R = Deleting({r}) \cup {Write("unmirror", r, None)}
      BY <1>1, <1>2, <1>5, RegistryListed DEF Lists, Typed
    <2>2. R = Cleared({r}, {}, r)
      BY <2>1 DEF Deleting, Cleared
    <2>3. /\ \A q : CattleIn(R, q) = {}
          /\ \A q : Write("unmirror", q, None) \in R => q = r
          /\ \A n : \A w \in RepoIn(R, n) : Plain(w.value) /\ (n \in {r} \/ n \in {})
          /\ \A n : n \in {r} \/ n \in {} => RepoIn(R, n) # {}
      BY <2>2, ClearingParts
    <2>4. StageCopies(R)
      BY <1>3, <2>3, UnmirrorCopies
    <2> QED BY <1>2, <1>4, <2>3, <2>4
  <1>6. CASE v # None /\ r \in badCA
    <2>1. R = {Misconfigured}
      BY <1>1, <1>2, <1>6, RegistryListed DEF Lists, Typed
    <2> QED BY <1>2, <2>1, KindsOfWrites, UnmirrorsOnly, NoRepoCopies
  <1>7. CASE v # None /\ r \notin badCA
    <2>1. PICK F : F = (IF mirror[r][Cattle] # v THEN {r} ELSE {})
      OBVIOUS
    <2>2. R = Copying(r, v) \cup Applying({r}, Url, TRUE) \cup Forcing(F)
      BY <1>1, <1>2, <1>7, <2>1, RegistryInUse
    <2>3. PICK P, S, url : P = {} /\ S = {r} /\ url = Url
      OBVIOUS
    <2>4. R = Copied(P, S, F, url, r, v)
      BY <2>1, <2>2, <2>3 DEF Applying, Copied
    <2>5. /\ \A q : \A w \in CattleIn(R, q) : q = r /\ w = Write("mirror", <<r, Cattle>>, v)
          /\ CattleIn(R, r) # {} /\ \A q : Write("unmirror", q, None) \notin R
          /\ \A n : \A w \in RepoIn(R, n) :
               (Plain(w.value) /\ n \in P /\ w = ApplyRepo(n, "public", FALSE)) \/ n \in S
          /\ \A n \in F : ForceRead(n) \in R
      BY <2>4, CopyingParts
    <2>6. /\ \A q : \A w \in CattleIn(R, q) : q = r /\ w = Write("mirror", <<r, Cattle>>, v)
          /\ CattleIn(R, r) # {} /\ \A q : Write("unmirror", q, None) \notin R
          /\ \A n : \A w \in RepoIn(R, n) : n = r
          /\ \A n \in F : ForceRead(n) \in R
      BY <2>3, <2>5
    <2>7. StageCopies(R)
      BY <1>3, <1>4, <2>1, <2>6, MirrorCopies
    <2> QED BY <1>2, <1>4, <2>6, <2>7
  <1> QED BY <1>5, <1>6, <1>7

\* OpenShell's stage is safe for copies, and leaves NVIDIA's repositories alone.
LEMMA OpenshellCopies ==
    ASSUME Typed, pass.spec \in Specs
    PROVE  StageCopies(Range(OpenshellWrites))
           /\ \A n \in Fixed : RepoIn(Range(OpenshellWrites), n) = {}
  <1>1. PICK R : R = Range(OpenshellWrites)
    OBVIOUS
  <1>2. R = Applying(Openshell, Url, FALSE)
    BY <1>1, OpenshellListed DEF Lists
  <1>3. /\ \A n : RepoIn(R, n) = IF n \in Openshell THEN {ApplyRepo(n, Url, FALSE)} ELSE {}
        /\ \A q : CattleIn(R, q) = {}
        /\ \A q : Write("unmirror", q, None) \notin R
    BY <1>2, KindsOfWrites, UnmirrorsOnly
  <1>4. \A n : \A w \in RepoIn(R, n) : n \in Openshell /\ Plain(w.value)
    <2>1. ASSUME NEW n, NEW w \in RepoIn(R, n)
          PROVE  n \in Openshell /\ w = ApplyRepo(n, Url, FALSE)
      BY <1>3, <2>1
    <2> QED BY <2>1, PlainValues
  <1>5. \A n \in Openshell : n \notin Registries /\ n \notin Fixed
    BY Disjoint
  <1>6. StageCopies(R)
    BY <1>3, <1>4, <1>5 DEF StageCopies
  <1>7. \A n \in Fixed : RepoIn(R, n) = {}
    BY <1>3, <1>5
  <1> QED BY <1>1, <1>6, <1>7

\* Removing everything of NVIDIA is safe for copies.
LEMMA ClearingCopies ==
    ASSUME Typed, PlainOK
    PROVE  StageCopies(Clearing)
  <1>1. PICK S : S = {n \in Team : repo[n] # None}
    OBVIOUS
  <1>2. PICK R : R = Clearing
    OBVIOUS
  <1>3. R = Cleared(S, Fixed, Nvidia)
    BY <1>1, <1>2 DEF Clearing, Cleared
  <1>4. \A n \in Repos : Owner(n) = Nvidia => \/ n \in S \/ n \in Fixed \/ Plain(repo[n])
    BY <1>1, Disjoint, PlainValues DEF PlainOK
  <1>5. /\ \A q : CattleIn(R, q) = {}
        /\ \A q : Write("unmirror", q, None) \in R => q = Nvidia
        /\ \A n : \A w \in RepoIn(R, n) : Plain(w.value)
        /\ \A n : n \in S \/ n \in Fixed => RepoIn(R, n) # {}
    BY <1>3, ClearingParts
  <1> QED BY <1>2, <1>4, <1>5, UnmirrorCopies

\* NVIDIA's stage is safe for copies, and rewrites every fixed repository
\* without a credential unless there is a mirror.
LEMMA NvidiaCopies ==
    ASSUME Typed, pass.spec \in Specs, PlainOK, NEW ref \in Sources \cup {None}
    PROVE  /\ StageCopies(Range(NvidiaWrites(ref)))
           /\ ~pass.spec.mirrored /\ ref # None =>
                \A n \in Fixed : /\ RepoIn(Range(NvidiaWrites(ref)), n) # {}
                                 /\ \A w \in RepoIn(Range(NvidiaWrites(ref)), n) : Plain(w.value)
  <1>1. PICK v : v = Content(Nvidia, ref)
    OBVIOUS
  <1>2. PICK R : R = Range(NvidiaWrites(ref))
    OBVIOUS
  <1>3. CASE ~pass.spec.mirrored /\ ref = None
    <2>1. R = Clearing
      BY <1>2, <1>3, NvidiaListed DEF Lists, Typed
    <2> QED BY <1>2, <1>3, <2>1, ClearingCopies
  <1>4. CASE ~pass.spec.mirrored /\ ref # None
    <2>1. R = Applying(Fixed, "public", FALSE)
      BY <1>2, <1>4, NvidiaListed DEF Lists, Typed
    <2>2. /\ \A n : RepoIn(R, n) = IF n \in Fixed THEN {ApplyRepo(n, "public", FALSE)} ELSE {}
          /\ \A q : CattleIn(R, q) = {}
          /\ \A q : Write("unmirror", q, None) \notin R
      BY <2>1, KindsOfWrites, UnmirrorsOnly
    <2>3. StageCopies(R)
      BY <2>2, PlainValues, Disjoint DEF StageCopies
    <2>4. \A n \in Fixed : RepoIn(R, n) = {ApplyRepo(n, "public", FALSE)}
      BY <2>2
    <2>5. ASSUME NEW n \in Fixed
          PROVE  RepoIn(R, n) # {} /\ \A w \in RepoIn(R, n) : Plain(w.value)
      <3>1. PICK x : x = ApplyRepo(n, "public", FALSE)
        OBVIOUS
      <3>2. Plain(x.value)
        BY <3>1, PlainValues
      <3>3. RepoIn(R, n) = {x}
        BY <2>4, <3>1
      <3> QED BY <3>2, <3>3
    <2> QED BY <1>2, <2>3, <2>5
  <1>5. CASE pass.spec.mirrored
    <2>1. R = Range(MirroredWrites(ref))
      BY <1>2, <1>5, NvidiaListed DEF Typed
    <2> SUFFICES StageCopies(R)
      BY <1>2, <1>5
    <2>a. PICK S, P, url : S = Fixed \cup Team /\ P = {} /\ url = "mirror"
      OBVIOUS
    <2>b. /\ \A n \in Repos : Owner(n) = Nvidia => n \in S \/ Plain(repo[n])
          /\ \A n \in S : n \in Repos /\ Owner(n) = Nvidia /\ n \notin Openshell
      BY <2>a, Disjoint, Named DEF PlainOK
    <2>2. CASE ref = None
      <3>1. R = {Write("unmirror", Nvidia, None)} \cup Applying(S, "mirror", FALSE)
        BY <1>1, <2>1, <2>2, <2>a, MirroredListed DEF Lists, Typed
      <3>2. R = Anonymous(S, {}, "mirror", Nvidia)
        BY <3>1 DEF Deleting, Anonymous
      <3>3. /\ \A q : CattleIn(R, q) = {}
            /\ \A q : Write("unmirror", q, None) \in R => q = Nvidia
            /\ \A n : \A w \in RepoIn(R, n) : Plain(w.value)
            /\ \A n : n \in S => RepoIn(R, n) # {}
        BY <3>2, AnonymousParts
      <3> QED BY <2>b, <3>3, UnmirrorCopies
    <2>3. CASE ref # None /\ v = None
      <3>1. R = Clearing
        BY <1>1, <2>1, <2>3, MirroredListed DEF Lists, Typed
      <3> QED BY <3>1, ClearingCopies
    <2>4. CASE ref # None /\ v # None /\ Nvidia \in badCA
      <3>1. R = {Misconfigured}
        BY <1>1, <2>1, <2>4, MirroredListed DEF Lists, Typed
      <3> QED BY <3>1, KindsOfWrites, UnmirrorsOnly, NoRepoCopies
    <2>5. CASE ref # None /\ v # None /\ Nvidia \notin badCA
      <3>1. PICK F : F = (IF mirror[Nvidia][Cattle] # v THEN S ELSE {})
        OBVIOUS
      <3>2. R = Copying(Nvidia, v) \cup Applying(S, "mirror", TRUE) \cup Forcing(F)
        <4>1. PICK G : G = IF mirror[Nvidia][Cattle] # v THEN Forcing(S) ELSE {}
          OBVIOUS
        <4>2. R = Copying(Nvidia, v) \cup Applying(S, "mirror", TRUE) \cup G
          BY <1>1, <2>1, <2>5, <2>a, <4>1, MirroredListed DEF Lists, Typed
        <4>3. G = Forcing(F)
          BY <3>1, <4>1 DEF Forcing
        <4> QED BY <4>2, <4>3
      <3>4. R = Copied(P, S, F, url, Nvidia, v)
        BY <2>a, <3>1, <3>2 DEF Applying, Copied
      <3>5. /\ \A q : \A w \in CattleIn(R, q) : q = Nvidia /\ w = Write("mirror", <<Nvidia, Cattle>>, v)
            /\ CattleIn(R, Nvidia) # {} /\ \A q : Write("unmirror", q, None) \notin R
            /\ \A n : \A w \in RepoIn(R, n) :
                 (Plain(w.value) /\ n \in P /\ w = ApplyRepo(n, "public", FALSE)) \/ n \in S
            /\ \A n \in F : ForceRead(n) \in R
        BY <3>4, CopyingParts
      <3>6. /\ \A q : \A w \in CattleIn(R, q) : q = Nvidia /\ w = Write("mirror", <<Nvidia, Cattle>>, v)
            /\ CattleIn(R, Nvidia) # {} /\ \A q : Write("unmirror", q, None) \notin R
            /\ \A n : \A w \in RepoIn(R, n) : n \in S
            /\ \A n \in F : ForceRead(n) \in R
        BY <2>a, <3>5
      <3> QED BY <2>b, <3>1, <3>6, MirrorCopies
    <2> QED BY <2>2, <2>3, <2>4, <2>5
  <1> QED
    <2>1. pass.spec.mirrored \in BOOLEAN
      BY UrlType
    <2> QED BY <1>3, <1>4, <1>5, <2>1

\* The team's stage is safe for copies, and leaves NVIDIA's fixed repositories
\* alone.
LEMMA TeamCopies ==
    ASSUME Typed, pass.spec \in Specs, pass.at = "stages", PlainOK, pass.todo = <<>>,
           Stage("nvidia", None) \notin Ahead
    PROVE  /\ StageCopies(Range(NGCTeamWrites))
           /\ \A n \in Fixed : RepoIn(Range(NGCTeamWrites), n) = {}
  <1>1. PICK v : v = Content(Nvidia, pass.nv)
    OBVIOUS
  <1>2. PICK R : R = Range(NGCTeamWrites)
    OBVIOUS
  <1>3. pass.nv \in Sources \cup {None} /\ pass.spec.mirrored \in BOOLEAN
    BY UrlType DEF Typed, PassOK, PassType
  <1>4. ~pass.spec.mirrored /\ pass.nv # None => \A n \in Fixed : Plain(repo[n])
    <2>1. Pending = {}
      BY DEF Pending, Range
    <2> QED BY <2>1 DEF PlainOK, RepoWrites, RepoIn
  <1>5. CASE pass.spec.mirrored \/ pass.nv = None
    <2>1. R = {}
      BY <1>1, <1>2, <1>3, <1>5, TeamListed DEF Lists, Typed
    <2> QED BY <1>2, <2>1, KindsOfWrites, NoRepoCopies
  <1>6. CASE ~pass.spec.mirrored /\ pass.nv # None /\ v = None
    <2>1. PICK S : S = {n \in Team \ Public : repo[n] # None}
      OBVIOUS
    <2>2. R = Anonymous(Public, S, "public", Nvidia)
      BY <1>1, <1>2, <1>3, <1>6, <2>1, TeamListed DEF Lists, Typed, Anonymous
    <2>3. /\ \A q : CattleIn(R, q) = {}
          /\ \A q : Write("unmirror", q, None) \in R => q = Nvidia
          /\ \A n : \A w \in RepoIn(R, n) : Plain(w.value) /\ (n \in Public \/ n \in S)
          /\ \A n : n \in Public \/ n \in S => RepoIn(R, n) # {}
      BY <2>2, AnonymousParts
    <2>6. \A n \in Repos : Owner(n) = Nvidia => n \in Public \/ n \in S \/ Plain(repo[n])
      BY <1>4, <1>6, <2>1, Disjoint, PlainValues DEF PlainOK
    <2>7. \A n : n \in S => n \in Team
      BY <2>1
    <2>8. StageCopies(R)
      BY <2>3, <2>6, UnmirrorCopies
    <2> QED BY <1>2, <2>3, <2>7, <2>8, Disjoint
  <1>7. CASE ~pass.spec.mirrored /\ pass.nv # None /\ v # None /\ Nvidia \in badCA
    <2>1. R = {Misconfigured}
      BY <1>1, <1>2, <1>3, <1>7, TeamListed DEF Lists, Typed
    <2> QED BY <1>2, <2>1, KindsOfWrites, UnmirrorsOnly, NoRepoCopies
  <1>8. CASE ~pass.spec.mirrored /\ pass.nv # None /\ v # None /\ Nvidia \notin badCA
    <2>1. PICK F : F = (IF mirror[Nvidia][Cattle] # v THEN Gated ELSE {})
      OBVIOUS
    <2>2. R = Copying(Nvidia, v) \cup Applying(Public, "public", FALSE)
                \cup Applying(Gated, "public", TRUE) \cup Forcing(F)
      BY <1>1, <1>2, <1>3, <1>8, <2>1, TeamListed DEF Lists, Typed, Forcing
    <2>3. PICK url : url = "public"
      OBVIOUS
    <2>4. R = Copied(Public, Gated, F, url, Nvidia, v)
      BY <2>1, <2>2, <2>3 DEF Copied
    <2>6. /\ \A q : \A w \in CattleIn(R, q) : q = Nvidia /\ w = Write("mirror", <<Nvidia, Cattle>>, v)
          /\ CattleIn(R, Nvidia) # {} /\ \A q : Write("unmirror", q, None) \notin R
          /\ \A n : \A w \in RepoIn(R, n) :
               (Plain(w.value) /\ n \in Public /\ w = ApplyRepo(n, "public", FALSE)) \/ n \in Gated
          /\ \A n \in Public : ApplyRepo(n, "public", FALSE) \in RepoIn(R, n)
          /\ \A n \in F : ForceRead(n) \in R
      BY <2>4, CopyingParts
    <2>7. \A n \in Repos : Owner(n) = Nvidia => n \in Public \/ n \in Gated \/ Plain(repo[n])
      BY <1>4, <1>8, Disjoint DEF PlainOK
    <2>8. \A n \in Public : Plain(repo[n]) \/ \E x \in RepoIn(R, n) : x.value # repo[n]
      BY <2>6, PlainValues
    <2>9. \A n \in Gated : Owner(n) = Nvidia /\ n \notin Openshell
      BY Disjoint
    <2>10. StageCopies(R)
      BY <2>1, <2>6, <2>7, <2>8, <2>9, MirrorCopies
    <2> QED BY <1>2, <2>6, <2>10, Disjoint
  <1> QED BY <1>3, <1>5, <1>6, <1>7, <1>8

\* The stages of the git repositories copy nothing.
LEMMA GitCopies ==
    ASSUME Typed, pass.spec \in Specs
    PROVE  /\ \A g \in Sites : /\ StageCopies(Range(GitWrites(g)))
                               /\ \A n \in Fixed : RepoIn(Range(GitWrites(g)), n) = {}
           /\ StageCopies(Range(PruneWrites))
           /\ \A n \in Fixed : RepoIn(Range(PruneWrites), n) = {}
  <1>1. ASSUME NEW R, \A w \in R : w.what \in {"gitRepo", "gitMirror", "error"}
        PROVE  StageCopies(R) /\ \A n \in Fixed : RepoIn(R, n) = {}
    <2>1. \A n : RepoIn(R, n) = {} /\ CattleIn(R, n) = {}
      BY <1>1 DEF RepoIn, CattleIn
    <2>2. \A r : Write("unmirror", r, None) \notin R
      BY <1>1 DEF Write
    <2> QED BY <2>1, <2>2, NoRepoCopies
  <1>2. ASSUME NEW g \in Sites
        PROVE  \A w \in Range(GitWrites(g)) : w.what \in {"gitRepo", "gitMirror", "error"}
    BY <1>2, GitListed DEF Typed, Lists, Write, Misconfigured
  <1>3. \A w \in Range(PruneWrites) : w.what \in {"gitRepo", "gitMirror", "error"}
    <2>1. PICK R : R = Range(PruneWrites)
      OBVIOUS
    <2>2. R = {Write("gitRepo", c, None) : c \in Stale} \cup {Write("gitMirror", c, None) : c \in Stale}
      BY <2>1, PruneListed DEF Typed, Lists
    <2> QED BY <2>1, <2>2 DEF Write
  <1> QED BY <1>1, <1>2, <1>3

\* The writes of every stage are safe for copies.
LEMMA StartingCopies ==
    ASSUME Typed, PlainOK, pass.at = "stages", pass.spec \in Specs, pass.todo = <<>>,
           pass.agenda # <<>>, NEW s \in StageType, s = Head(pass.agenda),
           NEW ref \in Sources \cup {None}, NEW R, R = Range(Writes(s, ref))
    PROVE  /\ StageCopies(R)
           /\ s.name # "nvidia" => \A n \in Fixed : RepoIn(R, n) = {}
           /\ s.name = "nvidia" /\ ~pass.spec.mirrored /\ ref # None =>
                \A n \in Fixed : RepoIn(R, n) # {} /\ \A w \in RepoIn(R, n) : Plain(w.value)
  <1>1. CASE s.name = "git"
    <2>1. s.on \in Sites /\ R = Range(GitWrites(s.on))
      BY <1>1 DEF StageType, Writes
    <2> QED BY <1>1, <2>1, GitCopies
  <1>2. CASE s.name = "prune"
    BY <1>2, GitCopies DEF Writes
  <1>3. CASE s.name = "registry"
    <2>1. s.on \in Registries /\ R = Range(RegistryWrites(s.on))
      BY <1>3 DEF StageType, Writes
    <2> QED BY <1>3, <2>1, RegistryCopies
  <1>4. CASE s.name = "openshell"
    BY <1>4, OpenshellCopies DEF Writes
  <1>5. CASE s.name = "nvidia"
    <2>1. R = Range(NvidiaWrites(ref))
      BY <1>5 DEF Writes
    <2> QED BY <1>5, <2>1, NvidiaCopies
  <1>6. CASE s.name = "team"
    <2>1. pass.agenda \in Seq(StageType)
      BY DEF Typed, PassOK, PassType
    <2>2. /\ s = pass.agenda[1] /\ 1 \in DOMAIN pass.agenda
          /\ DOMAIN pass.agenda = 1..Len(pass.agenda) /\ Len(pass.agenda) \in Nat
      BY <2>1, SplitHead, Listed
    <2>3. 1 = Len(pass.agenda)
      BY <1>6, <2>2 DEF Typed, AgendaOK
    <2>4. Stage("nvidia", None) \notin Ahead
      BY <1>6, <2>2, <2>3 DEF Ahead, Range, Stage
    <2>5. R = Range(NGCTeamWrites)
      BY <1>6 DEF Writes
    <2> QED BY <1>6, <2>4, <2>5, TeamCopies
  <1> QED BY <1>1, <1>2, <1>3, <1>4, <1>5, <1>6 DEF StageType

\* Starting a stage keeps what is promised of copies.
LEMMA StartCopies ==
    ASSUME Typed, CopiesInv, StartStage
    PROVE  CopiesInv'
  <1>1. PICK s \in StageType, ref \in Sources \cup {None} :
             /\ s = Head(pass.agenda)
             /\ pass.at = "stages" /\ pass.spec \in Specs
             /\ pass.todo = <<>> /\ pass.agenda # <<>>
             /\ pass'.at = "stages" /\ pass'.spec = pass.spec /\ pass'.stage = s
             /\ pass'.agenda = Tail(pass.agenda) /\ pass'.todo = Writes(s, ref)
             /\ pass'.nv = (IF s.name = "nvidia" THEN ref ELSE pass.nv)
    BY StageStarts
  <1>2. PICK R : R = Range(Writes(s, ref))
    OBVIOUS
  <1>3. Pending = {} /\ Pending' = R
    BY <1>1, <1>2 DEF Pending, Range
  <1>4. \A n : /\ RepoWrites(n) = {} /\ CattleWrites(n) = {} /\ ForceRead(n) \notin Pending
               /\ RepoWrites(n)' = RepoIn(R, n) /\ CattleWrites(n)' = CattleIn(R, n)
    BY <1>3 DEF RepoWrites, CattleWrites, RepoIn, CattleIn
  <1>5. UNCHANGED <<mirror, repo, known, faults>>
    BY DEF StartStage, charts, bounds
  <1>6. /\ StageCopies(R)
        /\ s.name # "nvidia" => \A n \in Fixed : RepoIn(R, n) = {}
        /\ s.name = "nvidia" /\ ~pass.spec.mirrored /\ ref # None =>
             \A n \in Fixed : RepoIn(R, n) # {} /\ \A w \in RepoIn(R, n) : Plain(w.value)
    BY <1>1, <1>2, StartingCopies DEF CopiesInv
  <1>7. PlainOK'
    <2>1. s # Stage("nvidia", None) /\ Stage("nvidia", None) \notin Ahead' =>
            Stage("nvidia", None) \notin Ahead
      <3>1. pass.agenda \in Seq(StageType)
        BY DEF Typed, PassOK, PassType
      <3>2. Range(pass.agenda) = {s} \cup Range(Tail(pass.agenda))
        BY <1>1, <3>1, SplitHead
      <3> QED BY <1>1, <3>2 DEF Ahead
    <2>2. s.name = "nvidia" <=> s = Stage("nvidia", None)
      BY DEF StageType, Stage
    <2>3. \A n \in Openshell : Plain(repo[n]) /\ \A w \in RepoIn(R, n) : Plain(w.value)
      BY <1>6 DEF CopiesInv, PlainOK, StageCopies
    <2>4. ASSUME Stage("nvidia", None) \notin Ahead', ~pass.spec.mirrored, pass'.nv # None,
                 NEW n \in Fixed
          PROVE  /\ Plain(repo[n]) \/ RepoIn(R, n) # {}
                 /\ \A w \in RepoIn(R, n) : Plain(w.value)
      <3>1. CASE s.name = "nvidia"
        BY <1>1, <1>6, <2>4, <3>1
      <3>2. CASE s.name # "nvidia"
        <4>1. Plain(repo[n]) \/ RepoWrites(n) # {}
          BY <1>1, <2>1, <2>2, <2>4, <3>2 DEF CopiesInv, PlainOK
        <4> QED BY <1>4, <1>6, <3>2, <4>1
      <3> QED BY <3>1, <3>2
    <2> QED BY <1>1, <1>4, <1>5, <2>3, <2>4 DEF PlainOK, Plain
  <1>8. UnmirrorOK'
    BY <1>3, <1>4, <1>5, <1>6 DEF UnmirrorOK, StageCopies, Plain, Owner
  <1>9. \A n : Refreshing(n)' <=> ForceRead(n) \in R \/ \E x \in RepoIn(R, n) : x.value # repo[n]
    BY <1>3, <1>4, <1>5 DEF Refreshing, ForceRead, Write
  <1>10. MirrorOK'
    BY <1>4, <1>5, <1>6, <1>9 DEF MirrorOK, StageCopies, Plain, Owner
  <1>11. RegistryOK'
    BY <1>4, <1>5, <1>6 DEF CopiesInv, RegistryOK, StageCopies, Plain
  <1>12. ReadOK'
    <2>1. \A n : ~Refreshing(n)
      BY <1>3, <1>4 DEF Refreshing
    <2> QED BY <1>5, <2>1 DEF CopiesInv, ReadOK, Reads
  <1> QED BY <1>7, <1>8, <1>10, <1>11, <1>12 DEF CopiesInv

\* Steps that write nothing and leave what is still to be written as it is.
LEMMA KeptCopies ==
    ASSUME Typed, CopiesInv, Pending' = Pending, mirror' = mirror, repo' = repo,
           \A n \in Repos : known'[n] = known[n] \/ known'[n] = Reads(n, repo[n]),
           faults' = 0 => faults = 0,
           pass'.at = "stages" /\ Stage("nvidia", None) \notin Ahead' =>
             /\ pass.at = "stages" /\ Stage("nvidia", None) \notin Ahead
             /\ pass'.spec = pass.spec /\ pass'.nv = pass.nv
    PROVE  CopiesInv'
  <1>1. /\ \A n : RepoWrites(n)' = RepoWrites(n) /\ CattleWrites(n)' = CattleWrites(n)
        /\ \A n : Refreshing(n)' <=> Refreshing(n)
    BY DEF RepoWrites, CattleWrites, Refreshing, ForceRead, Write
  <1>2. PlainOK'
    BY <1>1 DEF CopiesInv, PlainOK, Plain
  <1>3. UnmirrorOK' /\ MirrorOK' /\ RegistryOK'
    BY <1>1 DEF CopiesInv, UnmirrorOK, MirrorOK, RegistryOK, Plain, Owner
  <1>4. ReadOK'
    BY <1>1 DEF CopiesInv, ReadOK, Reads
  <1> QED BY <1>2, <1>3, <1>4 DEF CopiesInv

\* Steps after which nothing is left to be written.
LEMMA RestedCopies ==
    ASSUME Typed, CopiesInv, Pending' = {}, repo' = repo, known' = known,
           \A n \in Registries : Plain(repo[n]) \/ mirror'[n][Cattle] # None,
           faults' = 0 => faults = 0 /\ mirror' = mirror /\ \A n : ~Refreshing(n),
           pass'.at = "stages" =>
             /\ pass.at = "stages" /\ pass'.agenda = pass.agenda
             /\ pass'.spec = pass.spec /\ pass'.nv = pass.nv
             /\ \A n : RepoWrites(n) = {}
    PROVE  CopiesInv'
  <1>1. \A n : RepoWrites(n)' = {} /\ CattleWrites(n)' = {}
    BY DEF RepoWrites, CattleWrites, RepoIn, CattleIn
  <1>2. PlainOK'
    BY <1>1 DEF CopiesInv, PlainOK, Plain, Ahead
  <1>3. UnmirrorOK' /\ MirrorOK' /\ RegistryOK'
    BY <1>1 DEF UnmirrorOK, MirrorOK, RegistryOK, Plain
  <1>4. ReadOK'
    BY DEF CopiesInv, ReadOK, Reads
  <1> QED BY <1>2, <1>3, <1>4 DEF CopiesInv

\* The users touch neither copies nor repositories; Rancher only reads.
LEMMA UsersKeep ==
    ASSUME Typed, Users
    PROVE  /\ UNCHANGED <<pass, mirror, repo, faults, holder, swallowed, gitMirror>>
           /\ \A n \in Repos : known'[n] = known[n] \/ known'[n] = Reads(n, repo[n])
  <1>1. CASE EditSettings
    BY <1>1 DEF EditSettings, Edit, Changed, charts, git
  <1>2. ASSUME NEW r \in Auth, ChangeCA(r)
        PROVE  UNCHANGED <<pass, mirror, repo, known, faults, holder, swallowed, gitMirror>>
    BY <1>2 DEF ChangeCA, Changed, charts, git
  <1>3. ASSUME NEW r \in Auth, NEW s \in Sources, ChangeCredentials(r, s)
        PROVE  UNCHANGED <<pass, mirror, repo, known, faults, holder, swallowed, gitMirror>>
    BY <1>3 DEF ChangeCredentials, Changed, charts, git
  <1>4. ASSUME NEW g \in Sites, ChangeGitCredential(g)
        PROVE  UNCHANGED <<pass, mirror, repo, known, faults, holder, swallowed, gitMirror>>
    BY <1>4 DEF ChangeGitCredential, Changed, charts, git
  <1>5. ASSUME NEW g \in Sites, GitRepoEvent(g)
        PROVE  UNCHANGED <<pass, mirror, repo, known, faults, holder, swallowed, gitMirror>>
    BY <1>5 DEF GitRepoEvent, Changed, charts, bounds
  <1>6. ASSUME NEW what, ChangeRancher(what)
        PROVE  UNCHANGED <<pass, mirror, repo, known, faults, holder, swallowed, gitMirror>>
    BY <1>6 DEF ChangeRancher, Changed, charts, git
  <1>7. ASSUME NEW n \in Repos, RancherRefresh(n)
        PROVE  /\ UNCHANGED <<pass, mirror, repo, faults, holder, swallowed, gitMirror>>
               /\ known' = [known EXCEPT ![n] = Reads(n, repo[n])]
    BY <1>7 DEF RancherRefresh, bounds, git
  <1>8. known \in [Repos -> Material]
    BY DEF Typed, TypeOK
  <1> QED BY <1>1, <1>2, <1>3, <1>4, <1>5, <1>6, <1>7, <1>8 DEF Users

\* A pass that ends early, by an error or a crash, keeps what is promised of
\* copies.
LEMMA EndingCopies ==
    ASSUME Typed, CopiesInv, StageErrors \/ WriteFails \/ Crash
    PROVE  CopiesInv'
  <1>1. faults \in Nat /\ mirror \in [Auth -> [Spaces -> Material]]
    BY SettingsAssumption DEF Typed, TypeOK
  <1>2. \A n \in Registries : Plain(repo[n]) \/ mirror[n][Cattle] # None
    BY DEF CopiesInv, RegistryOK
  <1>3. pass' = Idle => Pending' = {} /\ pass'.at = "idle"
    BY IdleOK DEF Pending, Range
  <1>4. Dropping => /\ Pending' = {} /\ pass.at = "stages" /\ pass'.agenda = pass.agenda
                    /\ pass'.spec = pass.spec /\ pass'.nv = pass.nv
                    /\ \A n : RepoWrites(n) = {}
    <2> HAVE Dropping
    <2>1. \A w \in Pending : w = Misconfigured \/ w.what \in {"gitRepo", "gitMirror"}
      BY Drops
    <2>2. \A n : RepoWrites(n) = {}
      BY <2>1 DEF RepoWrites, RepoIn, Misconfigured, Write
    <2> QED BY <2>2, Drops
  <1>5. CASE Crash
    BY <1>1, <1>2, <1>3, <1>5, RestedCopies DEF Crash, Retry, charts
  <1>6. CASE StageErrors
    <2>1. Dropping \/ pass' = Idle
      BY <1>6 DEF StageErrors, StageEnds, Dropping, Retry
    <2>2. UNCHANGED <<mirror, repo, known, faults>>
      BY <1>6 DEF StageErrors, charts, bounds
    <2>3. Pending = {Misconfigured}
      <3>1. pass.todo \in Seq(WriteType) /\ pass.todo # <<>> /\ pass.todo[1] = Misconfigured
            /\ 1 \in DOMAIN pass.todo /\ DOMAIN pass.todo = 1..Len(pass.todo)
        BY <1>6, SplitHead, Listed DEF Typed, PassOK, PassType, StageErrors
      <3>2. Len(pass.todo) = 1
        BY <3>1 DEF Typed, TodoOK, Ordered
      <3> QED BY <3>1, <3>2 DEF Pending, Range
    <2>4. \A n : ~Refreshing(n)
      BY <2>3 DEF Refreshing, RepoWrites, RepoIn, ForceRead, Misconfigured, Write
    <2> QED BY <1>2, <1>3, <1>4, <2>1, <2>2, <2>4, RestedCopies
  <1>7. CASE WriteFails
    <2>1. Dropping \/ pass' = Idle
      BY <1>7 DEF WriteFails, StageEnds, Dropping, Retry
    <2>2. repo' = repo /\ known' = known /\ faults' # 0
      BY <1>1, <1>7 DEF WriteFails
    <2>3. \A n \in Registries : Plain(repo[n]) \/ mirror'[n][Cattle] # None
      <3>1. CASE mirror' = mirror
        BY <1>2, <3>1
      <3>2. CASE mirror' # mirror
        <4>1. PICK h : h = Head(pass.todo)
          OBVIOUS
        <4>2. pass.todo # <<>> /\ h.what = "unmirror"
          BY <1>7, <3>2, <4>1 DEF WriteFails
        <4>3. PICK left \in SUBSET Spaces :
                mirror' = [mirror EXCEPT ![h.on] = [m \in Spaces |-> IF m \in left THEN mirror[h.on][m]
                                                                     ELSE None]]
          BY <1>1, <1>7, <3>2, <4>1 DEF WriteFails, On
        <4>4. pass.todo \in Seq(WriteType)
          BY DEF Typed, PassOK, PassType
        <4>5. /\ h \in WriteType /\ h = pass.todo[1] /\ 1 \in DOMAIN pass.todo
              /\ DOMAIN pass.todo = 1..Len(pass.todo) /\ Len(pass.todo) \in Nat
              /\ h \in Pending
          BY <4>1, <4>2, <4>4, SplitHead, Listed DEF Pending
        <4>6. h.on \in Auth /\ h = Write("unmirror", h.on, None)
          BY <4>2, <4>5 DEF WriteType, Write
        <4>7. ASSUME NEW n \in Registries, h.on = n PROVE Plain(repo[n])
          <5>1. Len(pass.todo) = 1
            BY <4>2, <4>5, <4>7 DEF Typed, TodoOK, Ordered
          <5>2. Pending = {h}
            BY <4>5, <5>1 DEF Pending, Range
          <5>3. RepoWrites(n) = {}
            BY <4>2, <5>2 DEF RepoWrites, RepoIn
          <5> QED BY <4>5, <4>6, <4>7, <5>3, Named, Disjoint DEF CopiesInv, UnmirrorOK
        <4>8. ASSUME NEW n \in Registries, h.on # n PROVE mirror'[n] = mirror[n]
          BY <1>1, <4>3, <4>6, <4>8, Named
        <4> QED BY <1>2, <4>7, <4>8
      <3> QED BY <3>1, <3>2
    <2> QED BY <1>3, <1>4, <2>1, <2>2, <2>3, RestedCopies
  <1> QED BY <1>5, <1>6, <1>7

\* Every step keeps what is promised of copies and of what Rancher has read.
LEMMA CopiesStep ==
    ASSUME Typed, CopiesInv, [Next]_vars
    PROVE  CopiesInv'
  <1>1. pass.todo \in Seq(WriteType) /\ pass \in PassType /\ faults \in Nat
    BY SettingsAssumption DEF Typed, TypeOK, PassOK, PassType
  <1>2. pass.at \in {"idle", "wire", "status"} => pass.todo = <<>>
    BY IdleOK DEF Typed, PassOK
  <1>3. CASE Begin
    <2>1. pass.todo = <<>> /\ pass'.todo = <<>> /\ pass'.at = "wire"
      BY <1>3, IdleOK DEF Begin, Idle
    <2> QED BY <1>3, <2>1, KeptCopies DEF Begin, Pending, charts, bounds
  <1>4. CASE AddUser
    BY <1>4, KeptCopies DEF AddUser, Pending, Ahead, charts, bounds
  <1>5. CASE Wire
    <2>1. /\ pass'.todo = pass.todo /\ pass'.spec \in Specs /\ pass'.agenda = Agenda(pass'.spec)
          /\ UNCHANGED <<mirror, repo, known, faults>>
      <3>1. PICK copy : pass' = [pass EXCEPT !.at = "stages", !.spec = copy,
                                             !.agenda = Agenda(copy), !.blind = FALSE]
        BY <1>5 DEF Wire
      <3>2. pass'.todo = pass.todo /\ pass'.spec = copy /\ pass'.agenda = Agenda(copy)
            /\ pass'.at = "stages"
        BY <1>1, <3>1 DEF PassType
      <3>3. PassOK'
        BY PassStep
      <3> QED BY <1>5, <3>2, <3>3 DEF PassOK, Wire, charts, bounds
    <2>2. Stage("nvidia", None) \in Ahead'
      BY <2>1, AgendaListed DEF Ahead
    <2> QED BY <2>1, <2>2, KeptCopies DEF Pending
  <1>6. CASE RefreshClient
    <2>1. pass'.todo = pass.todo /\ pass'.at = "status"
      BY <1>1, <1>6 DEF RefreshClient, PassType
    <2> QED BY <1>6, <2>1, KeptCopies DEF RefreshClient, Pending, charts, bounds
  <1>7. CASE UpdateStatus \/ UpdateStatusFails \/ WireFails
    <2>1. pass.todo = <<>> /\ pass' = Idle
      BY <1>2, <1>7 DEF UpdateStatus, UpdateStatusFails, WireFails, Retry
    <2>2. UNCHANGED <<mirror, repo, known>> /\ (faults' = 0 => faults = 0)
      BY <1>1, <1>7 DEF UpdateStatus, UpdateStatusFails, WireFails, charts, bounds
    <2> QED BY <2>1, <2>2, IdleOK, KeptCopies DEF Pending
  <1>8. CASE AddUserFails
    <2>1. /\ pass'.todo = pass.todo /\ pass'.at = pass.at /\ pass'.agenda = pass.agenda
          /\ pass'.spec = pass.spec /\ pass'.nv = pass.nv
      BY <1>1, <1>8 DEF AddUserFails, PassType
    <2>2. UNCHANGED <<mirror, repo, known>> /\ (faults' = 0 => faults = 0)
      BY <1>1, <1>8 DEF AddUserFails, charts
    <2> QED BY <2>1, <2>2, KeptCopies DEF Pending, Ahead
  <1>9. CASE Users
    BY <1>9, UsersKeep, KeptCopies DEF Pending, Ahead
  <1>10. CASE UNCHANGED vars
    BY <1>10, KeptCopies DEF vars, charts, bounds, Pending, Ahead
  <1>11. CASE StartStage
    BY <1>11, StartCopies
  <1>12. CASE Writing
    BY <1>12, WritingCopies
  <1>13. CASE StageErrors \/ WriteFails \/ Crash
    BY <1>13, EndingCopies
  <1> QED BY <1>3, <1>4, <1>5, <1>6, <1>7, <1>8, <1>9, <1>10, <1>11, <1>12, <1>13
          DEF Next, Controller, Failures, Writing

-----------------------------------------------------------------------------
(* What the pass has behind it.                                            *)

\* Which secret is used is decided by the Settings and the users' secrets alone.
LEMMA SameSecrets ==
    ASSUME UNCHANGED <<spec, cred, raw>>
    PROVE  /\ \A r : InUse(r)' = InUse(r)
           /\ \A r : EffectiveRef(r, spec.ref[r])' = EffectiveRef(r, spec.ref[r])
           /\ LacksUser(spec.ref[Nvidia])' <=> LacksUser(spec.ref[Nvidia])
  BY DEF InUse, EffectiveRef, Content, LacksUser

\* What a repository should be is decided by the Settings and the credentials in
\* use.
LEMMA SameDesired ==
    ASSUME spec' = spec, \A r \in Auth : InUse(r)' = InUse(r)
    PROVE  \A n \in Repos : Desired(n)' = Desired(n)
  <1> SUFFICES ASSUME NEW n \in Repos PROVE Desired(n)' = Desired(n)
    OBVIOUS
  <1>1. /\ n \in Registries => InUse(n)' = InUse(n)
        /\ InUse(Nvidia)' = InUse(Nvidia)
    BY Named
  <1>2. CASE n \in Registries
    BY <1>1, <1>2, Disjoint DEF Desired, Place, At
  <1>3. CASE n \in Openshell
    BY <1>3, Disjoint DEF Desired, Place, At
  <1>4. CASE n \in Fixed
    BY <1>1, <1>4, Disjoint DEF Desired, Place, At
  <1>5. CASE n \in Public
    <2>1. n \notin Registries /\ n \notin Openshell /\ n \notin Gated /\ n \notin Fixed /\ n \in Team
      BY <1>5, Disjoint
    <2> QED BY <1>1, <1>5, <2>1 DEF Desired, Place, At
  <1>6. CASE n \in Gated
    <2>1. n \notin Registries /\ n \notin Openshell /\ n \notin Public /\ n \notin Fixed /\ n \in Team
      BY <1>6, Disjoint
    <2> QED BY <1>1, <1>6, <2>1 DEF Desired, Place, At
  <1> QED BY <1>2, <1>3, <1>4, <1>5, <1>6, Disjoint

\* The repositories that should be there, case by case.
LEMMA DesiredOthers ==
    /\ \A n \in Registries : /\ InUse(n) = None => Desired(n) = None
                             /\ InUse(n) # None => Desired(n) = At(Place, TRUE)
    /\ \A n \in Openshell : Desired(n) = At(Place, FALSE)
  BY Disjoint DEF Desired

\* With a mirror, all of NVIDIA's repositories are the mirror's.
LEMMA DesiredMirrored ==
    ASSUME spec.mirrored, NEW n \in Fixed \cup Team
    PROVE  /\ spec.ref[Nvidia] = None => Desired(n) = At("mirror", FALSE)
           /\ spec.ref[Nvidia] # None /\ InUse(Nvidia) = None => Desired(n) = None
           /\ spec.ref[Nvidia] # None /\ InUse(Nvidia) # None => Desired(n) = At("mirror", TRUE)
  BY Disjoint DEF Desired

\* Without one, fixed and public repositories are read anonymously.
LEMMA DesiredPublic ==
    ASSUME ~spec.mirrored, NEW n \in Fixed \cup Public
    PROVE  /\ spec.ref[Nvidia] = None => Desired(n) = None
           /\ spec.ref[Nvidia] # None => Desired(n) = At("public", FALSE)
  BY Disjoint DEF Desired

\* Without one, gated repositories need a credential.
LEMMA DesiredGated ==
    ASSUME ~spec.mirrored, NEW n \in Gated
    PROVE  /\ spec.ref[Nvidia] = None \/ InUse(Nvidia) = None => Desired(n) = None
           /\ spec.ref[Nvidia] # None /\ InUse(Nvidia) # None => Desired(n) = At("public", TRUE)
  <1>1. n \notin Registries /\ n \notin Openshell /\ n \notin Public /\ n \notin Fixed
    BY Disjoint
  <1> QED BY <1>1 DEF Desired

\* Steps that neither write nor start anything, nor change what is watched.
LEMMA BehindKept ==
    ASSUME Typed, Behind, Pending' = Pending, Ahead' = Ahead, Stops' <=> Stops,
           UNCHANGED <<spec, gitRepo, gitMirror, mirror, repo, swallowed>>,
           \A r \in Auth : InUse(r)' = InUse(r),
           \A r \in Auth : EffectiveRef(r, spec.ref[r])' = EffectiveRef(r, spec.ref[r]),
           LacksUser(spec.ref[Nvidia])' <=> LacksUser(spec.ref[Nvidia]),
           \A g \in Sites : spec.git[g] = "cred" => gitCred'[g] = gitCred[g]
    PROVE  Behind'
  <1>1. \A n \in Repos : Desired(n)' = Desired(n)
    BY SameDesired
  <1>2. \A g \in Sites : GitGoing(g) => GitGoing(g)'
    BY DEF GitGoing, Refused, Want, Stage, Write
  <1>3. \A r \in Auth : MirrorGoing(r) => MirrorGoing(r)'
    BY DEF MirrorGoing, Write
  <1>4. \A n \in Repos : RepoGoing(n) => RepoGoing(n)'
    BY <1>1 DEF RepoGoing, Write
  <1>5. \A r \in Registries : RegistryGoing(r) => RegistryGoing(r)'
    BY <1>3, <1>4, Named DEF RegistryGoing, Stage
  <1>6. OpenshellGoing'
    BY <1>4, Named DEF Behind, OpenshellGoing, Stage
  <1>7. NvidiaGoing'
    BY <1>3, <1>4, Named DEF Behind, NvidiaGoing, Stage
  <1>8. UserGoing'
    BY DEF Behind, UserGoing, Stage
  <1>9. WritesFit'
    <2>1. pass.todo \in Seq(WriteType)
      BY DEF Typed, PassOK, PassType
    <2>2. Pending \subseteq WriteType
      BY <2>1, Listed DEF Pending
    <2>3. \A w \in Pending : /\ w.what = "mirror" => w.on[1] \in Auth
                             /\ w.what = "unmirror" => w.on \in Auth
                             /\ w.what = "repo" => w.on \in Repos
                             /\ w.what \in {"gitRepo", "gitMirror"} => w.on \in Sites
      BY <2>2 DEF WriteType
    <2> QED BY <1>1, <2>3 DEF Behind, WritesFit, Want
  <1> QED BY <1>2, <1>5, <1>6, <1>7, <1>8, <1>9 DEF Behind

\* What may be said of the writes R of a stage when it starts.
Fits(w) ==
    /\ w.what = "gitRepo" => w.value = Want(w.on)
    /\ w.what = "gitMirror" /\ spec.git[w.on] = "cred" => w.value = gitCred[w.on]
    /\ w.what = "mirror" => w.value = InUse(w.on[1])
    /\ w.what = "unmirror" => InUse(w.on) = None
    /\ w.what = "repo" => w.value = Desired(w.on)
FitIn(R) == \A w \in R : Fits(w)

GitIn(R, g) ==
    \/ Refused(g) /\ (g = Fleet => Misconfigured \in R)
    \/ /\ gitRepo[g] = Want(g) \/ Write("gitRepo", g, Want(g)) \in R
       /\ spec.git[g] = "cred" => Write("gitMirror", g, gitCred[g]) \in R

MirrorIn(R, r) ==
    /\ InUse(r) = None => Write("unmirror", r, None) \in R
    /\ InUse(r) # None => \A m \in Spaces : Write("mirror", <<r, m>>, InUse(r)) \in R

DoneIn(R, n) == repo[n] = Desired(n) \/ Write("repo", n, Desired(n)) \in R

\* Writes of what is desired fit the Settings.
LEMMA KindsFit ==
    /\ \A S, url, b : (\A n \in S : Desired(n) = At(url, b)) => FitIn(Applying(S, url, b))
    /\ \A S : (\A n \in S : Desired(n) = None) => FitIn(Deleting(S))
    /\ \A S : FitIn(Forcing(S))
    /\ \A r : FitIn(Copying(r, InUse(r)))
    /\ \A r : InUse(r) = None => FitIn({Write("unmirror", r, None)})
    /\ FitIn({Misconfigured}) /\ FitIn({})
  <1>1. \A S, url, b : (\A n \in S : Desired(n) = At(url, b)) => FitIn(Applying(S, url, b))
    BY DEF FitIn, Fits, Applying, ApplyRepo, Write, At
  <1>2. \A S : (\A n \in S : Desired(n) = None) => FitIn(Deleting(S))
    BY DEF FitIn, Fits, Deleting, Write
  <1>3. \A S : FitIn(Forcing(S))
    BY DEF FitIn, Fits, Forcing, ForceRead, Write
  <1>4. \A r : FitIn(Copying(r, InUse(r)))
    BY DEF FitIn, Fits, Copying, Write
  <1>5. \A r : InUse(r) = None => FitIn({Write("unmirror", r, None)})
    BY DEF FitIn, Fits, Write
  <1>6. FitIn({Misconfigured}) /\ FitIn({})
    BY DEF FitIn, Fits, Misconfigured, Write
  <1> QED BY <1>1, <1>2, <1>3, <1>4, <1>5, <1>6

\* A removal fits the Settings where nothing is desired.
LEMMA ClearedGoes ==
    ASSUME NEW S, NEW T, NEW q, InUse(q) = None, \A n \in S : Desired(n) = None,
           \A n \in T : Desired(n) = None
    PROVE  /\ FitIn(Cleared(S, T, q)) /\ MirrorIn(Cleared(S, T, q), q)
           /\ \A n \in S : DoneIn(Cleared(S, T, q), n)
           /\ \A n \in T : DoneIn(Cleared(S, T, q), n)
  <1>1. FitIn(Deleting(S)) /\ FitIn(Deleting(T)) /\ FitIn({Write("unmirror", q, None)})
    BY KindsFit
  <1>2. FitIn(Cleared(S, T, q))
    BY <1>1 DEF FitIn, Cleared
  <1>3. MirrorIn(Cleared(S, T, q), q)
    BY DEF MirrorIn, Cleared
  <1>4. \A n \in S : DoneIn(Cleared(S, T, q), n)
    BY DEF DoneIn, Cleared, Deleting
  <1>5. \A n \in T : DoneIn(Cleared(S, T, q), n)
    BY DEF DoneIn, Cleared, Deleting
  <1> QED BY <1>2, <1>3, <1>4, <1>5

\* A switch to anonymous access fits the Settings where that is desired.
LEMMA AnonymousGoes ==
    ASSUME NEW S, NEW T, NEW url, NEW q, InUse(q) = None,
           \A n \in S : Desired(n) = At(url, FALSE), \A n \in T : Desired(n) = None
    PROVE  /\ FitIn(Anonymous(S, T, url, q)) /\ MirrorIn(Anonymous(S, T, url, q), q)
           /\ \A n \in S : DoneIn(Anonymous(S, T, url, q), n)
           /\ \A n \in T : DoneIn(Anonymous(S, T, url, q), n)
  <1>1. FitIn(Applying(S, url, FALSE)) /\ FitIn(Deleting(T)) /\ FitIn({Write("unmirror", q, None)})
    BY KindsFit
  <1>2. FitIn(Anonymous(S, T, url, q))
    BY <1>1 DEF FitIn, Anonymous
  <1>3. MirrorIn(Anonymous(S, T, url, q), q)
    BY DEF MirrorIn, Anonymous
  <1>4. \A n \in S : DoneIn(Anonymous(S, T, url, q), n)
    BY DEF DoneIn, Anonymous, Applying, ApplyRepo, At
  <1>5. \A n \in T : DoneIn(Anonymous(S, T, url, q), n)
    BY DEF DoneIn, Anonymous, Deleting
  <1> QED BY <1>2, <1>3, <1>4, <1>5

\* Copying the credential in use and writing repositories as desired fits the
\* Settings.
LEMMA CopiedGoes ==
    ASSUME NEW P, NEW S, NEW F, NEW url, NEW q, NEW v, v = InUse(q), v # None,
           \A n \in P : Desired(n) = At("public", FALSE), \A n \in S : Desired(n) = At(url, TRUE)
    PROVE  /\ FitIn(Copied(P, S, F, url, q, v)) /\ MirrorIn(Copied(P, S, F, url, q, v), q)
           /\ \A n \in P : DoneIn(Copied(P, S, F, url, q, v), n)
           /\ \A n \in S : DoneIn(Copied(P, S, F, url, q, v), n)
  <1>1. FitIn(Copying(q, v)) /\ FitIn(Applying(P, "public", FALSE)) /\ FitIn(Applying(S, url, TRUE))
        /\ FitIn(Forcing(F))
    BY KindsFit
  <1>2. FitIn(Copied(P, S, F, url, q, v))
    BY <1>1 DEF FitIn, Copied
  <1>3. MirrorIn(Copied(P, S, F, url, q, v), q)
    BY DEF MirrorIn, Copied, Copying
  <1>4. \A n \in P : DoneIn(Copied(P, S, F, url, q, v), n)
    BY DEF DoneIn, Copied, Applying, ApplyRepo, At
  <1>5. \A n \in S : DoneIn(Copied(P, S, F, url, q, v), n)
    BY DEF DoneIn, Copied, Applying, ApplyRepo, At
  <1> QED BY <1>2, <1>3, <1>4, <1>5

\* The stages of the git repositories do what is wanted of each of them.
LEMMA GitGoes ==
    ASSUME Typed, pass.spec = spec, spec \in Specs, NEW g \in Sites
    PROVE  FitIn(Range(GitWrites(g))) /\ GitIn(Range(GitWrites(g)), g)
  <1>1. PICK R : R = Range(GitWrites(g))
    OBVIOUS
  <1>2. /\ Wanted(g) = spec.git[g] /\ spec.git[g] \in {"absent", "open", "cred"}
        /\ spec.git[g] = "absent" /\ gitRepo[g] = None => R = {}
        /\ spec.git[g] = "absent" /\ gitRepo[g] # None => R = {Write("gitRepo", g, None)}
        /\ spec.git[g] = "open" => R = {Write("gitRepo", g, "open")}
        /\ spec.git[g] = "cred" /\ gitCred[g] = None => R = {Misconfigured}
        /\ spec.git[g] = "cred" /\ gitCred[g] # None =>
                R = {Write("gitMirror", g, gitCred[g]), Write("gitRepo", g, "cred")}
    BY <1>1, GitListed DEF Typed, Lists, Wanted
  <1>3. FitIn({Misconfigured}) /\ FitIn({})
    BY KindsFit
  <1>4. CASE spec.git[g] = "absent"
    BY <1>1, <1>2, <1>3, <1>4 DEF FitIn, Fits, GitIn, Want, Write
  <1>5. CASE spec.git[g] = "open"
    BY <1>1, <1>2, <1>3, <1>5 DEF FitIn, Fits, GitIn, Want, Write
  <1>6. CASE spec.git[g] = "cred" /\ gitCred[g] = None
    BY <1>1, <1>2, <1>3, <1>6 DEF GitIn, Refused
  <1>7. CASE spec.git[g] = "cred" /\ gitCred[g] # None
    BY <1>1, <1>2, <1>7 DEF FitIn, Fits, GitIn, Want, Write
  <1> QED BY <1>2, <1>4, <1>5, <1>6, <1>7

\* Pruning removes the catalogs that the Settings no longer name.
LEMMA PruneGoes ==
    ASSUME Typed, pass.spec = spec, spec \in Specs
    PROVE  /\ FitIn(Range(PruneWrites))
           /\ \A g \in Catalogs : spec.git[g] = "absent" => GitIn(Range(PruneWrites), g)
  <1>1. PICK R : R = Range(PruneWrites)
    OBVIOUS
  <1>2. R = {Write("gitRepo", c, None) : c \in Stale} \cup {Write("gitMirror", c, None) : c \in Stale}
    BY <1>1, PruneListed DEF Typed, Lists
  <1>3. /\ \A c \in Stale : spec.git[c] = "absent"
        /\ \A c \in Catalogs : spec.git[c] = "absent" /\ gitRepo[c] # None => c \in Stale
    BY DEF Stale, Keep, Wanted
  <1>4. FitIn(R)
    BY <1>2, <1>3 DEF FitIn, Fits, Want, Write
  <1>5. \A g \in Catalogs : spec.git[g] = "absent" => GitIn(R, g)
    BY <1>2, <1>3 DEF GitIn, Want
  <1> QED BY <1>1, <1>4, <1>5

\* A registry's stage brings its copies and repository to what the Settings ask,
\* or reports an error.
LEMMA RegistryGoes ==
    ASSUME Typed, pass.spec = spec, spec \in Specs, NEW r \in Registries
    PROVE  /\ FitIn(Range(RegistryWrites(r)))
           /\ \/ Misconfigured \in Range(RegistryWrites(r))
              \/ MirrorIn(Range(RegistryWrites(r)), r) /\ DoneIn(Range(RegistryWrites(r)), r)
  <1>1. PICK v : v = Content(r, EffectiveRef(r, pass.spec.ref[r]))
    OBVIOUS
  <1>2. PICK R : R = Range(RegistryWrites(r))
    OBVIOUS
  <1>3. v = InUse(r) /\ Url = Place
    BY <1>1 DEF InUse, Url, Place
  <1>4. /\ v = None => Desired(r) = None
        /\ v # None => Desired(r) = At(Place, TRUE)
    BY <1>3, DesiredOthers
  <1>5. CASE v = None
    <2>1. R = Deleting({r}) \cup {Write("unmirror", r, None)}
      BY <1>1, <1>2, <1>5, RegistryListed DEF Lists, Typed
    <2>2. PICK S, T : S = {r} /\ T = {}
      OBVIOUS
    <2>3. R = Cleared(S, T, r)
      BY <2>1, <2>2 DEF Deleting, Cleared
    <2>a. /\ InUse(r) = None
          /\ \A n \in S : Desired(n) = None
          /\ \A n \in T : Desired(n) = None
      BY <1>3, <1>4, <1>5, <2>2
    <2>4. FitIn(R) /\ MirrorIn(R, r) /\ \A n \in S : DoneIn(R, n)
      BY <2>3, <2>a, ClearedGoes
    <2> QED BY <1>2, <2>2, <2>4
  <1>6. CASE v # None /\ r \in badCA
    <2>1. R = {Misconfigured}
      BY <1>1, <1>2, <1>6, RegistryListed DEF Lists, Typed
    <2> QED BY <1>2, <2>1, KindsFit
  <1>7. CASE v # None /\ r \notin badCA
    <2>1. PICK F : F = (IF mirror[r][Cattle] # v THEN {r} ELSE {})
      OBVIOUS
    <2>2. R = Copying(r, v) \cup Applying({r}, Url, TRUE) \cup Forcing(F)
      BY <1>1, <1>2, <1>7, <2>1, RegistryInUse
    <2>3. PICK P, S, url : P = {} /\ S = {r} /\ url = Place
      OBVIOUS
    <2>4. R = Copied(P, S, F, url, r, v)
      BY <1>3, <2>2, <2>3 DEF Applying, Copied
    <2>a. /\ v = InUse(r) /\ v # None
          /\ \A n \in P : Desired(n) = At("public", FALSE)
          /\ \A n \in S : Desired(n) = At(url, TRUE)
      BY <1>3, <1>4, <1>7, <2>3
    <2>5. FitIn(R) /\ MirrorIn(R, r) /\ \A n \in S : DoneIn(R, n)
      BY <2>4, <2>a, CopiedGoes
    <2> QED BY <1>2, <2>3, <2>5
  <1> QED BY <1>5, <1>6, <1>7

\* OpenShell's stage brings its repositories to what the Settings ask.
LEMMA OpenshellGoes ==
    ASSUME Typed, pass.spec = spec, spec \in Specs
    PROVE  FitIn(Range(OpenshellWrites)) /\ \A n \in Openshell : DoneIn(Range(OpenshellWrites), n)
  <1>1. PICK R : R = Range(OpenshellWrites)
    OBVIOUS
  <1>2. R = Applying(Openshell, Place, FALSE)
    BY <1>1, OpenshellListed DEF Lists, Url, Place
  <1>3. \A n \in Openshell : Desired(n) = At(Place, FALSE)
    BY DesiredOthers
  <1>4. FitIn(R)
    BY <1>2, <1>3, KindsFit
  <1>5. \A n \in Openshell : DoneIn(R, n)
    BY <1>2, <1>3 DEF DoneIn, Applying, ApplyRepo, At
  <1> QED BY <1>1, <1>4, <1>5

\* Removing everything of NVIDIA fits Settings that ask for nothing of it.
LEMMA ClearingGoes ==
    ASSUME InUse(Nvidia) = None, \A n \in Fixed : Desired(n) = None,
           \A n \in Team : Desired(n) = None
    PROVE  /\ FitIn(Clearing) /\ MirrorIn(Clearing, Nvidia)
           /\ \A n \in Fixed : DoneIn(Clearing, n)
           /\ \A n \in Team : DoneIn(Clearing, n)
  <1>1. PICK S : S = {n \in Team : repo[n] # None}
    OBVIOUS
  <1>2. PICK R : R = Clearing
    OBVIOUS
  <1>3. R = Cleared(S, Fixed, Nvidia)
    BY <1>1, <1>2 DEF Clearing, Cleared
  <1>4. /\ InUse(Nvidia) = None
        /\ \A n \in S : Desired(n) = None
        /\ \A n \in Fixed : Desired(n) = None
    BY <1>1
  <1>5. /\ FitIn(R) /\ MirrorIn(R, Nvidia)
        /\ \A n \in S : DoneIn(R, n)
        /\ \A n \in Fixed : DoneIn(R, n)
    BY <1>3, <1>4, ClearedGoes
  <1>6. \A n \in Team : n \notin S => DoneIn(R, n)
    BY <1>1 DEF DoneIn
  <1> QED BY <1>2, <1>5, <1>6

\* NVIDIA's stage does all there is to do, or leaves the team's to the next one.
LEMMA NvidiaGoes ==
    ASSUME Typed, pass.spec = spec, spec \in Specs, NEW ref \in Sources \cup {None},
           ref = spec.ref[Nvidia], ref = EffectiveRef(Nvidia, spec.ref[Nvidia]),
           NEW R, R = Range(NvidiaWrites(ref))
    PROVE  /\ FitIn(R)
           /\ \/ Misconfigured \in R
              \/ /\ \A n \in Fixed : DoneIn(R, n)
                 /\ \/ ~spec.mirrored /\ ref # None
                    \/ MirrorIn(R, Nvidia) /\ \A n \in Team : DoneIn(R, n)
  <1>1. PICK v : v = Content(Nvidia, ref)
    OBVIOUS
  <1>2. v = InUse(Nvidia) /\ (ref = None => v = None)
    BY <1>1 DEF InUse, Content
  <1>3. CASE ~spec.mirrored /\ ref = None
    <2>1. R = Clearing
      BY <1>3, NvidiaListed DEF Lists, Typed
    <2>2. \A n \in Fixed : Desired(n) = None
      BY <1>3, DesiredPublic
    <2>3. \A n \in Team : Desired(n) = None
      BY <1>3, DesiredPublic, DesiredGated DEF Team
    <2> QED BY <1>2, <1>3, <2>1, <2>2, <2>3, ClearingGoes
  <1>4. CASE ~spec.mirrored /\ ref # None
    <2>1. R = Applying(Fixed, "public", FALSE)
      BY <1>4, NvidiaListed DEF Lists, Typed
    <2>2. \A n \in Fixed : Desired(n) = At("public", FALSE)
      BY <1>4, DesiredPublic
    <2>3. FitIn(R)
      BY <2>1, <2>2, KindsFit
    <2>4. \A n \in Fixed : DoneIn(R, n)
      BY <2>1, <2>2 DEF DoneIn, Applying, ApplyRepo, At
    <2> QED BY <1>4, <2>3, <2>4
  <1>5. CASE spec.mirrored
    <2>1. R = Range(MirroredWrites(ref))
      BY <1>5, NvidiaListed DEF Typed
    <2>2. PICK S, P, url : S = Fixed \cup Team /\ P = {} /\ url = "mirror"
      OBVIOUS
    <2> SUFFICES FitIn(R) /\ (\/ Misconfigured \in R
                              \/ MirrorIn(R, Nvidia) /\ \A n \in S : DoneIn(R, n))
      BY <2>2
    <2>3. CASE ref = None
      <3>1. R = {Write("unmirror", Nvidia, None)} \cup Applying(S, "mirror", FALSE)
        BY <1>1, <2>1, <2>2, <2>3, MirroredListed DEF Lists, Typed
      <3>2. R = Anonymous(S, P, url, Nvidia)
        BY <2>2, <3>1 DEF Deleting, Anonymous
      <3>3. /\ InUse(Nvidia) = None
            /\ \A n \in S : Desired(n) = At(url, FALSE)
            /\ \A n \in P : Desired(n) = None
        <4>1. \A n \in Fixed \cup Team : Desired(n) = At("mirror", FALSE)
          BY <1>5, <2>3, DesiredMirrored
        <4> QED BY <1>2, <2>2, <2>3, <4>1
      <3>4. FitIn(R) /\ MirrorIn(R, Nvidia) /\ \A n \in S : DoneIn(R, n)
        <4>1. /\ FitIn(Anonymous(S, P, url, Nvidia)) /\ MirrorIn(Anonymous(S, P, url, Nvidia), Nvidia)
              /\ \A n \in S : DoneIn(Anonymous(S, P, url, Nvidia), n)
          BY <3>3, AnonymousGoes
        <4> QED BY <3>2, <4>1
      <3> QED BY <3>4
    <2>4. CASE ref # None /\ v = None
      <3>1. R = Clearing
        BY <1>1, <2>1, <2>4, MirroredListed DEF Lists, Typed
      <3>2. \A n \in Fixed \cup Team : Desired(n) = None
        BY <1>2, <1>5, <2>4, DesiredMirrored
      <3> QED BY <1>2, <2>2, <2>4, <3>1, <3>2, ClearingGoes
    <2>5. CASE ref # None /\ v # None /\ Nvidia \in badCA
      <3>1. R = {Misconfigured}
        BY <1>1, <2>1, <2>5, MirroredListed DEF Lists, Typed
      <3> QED BY <3>1, KindsFit
    <2>6. CASE ref # None /\ v # None /\ Nvidia \notin badCA
      <3>1. PICK F : F = (IF mirror[Nvidia][Cattle] # v THEN S ELSE {})
        OBVIOUS
      <3>2. PICK G : G = IF mirror[Nvidia][Cattle] # v THEN Forcing(S) ELSE {}
        OBVIOUS
      <3>3. R = Copying(Nvidia, v) \cup Applying(S, "mirror", TRUE) \cup G
        BY <1>1, <2>1, <2>2, <2>6, <3>2, MirroredListed DEF Lists, Typed
      <3>4. G = Forcing(F)
        BY <3>1, <3>2 DEF Forcing
      <3>5. R = Copied(P, S, F, url, Nvidia, v)
        BY <2>2, <3>3, <3>4 DEF Applying, Copied
      <3>6. /\ v = InUse(Nvidia) /\ v # None
            /\ \A n \in P : Desired(n) = At("public", FALSE)
            /\ \A n \in S : Desired(n) = At(url, TRUE)
        <4>1. \A n \in Fixed \cup Team : Desired(n) = At("mirror", TRUE)
          BY <1>2, <1>5, <2>6, DesiredMirrored
        <4> QED BY <1>2, <2>2, <2>6, <4>1
      <3>7. FitIn(R) /\ MirrorIn(R, Nvidia) /\ \A n \in S : DoneIn(R, n)
        <4>1. /\ FitIn(Copied(P, S, F, url, Nvidia, v)) /\ MirrorIn(Copied(P, S, F, url, Nvidia, v), Nvidia)
              /\ \A n \in S : DoneIn(Copied(P, S, F, url, Nvidia, v), n)
          BY <3>6, CopiedGoes
        <4> QED BY <3>5, <4>1
      <3> QED BY <3>7
    <2> QED BY <2>3, <2>4, <2>5, <2>6
  <1> QED
    <2>1. spec.mirrored \in BOOLEAN
      BY DEF Specs
    <2> QED BY <1>3, <1>4, <1>5, <2>1

\* The team's stage brings the team's repositories and NVIDIA's copies to what
\* the Settings ask, or reports an error.
LEMMA TeamGoes ==
    ASSUME Typed, pass.spec = spec, spec \in Specs, pass.nv = spec.ref[Nvidia],
           spec.ref[Nvidia] = EffectiveRef(Nvidia, spec.ref[Nvidia]),
           NEW R, R = Range(NGCTeamWrites)
    PROVE  /\ FitIn(R)
           /\ ~spec.mirrored /\ spec.ref[Nvidia] # None =>
                Misconfigured \in R \/ (MirrorIn(R, Nvidia) /\ \A n \in Team : DoneIn(R, n))
  <1>1. PICK v : v = Content(Nvidia, pass.nv)
    OBVIOUS
  <1>2. v = InUse(Nvidia) /\ pass.nv \in Sources \cup {None} /\ spec.mirrored \in BOOLEAN
    BY <1>1, Named DEF InUse, Specs
  <1>3. CASE spec.mirrored \/ pass.nv = None
    <2>1. R = {}
      BY <1>1, <1>2, <1>3, TeamListed DEF Lists, Typed
    <2> QED BY <1>3, <2>1, KindsFit
  <1>4. CASE ~spec.mirrored /\ pass.nv # None /\ v = None
    <2>1. PICK S, url : S = {n \in Team \ Public : repo[n] # None} /\ url = "public"
      OBVIOUS
    <2>2. R = Anonymous(Public, S, url, Nvidia)
      BY <1>1, <1>2, <1>4, <2>1, TeamListed DEF Lists, Typed, Anonymous
    <2>3. \A n \in Gated : Desired(n) = None
      BY <1>2, <1>4, DesiredGated
    <2>4. \A n \in Public : Desired(n) = At("public", FALSE)
      BY <1>4, DesiredPublic
    <2>5. /\ InUse(Nvidia) = None
          /\ \A n \in Public : Desired(n) = At(url, FALSE)
          /\ \A n \in S : Desired(n) = None
      BY <1>2, <1>4, <2>1, <2>3, <2>4 DEF Team
    <2>6. /\ FitIn(R) /\ MirrorIn(R, Nvidia)
          /\ \A n \in Public : DoneIn(R, n)
          /\ \A n \in S : DoneIn(R, n)
      BY <2>2, <2>5, AnonymousGoes
    <2>7. \A n \in Team : n \notin Public /\ n \notin S => DoneIn(R, n)
      BY <2>1, <2>3 DEF DoneIn, Team
    <2> QED BY <2>6, <2>7
  <1>5. CASE ~spec.mirrored /\ pass.nv # None /\ v # None /\ Nvidia \in badCA
    <2>1. R = {Misconfigured}
      BY <1>1, <1>2, <1>5, TeamListed DEF Lists, Typed
    <2> QED BY <2>1, KindsFit
  <1>6. CASE ~spec.mirrored /\ pass.nv # None /\ v # None /\ Nvidia \notin badCA
    <2>1. PICK F, url : F = (IF mirror[Nvidia][Cattle] # v THEN Gated ELSE {}) /\ url = "public"
      OBVIOUS
    <2>2. R = Copying(Nvidia, v) \cup Applying(Public, "public", FALSE)
                \cup Applying(Gated, "public", TRUE) \cup Forcing(F)
      BY <1>1, <1>2, <1>6, <2>1, TeamListed DEF Lists, Typed, Forcing
    <2>3. R = Copied(Public, Gated, F, url, Nvidia, v)
      BY <2>1, <2>2 DEF Copied
    <2>4. \A n \in Gated : Desired(n) = At("public", TRUE)
      BY <1>2, <1>6, DesiredGated
    <2>5. \A n \in Public : Desired(n) = At("public", FALSE)
      BY <1>6, DesiredPublic
    <2>6. /\ v = InUse(Nvidia) /\ v # None
          /\ \A n \in Public : Desired(n) = At("public", FALSE)
          /\ \A n \in Gated : Desired(n) = At(url, TRUE)
      BY <1>2, <1>6, <2>1, <2>4, <2>5
    <2>7. /\ FitIn(R) /\ MirrorIn(R, Nvidia)
          /\ \A n \in Public : DoneIn(R, n)
          /\ \A n \in Gated : DoneIn(R, n)
      BY <2>3, <2>6, CopiedGoes
    <2> QED BY <2>7 DEF Team
  <1> QED BY <1>2, <1>3, <1>4, <1>5, <1>6

\* A stage that starts is about to do what the Settings ask for.
LEMMA BehindStarts ==
    ASSUME Typed, GoingOK, StartStage
    PROVE  /\ Behind'
           /\ Stage("nvidia", None) \notin Ahead' => pass'.nv = spec.ref[Nvidia]
  <1>1. PICK s \in StageType, ref \in Sources \cup {None} :
             /\ s = Head(pass.agenda) /\ ref = EffectiveRef(Nvidia, pass.spec.ref[Nvidia])
             /\ pass.at = "stages" /\ pass.spec \in Specs
             /\ pass.todo = <<>> /\ pass.agenda # <<>>
             /\ pass'.at = "stages" /\ pass'.spec = pass.spec /\ pass'.stage = s
             /\ pass'.agenda = Tail(pass.agenda) /\ pass'.todo = Writes(s, ref)
             /\ pass'.nv = (IF s.name = "nvidia" THEN ref ELSE pass.nv)
             /\ swallowed' = (IF pass.blind THEN swallowed \cup Leaves(s) ELSE swallowed \ Leaves(s))
    BY StageStarts
  <1>2. /\ pass.spec = spec /\ spec \in Specs /\ Behind
        /\ Stage("nvidia", None) \notin Ahead => pass.nv = spec.ref[Nvidia]
    BY <1>1 DEF GoingOK
  <1>3. ref = spec.ref[Nvidia] /\ ref = EffectiveRef(Nvidia, spec.ref[Nvidia])
    BY <1>1, <1>2, Named DEF Behind
  <1>4. PICK R : R = Range(Writes(s, ref))
    OBVIOUS
  <1>5. Pending = {} /\ Pending' = R
    BY <1>1, <1>4 DEF Pending, Range
  <1>6. /\ pass.agenda \in Seq(StageType) /\ Ahead = {s} \cup Ahead'
        /\ s = pass.agenda[1] /\ 1 \in DOMAIN pass.agenda
        /\ \A i \in DOMAIN pass.agenda : pass.agenda[i] \in Ahead
    <2>1. pass.agenda \in Seq(StageType)
      BY DEF Typed, PassOK, PassType
    <2> QED BY <1>1, <2>1, SplitHead, Listed DEF Ahead
  <1>7. s.name = "team" => Ahead = {s}
    <2> HAVE s.name = "team"
    <2>1. 1 = Len(pass.agenda) /\ DOMAIN pass.agenda = 1..Len(pass.agenda)
      BY <1>6, Listed DEF Typed, AgendaOK
    <2> QED BY <1>6, <2>1 DEF Ahead, Range
  <1>8. UNCHANGED <<spec, cred, raw, gitCred, gitRepo, gitMirror, mirror, repo>>
    BY DEF StartStage, secrets, git, charts
  <1>9. /\ \A r : InUse(r)' = InUse(r)
        /\ \A r : EffectiveRef(r, spec.ref[r])' = EffectiveRef(r, spec.ref[r])
        /\ LacksUser(spec.ref[Nvidia])' <=> LacksUser(spec.ref[Nvidia])
    BY <1>8, SameSecrets
  <1>10. \A n \in Repos : Desired(n)' = Desired(n)
    BY <1>8, <1>9, SameDesired
  <1>11. ~Stops /\ (s.name \notin {"git", "prune"} \/ s.on = Fleet =>
                      (Misconfigured \in R => Stops'))
    BY <1>1, <1>5 DEF Stops, Swallows, Misconfigured, Write
  <1>12. \A x \in Ahead : x = s \/ x \in Ahead'
    BY <1>6
  \* Each repository, copy and site in turn.
  <1>13. \A r \in Auth : /\ MirrorGoing(r) => MirrorGoing(r)'
                         /\ MirrorIn(R, r) => MirrorGoing(r)'
    BY <1>5, <1>8, <1>9 DEF MirrorGoing, MirrorIn, Write
  <1>14. \A n \in Repos : /\ RepoGoing(n) => RepoGoing(n)'
                          /\ DoneIn(R, n) => RepoGoing(n)'
    BY <1>5, <1>8, <1>10 DEF RepoGoing, DoneIn, Write
  <1>15. \A g \in Sites : s = Stage("git", g) => GitGoing(g)'
    <2> SUFFICES ASSUME NEW g \in Sites, s = Stage("git", g) PROVE GitGoing(g)'
      OBVIOUS
    <2>1. R = Range(GitWrites(g))
      BY <1>4 DEF Writes, Stage
    <2>2. GitIn(R, g)
      BY <1>2, <2>1, GitGoes
    <2>3. g = Fleet => s.on = Fleet
      BY DEF Stage
    <2> QED BY <1>5, <1>8, <1>11, <2>2, <2>3 DEF GitIn, GitGoing, Refused, Want, Write
  <1>16. \A g \in Sites : s.name = "prune" /\ g # Fleet /\ spec.git[g] = "absent" => GitGoing(g)'
    <2> SUFFICES ASSUME NEW g \in Sites, s.name = "prune", g # Fleet, spec.git[g] = "absent"
                 PROVE GitGoing(g)'
      OBVIOUS
    <2>1. R = Range(PruneWrites) /\ g \in Catalogs
      BY <1>4 DEF Writes, Sites
    <2>2. GitIn(R, g)
      BY <1>2, <2>1, PruneGoes
    <2> QED BY <1>5, <1>8, <2>2 DEF GitIn, GitGoing, Refused, Want, Write
  <1>17. \A g \in Sites : GitGoing(g)'
    <2> SUFFICES ASSUME NEW g \in Sites, s # Stage("git", g),
                        ~(s.name = "prune" /\ g # Fleet /\ spec.git[g] = "absent")
                 PROVE  GitGoing(g)'
      BY <1>15, <1>16
    <2>1. g \notin Leaves(s)
      <3>1. s.name = "git" => Leaves(s) = {s.on} /\ s.on # g
        BY DEF Leaves, StageType, Stage
      <3>2. s.name = "prune" => Leaves(s) = Catalogs \ Keep /\ g \notin Catalogs \ Keep
        BY <1>2, Named DEF Leaves, Keep, Wanted
      <3>3. s.name \notin {"git", "prune"} => g \notin Leaves(s)
        BY Named DEF Leaves
      <3> QED BY <3>1, <3>2, <3>3
    <2>2. g \in swallowed => g \in swallowed'
      BY <1>1, <2>1
    <2>3. Stage("prune", None) \in Ahead /\ g # Fleet /\ spec.git[g] = "absent" =>
            Stage("prune", None) \in Ahead'
      BY <1>12 DEF Stage
    <2>4. Stage("git", g) \in Ahead => Stage("git", g) \in Ahead'
      BY <1>12
    <2>5. GitGoing(g)
      BY <1>2 DEF Behind
    <2> QED BY <1>5, <1>8, <1>11, <2>2, <2>3, <2>4, <2>5 DEF GitGoing, Refused, Want, Stage, Write
  <1>18. \A r \in Registries : RegistryGoing(r)'
    <2> SUFFICES ASSUME NEW r \in Registries PROVE RegistryGoing(r)'
      OBVIOUS
    <2>1. CASE s = Stage("registry", r)
      <3>1. R = Range(RegistryWrites(r))
        BY <1>4, <2>1 DEF Writes, Stage
      <3>2. Misconfigured \in R \/ (MirrorIn(R, r) /\ DoneIn(R, r))
        BY <1>2, <3>1, RegistryGoes
      <3>3. Misconfigured \in R => Stops'
        BY <1>11, <2>1 DEF Stage
      <3> QED BY <1>13, <1>14, <3>2, <3>3, Named DEF RegistryGoing
    <2>2. CASE s # Stage("registry", r)
      <3>1. Stage("registry", r) \in Ahead \/ (MirrorGoing(r) /\ RepoGoing(r))
        BY <1>2, <1>11 DEF Behind, RegistryGoing
      <3>2. Stage("registry", r) \in Ahead => Stage("registry", r) \in Ahead'
        BY <1>12, <2>2
      <3> QED BY <1>13, <1>14, <3>1, <3>2, Named DEF RegistryGoing, Stage
    <2> QED BY <2>1, <2>2
  <1>19. OpenshellGoing'
    <2>1. CASE s = Stage("openshell", None)
      <3>1. R = Range(OpenshellWrites)
        BY <1>4, <2>1 DEF Writes, Stage
      <3>2. \A n \in Openshell : DoneIn(R, n)
        BY <1>2, <3>1, OpenshellGoes
      <3> QED BY <1>14, <3>2, Named DEF OpenshellGoing
    <2>2. CASE s # Stage("openshell", None)
      <3>1. Stage("openshell", None) \in Ahead \/ \A n \in Openshell : RepoGoing(n)
        BY <1>2 DEF Behind, OpenshellGoing
      <3>2. Stage("openshell", None) \in Ahead => Stage("openshell", None) \in Ahead'
        BY <1>12, <2>2
      <3> QED BY <1>14, <3>1, <3>2, Named DEF OpenshellGoing, Stage
    <2> QED BY <2>1, <2>2
  <1>20. s.name = "nvidia" <=> s = Stage("nvidia", None)
    BY DEF StageType, Stage
  <1>21. NvidiaGoing'
    <2>1. CASE s.name = "nvidia"
      <3>1. R = Range(NvidiaWrites(ref))
        BY <1>4, <2>1 DEF Writes
      <3>2. \/ Misconfigured \in R
            \/ /\ \A n \in Fixed : DoneIn(R, n)
               /\ \/ ~spec.mirrored /\ ref # None
                  \/ MirrorIn(R, Nvidia) /\ \A n \in Team : DoneIn(R, n)
        BY <1>2, <1>3, <3>1, NvidiaGoes
      <3>3. Misconfigured \in R => Stops'
        BY <1>11, <2>1
      <3>4. Stage("team", None) \in Ahead'
        <4>1. Stage("team", None) \in Ahead
          BY <1>6, <1>20, <2>1 DEF Typed, AgendaOK
        <4> QED BY <1>12, <2>1, <4>1 DEF Stage
      <3>5. (\A n \in Fixed : DoneIn(R, n)) => (\A n \in Fixed : RepoGoing(n)')
        BY <1>14, Named
      <3>6. (\A n \in Team : DoneIn(R, n)) => (\A n \in Team : RepoGoing(n)')
        BY <1>14, Named
      <3>7. MirrorIn(R, Nvidia) => MirrorGoing(Nvidia)'
        BY <1>13, Named
      <3>8. ~spec.mirrored /\ ref # None => (~spec.mirrored /\ spec.ref[Nvidia] # None)'
        BY <1>3, <1>8
      <3> QED BY <3>2, <3>3, <3>4, <3>5, <3>6, <3>7, <3>8 DEF NvidiaGoing, Stage
    <2>2. CASE s.name = "team"
      <3>1. R = Range(NGCTeamWrites)
        BY <1>4, <2>2 DEF Writes
      <3>2. Stage("nvidia", None) \notin Ahead
        BY <1>7, <2>2 DEF Stage
      <3>3. /\ \A n \in Fixed : RepoGoing(n)
            /\ \/ ~spec.mirrored /\ spec.ref[Nvidia] # None
               \/ MirrorGoing(Nvidia) /\ \A n \in Team : RepoGoing(n)
        BY <1>2, <1>11, <3>2 DEF Behind, NvidiaGoing
      <3>4. ~spec.mirrored /\ spec.ref[Nvidia] # None =>
               Misconfigured \in R \/ (MirrorIn(R, Nvidia) /\ \A n \in Team : DoneIn(R, n))
        BY <1>2, <1>3, <3>1, <3>2, TeamGoes
      <3>5. Misconfigured \in R => Stops'
        BY <1>11, <2>2
      <3>6. /\ \A n \in Fixed : RepoGoing(n)'
            /\ (\A n \in Team : RepoGoing(n)) => (\A n \in Team : RepoGoing(n)')
            /\ (\A n \in Team : DoneIn(R, n)) => (\A n \in Team : RepoGoing(n)')
        BY <1>14, <3>3, Named
      <3>7. MirrorGoing(Nvidia) \/ MirrorIn(R, Nvidia) => MirrorGoing(Nvidia)'
        BY <1>13, Named
      <3> QED BY <3>3, <3>4, <3>5, <3>6, <3>7 DEF NvidiaGoing
    <2>3. CASE s.name \notin {"nvidia", "team"}
      <3>1. \/ Stage("nvidia", None) \in Ahead
            \/ /\ \A n \in Fixed : RepoGoing(n)
               /\ \/ ~spec.mirrored /\ spec.ref[Nvidia] # None /\ Stage("team", None) \in Ahead
                  \/ MirrorGoing(Nvidia) /\ \A n \in Team : RepoGoing(n)
        BY <1>2, <1>11 DEF Behind, NvidiaGoing
      <3>2. /\ Stage("nvidia", None) \in Ahead => Stage("nvidia", None) \in Ahead'
            /\ Stage("team", None) \in Ahead => Stage("team", None) \in Ahead'
        BY <1>12, <2>3 DEF Stage
      <3>3. /\ (\A n \in Fixed : RepoGoing(n)) => (\A n \in Fixed : RepoGoing(n)')
            /\ (\A n \in Team : RepoGoing(n)) => (\A n \in Team : RepoGoing(n)')
        BY <1>14, Named
      <3>4. MirrorGoing(Nvidia) => MirrorGoing(Nvidia)'
        BY <1>13, Named
      <3>5. ~spec.mirrored /\ spec.ref[Nvidia] # None => (~spec.mirrored /\ spec.ref[Nvidia] # None)'
        BY <1>8
      <3> QED BY <3>1, <3>2, <3>3, <3>4, <3>5 DEF NvidiaGoing, Stage
    <2> QED BY <2>1, <2>2, <2>3
  <1>22. UserGoing'
    <2> SUFFICES ASSUME Stage("nvidia", None) \notin Ahead', LacksUser(spec.ref[Nvidia])
                 PROVE  Nvidia \in swallowed'
      BY <1>8, <1>9 DEF UserGoing, Stage
    <2>1. CASE s.name = "nvidia"
      <3>1. NextStageIs("nvidia")
        BY <1>1, <2>1 DEF NextStageIs
      <3>2. ~Looks
        BY DEF StartStage
      <3>3. pass.blind
        BY <1>2, <3>1, <3>2 DEF Looks
      <3>4. Nvidia \in Leaves(s)
        BY <2>1 DEF Leaves
      <3> QED BY <1>1, <3>3, <3>4
    <2>2. CASE s.name # "nvidia"
      <3>1. Nvidia \in swallowed
        BY <1>2, <1>12, <1>20, <2>2 DEF Behind, UserGoing
      <3>2. Nvidia \notin Leaves(s)
        <4>1. s.name = "git" => s.on \in Sites /\ Leaves(s) = {s.on}
          BY DEF StageType, Leaves
        <4>2. s.name = "prune" => Leaves(s) \subseteq Sites
          BY Named DEF Leaves
        <4>3. s.name \notin {"git", "prune", "nvidia"} => Leaves(s) = {}
          BY DEF Leaves
        <4> QED BY <2>2, <4>1, <4>2, <4>3, Named
      <3> QED BY <1>1, <3>1, <3>2
    <2> QED BY <2>1, <2>2
  <1>23. FitIn(R)
    <2>1. CASE s.name = "git"
      <3>1. s.on \in Sites /\ R = Range(GitWrites(s.on))
        BY <1>4, <2>1 DEF StageType, Writes
      <3> QED BY <1>2, <3>1, GitGoes
    <2>2. CASE s.name = "prune"
      BY <1>2, <1>4, <2>2, PruneGoes DEF Writes
    <2>3. CASE s.name = "registry"
      <3>1. s.on \in Registries /\ R = Range(RegistryWrites(s.on))
        BY <1>4, <2>3 DEF StageType, Writes
      <3> QED BY <1>2, <3>1, RegistryGoes
    <2>4. CASE s.name = "openshell"
      BY <1>2, <1>4, <2>4, OpenshellGoes DEF Writes
    <2>5. CASE s.name = "nvidia"
      <3>1. R = Range(NvidiaWrites(ref))
        BY <1>4, <2>5 DEF Writes
      <3> QED BY <1>2, <1>3, <3>1, NvidiaGoes
    <2>6. CASE s.name = "team"
      <3>1. R = Range(NGCTeamWrites)
        BY <1>4, <2>6 DEF Writes
      <3>2. Stage("nvidia", None) \notin Ahead
        BY <1>7, <2>6 DEF Stage
      <3> QED BY <1>2, <1>3, <3>1, <3>2, TeamGoes
    <2> QED BY <2>1, <2>2, <2>3, <2>4, <2>5, <2>6 DEF StageType
  <1>24. WritesFit'
    <2>1. Writes(s, ref) \in Seq(WriteType)
      BY <1>1, StageListed DEF Typed, Lists
    <2>2. R \subseteq WriteType
      BY <1>4, <2>1, Listed
    <2>3. \A w \in R : w.what = "repo" => w.on \in Repos
      BY <2>2 DEF WriteType
    <2> QED BY <1>5, <1>8, <1>9, <1>10, <1>23, <2>3 DEF WritesFit, FitIn, Fits, Want
  <1>25. Stage("nvidia", None) \notin Ahead' => pass'.nv = spec.ref[Nvidia]
    BY <1>1, <1>2, <1>3, <1>12, <1>20
  <1>26. \A r \in Auth : (spec.ref[r] = EffectiveRef(r, spec.ref[r]))'
    BY <1>2, <1>8, <1>9 DEF Behind
  <1> QED BY <1>17, <1>18, <1>19, <1>21, <1>22, <1>24, <1>25, <1>26 DEF Behind

\* A write that succeeds does what it is about.
LEMMA BehindWriting ==
    ASSUME Typed, Behind, NEW h \in WriteType, Effect(h), ~due'
    PROVE  Behind'
  <1>1. /\ Advancing /\ h = Head(pass.todo) /\ h # Misconfigured /\ gitRepo' = gitRepo
        /\ gitMirror' = IF h.what = "gitMirror" THEN [gitMirror EXCEPT ![h.on] = h.value]
                        ELSE gitMirror
        /\ mirror' = IF h.what = "mirror" THEN [mirror EXCEPT ![h.on[1]][h.on[2]] = h.value]
                     ELSE IF h.what = "unmirror"
                          THEN [mirror EXCEPT ![h.on] = [m \in Spaces |-> None]] ELSE mirror
        /\ repo' = IF h.what = "repo" THEN [repo EXCEPT ![h.on] = h.value] ELSE repo
        /\ UNCHANGED <<spec, secrets, holder, observed, swallowed, bounds>>
    BY DEF Effect
  <1>2. h.what = "gitRepo" => gitRepo' = [gitRepo EXCEPT ![h.on] = h.value]
    BY DEF Effect
  <1>3. PICK P : P = Pending'
    OBVIOUS
  <1>4. /\ Pending = {h} \cup P
        /\ pass'.agenda = pass.agenda /\ pass'.stage = pass.stage
    BY <1>1, <1>3, Advances
  <1>5. /\ gitRepo \in [Sites -> {None, "open", "cred"}] /\ gitMirror \in [Sites -> Material]
        /\ mirror \in [Auth -> [Spaces -> Material]] /\ repo \in [Repos -> RepoSpecs]
    BY DEF Typed, TypeOK
  <1>6. /\ h.what = "repo" => h.on \in Repos
        /\ h.what = "unmirror" => h.on \in Auth
        /\ h.what = "mirror" => /\ h.on[1] \in Auth /\ h.on[2] \in Spaces
                                /\ h.on = <<h.on[1], h.on[2]>>
        /\ h.what \in {"gitRepo", "gitMirror"} => h.on \in Sites
    BY DEF WriteType
  <1>7. /\ h.what = "gitRepo" => h.value = Want(h.on)
        /\ h.what = "gitMirror" /\ spec.git[h.on] = "cred" => h.value = gitCred[h.on]
        /\ h.what = "mirror" => h.value = InUse(h.on[1])
        /\ h.what = "unmirror" => InUse(h.on) = None
        /\ h.what = "repo" => h.value = Desired(h.on)
    BY <1>4 DEF Behind, WritesFit
  <1>8. /\ UNCHANGED <<spec, cred, raw, gitCred, swallowed>> /\ Ahead' = Ahead
        /\ \A r : InUse(r)' = InUse(r)
        /\ \A r : EffectiveRef(r, spec.ref[r])' = EffectiveRef(r, spec.ref[r])
        /\ LacksUser(spec.ref[Nvidia])' <=> LacksUser(spec.ref[Nvidia])
    BY <1>1, <1>4, SameSecrets DEF secrets, Ahead
  <1>9. \A n \in Repos : Desired(n)' = Desired(n)
    BY <1>8, SameDesired
  <1>10. Stops' <=> Stops
    BY <1>1, <1>3, <1>4 DEF Stops, Swallows, Misconfigured, Write
  <1>11. \A g \in Sites : GitGoing(g) => GitGoing(g)'
    <2> SUFFICES ASSUME NEW g \in Sites, GitGoing(g) PROVE GitGoing(g)'
      OBVIOUS
    <2>1. CASE gitRepo[g] = Want(g) \/ Write("gitRepo", g, Want(g)) \in Pending
      <3>1. gitRepo'[g] = Want(g) \/ Write("gitRepo", g, Want(g)) \in P
        <4>1. CASE h = Write("gitRepo", g, Want(g))
          BY <1>2, <1>5, <4>1 DEF Write
        <4> QED BY <1>1, <1>4, <2>1, <4>1
      <3>2. spec.git[g] = "cred" /\ (gitMirror[g] = gitCred[g] \/ Write("gitMirror", g, gitCred[g]) \in Pending)
              => gitMirror'[g] = gitCred[g] \/ Write("gitMirror", g, gitCred[g]) \in P
        <4> SUFFICES ASSUME spec.git[g] = "cred",
                            gitMirror[g] = gitCred[g] \/ Write("gitMirror", g, gitCred[g]) \in Pending,
                            Write("gitMirror", g, gitCred[g]) \notin P
                     PROVE  gitMirror'[g] = gitCred[g]
          OBVIOUS
        <4>1. CASE h.what = "gitMirror" /\ h.on = g
          BY <1>1, <1>5, <1>7, <4>1
        <4>2. CASE ~(h.what = "gitMirror" /\ h.on = g)
          <5>1. h # Write("gitMirror", g, gitCred[g])
            BY <4>2 DEF Write
          <5>2. gitMirror[g] = gitCred[g]
            BY <1>4, <5>1
          <5> QED BY <1>1, <1>5, <1>6, <4>2, <5>2
        <4> QED BY <4>1, <4>2
      <3> QED BY <1>3, <1>8, <1>10, <3>1, <3>2 DEF GitGoing, Refused, Want, Stage, Write
    <2>2. CASE ~(gitRepo[g] = Want(g) \/ Write("gitRepo", g, Want(g)) \in Pending)
      BY <1>8, <1>10, <2>2 DEF GitGoing, Refused, Want, Stage
    <2> QED BY <2>1, <2>2
  <1>12. \A r \in Auth : MirrorGoing(r) => MirrorGoing(r)'
    <2> SUFFICES ASSUME NEW r \in Auth, MirrorGoing(r) PROVE MirrorGoing(r)'
      OBVIOUS
    <2>1. CASE InUse(r) = None
      <3>1. mirror[r] = [m \in Spaces |-> None] \/ Write("unmirror", r, None) \in Pending
        BY <2>1 DEF MirrorGoing
      <3>2. mirror'[r] = [m \in Spaces |-> None] \/ Write("unmirror", r, None) \in P
        <4>1. CASE h = Write("unmirror", r, None)
          BY <1>1, <1>5, <4>1 DEF Write
        <4>2. CASE h # Write("unmirror", r, None) /\ mirror[r] = [m \in Spaces |-> None]
          <5>1. CASE h.what = "mirror"
            <6>1. mirror' = [mirror EXCEPT ![h.on[1]][h.on[2]] = h.value]
              BY <1>1, <5>1
            <6>2. CASE h.on[1] = r
              <7>1. mirror'[r] = [mirror[r] EXCEPT ![h.on[2]] = None]
                BY <1>5, <1>6, <1>7, <2>1, <5>1, <6>1, <6>2
              <7> QED BY <4>2, <7>1
            <6>3. CASE h.on[1] # r
              BY <1>5, <1>6, <4>2, <5>1, <6>1, <6>3
            <6> QED BY <6>2, <6>3
          <5>2. CASE h.what = "unmirror"
            BY <1>1, <1>5, <1>6, <4>2, <5>2
          <5>3. CASE h.what # "mirror" /\ h.what # "unmirror"
            BY <1>1, <4>2, <5>3
          <5> QED BY <5>1, <5>2, <5>3
        <4> QED BY <1>4, <3>1, <4>1, <4>2
      <3> QED BY <1>3, <1>8, <2>1, <3>2 DEF MirrorGoing, Write
    <2>2. CASE InUse(r) # None
      <3> SUFFICES ASSUME NEW m \in Spaces
                   PROVE  mirror'[r][m] = InUse(r) \/ Write("mirror", <<r, m>>, InUse(r)) \in P
        BY <1>3, <1>8, <2>2 DEF MirrorGoing, Write
      <3>1. mirror[r][m] = InUse(r) \/ Write("mirror", <<r, m>>, InUse(r)) \in Pending
        BY <2>2 DEF MirrorGoing
      <3>2. CASE h.what = "mirror"
        <4>1. mirror' = [mirror EXCEPT ![h.on[1]][h.on[2]] = h.value]
          BY <1>1, <3>2
        <4>2. CASE h.on = <<r, m>>
          <5>1. mirror'[r][m] = h.value
            BY <1>5, <4>1, <4>2
          <5> QED BY <1>7, <3>2, <4>2, <5>1
        <4>3. CASE h.on # <<r, m>>
          <5>1. h.on[1] # r \/ h.on[2] # m
            BY <1>6, <3>2, <4>3
          <5>2. mirror'[r][m] = mirror[r][m]
            BY <1>5, <1>6, <3>2, <4>1, <5>1
          <5>3. h # Write("mirror", <<r, m>>, InUse(r))
            BY <4>3 DEF Write
          <5> QED BY <1>4, <3>1, <5>2, <5>3
        <4> QED BY <4>2, <4>3
      <3>3. CASE h.what = "unmirror"
        <4>1. h.on # r
          BY <1>7, <2>2, <3>3
        <4>2. mirror'[r] = mirror[r]
          BY <1>1, <1>5, <1>6, <3>3, <4>1
        <4>3. h # Write("mirror", <<r, m>>, InUse(r))
          BY <3>3 DEF Write
        <4> QED BY <1>4, <3>1, <4>2, <4>3
      <3>4. CASE h.what # "mirror" /\ h.what # "unmirror"
        <4>1. mirror' = mirror /\ h # Write("mirror", <<r, m>>, InUse(r))
          BY <1>1, <3>4 DEF Write
        <4> QED BY <1>4, <3>1, <4>1
      <3> QED BY <3>2, <3>3, <3>4
    <2> QED BY <2>1, <2>2
  <1>13. \A n \in Repos : RepoGoing(n) => RepoGoing(n)'
    <2> SUFFICES ASSUME NEW n \in Repos, RepoGoing(n), Write("repo", n, Desired(n)) \notin P
                 PROVE  repo'[n] = Desired(n)
      BY <1>3, <1>9 DEF RepoGoing, Write
    <2>1. CASE h.what = "repo" /\ h.on = n
      BY <1>1, <1>5, <1>7, <2>1
    <2>2. CASE ~(h.what = "repo" /\ h.on = n)
      <3>1. h # Write("repo", n, Desired(n))
        BY <2>2 DEF Write
      <3>2. repo[n] = Desired(n)
        BY <1>4, <3>1 DEF RepoGoing
      <3> QED BY <1>1, <1>5, <1>6, <2>2, <3>2
    <2> QED BY <2>1, <2>2
  <1>14. \A r \in Registries : RegistryGoing(r)'
    BY <1>8, <1>10, <1>12, <1>13, Named DEF Behind, RegistryGoing, Stage
  <1>15. OpenshellGoing'
    BY <1>8, <1>13, Named DEF Behind, OpenshellGoing, Stage
  <1>16. NvidiaGoing'
    <2>1. MirrorGoing(Nvidia) => MirrorGoing(Nvidia)'
      BY <1>12, Named
    <2>2. /\ \A n \in Fixed : RepoGoing(n) => RepoGoing(n)'
          /\ \A n \in Team : RepoGoing(n) => RepoGoing(n)'
      BY <1>13, Named
    <2> QED BY <1>8, <1>10, <2>1, <2>2 DEF Behind, NvidiaGoing, Stage
  <1>17. UserGoing'
    BY <1>8 DEF Behind, UserGoing, Stage
  <1>18. WritesFit'
    <2>1. pass.todo \in Seq(WriteType)
      BY DEF Typed, PassOK, PassType
    <2>2. Pending \subseteq WriteType
      BY <2>1, Listed DEF Pending
    <2>3. \A w \in P : w \in Pending /\ (w.what = "repo" => w.on \in Repos)
      BY <1>4, <2>2 DEF WriteType
    <2> QED BY <1>3, <1>8, <1>9, <2>3 DEF Behind, WritesFit, Want
  <1>19. \A r \in Auth : (spec.ref[r] = EffectiveRef(r, spec.ref[r]))'
    BY <1>8 DEF Behind
  <1> QED BY <1>11, <1>14, <1>15, <1>16, <1>17, <1>18, <1>19 DEF Behind

\* An error that is swallowed is noted for whatever the stage leaves undone.
LEMMA BehindDrops ==
    ASSUME Typed, Behind, Dropping, swallowed' = swallowed \cup Leaves(pass.stage),
           UNCHANGED <<spec, cred, raw, gitCred, gitRepo, gitMirror, mirror, repo>>
    PROVE  Behind'
  <1>1. /\ Pending' = {} /\ Ahead' = Ahead
        /\ \A w \in Pending : \/ w = Misconfigured
                              \/ /\ w.what \in {"gitRepo", "gitMirror"}
                                 /\ w.on \in Leaves(pass.stage)
    BY Drops DEF Ahead
  <1>2. ~Stops
    BY DEF Stops, Dropping
  <1>3. /\ \A g, v : Write("gitRepo", g, v) \in Pending => g \in swallowed'
        /\ \A g, v : Write("gitMirror", g, v) \in Pending => g \in swallowed'
        /\ \A r, v : Write("mirror", r, v) \notin Pending
        /\ \A r, v : Write("unmirror", r, v) \notin Pending
        /\ \A r, v : Write("repo", r, v) \notin Pending
    BY <1>1 DEF Write, Misconfigured
  <1>4. /\ \A r : InUse(r)' = InUse(r)
        /\ \A r : EffectiveRef(r, spec.ref[r])' = EffectiveRef(r, spec.ref[r])
        /\ LacksUser(spec.ref[Nvidia])' <=> LacksUser(spec.ref[Nvidia])
    BY SameSecrets
  <1>5. \A n \in Repos : Desired(n)' = Desired(n)
    BY <1>4, SameDesired
  <1>6. \A g \in Sites : GitGoing(g) => GitGoing(g)'
    BY <1>1, <1>2, <1>3 DEF GitGoing, Refused, Want, Stage
  <1>7. \A r \in Auth : MirrorGoing(r) => MirrorGoing(r)'
    BY <1>3, <1>4 DEF MirrorGoing
  <1>8. \A n \in Repos : RepoGoing(n) => RepoGoing(n)'
    BY <1>3, <1>5 DEF RepoGoing
  <1>9. \A r \in Registries : RegistryGoing(r)'
    BY <1>1, <1>2, <1>7, <1>8, Named DEF Behind, RegistryGoing, Stage
  <1>10. OpenshellGoing'
    BY <1>1, <1>8, Named DEF Behind, OpenshellGoing, Stage
  <1>11. NvidiaGoing'
    <2>1. MirrorGoing(Nvidia) => MirrorGoing(Nvidia)'
      BY <1>7, Named
    <2>2. /\ \A n \in Fixed : RepoGoing(n) => RepoGoing(n)'
          /\ \A n \in Team : RepoGoing(n) => RepoGoing(n)'
      BY <1>8, Named
    <2> QED BY <1>1, <1>2, <2>1, <2>2 DEF Behind, NvidiaGoing, Stage
  <1>12. UserGoing'
    BY <1>1, <1>4 DEF Behind, UserGoing, Stage
  <1>13. WritesFit'
    BY <1>1 DEF WritesFit
  <1>14. \A r \in Auth : (spec.ref[r] = EffectiveRef(r, spec.ref[r]))'
    BY <1>4 DEF Behind
  <1> QED BY <1>6, <1>9, <1>10, <1>11, <1>12, <1>13, <1>14 DEF Behind

\* A change that nobody watches does not matter to what the Settings ask for.
LEMMA UsersView ==
    ASSUME Typed, Users, ~due'
    PROVE  /\ ~due /\ UNCHANGED <<spec, gitRepo, observed>>
           /\ \A r \in Auth : InUse(r)' = InUse(r)
           /\ \A r \in Auth : EffectiveRef(r, spec.ref[r])' = EffectiveRef(r, spec.ref[r])
           /\ LacksUser(spec.ref[Nvidia])' <=> LacksUser(spec.ref[Nvidia])
           /\ \A g \in Sites : spec.git[g] = "cred" => gitCred'[g] = gitCred[g]
           /\ ClientApplied => ClientApplied'
  <1>1. CASE EditSettings
    BY <1>1 DEF EditSettings, Edit
  <1>2. ASSUME NEW r \in Auth, ChangeCA(r) PROVE FALSE
    BY <1>2 DEF ChangeCA
  <1>3. ASSUME NEW q \in Auth, NEW s \in Sources, ChangeCredentials(q, s)
        PROVE  /\ ~due /\ UNCHANGED <<spec, gitRepo, observed, gitCred, rancher, holder>>
               /\ \A r \in Auth : InUse(r)' = InUse(r)
               /\ \A r \in Auth : EffectiveRef(r, spec.ref[r])' = EffectiveRef(r, spec.ref[r])
               /\ LacksUser(spec.ref[Nvidia])' <=> LacksUser(spec.ref[Nvidia])
    <2>1. ~due /\ ~Watched(q, s)
      <3>1. due' = (due \/ Watched(q, s))
        BY <1>3, Zenon DEF ChangeCredentials
      <3> QED BY <3>1, Zenon
    <2>2. s # "known" /\ spec.ref[q] # s
      BY <2>1 DEF Watched
    <2>3. raw' = raw /\ UNCHANGED <<spec, gitRepo, observed, gitCred, rancher, holder>>
      BY <1>3, <2>2 DEF ChangeCredentials, git
    <2>4. PICK v : cred' = [cred EXCEPT ![q][s] = v]
      BY <1>3 DEF ChangeCredentials
    <2>5. /\ cred \in [Auth -> [Sources -> Material]] /\ spec \in Specs
          /\ \A r \in Auth : spec.ref[r] \in Sources \cup {None}
      BY DEF Typed, TypeOK, Specs
    <2>6. \A r \in Auth, k \in Sources : ~(r = q /\ k = s) => cred'[r][k] = cred[r][k]
      BY <1>3, <2>4, <2>5
    <2>7. /\ "known" \in Sources /\ None \notin Sources
          /\ \A r \in Auth : cred'[r]["known"] = cred[r]["known"]
      BY <2>2, <2>6, NoneAssumption DEF Sources
    <2>8. \A r \in Auth : /\ Content(r, "known")' = Content(r, "known")
                          /\ Content(r, spec.ref[r])' = Content(r, spec.ref[r])
      <3> SUFFICES ASSUME NEW r \in Auth
                   PROVE  /\ Content(r, "known")' = Content(r, "known")
                          /\ Content(r, spec.ref[r])' = Content(r, spec.ref[r])
        OBVIOUS
      <3>1. Content(r, "known")' = Content(r, "known")
        BY <2>3, <2>7 DEF Content
      <3>2. CASE spec.ref[r] = None
        BY <2>3, <3>1, <3>2 DEF Content
      <3>3. CASE spec.ref[r] \in Sources
        <4>1. cred'[r][spec.ref[r]] = cred[r][spec.ref[r]]
          BY <2>2, <2>6, <3>3
        <4> QED BY <2>3, <3>1, <4>1 DEF Content
      <3> QED BY <2>5, <3>1, <3>2, <3>3
    <2>9. \A r \in Auth : EffectiveRef(r, spec.ref[r])' = EffectiveRef(r, spec.ref[r])
      BY <2>3, <2>8 DEF EffectiveRef
    <2>10. \A r \in Auth : EffectiveRef(r, spec.ref[r]) \in {"known", spec.ref[r]}
      BY DEF EffectiveRef
    <2>11. \A r \in Auth : InUse(r)' = InUse(r)
      <3> SUFFICES ASSUME NEW r \in Auth PROVE InUse(r)' = InUse(r)
        OBVIOUS
      <3>1. PICK e : e = EffectiveRef(r, spec.ref[r])
        OBVIOUS
      <3>2. EffectiveRef(r, spec.ref[r])' = e
        BY <2>9, <3>1
      <3>3. InUse(r) = Content(r, e) /\ InUse(r)' = Content(r, e)'
        BY <3>1, <3>2 DEF InUse
      <3>4. e = "known" \/ e = spec.ref[r]
        BY <2>10, <3>1
      <3>5. CASE e = "known"
        BY <2>8, <3>3, <3>5
      <3>6. CASE e = spec.ref[r]
        <4>1. Content(r, spec.ref[r])' = Content(r, e)'
          BY <2>3, <3>6 DEF Content
        <4> QED BY <2>8, <3>3, <3>6, <4>1
      <3> QED BY <3>4, <3>5, <3>6
    <2>12. LacksUser(spec.ref[Nvidia])' <=> LacksUser(spec.ref[Nvidia])
      BY <2>3, <2>7, <2>8, Named DEF LacksUser
    <2> QED BY <2>1, <2>3, <2>9, <2>11, <2>12
  <1>4. ASSUME NEW x \in Sites, ChangeGitCredential(x)
        PROVE  /\ ~due /\ UNCHANGED <<spec, gitRepo, observed, cred, raw, rancher, holder>>
               /\ \A g \in Sites : spec.git[g] = "cred" => gitCred'[g] = gitCred[g]
    <2>1. ~due /\ spec.git[x] # "cred"
      <3>1. due' = (due \/ spec.git[x] = "cred")
        BY <1>4, Zenon DEF ChangeGitCredential
      <3> QED BY <3>1, Zenon
    <2>2. UNCHANGED <<spec, gitRepo, observed, cred, raw, rancher, holder>>
      BY <1>4 DEF ChangeGitCredential, git
    <2>3. PICK v : gitCred' = [gitCred EXCEPT ![x] = v]
      BY <1>4 DEF ChangeGitCredential
    <2>4. gitCred \in [Sites -> Material]
      BY DEF Typed, TypeOK
    <2> QED BY <2>1, <2>2, <2>3, <2>4
  <1>5. ASSUME NEW g \in Sites, GitRepoEvent(g) PROVE FALSE
    BY <1>5 DEF GitRepoEvent
  <1>6. ASSUME NEW what \in {"token", "pinned", "internal"}, ChangeRancher(what)
        PROVE  /\ ~due /\ UNCHANGED <<spec, gitRepo, observed, cred, raw, gitCred, holder>>
               /\ ClientApplied => ClientApplied'
    <2>1. ~due /\ ~(what = "token" /\ spec.token) /\ ~(what = "pinned" /\ spec.pinned)
      <3>1. due' = (due \/ (what = "token" /\ spec.token) \/ (what = "pinned" /\ spec.pinned))
        BY <1>6, Zenon DEF ChangeRancher
      <3> QED BY <3>1, Zenon
    <2>2. UNCHANGED <<spec, gitRepo, observed, cred, raw, gitCred, holder>>
      BY <1>6 DEF ChangeRancher, git
    <2>3. PICK v : rancher' = [rancher EXCEPT ![what] = v]
      BY <1>6 DEF ChangeRancher
    <2>4. rancher \in [{"token", "pinned", "internal"} -> Material]
      BY DEF Typed, TypeOK
    <2>5. what # "token" => rancher'.token = rancher.token
      BY <2>3, <2>4
    <2>6. what # "pinned" => rancher'.pinned = rancher.pinned
      BY <2>3, <2>4
    <2>7. ClientApplied => ClientApplied'
      <3> HAVE ClientApplied
      <3>1. CASE spec.token
        <4>1. rancher'.token = rancher.token
          BY <2>1, <2>5, <3>1
        <4>2. spec.pinned => rancher'.pinned = rancher.pinned
          BY <2>1, <2>6
        <4> QED BY <2>2, <3>1, <4>1, <4>2 DEF ClientApplied
      <3>2. CASE ~spec.token
        BY <2>2, <3>2 DEF ClientApplied
      <3> QED BY <3>1, <3>2
    <2> QED BY <2>1, <2>2, <2>7
  <1>7. ASSUME NEW n \in Repos, RancherRefresh(n)
        PROVE  UNCHANGED <<spec, gitRepo, observed, due, cred, raw, gitCred, rancher, holder>>
    BY <1>7 DEF RancherRefresh, secrets, git
  <1>8. UNCHANGED <<spec, rancher, holder>> => (ClientApplied => ClientApplied')
    BY DEF ClientApplied
  <1>9. CASE \E q \in Auth, s \in Sources : ChangeCredentials(q, s)
    BY <1>3, <1>8, <1>9
  <1>10. CASE \E x \in Sites : ChangeGitCredential(x)
    BY <1>4, <1>8, <1>10, SameSecrets
  <1>11. CASE \E what \in {"token", "pinned", "internal"} : ChangeRancher(what)
    BY <1>6, <1>11, SameSecrets
  <1>12. CASE \E n \in Repos : RancherRefresh(n)
    BY <1>7, <1>8, <1>12, SameSecrets
  <1> QED BY <1>1, <1>2, <1>5, <1>9, <1>10, <1>11, <1>12 DEF Users

\* When the refs that were found are in the Settings, the agenda has it all.
LEMMA WireGoes ==
    ASSUME Typed, GoingOK, Wire, ~due'
    PROVE  GoingOK'
  <1>1. due' = (due \/ spec' # spec)
    BY Zenon DEF Wire
  <1>2. spec' = spec
    BY <1>1, Zenon
  <1>3. /\ pass.at = "wire" /\ pass.spec = spec /\ pass.todo = <<>> /\ pass \in PassType
        /\ spec \in Specs
    BY DEF Wire, GoingOK, Typed, PassOK, TypeOK
  <1>4. pass' = [pass EXCEPT !.at = "stages", !.spec = spec, !.agenda = Agenda(spec),
                             !.blind = FALSE]
    BY <1>2, <1>3 DEF Wire
  <1>5. /\ pass'.at = "stages" /\ pass'.spec = spec /\ pass'.agenda = Agenda(spec)
        /\ pass'.todo = <<>>
    BY <1>3, <1>4 DEF PassType
  <1>6. /\ Pending' = {}
        /\ Ahead' = {Stage("git", g) : g \in {Fleet} \cup {c \in Catalogs : spec.git[c] # "absent"}}
                      \cup {Stage("registry", r) : r \in Registries}
                      \cup {Stage(n, None) : n \in {"prune", "openshell", "nvidia", "team"}}
    <2>1. Pending' = {}
      BY <1>5 DEF Pending, Range
    <2>2. Ahead' = Range(Agenda(spec))
      BY <1>5 DEF Ahead
    <2> QED BY <1>3, <2>1, <2>2, AgendaListed
  <1>7. /\ \A g \in Sites : spec.git[g] # "absent" \/ g = Fleet => Stage("git", g) \in Ahead'
        /\ \A r \in Registries : Stage("registry", r) \in Ahead'
        /\ \A n \in {"prune", "openshell", "nvidia", "team"} : Stage(n, None) \in Ahead'
    BY <1>6 DEF Sites
  <1>8. \A g \in Sites : GitGoing(g)'
    BY <1>2, <1>7 DEF GitGoing, Stage
  <1>9. /\ \A r \in Registries : RegistryGoing(r)'
        /\ OpenshellGoing' /\ NvidiaGoing' /\ UserGoing'
    BY <1>7 DEF RegistryGoing, OpenshellGoing, NvidiaGoing, UserGoing, Stage
  <1>10. WritesFit'
    BY <1>6 DEF WritesFit
  <1>11. UNCHANGED <<cred, raw>>
    BY DEF Wire, secrets
  <1>12. \A r \in Auth : spec.ref[r] = EffectiveRef(r, spec.ref[r])
    <2> SUFFICES ASSUME NEW r \in Auth PROVE spec.ref[r] = EffectiveRef(r, spec.ref[r])
      OBVIOUS
    <2>1. PICK f : f = [q \in Auth |-> IF Refs[q] = pass.spec.ref[q] THEN spec.ref[q] ELSE Refs[q]]
      OBVIOUS
    <2>2. spec' = [spec EXCEPT !.ref = f]
      BY <2>1 DEF Wire
    <2>3. f = spec.ref
      BY <1>2, <1>3, <2>2 DEF Specs
    <2>4. f[r] = IF Refs[r] = pass.spec.ref[r] THEN spec.ref[r] ELSE Refs[r]
      BY <2>1
    <2>5. Refs[r] = EffectiveRef(r, spec.ref[r])
      BY <1>3 DEF Refs
    <2> QED BY <1>3, <2>3, <2>4, <2>5
  <1>13. \A r \in Auth : (spec.ref[r] = EffectiveRef(r, spec.ref[r]))'
    BY <1>2, <1>11, <1>12, SameSecrets
  <1>14. Behind'
    BY <1>8, <1>9, <1>10, <1>13 DEF Behind
  <1>15. Stage("nvidia", None) \in Ahead'
    BY <1>7
  <1> QED BY <1>2, <1>5, <1>14, <1>15 DEF GoingOK, Stage

\* Every step, as long as no change has made another pass due, keeps the pass in
\* accordance with the Settings.
LEMMA GoingStep ==
    ASSUME Typed, GoingInv, [Next]_vars
    PROVE  GoingInv'
  <1> SUFFICES ASSUME ~due' PROVE GoingOK'
    BY DEF GoingInv
  <1>1. pass \in PassType /\ pass.todo \in Seq(WriteType)
    BY DEF Typed, PassOK, PassType
  <1>2. pass.at \in {"idle", "wire", "status"} => pass.todo = <<>> /\ pass.agenda = <<>>
    BY IdleOK DEF Typed, PassOK
  <1>3. CASE Begin
    <2>1. pass'.at = "wire" /\ pass'.spec = spec /\ spec' = spec
      BY <1>3 DEF Begin, Idle
    <2> QED BY <2>1 DEF GoingOK
  <1>4. CASE AddUser \/ WireFails \/ UpdateStatusFails \/ Crash
    BY <1>4 DEF AddUser, WireFails, UpdateStatusFails, Crash, Retry
  <1>5. CASE Wire
    <2>1. due' = (due \/ spec' # spec)
      BY <1>5, Zenon DEF Wire
    <2>2. ~due
      BY <2>1, Zenon
    <2> QED BY <1>5, <2>2, WireGoes DEF GoingInv
  <1>6. CASE StartStage
    <2>1. ~due /\ spec' = spec
      BY <1>6 DEF StartStage
    <2>2. Behind' /\ (Stage("nvidia", None) \notin Ahead' => pass'.nv = spec.ref[Nvidia])
      BY <1>6, <2>1, BehindStarts DEF GoingInv
    <2>3. pass'.at = "stages" /\ pass'.spec = pass.spec /\ pass.at = "stages"
      BY <1>6, StageStarts
    <2> QED BY <2>1, <2>2, <2>3 DEF GoingInv, GoingOK, Stage
  <1>7. CASE Writing
    <2>1. PICK h \in WriteType : Effect(h)
      BY <1>7, Effects
    <2>2. ~due /\ spec' = spec /\ Advancing
      BY <2>1 DEF Effect
    <2>3. /\ pass.at = "stages" /\ pass'.at = "stages" /\ pass'.spec = pass.spec
          /\ pass'.agenda = pass.agenda /\ pass'.nv = pass.nv
      BY <2>2, Advances
    <2>4. GoingOK
      BY <2>2 DEF GoingInv
    <2>5. Behind'
      BY <2>1, <2>3, <2>4, BehindWriting DEF GoingOK
    <2> QED BY <2>2, <2>3, <2>4, <2>5 DEF GoingOK, Stage, Ahead
  <1>8. CASE StageErrors \/ WriteFails
    <2>1. StageEnds /\ UNCHANGED <<spec, cred, raw, gitCred, gitRepo, gitMirror, repo>>
      BY <1>8 DEF StageErrors, WriteFails, secrets, git, charts
    <2>2. Dropping /\ swallowed' = swallowed \cup Leaves(pass.stage) /\ ~due
      BY <1>8, <2>1 DEF StageErrors, WriteFails, StageEnds, Dropping, Retry
    <2>3. /\ pass.at = "stages" /\ pass'.at = "stages" /\ pass'.spec = pass.spec
          /\ pass'.agenda = pass.agenda /\ pass'.nv = pass.nv
          /\ Head(pass.todo) = Misconfigured \/ Head(pass.todo).what \in {"gitRepo", "gitMirror"}
      BY <2>2, Drops
    <2>4. mirror' = mirror
      BY <1>8, <2>3 DEF StageErrors, WriteFails, charts
    <2>5. GoingOK
      BY <2>2 DEF GoingInv
    <2>6. Behind'
      BY <2>1, <2>2, <2>3, <2>4, <2>5, BehindDrops DEF GoingOK
    <2> QED BY <2>1, <2>3, <2>5, <2>6 DEF GoingOK, Stage, Ahead
  <1>9. CASE RefreshClient
    <2>1. ~due /\ UNCHANGED <<spec, cred, raw, gitCred, rancher, gitRepo, gitMirror, mirror, repo, swallowed>>
      BY <1>9 DEF RefreshClient, secrets, git, charts
    <2>2. pass.at = "stages" /\ pass.todo = <<>> /\ pass.agenda = <<>> /\ pass' = [pass EXCEPT !.at = "status"]
      BY <1>9 DEF RefreshClient
    <2>3. /\ pass'.at = "status" /\ pass'.spec = pass.spec /\ pass'.agenda = pass.agenda
          /\ pass'.todo = pass.todo /\ pass'.stage = pass.stage
      BY <1>1, <2>2 DEF PassType
    <2>4. GoingOK
      BY <2>1 DEF GoingInv
    <2>5. Behind /\ pass.spec = spec
      BY <2>2, <2>4 DEF GoingOK
    <2>6. Pending' = Pending /\ Ahead' = Ahead /\ (Stops' <=> Stops)
      BY <2>3 DEF Pending, Ahead, Stops, Swallows, Misconfigured, Write
    <2>7. Behind'
      BY <2>1, <2>5, <2>6, SameSecrets, BehindKept
    <2>8. ClientApplied'
      <3>1. holder' = IF ~spec.token \/ rancher.token = None THEN None
                      ELSE [token |-> rancher.token,
                            ca |-> IF spec.pinned THEN rancher.pinned ELSE rancher.internal]
        BY <1>9, <2>5 DEF RefreshClient
      <3>2. CASE ~spec.token \/ rancher.token = None
        BY <2>1, <3>1, <3>2 DEF ClientApplied
      <3>3. CASE ~(~spec.token \/ rancher.token = None)
        <4>1. /\ holder' = [token |-> rancher.token,
                            ca |-> IF spec.pinned THEN rancher.pinned ELSE rancher.internal]
              /\ rancher.token \in Version
          BY <3>1, <3>3 DEF Typed, TypeOK, Material
        <4>2. holder'.token = rancher.token /\ (spec.pinned => holder'.ca = rancher.pinned)
          BY <4>1
        <4>3. holder' # None
          <5>1. rancher.pinned \in Material /\ rancher.internal \in Material
            BY DEF Typed, TypeOK
          <5>2. holder' \in [token : Version, ca : Material]
            BY <4>1, <5>1
          <5> QED BY <5>2, NoneAssumption
        <4> QED BY <2>1, <3>3, <4>2, <4>3 DEF ClientApplied
      <3> QED BY <3>2, <3>3
    <2> QED BY <2>1, <2>3, <2>5, <2>7, <2>8 DEF GoingOK
  <1>10. CASE UpdateStatus
    <2>1. ~due
      <3>1. PICK newSecond \in BOOLEAN : due' = (due \/ ~observed \/ newSecond)
        BY <1>10, Zenon DEF UpdateStatus
      <3> QED BY <3>1, Zenon
    <2>2. /\ UNCHANGED <<spec, cred, raw, gitCred, rancher, gitRepo, gitMirror, mirror, repo, swallowed, holder>>
          /\ observed' = TRUE /\ pass' = Idle /\ pass.at = "status"
      BY <1>10 DEF UpdateStatus, secrets, git, charts
    <2>3. pass.todo = <<>> /\ pass.agenda = <<>>
      BY <1>2, <2>2
    <2>4. GoingOK
      BY <2>1 DEF GoingInv
    <2>5. Pending' = Pending /\ Ahead' = Ahead /\ Pending = {} /\ Pending' = {}
      BY <2>2, <2>3, IdleOK DEF Pending, Ahead, Range
    <2>6. Stops' <=> Stops
      BY <2>5 DEF Stops
    <2>7. Behind'
      BY <2>2, <2>4, <2>5, <2>6, SameSecrets, BehindKept DEF GoingOK
    <2>8. ClientApplied'
      BY <2>2, <2>4 DEF GoingOK, ClientApplied
    <2> QED BY <2>2, <2>7, <2>8, IdleOK DEF GoingOK
  <1>11. CASE AddUserFails
    <2>1. ~due /\ UNCHANGED <<spec, cred, raw, gitCred, rancher, gitRepo, gitMirror, mirror, repo, swallowed, holder, observed>>
      BY <1>11 DEF AddUserFails, secrets, git, charts
    <2>2. /\ pass'.at = pass.at /\ pass'.spec = pass.spec /\ pass'.agenda = pass.agenda
          /\ pass'.todo = pass.todo /\ pass'.stage = pass.stage /\ pass'.nv = pass.nv
      BY <1>1, <1>11 DEF AddUserFails, PassType
    <2>3. GoingOK
      BY <2>1 DEF GoingInv
    <2>4. Pending' = Pending /\ Ahead' = Ahead /\ (Stops' <=> Stops)
      BY <2>2 DEF Pending, Ahead, Stops, Swallows, Misconfigured, Write
    <2>5. Behind => Behind'
      BY <2>1, <2>4, SameSecrets, BehindKept
    <2>6. ClientApplied => ClientApplied'
      BY <2>1 DEF ClientApplied
    <2> QED BY <2>1, <2>2, <2>3, <2>4, <2>5, <2>6 DEF GoingOK, Stage
  <1>12. CASE Users
    <2>1. ~due /\ UNCHANGED <<spec, gitRepo, observed>>
      BY <1>12, UsersView
    <2>2. UNCHANGED <<pass, mirror, repo, holder, swallowed, gitMirror>>
      BY <1>12, UsersKeep
    <2>3. GoingOK
      BY <2>1 DEF GoingInv
    <2>4. Pending' = Pending /\ Ahead' = Ahead /\ (Stops' <=> Stops)
      BY <2>2 DEF Pending, Ahead, Stops, Swallows, Misconfigured, Write
    <2>5. /\ \A r \in Auth : InUse(r)' = InUse(r)
          /\ \A r \in Auth : EffectiveRef(r, spec.ref[r])' = EffectiveRef(r, spec.ref[r])
          /\ LacksUser(spec.ref[Nvidia])' <=> LacksUser(spec.ref[Nvidia])
          /\ \A g \in Sites : spec.git[g] = "cred" => gitCred'[g] = gitCred[g]
          /\ ClientApplied => ClientApplied'
      BY <1>12, UsersView
    <2>6. Behind => Behind'
      BY <2>1, <2>2, <2>4, <2>5, BehindKept
    <2> QED BY <2>1, <2>2, <2>3, <2>4, <2>5, <2>6 DEF GoingOK, Stage
  <1>13. CASE UNCHANGED vars
    <2>1. ~due /\ UNCHANGED <<spec, cred, raw, gitCred, rancher, gitRepo, gitMirror, mirror, repo, swallowed, holder, observed, pass>>
      BY <1>13 DEF vars, secrets, git, charts
    <2>2. GoingOK
      BY <2>1 DEF GoingInv
    <2>3. Pending' = Pending /\ Ahead' = Ahead /\ (Stops' <=> Stops)
      BY <2>1 DEF Pending, Ahead, Stops, Swallows, Misconfigured, Write
    <2>4. Behind => Behind'
      BY <2>1, <2>3, SameSecrets, BehindKept
    <2>5. ClientApplied => ClientApplied'
      BY <2>1 DEF ClientApplied
    <2> QED BY <2>1, <2>2, <2>3, <2>4, <2>5 DEF GoingOK, Stage
  <1> QED BY <1>3, <1>4, <1>5, <1>6, <1>7, <1>8, <1>9, <1>10, <1>11, <1>12, <1>13
          DEF Next, Controller, Failures, Writing

-----------------------------------------------------------------------------
(* The results.                                                            *)

Inv == Typed /\ CopiesInv /\ GoingInv

\* The invariant holds before the first pass.
LEMMA InitInv == Init => Inv
  <1> SUFFICES ASSUME Init PROVE Inv
    OBVIOUS
  <1>1. pass = Idle /\ due = TRUE /\ \A n \in Repos : repo[n] = None
    BY DEF Init
  <1>2. pass.todo = <<>> /\ pass.agenda = <<>> /\ pass.at = "idle" /\ Pending = {} /\ Ahead = {}
    BY <1>1, IdleOK DEF Pending, Ahead, Range
  <1>3. TypeOK
    <2>1. MaxEdits \in Nat /\ MaxFaults \in Nat /\ 0 \in Version
      BY SettingsAssumption DEF Version
    <2>2. spec \in Specs /\ gitCred \in [Sites -> Material] /\ badCA \subseteq Auth
      BY <2>1, SettingsAssumption DEF Init, Material
    <2>3. /\ gitRepo \in [Sites -> {None, "open", "cred"}] /\ gitMirror \in [Sites -> Material]
          /\ mirror \in [Auth -> [Spaces -> Material]]
          /\ repo \in [Repos -> RepoSpecs] /\ known \in [Repos -> Material]
      BY DEF Init, Material, RepoSpecs
    <2>4. rancher \in [{"token", "pinned", "internal"} -> Material]
      BY <2>1 DEF Init, Material
    <2>5. cred \in [Auth -> [Sources -> Material]] /\ raw \in BOOLEAN
      BY <2>1 DEF Init, Material
    <2>6. holder \in Clients /\ swallowed = {} /\ edits = 0 /\ faults = 0
      BY DEF Init, Clients
    <2>7. observed \in BOOLEAN
      BY Zenon DEF Init
    <2>8. due \in BOOLEAN
      BY Zenon DEF Init
    <2>9. /\ swallowed \subseteq Catalogs \cup {Nvidia}
          /\ edits \in 0..MaxEdits /\ faults \in 0..MaxFaults
      BY <2>1, <2>6
    <2>10. pass.at \in {"idle", "wire", "stages", "status"} /\ pass.spec \in Specs \cup {None}
      BY <1>1 DEF Idle
    <2> QED BY <2>2, <2>3, <2>4, <2>5, <2>6, <2>7, <2>8, <2>9, <2>10 DEF TypeOK
  <1>4. Typed
    <2>1. PassOK
      BY <1>1, <1>2, IdleOK DEF PassOK
    <2>2. AgendaOK /\ TodoOK
      BY <1>2 DEF AgendaOK, TodoOK, Ordered
    <2> QED BY <1>3, <2>1, <2>2 DEF Typed
  <1>5. CopiesInv
    <2>1. \A n \in Repos : Plain(repo[n]) /\ RepoWrites(n) = {}
      BY <1>1, <1>2 DEF Plain, RepoWrites, RepoIn
    <2>2. \A r : CattleWrites(r) = {}
      BY <1>2 DEF CattleWrites, CattleIn
    <2> QED BY <1>1, <1>2, <2>1, <2>2, Named
            DEF CopiesInv, PlainOK, UnmirrorOK, MirrorOK, RegistryOK, ReadOK
  <1> QED BY <1>1, <1>4, <1>5 DEF Inv, GoingInv

\* Every step keeps the invariant.
LEMMA InvStep == Inv /\ [Next]_vars => Inv'
  BY TypedStep, CopiesStep, GoingStep DEF Inv

\* The invariant holds in every state of every run of the controller.
THEOREM Invariant == Spec => []Inv
  BY InitInv, InvStep, PTL DEF Spec

\* Types, of all variables, whatever fails (Reconcile and everything it writes).
THEOREM TypeCorrect == Spec => []TypeOK
  <1>1. Inv => TypeOK
    BY DEF Inv, Typed
  <1> QED BY <1>1, Invariant, PTL

\* What holds of copies and repositories when no pass is running or due.
LEMMA QuietFacts ==
    ASSUME Inv, Quiet
    PROVE  Applied
  <1>1. pass = Idle /\ ~due /\ GoingOK
    BY DEF Quiet, Inv, GoingInv
  <1>2. pass.at = "idle" /\ Pending = {} /\ Ahead = {}
    BY <1>1, IdleOK DEF Pending, Ahead, Range
  <1>3. ~Stops /\ Behind /\ ClientApplied /\ observed
    BY <1>1, <1>2 DEF Stops, GoingOK
  <1>4. \A g \in Sites : \/ Refused(g) /\ g # Fleet
                         \/ g \in swallowed
                         \/ GitApplied(g)
    BY <1>2, <1>3 DEF Behind, GitGoing, GitApplied, Want
  <1>5. GitApplied(Fleet)
    <2>1. Fleet \notin swallowed
      BY Named DEF Inv, Typed, TypeOK
    <2> QED BY <1>4, <2>1, Named
  <1>6. \A c \in Catalogs : Refused(c) \/ GitApplied(c) \/ c \in swallowed
    BY <1>4, Named
  <1>7. /\ \A r \in Registries : MirrorGoing(r) /\ RepoGoing(r)
        /\ \A n \in Openshell : RepoGoing(n)
        /\ \A n \in Fixed : RepoGoing(n)
        /\ \A n \in Team : RepoGoing(n)
        /\ MirrorGoing(Nvidia)
    BY <1>2, <1>3 DEF Behind, RegistryGoing, OpenshellGoing, NvidiaGoing
  <1>8. \A n \in Repos : repo[n] = Desired(n)
    BY <1>2, <1>7, Disjoint DEF RepoGoing
  <1>9. \A r \in Auth : Tidy(r)
    <2> SUFFICES ASSUME NEW r \in Auth PROVE Tidy(r)
      OBVIOUS
    <2>1. MirrorGoing(r) /\ mirror[r] \in [Spaces -> Material]
      BY <1>7 DEF Auth, Inv, Typed, TypeOK
    <2>2. CASE InUse(r) = None
      BY <1>2, <2>1, <2>2 DEF MirrorGoing, Tidy
    <2>3. CASE InUse(r) # None
      <3>1. \A m \in Spaces : mirror[r][m] = InUse(r)
        BY <1>2, <2>1, <2>3 DEF MirrorGoing
      <3> QED BY <2>1, <3>1 DEF Tidy
    <2> QED BY <2>2, <2>3
  <1>10. RegistriesApplied
    BY <1>3, <1>8, <1>9 DEF RegistriesApplied, Behind
  <1>11. LacksUser(spec.ref[Nvidia]) => Nvidia \in swallowed
    BY <1>2, <1>3 DEF Behind, UserGoing
  <1> QED BY <1>3, <1>5, <1>6, <1>10, <1>11 DEF Applied

\* When the controller has nothing left to do, everything that the Settings ask
\* for is there and nothing else, whatever was changed, failed or crashed on the
\* way (Reconcile and the watches of SetupWithManager).
THEOREM QuietApplied == Spec => []QuietMeansApplied
  <1>1. Inv => QuietMeansApplied
    BY QuietFacts DEF QuietMeansApplied
  <1> QED BY <1>1, Invariant, PTL

\* A registry's repository never names a secret that does not exist, NVIDIA's do
\* not when no pass is running or due (the order of reconcileRegistryRepo and
\* pruneRegistryRepos).
THEOREM NothingDangles == Spec => []NoDanglingSecret
  <1>1. ASSUME Inv PROVE NoDanglingSecret
    <2> SUFFICES ASSUME NEW n \in Repos, repo[n] # None, repo[n].secret
                 PROVE  Reads(n, repo[n]) # None \/ (n \notin Registries /\ ~Quiet)
      BY DEF NoDanglingSecret
    <2>1. ~Plain(repo[n])
      BY DEF Plain
    <2>2. CASE n \in Registries
      <3>1. mirror[n][Cattle] # None
        BY <1>1, <2>1, <2>2 DEF Inv, CopiesInv, RegistryOK
      <3> QED BY <2>1, <2>2, <3>1 DEF Reads, Plain
    <2>3. CASE n \notin Registries /\ Quiet
      <3>1. /\ repo[n] = Desired(n) /\ Tidy(Nvidia)
        BY <1>1, <2>3, QuietFacts, Named DEF Applied, RegistriesApplied
      <3>2. InUse(Nvidia) # None
        <4> SUFFICES ASSUME InUse(Nvidia) = None PROVE FALSE
          OBVIOUS
        <4>1. /\ \A url : ~At(url, FALSE).secret
              /\ spec.mirrored \in BOOLEAN
          BY <1>1 DEF At, Inv, Typed, TypeOK, Specs
        <4>2. n \in Openshell => FALSE
          BY <3>1, <4>1, DesiredOthers
        <4>3. spec.mirrored /\ n \in Fixed \cup Team => FALSE
          BY <3>1, <4>1, DesiredMirrored
        <4>4. ~spec.mirrored /\ n \in Fixed \cup Public => FALSE
          BY <3>1, <4>1, DesiredPublic
        <4>5. ~spec.mirrored /\ n \in Gated => FALSE
          BY <3>1, <4>1, DesiredGated
        <4> QED BY <2>3, <4>1, <4>2, <4>3, <4>4, <4>5, Disjoint
      <3>3. mirror[Nvidia][Cattle] = InUse(Nvidia)
        BY <3>1, Named DEF Tidy
      <3> QED BY <2>1, <2>3, <3>2, <3>3 DEF Reads, Plain
    <2> QED BY <2>2, <2>3
  <1> QED BY <1>1, Invariant, PTL

\* If no call failed, Rancher has read the credentials that its repositories
\* name: no change goes by without a forced update (applyRegistryAuthSecret,
\* forceUpdateClusterRepo).
THEOREM RotationIsRead == Spec => []RotationReaches
  <1>1. ASSUME Inv PROVE RotationReaches
    <2> SUFFICES ASSUME Quiet, faults = 0, NEW n \in Repos, repo[n] # None
                 PROVE  known[n] = Reads(n, repo[n])
      BY DEF RotationReaches
    <2>1. Pending = {}
      BY IdleOK DEF Quiet, Pending, Range
    <2>2. ~Refreshing(n)
      BY <2>1 DEF Refreshing, RepoWrites, RepoIn
    <2> QED BY <1>1, <2>2 DEF Inv, CopiesInv, ReadOK
  <1> QED BY <1>1, Invariant, PTL

\* A catalog that the Settings name keeps its GitRepo; if the controller deletes
\* one, a pass is due that brings it back (reconcileBlueprintCatalogs).
THEOREM KeptCatalogs == Spec => KeptCatalogStays
  <1> DEFINE Keeps == \A c \in Catalogs :
                 gitRepo[c] # None /\ gitRepo'[c] = None /\ pass.todo # pass'.todo
                   => spec.git[c] = "absent" \/ due
  <1>1. Inv /\ [Next]_vars => [Keeps]_vars
    <2> SUFFICES ASSUME Inv, [Next]_vars, NEW c \in Catalogs, gitRepo[c] # None,
                        gitRepo'[c] = None, pass.todo # pass'.todo, ~due
                 PROVE  spec.git[c] = "absent"
      BY Zenon
    <2>1. pass' # pass /\ gitRepo' # gitRepo
      OBVIOUS
    <2>2. WriteGitRepo
      <3>1. ~Users
        BY <2>1, UsersKeep DEF Inv
      <3>2. CASE Controller
        BY <2>1, <3>2
           DEF Controller, Begin, AddUser, Wire, StartStage, StageErrors, WriteGitMirror,
               WriteMirror, DeleteAuthSecret, WriteRepo, ForceUpdateRepo, RefreshClient,
               UpdateStatus, git
      <3>3. CASE Failures
        BY <2>1, <3>3 DEF Failures, AddUserFails, WireFails, WriteFails, UpdateStatusFails, Crash, git
      <3>4. CASE UNCHANGED vars
        BY <2>1, <3>4 DEF vars
      <3> QED BY <3>1, <3>2, <3>3, <3>4 DEF Next
    <2>3. PICK h \in WriteType : /\ Effect(h) /\ h.what = "gitRepo" /\ h = Head(pass.todo)
                                 /\ gitRepo' = [gitRepo EXCEPT ![h.on] = h.value]
      <3>1. PICK h \in WriteType : Effect(h)
        BY <2>2, Effects DEF Inv, Writing
      <3>2. h.what = "gitRepo"
        BY <2>1, <3>1 DEF Effect
      <3> QED BY <3>1, <3>2 DEF Effect
    <2>4. pass.at = "stages" /\ h \in Pending
      BY <2>3, Advances DEF Effect, Inv
    <2>5. gitRepo \in [Sites -> {None, "open", "cred"}] /\ spec \in Specs /\ h.on \in Sites
      BY <2>3 DEF Inv, Typed, TypeOK, WriteType
    <2>6. h.on = c /\ h.value = None
      BY <2>3, <2>5, Named
    <2>7. WritesFit
      BY <2>4 DEF Inv, GoingInv, GoingOK, Behind
    <2>8. Want(c) = None
      BY <2>3, <2>4, <2>6, <2>7 DEF WritesFit
    <2> QED BY <2>5, <2>6, <2>8, NoneAssumption DEF Want, Specs
  <1> QED BY <1>1, Invariant, PTL DEF Spec, KeptCatalogStays

=============================================================================
