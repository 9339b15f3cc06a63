---------------------------- MODULE SettingsProofs ----------------------------
(***************************************************************************)
(* For any environments CI may give, any tracks and any names of projects: *)
(* the tests get the build, a deployment goes to a cluster of its track,   *)
(* and the clean-up to where the deployment went.                          *)
(***************************************************************************)
EXTENDS Settings, TLAPS

(***************************************************************************)
(* The first of some values.                                               *)
(***************************************************************************)
LEMMA FirstFound ==
  ASSUME NEW s, NEW missing, NEW k \in DOMAIN s, DOMAIN s \subseteq Nat,
         s[k] # missing, \A i \in DOMAIN s : i < k => s[i] = missing
  PROVE  First(s, missing) = s[k]
<1> DEFINE found == {i \in DOMAIN s : s[i] # missing}
<1>1. k \in found /\ \A i \in found : k <= i
  OBVIOUS
<1>2. found \subseteq Nat
  OBVIOUS
<1>3. (CHOOSE i \in found : \A l \in found : i <= l) = k
  BY ONLY <1>1, <1>2
<1> QED
  BY <1>1, <1>3 DEF First

LEMMA NoneFound ==
  ASSUME NEW s, NEW missing, \A i \in DOMAIN s : s[i] = missing
  PROVE  First(s, missing) = missing
  BY DEF First

LEMMA FirstOfTwo ==
  ASSUME NEW a, NEW b, NEW missing
  PROVE  First(<<a, b>>, missing) = IF a # missing THEN a ELSE b
<1> DEFINE s == <<a, b>>
<1>1. DOMAIN s = 1..2 /\ s[1] = a /\ s[2] = b
  OBVIOUS
<1> HIDE DEF s
<1>2. CASE a # missing
  <2>1. First(s, missing) = s[1]
    <3>1. 1 \in DOMAIN s /\ DOMAIN s \subseteq Nat
      BY <1>1, <1>2
    <3>2. s[1] # missing /\ \A i \in DOMAIN s : i < 1 => s[i] = missing
      BY <1>1, <1>2
    <3> QED
      BY <3>1, <3>2, FirstFound
  <2> QED
    BY <1>1, <1>2, <2>1 DEF s
<1>3. CASE a = missing /\ b # missing
  <2>1. First(s, missing) = s[2]
    <3>1. 2 \in DOMAIN s /\ DOMAIN s \subseteq Nat
      BY <1>1, <1>3
    <3>2. s[2] # missing /\ \A i \in DOMAIN s : i < 2 => s[i] = missing
      BY <1>1, <1>3
    <3> QED
      BY <3>1, <3>2, FirstFound
  <2> QED
    BY <1>1, <1>3, <2>1 DEF s
<1>4. CASE a = missing /\ b = missing
  <2>1. First(s, missing) = missing
    BY <1>1, <1>4, NoneFound
  <2> QED
    BY <1>4, <2>1 DEF s
<1> QED
  BY <1>2, <1>3, <1>4

LEMMA FirstOfThree ==
  ASSUME NEW a, NEW b, NEW c, NEW missing
  PROVE  First(<<a, b, c>>, missing) =
           IF a # missing THEN a ELSE IF b # missing THEN b ELSE c
<1> DEFINE s == <<a, b, c>>
<1>1. DOMAIN s = 1..3 /\ s[1] = a /\ s[2] = b /\ s[3] = c
  OBVIOUS
<1> HIDE DEF s
<1>2. CASE a # missing
  <2>1. First(s, missing) = s[1]
    <3>1. 1 \in DOMAIN s /\ DOMAIN s \subseteq Nat
      BY <1>1, <1>2
    <3>2. s[1] # missing /\ \A i \in DOMAIN s : i < 1 => s[i] = missing
      BY <1>1, <1>2
    <3> QED
      BY <3>1, <3>2, FirstFound
  <2> QED
    BY <1>1, <1>2, <2>1 DEF s
<1>3. CASE a = missing /\ b # missing
  <2>1. First(s, missing) = s[2]
    <3>1. 2 \in DOMAIN s /\ DOMAIN s \subseteq Nat
      BY <1>1, <1>3
    <3>2. s[2] # missing /\ \A i \in DOMAIN s : i < 2 => s[i] = missing
      BY <1>1, <1>3
    <3> QED
      BY <3>1, <3>2, FirstFound
  <2> QED
    BY <1>1, <1>3, <2>1 DEF s
<1>4. CASE a = missing /\ b = missing /\ c # missing
  <2>1. First(s, missing) = s[3]
    <3>1. 3 \in DOMAIN s /\ DOMAIN s \subseteq Nat
      BY <1>1, <1>4
    <3>2. s[3] # missing /\ \A i \in DOMAIN s : i < 3 => s[i] = missing
      BY <1>1, <1>4
    <3> QED
      BY <3>1, <3>2, FirstFound
  <2> QED
    BY <1>1, <1>4, <2>1 DEF s
<1>5. CASE a = missing /\ b = missing /\ c = missing
  <2>1. First(s, missing) = missing
    BY <1>1, <1>5, NoneFound
  <2> QED
    BY <1>5, <2>1 DEF s
<1> QED
  BY <1>2, <1>3, <1>4, <1>5

LEMMA FirstOfFour ==
  ASSUME NEW s, DOMAIN s = 1..4, NEW missing
  PROVE  /\ First(s, missing) \in {s[1], s[2], s[3], s[4]}
         /\ First(s, missing) =
              IF s[1] # missing THEN s[1] ELSE IF s[2] # missing THEN s[2]
              ELSE IF s[3] # missing THEN s[3] ELSE s[4]
<1>1. CASE s[1] # missing
  <2>1. First(s, missing) = s[1]
    <3>1. 1 \in DOMAIN s /\ DOMAIN s \subseteq Nat
      BY <1>1
    <3>2. s[1] # missing /\ \A i \in DOMAIN s : i < 1 => s[i] = missing
      BY <1>1
    <3> QED
      BY <3>1, <3>2, FirstFound
  <2> QED
    BY <1>1, <2>1
<1>2. CASE s[1] = missing /\ s[2] # missing
  <2>1. First(s, missing) = s[2]
    <3>1. 2 \in DOMAIN s /\ DOMAIN s \subseteq Nat
      BY <1>2
    <3>2. s[2] # missing /\ \A i \in DOMAIN s : i < 2 => s[i] = missing
      BY <1>2
    <3> QED
      BY <3>1, <3>2, FirstFound
  <2> QED
    BY <1>2, <2>1
<1>3. CASE s[1] = missing /\ s[2] = missing /\ s[3] # missing
  <2>1. First(s, missing) = s[3]
    <3>1. 3 \in DOMAIN s /\ DOMAIN s \subseteq Nat
      BY <1>3
    <3>2. s[3] # missing /\ \A i \in DOMAIN s : i < 3 => s[i] = missing
      BY <1>3
    <3> QED
      BY <3>1, <3>2, FirstFound
  <2> QED
    BY <1>3, <2>1
<1>4. CASE s[1] = missing /\ s[2] = missing /\ s[3] = missing /\ s[4] # missing
  <2>1. First(s, missing) = s[4]
    <3>1. 4 \in DOMAIN s /\ DOMAIN s \subseteq Nat
      BY <1>4
    <3>2. s[4] # missing /\ \A i \in DOMAIN s : i < 4 => s[i] = missing
      BY <1>4
    <3> QED
      BY <3>1, <3>2, FirstFound
  <2> QED
    BY <1>4, <2>1
<1>5. CASE s[1] = missing /\ s[2] = missing /\ s[3] = missing /\ s[4] = missing
  <2>1. First(s, missing) = missing
    BY <1>5, NoneFound
  <2> QED
    BY <1>5, <2>1
<1> QED
  BY <1>1, <1>2, <1>3, <1>4, <1>5
(***************************************************************************)
(* Names of variables.  That of the artifact is longer than any other one  *)
(* that a setting has without the name of the project, and ends otherwise  *)
(* than those with it.                                                     *)
(***************************************************************************)
Built == Name("BUILT_DOCKER_TEST_IMAGE")
Ours == Fields \ {"BUILT_DOCKER_TEST_IMAGE"}

\* The name of an artifact.
Artificial(v) == Len(v) > 4 /\ v[Len(v)] = "IMAGE"

\* What the template may add to the environment of a command.
Added == {<<"TRACK">>, <<"DEFAULT", "TRACK">>, Built}

\* The variables of the platforms and of the project's name.
PlatformNames ==
  {<<"AZURE", "HTTP", "USER", "AGENT">>, <<"GITLAB", "CI">>, <<"GITHUB", "ACTIONS">>,
   <<"SYSTEM", "TEAMPROJECT">>, <<"CI", "PROJECT", "NAME">>, <<"KUBE", "NAMESPACE">>,
   <<"GITHUB", "REPOSITORY">>, Name("PROJECT_NAME")}

LEMMA PlainNames ==
  /\ \A v \in PlatformNames : ~Artificial(v) /\ v \notin Added
  /\ \A f \in Fields : ~Artificial(Name(f))
  /\ \A f \in {"PROJECT_NAME", "K8S_NAMESPACE"} : Name(f) \notin Added
  /\ \A t : \A i \in 1..4 : /\ ~Artificial(Configurations(t)[i])
                            /\ Configurations(t)[i] \notin Added
<1>1. \A v \in PlatformNames : ~Artificial(v) /\ v \notin Added
  BY DEF PlatformNames, Artificial, Added, Built, Name
<1>2. \A f \in Fields : ~Artificial(Name(f))
  BY DEF Fields, Artificial, Name
<1>3. \A f \in {"PROJECT_NAME", "K8S_NAMESPACE"} : Name(f) \notin Added
  BY DEF Added, Built, Name
<1>4. ASSUME NEW t, NEW i \in 1..4
      PROVE  ~Artificial(Configurations(t)[i]) /\ Configurations(t)[i] \notin Added
  <2>1. Configurations(t)[i] \in {<<"KUBECONFIG", "RAW", t>>, <<"KUBECONFIG", "RAW">>,
                                  <<"KUBECONFIG", t>>, <<"KUBECONFIG">>}
    BY <1>4 DEF Configurations
  <2> QED
    BY <2>1 DEF Artificial, Added, Built, Name
<1> QED
  BY <1>1, <1>2, <1>3, <1>4

\* With the name of a project before it, a name is longer and ends as before.
LEMMA PrefixedNames ==
  ASSUME NEW s \in Seq(STRING), s # <<>>
  PROVE  /\ Artificial(s \o Built)
         /\ \A f \in Ours : ~Artificial(s \o Name(f))
         /\ \A f \in {"PROJECT_NAME", "K8S_NAMESPACE"} : s \o Name(f) \notin Added
<1>1. Len(s) \in Nat /\ Len(s) >= 1
  OBVIOUS
<1> DEFINE Words == STRING \cup {"NAME", "TRACK", "IMAGE", "NAMESPACE", "PROJECT", "DEFAULT",
                               "BUILT", "DOCKER", "TEST", "K8S"}
<1>a. s \in Seq(Words)
  OBVIOUS
<1>2. \A t \in Seq(Words) : t # <<>> => /\ Len(s \o t) = Len(s) + Len(t)
                                        /\ (s \o t)[Len(s \o t)] = t[Len(t)]
  BY <1>1, <1>a
<1>3. ASSUME NEW f \in Fields PROVE Name(f) \in Seq(Words) /\ Name(f) # <<>>
  <2>1. CASE f = "PROJECT_NAME"
    <3>1. Name(f) = <<"PROJECT", "NAME">>
      BY <2>1 DEF Name
    <3>2. <<"PROJECT", "NAME">> \in Seq(Words) /\ <<"PROJECT", "NAME">> # <<>>
      OBVIOUS
    <3> QED
      BY <3>1, <3>2
  <2>2. CASE f = "TRACK"
    <3>1. Name(f) = <<"TRACK">>
      BY <2>2 DEF Name
    <3>2. <<"TRACK">> \in Seq(Words) /\ <<"TRACK">> # <<>>
      OBVIOUS
    <3> QED
      BY <3>1, <3>2
  <2>3. CASE f = "DEFAULT_TRACK"
    <3>1. Name(f) = <<"DEFAULT", "TRACK">>
      BY <2>3 DEF Name
    <3>2. <<"DEFAULT", "TRACK">> \in Seq(Words) /\ <<"DEFAULT", "TRACK">> # <<>>
      OBVIOUS
    <3> QED
      BY <3>1, <3>2
  <2>4. CASE f = "BUILT_DOCKER_TEST_IMAGE"
    <3>1. Name(f) = <<"BUILT", "DOCKER", "TEST", "IMAGE">>
      BY <2>4 DEF Name
    <3>2. <<"BUILT", "DOCKER", "TEST", "IMAGE">> \in Seq(Words) /\ <<"BUILT", "DOCKER", "TEST", "IMAGE">> # <<>>
      OBVIOUS
    <3> QED
      BY <3>1, <3>2
  <2>5. CASE f = "K8S_NAMESPACE"
    <3>1. Name(f) = <<"K8S", "NAMESPACE">>
      BY <2>5 DEF Name
    <3>2. <<"K8S", "NAMESPACE">> \in Seq(Words) /\ <<"K8S", "NAMESPACE">> # <<>>
      OBVIOUS
    <3> QED
      BY <3>1, <3>2
  <2> QED
    BY <2>1, <2>2, <2>3, <2>4, <2>5 DEF Fields
<1> HIDE DEF Words
<1>4. Artificial(s \o Built)
  BY <1>1, <1>2, <1>3 DEF Artificial, Built, Name, Fields
<1>5. \A f \in Ours : ~Artificial(s \o Name(f))
  BY <1>2, <1>3 DEF Artificial, Ours, Name, Fields
<1>6. ASSUME NEW f \in {"PROJECT_NAME", "K8S_NAMESPACE"} PROVE s \o Name(f) \notin Added
  <2>1. (s \o Name(f))[Len(s \o Name(f))] \in {"NAME", "NAMESPACE"}
    BY <1>2, <1>3, <1>6 DEF Name, Fields
  <2>2. ASSUME NEW v \in Added PROVE v[Len(v)] \in {"TRACK", "IMAGE"}
    <3>1. CASE v = <<"TRACK">>
      BY <3>1
    <3>2. CASE v = <<"DEFAULT", "TRACK">>
      BY <3>2
    <3>3. CASE v = Built
      BY <3>3 DEF Built, Name
    <3> QED
      BY <3>1, <3>2, <3>3 DEF Added
  <2> QED
    BY <2>1, <2>2
<1> QED
  BY <1>4, <1>5, <1>6

(***************************************************************************)
(* The inductive invariant.  The settings of a command are those of the    *)
(* environment CI gives it: the file of the build has no part in them, but *)
(* for the image of the tests.  A deployment is made where the variables   *)
(* of CI have the cluster of its track.                                    *)
(***************************************************************************)
Known == ProjectName(base) \notin {Unset, ""}

\* What create_images leaves.
Build == [v \in {Safe[Setting(base, "PROJECT_NAME")] \o Built} |-> Image]

\* The cluster of a track, where CI's variables have one.
Cluster(t) == First([i \in 1..4 |-> Content(base, Configurations(t)[i])], "")

Types ==
  /\ base \in Bases /\ template \in BOOLEAN
  /\ pc \in [Commands -> {"new", "read", "done", "failed"}]
  /\ DOMAIN env = Commands /\ DOMAIN conf = Commands /\ DOMAIN place = Deploying

\* The settings that a command has read.
SettingsInv ==
  \A c \in Commands :
    pc[c] \in {"read", "done"} =>
      Known /\ \A f \in Ours : conf[c][f] = Setting(ProcessEnv(c), f)

ArtifactInv == artifact = IF pc["create_images"] = "done" THEN Build ELSE Nothing

\* The file of the build does not hide a cluster.
ClusterInv ==
  \A c \in Deploying :
    pc[c] = "read" =>
      \A i \in 1..4 : Content(env[c], Configurations(Track(c))[i])
                      = Content(base, Configurations(Track(c))[i])

\* Where a deployment is made or cleaned up.
InPlace(c) ==
  /\ pc[c] = "done" /\ Cluster(Track(c)) # ""
  /\ place[c] = [api |-> Cluster(Track(c)), kubectl |-> Cluster(Track(c)),
                 namespace |-> Setting(base, "K8S_NAMESPACE")]

PlaceInv == \A c \in Deploying : place[c] # Unset => InPlace(c)

\* The image the tests are going to pull, or have.
TestInv ==
  LET otherwise == (Built \in DOMAIN base /\ ~template) \/ Renamed
      image == IF pc["test_setup"] = "read"
                 THEN conf["test_setup"]["BUILT_DOCKER_TEST_IMAGE"] ELSE pulled
  IN pc["test_setup"] # "new" => image = Image \/ otherwise

SettingsInvariant ==
  Types /\ SettingsInv /\ ArtifactInv /\ ClusterInv /\ PlaceInv /\ TestInv

(***************************************************************************)
(* Two environments that agree on the variables a setting is looked for    *)
(* in.                                                                     *)
(***************************************************************************)
Same(e, g, v) ==
  (v \in DOMAIN e <=> v \in DOMAIN g) /\ (v \in DOMAIN e => e[v] = g[v])

LEMMA SameValue ==
  ASSUME NEW e, NEW g, NEW v, Same(e, g, v)
  PROVE  Get(e, v) = Get(g, v) /\ Content(e, v) = Content(g, v)
  BY DEF Same, Get, Content

LEMMA OntoAt ==
  ASSUME NEW f, NEW g, NEW v
  PROVE  /\ v \in DOMAIN Onto(f, g) <=> v \in DOMAIN f \/ v \in DOMAIN g
         /\ v \in DOMAIN f => Onto(f, g)[v] = f[v]
         /\ v \notin DOMAIN f => Same(Onto(f, g), g, v)
  BY DEF Onto, Same

LEMMA SameProject ==
  ASSUME NEW e, NEW g, \A v \in PlatformNames : Same(e, g, v)
  PROVE  /\ \A field : Mapped(e, field) = Mapped(g, field)
         /\ ProjectName(e) = ProjectName(g)
<1>1. \A v \in PlatformNames : Get(e, v) = Get(g, v) /\ Content(e, v) = Content(g, v)
  BY SameValue
<1>2. Platform(e) = Platform(g)
  BY <1>1 DEF Platform, PlatformNames
<1>3. ASSUME NEW field PROVE Mapped(e, field) = Mapped(g, field)
  <2>1. CASE field \in DOMAIN Mapping(Platform(g))
    <3>1. Mapping(Platform(g))[field] \in PlatformNames
      BY <2>1 DEF Mapping, PlatformNames
    <3> QED
      BY <1>1, <1>2, <2>1, <3>1 DEF Mapped
  <2>2. CASE field \notin DOMAIN Mapping(Platform(g))
    BY <1>2, <2>2 DEF Mapped
  <2> QED
    BY <2>1, <2>2
<1>4. Get(e, Name("PROJECT_NAME")) = Get(g, Name("PROJECT_NAME"))
  BY <1>1 DEF PlatformNames
<1> QED
  BY <1>3, <1>4 DEF ProjectName

LEMMA SameSetting ==
  ASSUME NEW e, NEW g, NEW field, \A v \in PlatformNames : Same(e, g, v),
         Same(e, g, Name(field)), Same(e, g, Safe[ProjectName(g)] \o Name(field))
  PROVE  Setting(e, field) = Setting(g, field)
<1>1. Mapped(e, field) = Mapped(g, field) /\ ProjectName(e) = ProjectName(g)
  BY SameProject
<1>2. /\ Get(e, Name(field)) = Get(g, Name(field))
      /\ Get(e, Safe[ProjectName(g)] \o Name(field)) = Get(g, Safe[ProjectName(g)] \o Name(field))
  BY SameValue
<1> QED
  BY <1>1, <1>2 DEF Setting

\* What a command starts with is what CI gives it, but for what the template adds.
LEMMA Layers ==
  ASSUME NEW c, NEW v, v \notin Added
  PROVE  Same(ProcessEnv(c), base, v)
<1> DEFINE mine == IF template /\ c = "test_setup" THEN [w \in {Built} |-> Image] ELSE Nothing
           job == IF template THEN JobVariables(c) ELSE Nothing
<1>1. v \notin DOMAIN mine /\ v \notin DOMAIN job
  BY DEF Added, Nothing, JobVariables
<1>2. ProcessEnv(c) = Onto(mine, Onto(base, job))
  BY DEF ProcessEnv, Built
<1> HIDE DEF mine, job
<1>3. Same(ProcessEnv(c), Onto(base, job), v)
  BY <1>1, <1>2, OntoAt
<1>4. Same(Onto(base, job), base, v)
  BY <1>1 DEF Onto, Same
<1> QED
  BY <1>3, <1>4 DEF Same

LEMMA LayeredProject ==
  ASSUME NEW c
  PROVE  /\ \A field : Mapped(ProcessEnv(c), field) = Mapped(base, field)
         /\ ProjectName(ProcessEnv(c)) = ProjectName(base)
  BY Layers, SameProject, PlainNames

\* The settings the template does not set: those of CI's own variables.
LEMMA LayeredSetting ==
  ASSUME base \in Bases, Known, NEW c, NEW field \in {"PROJECT_NAME", "K8S_NAMESPACE"}
  PROVE  Setting(ProcessEnv(c), field) = Setting(base, field)
<1>1. Safe[ProjectName(base)] \in Seq(STRING) /\ Safe[ProjectName(base)] # <<>>
  BY SafeAssumption DEF Known
<1>2. Safe[ProjectName(base)] \o Name(field) \notin Added
  BY <1>1, PrefixedNames
<1> QED
  BY <1>2, Layers, SameSetting, PlainNames

\* The name of a project, as its setting or at first: its words.
LEMMA ProjectWords ==
  ASSUME base \in Bases, Known, NEW n \in {ProjectName(base), Setting(base, "PROJECT_NAME")}
  PROVE  Safe[n] \in Seq(STRING) /\ Safe[n] # <<>>
  BY SafeAssumption DEF Known

\* The file of the build has a name that only the image of the tests is looked for by.
LEMMA FileApart ==
  ASSUME Types, SettingsInv, ArtifactInv, NEW c, NEW v, ~Artificial(v)
  PROVE  Same(Onto(Artifacts(c), ProcessEnv(c)), ProcessEnv(c), v)
<1>1. v \notin DOMAIN artifact
  <2>1. CASE pc["create_images"] = "done"
    <3>1. Known
      BY <2>1 DEF SettingsInv, Commands
    <3>2. Artificial(Safe[Setting(base, "PROJECT_NAME")] \o Built)
      BY <3>1, ProjectWords, PrefixedNames DEF Types
    <3> QED
      BY <2>1, <3>2 DEF ArtifactInv, Build
  <2>2. CASE pc["create_images"] # "done"
    BY <2>2 DEF ArtifactInv, Nothing
  <2> QED
    BY <2>1, <2>2
<1>2. v \notin DOMAIN Artifacts(c)
  BY <1>1 DEF Artifacts, Nothing
<1> QED
  BY <1>2, OntoAt

\* So, for a command that reads its settings.
LEMMA ReadProject ==
  ASSUME Types, SettingsInv, ArtifactInv, NEW c
  PROVE  ProjectName(Onto(Artifacts(c), ProcessEnv(c))) = ProjectName(base)
  BY FileApart, PlainNames, SameProject, LayeredProject

LEMMA ReadSetting ==
  ASSUME Types, SettingsInv, ArtifactInv, Known, NEW c, NEW f \in Ours
  PROVE  Setting(Onto(Artifacts(c), ProcessEnv(c)), f) = Setting(ProcessEnv(c), f)
<1>1. ~Artificial(Safe[ProjectName(base)] \o Name(f)) /\ ~Artificial(Name(f))
  BY ProjectWords, PrefixedNames, PlainNames DEF Types, Ours
<1>2. ProjectName(ProcessEnv(c)) = ProjectName(base)
  BY LayeredProject
<1>3. \A v : ~Artificial(v) => Same(Onto(Artifacts(c), ProcessEnv(c)), ProcessEnv(c), v)
  BY FileApart
<1> QED
  BY <1>1, <1>2, <1>3, PlainNames, SameSetting

LEMMA ReadCluster ==
  ASSUME Types, SettingsInv, ArtifactInv, NEW c, NEW t, NEW i \in 1..4
  PROVE  Content(Onto(Artifacts(c), ProcessEnv(c)), Configurations(t)[i])
         = Content(base, Configurations(t)[i])
<1>1. /\ ~Artificial(Configurations(t)[i])
      /\ Configurations(t)[i] \notin Added
  BY PlainNames
<1>2. Same(Onto(Artifacts(c), ProcessEnv(c)), ProcessEnv(c), Configurations(t)[i])
  BY <1>1, FileApart
<1>3. Same(ProcessEnv(c), base, Configurations(t)[i])
  BY <1>1, Layers
<1> QED
  BY <1>2, <1>3, SameValue

\* A project that is not renamed has one name.
LEMMA OneName ==
  ASSUME base \in Bases, Known, ~Renamed
  PROVE  Setting(base, "PROJECT_NAME") = ProjectName(base)
<1> DEFINE own == Get(base, Name("PROJECT_NAME"))
           prefixed == Get(base, Safe[ProjectName(base)] \o Name("PROJECT_NAME"))
           mapped == Mapped(base, "PROJECT_NAME")
           s == <<own, prefixed, mapped, "">>
<1>1. ProjectName(base) = IF own # Unset THEN own ELSE mapped
  BY FirstOfTwo DEF ProjectName
<1>2. Setting(base, "PROJECT_NAME") = First(s, Unset)
  BY DEF Setting, Default
<1>3. DOMAIN s = 1..4 /\ s[1] = own /\ s[2] = prefixed /\ s[3] = mapped /\ s[4] = ""
  OBVIOUS
<1>4. own # Unset \/ prefixed = Unset
  BY SettingsAssumption DEF Renamed, Get
<1>5. ProjectName(base) # Unset
  BY DEF Known
<1> HIDE DEF own, prefixed, mapped, s
<1>6. First(s, Unset) = IF s[1] # Unset THEN s[1] ELSE IF s[2] # Unset THEN s[2]
                        ELSE IF s[3] # Unset THEN s[3] ELSE s[4]
  BY <1>3, FirstOfFour
<1> QED
  BY <1>1, <1>2, <1>3, <1>4, <1>5, <1>6

\* The image comes from the script of the job or from the file, unless CI has one
\* of its own.
LEMMA ReadImage ==
  ASSUME Types, SettingsInv, ArtifactInv, pc["create_images"] = "done",
         ~(Built \in DOMAIN base /\ ~template), ~Renamed
  PROVE  Setting(Onto(Artifacts("test_setup"), ProcessEnv("test_setup")),
                 "BUILT_DOCKER_TEST_IMAGE") = Image
<1> DEFINE g == ProcessEnv("test_setup")
           e == Onto(artifact, g)
           file == Safe[ProjectName(base)] \o Built
<1>1. Known
  BY DEF SettingsInv, Commands
<1>2. Artifacts("test_setup") = artifact
  BY DEF Artifacts
<1>3. artifact = [v \in {file} |-> Image]
  BY <1>1, OneName DEF ArtifactInv, Build, Types
<1>4. ProjectName(e) = ProjectName(base)
  BY <1>2, ReadProject
<1>5. file \in DOMAIN artifact /\ artifact[file] = Image
  BY <1>3
<1>6. Get(e, file) = Image
  BY <1>5, OntoAt DEF Get
<1>7. Image # Unset
  BY SettingsAssumption
<1>8. Get(e, Built) = Image \/ Get(e, Built) = Unset
  <2>1. Artificial(file) /\ ~Artificial(Built)
    BY <1>1, ProjectWords, PrefixedNames, PlainNames DEF Types, Fields, Built
  <2>2. Get(e, Built) = Get(g, Built)
    BY <1>3, <2>1, OntoAt, SameValue
  <2>3. CASE template
    <3> DEFINE mine == [v \in {Built} |-> Image]
    <3>1. g = Onto(mine, Onto(base, JobVariables("test_setup")))
      BY <2>3 DEF ProcessEnv, Built
    <3>2. Built \in DOMAIN mine /\ mine[Built] = Image
      OBVIOUS
    <3> QED
      BY <2>2, <3>1, <3>2, OntoAt DEF Get
  <2>4. CASE ~template
    <3>1. g = Onto(Nothing, Onto(base, Nothing)) /\ Built \notin DOMAIN base
      BY <2>4 DEF ProcessEnv
    <3>2. Built \notin DOMAIN g
      BY <3>1, OntoAt DEF Nothing
    <3> QED
      BY <2>2, <3>2 DEF Get
  <2> QED
    BY <2>3, <2>4
<1> DEFINE s == <<Get(e, Built), Get(e, file), Mapped(e, "BUILT_DOCKER_TEST_IMAGE"),
                  Default("BUILT_DOCKER_TEST_IMAGE")>>
<1>9. Setting(e, "BUILT_DOCKER_TEST_IMAGE") = First(s, Unset)
  BY <1>4 DEF Setting, Built
<1>10. DOMAIN s = 1..4 /\ s[1] = Get(e, Built) /\ s[2] = Get(e, file)
  OBVIOUS
<1> HIDE DEF e, file, s
<1>11. First(s, Unset) = IF s[1] # Unset THEN s[1] ELSE IF s[2] # Unset THEN s[2]
                         ELSE IF s[3] # Unset THEN s[3] ELSE s[4]
  BY <1>10, FirstOfFour
<1> QED
  BY <1>2, <1>6, <1>7, <1>8, <1>9, <1>10, <1>11 DEF e

(***************************************************************************)
(* Every step keeps the invariant.                                         *)
(***************************************************************************)
LEMMA SettingsStart == Init => SettingsInvariant
<1> SUFFICES ASSUME Init PROVE SettingsInvariant
  OBVIOUS
<1>1. Types
  BY DEF Init, Types
<1>2. SettingsInv /\ ClusterInv
  BY DEF Init, SettingsInv, ClusterInv, Deploying, Commands
<1>3. ArtifactInv /\ TestInv
  BY DEF Init, ArtifactInv, TestInv, Commands
<1>4. PlaceInv
  BY DEF Init, PlaceInv
<1> QED
  BY <1>1, <1>2, <1>3, <1>4 DEF SettingsInvariant

\* A command that does nothing keeps its place.
LEMMA StaysInPlace ==
  ASSUME NEW d, InPlace(d), UNCHANGED <<base, arg>>,
         pc'[d] = pc[d], conf'[d] = conf[d], place'[d] = place[d]
  PROVE  InPlace(d)'
<1>1. PICK t : t = Track(d)
  OBVIOUS
<1>2. Track(d)' = t
  BY <1>1 DEF Track
<1>3. Cluster(t)' = Cluster(t)
  BY DEF Cluster, Content, Configurations
<1>4. Cluster(Track(d))' = Cluster(t)
  BY <1>2, <1>3 DEF Cluster, Configurations, Content
<1>5. Setting(base, "K8S_NAMESPACE")' = Setting(base, "K8S_NAMESPACE")
  OBVIOUS
<1> QED
  BY <1>1, <1>4, <1>5 DEF InPlace

LEMMA ReadStep ==
  ASSUME SettingsInvariant, NEW c \in Commands, ReadSettings(c)
  PROVE  SettingsInvariant'
<1> DEFINE e == Onto(Artifacts(c), ProcessEnv(c))
<1> USE DEF SettingsInvariant
<1>1. /\ pc[c] = "new" /\ \A d \in Earlier(c) : pc[d] = "done"
      /\ UNCHANGED <<base, template, arg, artifact, pulled, place>>
      /\ Known' = Known /\ Renamed' = Renamed
      /\ \A d, f : Setting(ProcessEnv(d), f)' = Setting(ProcessEnv(d), f)
  BY DEF ReadSettings, Known, Renamed, ProcessEnv
<1>2. \/ /\ ProjectName(e) \in {Unset, ""}
         /\ pc' = [pc EXCEPT ![c] = "failed"] /\ UNCHANGED <<env, conf>>
      \/ /\ ProjectName(e) \notin {Unset, ""}
         /\ pc' = [pc EXCEPT ![c] = "read"]
         /\ env' = [env EXCEPT ![c] = e]
         /\ conf' = [conf EXCEPT ![c] = [f \in Fields |-> Setting(e, f)]]
  BY DEF ReadSettings
<1>3. ProjectName(e) = ProjectName(base)
  BY ReadProject
<1>4. /\ pc'[c] = IF Known THEN "read" ELSE "failed"
      /\ Known => env'[c] = e /\ conf'[c] = [f \in Fields |-> Setting(e, f)]
      /\ \A d \in Commands \ {c} : /\ pc'[d] = pc[d] /\ env'[d] = env[d]
                                   /\ conf'[d] = conf[d]
  <2> HIDE DEF e
  <2>1. CASE Known
    BY <1>2, <1>3, <2>1 DEF Known, Types
  <2>2. CASE ~Known
    BY <1>2, <1>3, <2>2 DEF Known, Types
  <2> QED
    BY <2>1, <2>2
<1>5. Types'
  BY <1>1, <1>2 DEF Types
<1>6. SettingsInv'
  <2> SUFFICES ASSUME NEW d \in Commands, pc'[d] \in {"read", "done"}
               PROVE  Known' /\ \A f \in Ours : conf'[d][f] = Setting(ProcessEnv(d), f)'
    BY DEF SettingsInv
  <2>1. CASE d = c
    <3>1. Known
      BY <1>4, <2>1
    <3>2. \A f \in Ours : Setting(e, f) = Setting(ProcessEnv(c), f)
      BY <3>1, ReadSetting
    <3> QED
      BY <1>1, <1>4, <2>1, <3>1, <3>2 DEF Ours
  <2>2. CASE d # c
    BY <1>1, <1>4, <2>2 DEF SettingsInv
  <2> QED
    BY <2>1, <2>2
<1>7. ArtifactInv'
  <2>1. (pc["create_images"] = "done")' <=> pc["create_images"] = "done"
    BY <1>1, <1>4 DEF Commands
  <2> QED
    BY <1>1, <2>1 DEF ArtifactInv, Build
<1>8. ClusterInv'
  <2> SUFFICES ASSUME NEW d \in Deploying, pc'[d] = "read", NEW i \in 1..4
               PROVE  Content(env'[d], Configurations(Track(d)')[i])
                      = Content(base', Configurations(Track(d)')[i])
    BY DEF ClusterInv, Content, Configurations
  <2>1. CASE d = c
    <3>1. env'[d] = e /\ base' = base
      BY <1>1, <1>4, <2>1
    <3>2. PICK t : t = Track(d)'
      OBVIOUS
    <3> QED
      BY <2>1, <3>1, <3>2, ReadCluster
  <2>2. CASE d # c
    <3>1. Track(d)' = Track(d) /\ pc[d] = "read" /\ env'[d] = env[d] /\ base' = base
      BY <1>1, <1>4, <2>2 DEF Track, Deploying, Commands
    <3> QED
      BY <3>1 DEF ClusterInv
  <2> QED
    BY <2>1, <2>2
<1>9. PlaceInv'
  <2> SUFFICES ASSUME NEW d \in Deploying, place'[d] # Unset
               PROVE  InPlace(d)'
    BY DEF PlaceInv
  <2>1. InPlace(d)
    BY <1>1 DEF PlaceInv
  <2>2. d \in Commands \ {c}
    BY <1>1, <2>1 DEF InPlace, Deploying, Commands
  <2> QED
    BY <1>1, <1>4, <2>1, <2>2, StaysInPlace
<1>10. TestInv'
  <2>1. CASE c = "test_setup"
    <3>1. pc["create_images"] = "done"
      BY <1>1, <2>1 DEF Earlier
    <3>2. Known
      BY <3>1 DEF SettingsInv, Commands
    <3>3. /\ pc'["test_setup"] = "read"
          /\ conf'["test_setup"]["BUILT_DOCKER_TEST_IMAGE"] = Setting(e, "BUILT_DOCKER_TEST_IMAGE")
      BY <1>4, <2>1, <3>2 DEF Fields
    <3>4. \/ Setting(e, "BUILT_DOCKER_TEST_IMAGE") = Image
          \/ (Built \in DOMAIN base /\ ~template) \/ Renamed
      BY <2>1, <3>1, ReadImage
    <3> QED
      BY <1>1, <3>3, <3>4 DEF TestInv
  <2>2. CASE c # "test_setup"
    <3>1. pc'["test_setup"] = pc["test_setup"] /\ conf'["test_setup"] = conf["test_setup"]
      BY <1>4, <2>2 DEF Commands
    <3> QED
      BY <1>1, <3>1 DEF TestInv
  <2> QED
    BY <2>1, <2>2
<1> QED
  BY <1>5, <1>6, <1>7, <1>8, <1>9, <1>10

\* What a step leaves alone that changes pc at one command, and env and place there.
LEMMA OthersStay ==
  ASSUME SettingsInvariant, NEW c \in Commands, pc[c] = "read", pc'[c] \in {"done", "failed"},
         UNCHANGED <<base, template, arg, conf>>,
         \A d \in Commands \ {c} : pc'[d] = pc[d] /\ env'[d] = env[d],
         \A d \in Deploying \ {c} : place'[d] = place[d],
         c \in Deploying => place'[c] = Unset \/ InPlace(c)'
  PROVE  SettingsInv' /\ ClusterInv' /\ PlaceInv'
<1> USE DEF SettingsInvariant
<1>1. Known' = Known /\ \A d, f : Setting(ProcessEnv(d), f)' = Setting(ProcessEnv(d), f)
  BY DEF Known, ProcessEnv
<1>2. SettingsInv'
  <2> SUFFICES ASSUME NEW d \in Commands, pc'[d] \in {"read", "done"}
               PROVE  Known' /\ \A f \in Ours : conf'[d][f] = Setting(ProcessEnv(d), f)'
    BY DEF SettingsInv
  <2>1. pc[d] \in {"read", "done"}
    OBVIOUS
  <2> QED
    BY <1>1, <2>1 DEF SettingsInv
<1>3. ClusterInv'
  <2> SUFFICES ASSUME NEW d \in Deploying, pc'[d] = "read", NEW i \in 1..4
               PROVE  Content(env'[d], Configurations(Track(d)')[i])
                      = Content(base', Configurations(Track(d)')[i])
    BY DEF ClusterInv, Content, Configurations
  <2>1. pc[d] = "read" /\ env'[d] = env[d] /\ Track(d)' = Track(d)
    BY DEF Deploying, Commands, Track
  <2> QED
    BY <2>1 DEF ClusterInv
<1>4. PlaceInv'
  <2> SUFFICES ASSUME NEW d \in Deploying, place'[d] # Unset
               PROVE  InPlace(d)'
    BY DEF PlaceInv
  <2>1. CASE d = c
    BY <2>1
  <2>2. CASE d # c
    <3>1. d \in Commands \ {c} /\ place'[d] = place[d] /\ pc'[d] = pc[d]
      BY <2>2 DEF Deploying, Commands
    <3>2. InPlace(d)
      BY <3>1 DEF PlaceInv
    <3> QED
      BY <3>1, <3>2, StaysInPlace
  <2> QED
    BY <2>1, <2>2
<1> QED
  BY <1>2, <1>3, <1>4

LEMMA BuildStep ==
  ASSUME SettingsInvariant, CreateImages
  PROVE  SettingsInvariant'
<1> USE DEF SettingsInvariant
<1>1. /\ pc["create_images"] = "read"
      /\ pc' = [pc EXCEPT !["create_images"] = "done"]
      /\ UNCHANGED <<base, template, arg, env, conf, pulled, place>>
      /\ Renamed' = Renamed
  BY DEF CreateImages, Renamed
<1>2. Types'
  BY <1>1 DEF Types
<1>3. pc'["create_images"] = "done" /\ \A d \in Commands \ {"create_images"} : pc'[d] = pc[d]
  BY <1>1 DEF Types, Commands
<1>4. SettingsInv' /\ ClusterInv' /\ PlaceInv'
  <2>1. "create_images" \in Commands /\ "create_images" \notin Deploying
    BY DEF Commands, Deploying
  <2> QED
    BY <1>1, <1>3, <2>1, OthersStay
<1>5. ArtifactInv'
  <2>1. Known /\ conf["create_images"]["PROJECT_NAME"]
                 = Setting(ProcessEnv("create_images"), "PROJECT_NAME")
    BY <1>1 DEF SettingsInv, Commands, Ours, Fields
  <2>2. conf["create_images"]["PROJECT_NAME"] = Setting(base, "PROJECT_NAME")
    BY <2>1, LayeredSetting DEF Types
  <2>3. artifact' = Build
    BY <2>2 DEF CreateImages, Build, Built
  <2>4. Build' = Build
    BY <1>1 DEF Build
  <2> QED
    BY <1>3, <2>3, <2>4 DEF ArtifactInv
<1>6. TestInv'
  <2>1. pc'["test_setup"] = pc["test_setup"]
    BY <1>3 DEF Commands
  <2> QED
    BY <1>1, <2>1 DEF TestInv
<1> QED
  BY <1>2, <1>4, <1>5, <1>6

LEMMA TestStep ==
  ASSUME SettingsInvariant, TestSetup
  PROVE  SettingsInvariant'
<1> USE DEF SettingsInvariant
<1>1. /\ pc["test_setup"] = "read"
      /\ pulled' = conf["test_setup"]["BUILT_DOCKER_TEST_IMAGE"]
      /\ pc' = [pc EXCEPT !["test_setup"] = IF conf["test_setup"]["BUILT_DOCKER_TEST_IMAGE"] = ""
                                              THEN "failed" ELSE "done"]
      /\ UNCHANGED <<base, template, arg, env, conf, artifact, place>>
      /\ Renamed' = Renamed
  BY DEF TestSetup, Renamed
<1>2. Types'
  BY <1>1 DEF Types
<1>3. /\ pc'["test_setup"] \in {"done", "failed"}
      /\ \A d \in Commands \ {"test_setup"} : pc'[d] = pc[d]
  BY <1>1 DEF Types, Commands
<1>4. SettingsInv' /\ ClusterInv' /\ PlaceInv'
  <2>1. "test_setup" \in Commands /\ "test_setup" \notin Deploying
    BY DEF Commands, Deploying
  <2> QED
    BY <1>1, <1>3, <2>1, OthersStay
<1>5. ArtifactInv'
  <2>1. pc'["create_images"] = pc["create_images"] /\ Build' = Build
    BY <1>1, <1>3 DEF Commands, Build
  <2> QED
    BY <1>1, <2>1 DEF ArtifactInv
<1>6. TestInv'
  BY <1>1, <1>3 DEF TestInv
<1> QED
  BY <1>2, <1>4, <1>5, <1>6

LEMMA ConnectStep ==
  ASSUME SettingsInvariant, NEW c \in Deploying, Connect(c)
  PROVE  SettingsInvariant'
<1> DEFINE config == First([i \in 1..4 |-> Content(env[c], Configurations(Track(c))[i])], "")
           e == Onto([v \in {<<"KUBECONFIG">>} |-> config], env[c])
<1> USE DEF SettingsInvariant
<1>1. /\ pc[c] = "read" /\ UNCHANGED <<base, template, arg, conf, artifact, pulled>>
      /\ Renamed' = Renamed /\ Build' = Build /\ Track(c)' = Track(c)
      /\ c \in Commands
  BY DEF Connect, Renamed, Build, Track, Deploying, Commands
<1>2. config = Cluster(Track(c))
  <2>1. \A i \in 1..4 : Content(env[c], Configurations(Track(c))[i])
                        = Content(base, Configurations(Track(c))[i])
    BY <1>1 DEF ClusterInv
  <2> QED
    BY <2>1 DEF Cluster
<1>3. Content(e, <<"KUBECONFIG">>) = config
  <2> DEFINE own == [v \in {<<"KUBECONFIG">>} |-> config]
  <2>1. <<"KUBECONFIG">> \in DOMAIN own /\ own[<<"KUBECONFIG">>] = config
    OBVIOUS
  <2> HIDE DEF own, config
  <2>2. /\ <<"KUBECONFIG">> \in DOMAIN Onto(own, env[c])
        /\ Onto(own, env[c])[<<"KUBECONFIG">>] = config
    BY <2>1, OntoAt
  <2> QED
    BY <2>2 DEF Content, own
<1>4. conf[c]["K8S_NAMESPACE"] = Setting(base, "K8S_NAMESPACE")
  <2>1. Known /\ conf[c]["K8S_NAMESPACE"] = Setting(ProcessEnv(c), "K8S_NAMESPACE")
    BY <1>1 DEF SettingsInv, Ours, Fields
  <2> QED
    BY <2>1, LayeredSetting DEF Types
<1> HIDE DEF config, e
<1>5. \/ pc' = [pc EXCEPT ![c] = "failed"] /\ UNCHANGED <<env, place>>
      \/ /\ config # "" /\ pc' = [pc EXCEPT ![c] = "done"]
         /\ env' = [env EXCEPT ![c] = e]
         /\ place' = [place EXCEPT ![c] =
              [api |-> config, kubectl |-> config, namespace |-> conf[c]["K8S_NAMESPACE"]]]
  BY <1>3 DEF Connect, config, e
<1>6. Types'
  BY <1>1, <1>5 DEF Types
<1>7. /\ pc'[c] \in {"done", "failed"}
      /\ \A d \in Commands \ {c} : pc'[d] = pc[d] /\ env'[d] = env[d]
      /\ \A d \in Deploying \ {c} : place'[d] = place[d]
  BY <1>1, <1>5 DEF Types
<1>8. place'[c] = Unset \/ InPlace(c)'
  <2>1. CASE UNCHANGED place
    <3>1. place[c] = Unset
      BY <1>1 DEF PlaceInv, InPlace
    <3> QED
      BY <2>1, <3>1
  <2>2. CASE /\ config # "" /\ pc' = [pc EXCEPT ![c] = "done"]
             /\ place' = [place EXCEPT ![c] =
                  [api |-> config, kubectl |-> config, namespace |-> conf[c]["K8S_NAMESPACE"]]]
    <3>1. /\ pc'[c] = "done"
          /\ place'[c] = [api |-> config, kubectl |-> config,
                          namespace |-> Setting(base, "K8S_NAMESPACE")]
      BY <1>1, <1>4, <2>2 DEF Types
    <3>2. PICK t : t = Track(c)
      OBVIOUS
    <3>3. Cluster(t)' = Cluster(t)
      BY <1>1 DEF Cluster, Content, Configurations
    <3>4. Cluster(Track(c))' = config
      BY <1>1, <1>2, <3>2, <3>3 DEF Cluster, Configurations, Content
    <3>5. Setting(base, "K8S_NAMESPACE")' = Setting(base, "K8S_NAMESPACE")
      BY <1>1
    <3> QED
      BY <2>2, <3>1, <3>4, <3>5 DEF InPlace
  <2> QED
    BY <1>5, <2>1, <2>2
<1>9. SettingsInv' /\ ClusterInv' /\ PlaceInv'
  BY <1>1, <1>7, <1>8, OthersStay
<1>10. ArtifactInv' /\ TestInv'
  <2>1. /\ pc'["create_images"] = pc["create_images"]
        /\ pc'["test_setup"] = pc["test_setup"]
    BY <1>7 DEF Commands, Deploying
  <2> QED
    BY <1>1, <2>1 DEF ArtifactInv, TestInv
<1> QED
  BY <1>6, <1>9, <1>10

LEMMA SettingsRest ==
  ASSUME SettingsInvariant, UNCHANGED vars
  PROVE  SettingsInvariant'
<1> USE DEF SettingsInvariant
<1>1. UNCHANGED <<base, template, arg, pc, env, conf, artifact, pulled, place>>
  BY DEF vars
<1>2. Types' /\ ArtifactInv' /\ TestInv'
  BY <1>1 DEF Types, ArtifactInv, Build, TestInv, Renamed
<1>3. SettingsInv'
  BY <1>1 DEF SettingsInv, Known, ProcessEnv
<1>4. ClusterInv'
  BY <1>1 DEF ClusterInv, Track
<1>5. PlaceInv'
  BY <1>1, StaysInPlace DEF PlaceInv
<1> QED
  BY <1>2, <1>3, <1>4, <1>5

(* The settings of a command are those of the environment CI gives it, the file *)
(* of the build is named as the settings of create_images name the project, and *)
(* a deployment is made where the variables of CI have the cluster of its track. *)
THEOREM SettingsHold == Spec => []SettingsInvariant
<1>1. SettingsInvariant /\ [Next]_vars => SettingsInvariant'
  BY ReadStep, BuildStep, TestStep, ConnectStep, SettingsRest DEF Next
<1> QED
  BY <1>1, SettingsStart, PTL DEF Spec

(***************************************************************************)
(* The theorems.                                                           *)
(***************************************************************************)
\* The tests run on the image that the same pipeline has built, however the name of
\* it reaches them, unless CI has one of its own or the project is renamed.
THEOREM TestsGetTheBuildHolds == Spec => []TestsGetTheBuild
<1>1. SettingsInvariant => TestsGetTheBuild
  BY DEF SettingsInvariant, TestInv, TestsGetTheBuild, Built
<1> QED
  BY <1>1, SettingsHold, PTL

LEMMA ItsPlace ==
  ASSUME NEW c, InPlace(c)
  PROVE  /\ place[c].api = Cluster(Track(c)) /\ place[c].kubectl = Cluster(Track(c))
         /\ place[c].namespace = Setting(base, "K8S_NAMESPACE") /\ Cluster(Track(c)) # ""
<1>1. PICK k, n : k = Cluster(Track(c)) /\ n = Setting(base, "K8S_NAMESPACE")
  OBVIOUS
<1>2. place[c] = [api |-> k, kubectl |-> k, namespace |-> n]
  BY ONLY <1>1, InPlace(c) DEF InPlace
<1>3. place[c].api = k /\ place[c].kubectl = k /\ place[c].namespace = n
  BY ONLY <1>2
<1>4. Cluster(Track(c)) # ""
  BY DEF InPlace
<1> QED
  BY <1>1, <1>3, <1>4

\* A deployment goes to no cluster of another track, and to one of its own track if
\* there is one, but for a general KUBECONFIG_RAW.
THEOREM ClusterIsOfTheTrackHolds == Spec => []ClusterIsOfTheTrack
<1>1. SettingsInvariant => ClusterIsOfTheTrack
  <2> SUFFICES ASSUME SettingsInvariant, NEW c \in Deploying, place[c] # Unset,
                      NEW own, NEW general,
                      own = {Content(base, <<"KUBECONFIG", "RAW", Track(c)>>),
                             Content(base, <<"KUBECONFIG", Track(c)>>)} \ {""},
                      general = {Content(base, <<"KUBECONFIG", "RAW">>),
                                 Content(base, <<"KUBECONFIG">>)}
               PROVE  /\ place[c].api \in own \cup general
                      /\ own # {} => \/ place[c].api \in own
                                     \/ place[c].api = Content(base, <<"KUBECONFIG", "RAW">>)
    BY DEF ClusterIsOfTheTrack
  <2>1. InPlace(c)
    BY DEF SettingsInvariant, PlaceInv
  <2>2. PICK t : t = Track(c)
    OBVIOUS
  <2> DEFINE s == [i \in 1..4 |-> Content(base, Configurations(t)[i])]
  <2>3. /\ s[1] = Content(base, <<"KUBECONFIG", "RAW", t>>)
        /\ s[2] = Content(base, <<"KUBECONFIG", "RAW">>)
        /\ s[3] = Content(base, <<"KUBECONFIG", t>>)
        /\ s[4] = Content(base, <<"KUBECONFIG">>)
        /\ DOMAIN s = 1..4
    <3>1. /\ Configurations(t)[1] = <<"KUBECONFIG", "RAW", t>>
          /\ Configurations(t)[2] = <<"KUBECONFIG", "RAW">>
          /\ Configurations(t)[3] = <<"KUBECONFIG", t>>
          /\ Configurations(t)[4] = <<"KUBECONFIG">>
      BY DEF Configurations
    <3>2. DOMAIN s = 1..4 /\ \A i \in 1..4 : s[i] = Content(base, Configurations(t)[i])
      OBVIOUS
    <3> HIDE DEF s
    <3>3. /\ s[1] = Content(base, Configurations(t)[1])
          /\ s[2] = Content(base, Configurations(t)[2])
          /\ s[3] = Content(base, Configurations(t)[3])
          /\ s[4] = Content(base, Configurations(t)[4])
      BY ONLY <3>2
    <3> QED
      BY ONLY <3>1, <3>2, <3>3
  <2>4. place[c].api = First(s, "") /\ First(s, "") # ""
    <3>1. place[c].api = Cluster(Track(c)) /\ Cluster(Track(c)) # ""
      BY <2>1, ItsPlace
    <3>2. Cluster(t) = First(s, "")
      BY DEF Cluster
    <3> QED
      BY <2>2, <3>1, <3>2
  <2> HIDE DEF s
  <2>5. First(s, "") = IF s[1] # "" THEN s[1] ELSE IF s[2] # "" THEN s[2]
                       ELSE IF s[3] # "" THEN s[3] ELSE s[4]
    BY <2>3, FirstOfFour
  <2> QED
    BY <2>2, <2>3, <2>4, <2>5
<1> QED
  BY <1>1, SettingsHold, PTL

\* The settings a command reads, for one variable that CI gives it a value for.
LEMMA GivenSetting ==
  ASSUME NEW e, NEW field, Get(e, Name(field)) # Unset
  PROVE  Setting(e, field) = Get(e, Name(field))
<1> DEFINE s == <<Get(e, Name(field)), Get(e, Safe[ProjectName(e)] \o Name(field)),
                  Mapped(e, field), Default(field)>>
<1>1. Setting(e, field) = First(s, Unset)
  BY DEF Setting
<1>2. DOMAIN s = 1..4 /\ s[1] = Get(e, Name(field))
  OBVIOUS
<1> HIDE DEF s
<1>3. First(s, Unset) = IF s[1] # Unset THEN s[1] ELSE IF s[2] # Unset THEN s[2]
                        ELSE IF s[3] # Unset THEN s[3] ELSE s[4]
  BY <1>2, FirstOfFour
<1> QED
  BY <1>1, <1>2, <1>3

\* The commands of a pipeline have one track, the services perhaps aside.
LEMMA OneTrack ==
  ASSUME SettingsInvariant, NEW c \in Deploying, NEW d \in Deploying, c # d,
         pc[c] = "done", pc[d] = "done", ~ServicesApart(c, d)
  PROVE  Track(c) = Track(d)
<1> USE DEF SettingsInvariant
<1>1. \A x \in {c, d} :
        /\ conf[x]["TRACK"] = Setting(ProcessEnv(x), "TRACK")
        /\ conf[x]["DEFAULT_TRACK"] = Setting(ProcessEnv(x), "DEFAULT_TRACK")
  BY DEF SettingsInv, Deploying, Commands, Ours, Fields
<1>2. \A x \in {c, d} :
        Track(x) = IF arg # "" THEN arg
                   ELSE IF conf[x]["TRACK"] # "" THEN conf[x]["TRACK"]
                   ELSE conf[x]["DEFAULT_TRACK"]
  <2> SUFFICES ASSUME NEW x \in {c, d}
               PROVE  Track(x) = IF arg # "" THEN arg
                                 ELSE IF conf[x]["TRACK"] # "" THEN conf[x]["TRACK"]
                                 ELSE conf[x]["DEFAULT_TRACK"]
    OBVIOUS
  <2>1. PICK a, t, u, none : /\ a = arg /\ t = conf[x]["TRACK"]
                             /\ u = conf[x]["DEFAULT_TRACK"] /\ none = ""
    OBVIOUS
  <2>2. Track(x) = First(<<a, t, u>>, none)
    BY <2>1 DEF Track
  <2>3. First(<<a, t, u>>, none) = IF a # none THEN a ELSE IF t # none THEN t ELSE u
    BY ONLY FirstOfThree
  <2> QED
    BY <2>1, <2>2, <2>3
<1>3. \A x \in {c, d} :
        ProcessEnv(x) = Onto(Nothing, Onto(base, IF template THEN JobVariables(x) ELSE Nothing))
  BY DEF ProcessEnv, Deploying
<1>4. CASE arg # ""
  BY <1>2, <1>4
<1>5. CASE ~template \/ "deploy_service" \notin {c, d}
  <2>1. template => JobVariables(c) = JobVariables(d)
    BY <1>5 DEF JobVariables, Deploying
  <2>2. ProcessEnv(c) = ProcessEnv(d)
    BY <1>3, <2>1
  <2>3. conf[c]["TRACK"] = conf[d]["TRACK"] /\ conf[c]["DEFAULT_TRACK"] = conf[d]["DEFAULT_TRACK"]
    BY <1>1, <2>2
  <2>4. PICK t, u : t = conf[c]["TRACK"] /\ u = conf[c]["DEFAULT_TRACK"]
    OBVIOUS
  <2> DEFINE track == IF arg # "" THEN arg ELSE IF t # "" THEN t ELSE u
  <2>5. Track(c) = track
    BY <1>2, <2>4
  <2>6. Track(d) = track
    BY <1>2, <2>3, <2>4
  <2> HIDE DEF track
  <2> QED
    BY <2>5, <2>6
<1>6. CASE arg = "" /\ template /\ "deploy_service" \in {c, d}
  <2> DEFINE given == Get(base, Name("TRACK"))
             track == IF given # Unset THEN given ELSE "REVIEW"
  <2>1. given # "" /\ "REVIEW" # Unset
    BY <1>6, SettingsAssumption DEF ServicesApart
  <2>2. ASSUME NEW x \in {c, d} PROVE Get(ProcessEnv(x), Name("TRACK")) = track
    <3>1. Name("TRACK") \in DOMAIN JobVariables(x) /\ JobVariables(x)[Name("TRACK")] = "REVIEW"
      BY DEF JobVariables, Deploying, Name
    <3>2. Get(Onto(base, JobVariables(x)), Name("TRACK")) = track
      <4>1. CASE Name("TRACK") \in DOMAIN base
        <5>1. given # Unset
          BY <4>1, SettingsAssumption DEF Get, Types
        <5> QED
          BY <4>1, <5>1, OntoAt DEF Get
      <4>2. CASE Name("TRACK") \notin DOMAIN base
        <5>1. Get(Onto(base, JobVariables(x)), Name("TRACK")) = Get(JobVariables(x), Name("TRACK"))
          BY <4>2, OntoAt, SameValue
        <5> QED
          BY <3>1, <4>2, <5>1 DEF Get
      <4> QED
        BY <4>1, <4>2
    <3>3. Same(ProcessEnv(x), Onto(base, JobVariables(x)), Name("TRACK"))
      <4>1. ProcessEnv(x) = Onto(Nothing, Onto(base, JobVariables(x)))
        BY <1>3, <1>6
      <4>2. Name("TRACK") \notin DOMAIN Nothing
        BY DEF Nothing
      <4> QED
        BY <4>1, <4>2, OntoAt
    <3> QED
      BY <3>2, <3>3, SameValue
  <2>3. track # Unset /\ track # ""
    BY <2>1
  <2>4. \A x \in {c, d} : conf[x]["TRACK"] = track
    BY <1>1, <2>2, <2>3, GivenSetting
  <2>5. Track(c) = track /\ Track(d) = track
    BY <1>2, <1>6, <2>3, <2>4
  <2> QED
    BY <2>5
<1> QED
  BY <1>4, <1>5, <1>6

\* What one command makes in a cluster and a namespace, another one of the pipeline
\* finds there, unless only the services have a default track.
THEOREM CleanupFollowsDeployHolds == Spec => []CleanupFollowsDeploy
<1>1. SettingsInvariant => CleanupFollowsDeploy
  <2> SUFFICES ASSUME SettingsInvariant, NEW c \in Deploying, NEW d \in Deploying,
                      place[c] # Unset, place[d] # Unset
               PROVE  /\ place[c].api = place[d].kubectl \/ ServicesApart(c, d)
                      /\ place[c].namespace = place[d].namespace
    BY DEF CleanupFollowsDeploy
  <2>1. InPlace(c) /\ InPlace(d)
    BY DEF SettingsInvariant, PlaceInv
  <2>2. /\ place[c].api = Cluster(Track(c)) /\ place[d].kubectl = Cluster(Track(d))
        /\ place[c].namespace = place[d].namespace
    BY <2>1, ItsPlace
  <2>3. CASE c = d
    BY <2>2, <2>3
  <2>4. CASE c # d
    <3>1. Track(c) = Track(d) \/ ServicesApart(c, d)
      BY <2>1, <2>4, OneTrack DEF InPlace
    <3> QED
      BY <2>2, <3>1
  <2> QED
    BY <2>3, <2>4
<1> QED
  BY <1>1, SettingsHold, PTL
=============================================================================
