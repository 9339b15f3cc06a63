------------------------------- MODULE Settings -------------------------------
(***************************************************************************)
(* How the commands of one pipeline come to their settings: from the       *)
(* variables CI gives a job, files left by earlier jobs, the platform and  *)
(* defaults; and what they make of them: the image the tests pull, and the *)
(* cluster and namespace a deployment is made in and cleaned up.  Each     *)
(* command is a process with an environment of its own.                    *)
(*                                                                         *)
(* The name of a variable is a sequence of words: <<"TRACK">>,             *)
(* <<"DEFAULT", "TRACK">>.  Tracks are words; their case is left out.      *)
(***************************************************************************)
EXTENDS Naturals, Sequences

CONSTANTS
  Bases,       \* the environments CI may give to all jobs of a pipeline
  TrackArgs,   \* the values --track may have, "" where it is not given
  Safe,        \* env_var_safe_key: the words of a project name
  Image,       \* the image create_images builds for tests
  Unset

Commands == {"create_images", "test_setup", "deploy_service", "deploy_application",
             "review_cleanup"}
Deploying == {"deploy_service", "deploy_application", "review_cleanup"}
Fields == {"PROJECT_NAME", "TRACK", "DEFAULT_TRACK", "BUILT_DOCKER_TEST_IMAGE",
           "K8S_NAMESPACE"}
Name(field) ==
  CASE field = "PROJECT_NAME" -> <<"PROJECT", "NAME">>
    [] field = "TRACK" -> <<"TRACK">>
    [] field = "DEFAULT_TRACK" -> <<"DEFAULT", "TRACK">>
    [] field = "BUILT_DOCKER_TEST_IMAGE" -> <<"BUILT", "DOCKER", "TEST", "IMAGE">>
    [] field = "K8S_NAMESPACE" -> <<"K8S", "NAMESPACE">>
Default(field) == IF field = "DEFAULT_TRACK" THEN "STABLE" ELSE ""

ASSUME SettingsAssumption ==
  /\ Unset \notin TrackArgs \cup {"", "REVIEW", "STABLE", Image}
  /\ Image # ""
  /\ \A b \in Bases, v \in UNION {DOMAIN c : c \in Bases} :
       v \in DOMAIN b => b[v] # Unset

VARIABLES
  base,        \* the environment CI gives to all jobs
  template,    \* whether the jobs are those of the GitLab template
  arg,         \* the --track that the deploying commands are given
  pc,          \* per command: new, read, done or failed
  env,         \* per command: os.environ
  conf,        \* per command: its settings
  artifact,    \* docker_build.env
  pulled,      \* the image the tests pull
  place        \* per deploying command: its cluster and namespace

vars == <<base, template, arg, pc, env, conf, artifact, pulled, place>>

Nothing == [v \in {} |-> ""]
\* The variables of f, and those of g that f does not set.
Onto(f, g) == [v \in DOMAIN f \cup DOMAIN g |-> IF v \in DOMAIN f THEN f[v] ELSE g[v]]
Get(e, v) == IF v \in DOMAIN e THEN e[v] ELSE Unset
\* os.environ.get(v, ""): a variable that is empty is as good as none.
Content(e, v) == IF v \in DOMAIN e THEN e[v] ELSE ""
\* The first of some values that is not `missing`.
First(s, missing) ==
  LET found == {i \in DOMAIN s : s[i] # missing}
  IN IF found = {} THEN missing ELSE s[CHOOSE i \in found : \A k \in found : i <= k]

\* The variables the GitLab template sets for a job.  (The first definition is a
\* faulty variant: the clean-up is not told its track.)
MutJobVariables(c) ==
  [v \in CASE c = "deploy_service" -> {<<"TRACK">>, <<"DEFAULT", "TRACK">>}
           [] c = "deploy_application" -> {<<"TRACK">>}
           [] OTHER -> {} |-> "REVIEW"]
JobVariables(c) ==
  [v \in CASE c = "deploy_service" -> {<<"TRACK">>, <<"DEFAULT", "TRACK">>}
           [] c \in {"deploy_application", "review_cleanup"} -> {<<"TRACK">>}
           [] OTHER -> {} |-> "REVIEW"]

\* What the process of a command starts with: in GitLab, variables of the project
\* and of CI itself are stronger than those of a job.  The test job may export
\* the name of the image over them.
ProcessEnv(c) ==
  LET built == [v \in {Name("BUILT_DOCKER_TEST_IMAGE")} |-> Image]
  IN Onto(IF template /\ c = "test_setup" THEN built ELSE Nothing,
          Onto(base, IF template THEN JobVariables(c) ELSE Nothing))

\* The jobs that come before, the services aside, which a pipeline may not have.
Earlier(c) ==
  CASE c \in {"create_images", "review_cleanup"} -> {}
    [] c = "test_setup" -> {"create_images"}
    [] c \in {"deploy_service", "deploy_application"} -> {"create_images", "test_setup"}

\* The files of earlier jobs; the clean-up has `dependencies: []`.
Artifacts(c) == IF c \in {"create_images", "review_cleanup"} THEN Nothing ELSE artifact

Init ==
  /\ base \in Bases
  /\ template \in BOOLEAN
  /\ arg \in TrackArgs
  /\ pc = [c \in Commands |-> "new"]
  /\ env = [c \in Commands |-> Nothing]
  /\ conf = [c \in Commands |-> [f \in Fields |-> ""]]
  /\ artifact = Nothing
  /\ pulled = ""
  /\ place = [c \in Deploying |-> Unset]
-----------------------------------------------------------------------------
(* Settings *)

\* The CI platform is the first of three that tells it is there; it gives the
\* settings it has a variable for.
Platform(e) ==
  LET on == <<IF Content(e, <<"AZURE", "HTTP", "USER", "AGENT">>) # "" THEN "azure" ELSE Unset,
              IF Content(e, <<"GITLAB", "CI">>) = "true" THEN "gitlab" ELSE Unset,
              IF Content(e, <<"GITHUB", "ACTIONS">>) = "true" THEN "github" ELSE Unset>>
  IN First(on, Unset)

\* The MAPPING of each platform, for these settings.
Mapping(p) ==
  CASE p = "azure" -> [f \in {"PROJECT_NAME"} |-> <<"SYSTEM", "TEAMPROJECT">>]
    [] p = "gitlab" -> [f \in {"PROJECT_NAME", "K8S_NAMESPACE"} |->
         IF f = "PROJECT_NAME" THEN <<"CI", "PROJECT", "NAME">> ELSE <<"KUBE", "NAMESPACE">>]
    [] p = "github" -> [f \in {"PROJECT_NAME"} |-> <<"GITHUB", "REPOSITORY">>]
    [] OTHER -> [f \in {} |-> <<>>]

Mapped(e, field) ==
  LET mapping == Mapping(Platform(e))
  IN IF field \in DOMAIN mapping THEN Get(e, mapping[field]) ELSE Unset

\* The project's name, before the settings: Unset or "" is an error.
ProjectName(e) == First(<<Get(e, Name("PROJECT_NAME")), Mapped(e, "PROJECT_NAME")>>, Unset)

\* A setting is the variable of its name, else the one with the project's name
\* before it, else what the platform maps to it, else its default.  A variable
\* that is there but empty is a value.
Setting(e, field) ==
  First(<<Get(e, Name(field)), Get(e, Safe[ProjectName(e)] \o Name(field)),
          Mapped(e, field), Default(field)>>, Unset)

\* env_var_safe_key makes at least one word of any name a project has: its name when
\* the settings are read, and its setting.
ASSUME SafeAssumption ==
  \A b \in Bases :
    ProjectName(b) \notin {Unset, ""} =>
      \A n \in {ProjectName(b), Setting(b, "PROJECT_NAME")} :
        Safe[n] \in Seq(STRING) /\ Safe[n] # <<>>

-----------------------------------------------------------------------------
(* The commands *)

\* settings = Settings(), on import: files are put into the environment first.
\* (The first definition is a faulty variant: that comes last.)
MutReadSettings(c) ==
  LET e == ProcessEnv(c) IN
  /\ pc[c] = "new" /\ \A d \in Earlier(c) : pc[d] = "done"
  /\ IF ProjectName(e) \in {Unset, ""}
       THEN pc' = [pc EXCEPT ![c] = "failed"] /\ UNCHANGED <<env, conf>>
       ELSE /\ pc' = [pc EXCEPT ![c] = "read"]
            /\ env' = [env EXCEPT ![c] = Onto(Artifacts(c), e)]
            /\ conf' = [conf EXCEPT ![c] = [f \in Fields |-> Setting(e, f)]]
  /\ UNCHANGED <<base, template, arg, artifact, pulled, place>>
ReadSettings(c) ==
  LET e == Onto(Artifacts(c), ProcessEnv(c)) IN
  /\ pc[c] = "new" /\ \A d \in Earlier(c) : pc[d] = "done"
  /\ IF ProjectName(e) \in {Unset, ""}
       THEN pc' = [pc EXCEPT ![c] = "failed"] /\ UNCHANGED <<env, conf>>
       ELSE /\ pc' = [pc EXCEPT ![c] = "read"]
            /\ env' = [env EXCEPT ![c] = e]
            /\ conf' = [conf EXCEPT ![c] = [f \in Fields |-> Setting(e, f)]]
  /\ UNCHANGED <<base, template, arg, artifact, pulled, place>>

\* create_images leaves the name of the test image in a variable with the name
\* of the project, as its settings have it, before it.
CreateImages ==
  LET project == Safe[conf["create_images"]["PROJECT_NAME"]] IN
  /\ pc["create_images"] = "read"
  /\ artifact' = [v \in {project \o Name("BUILT_DOCKER_TEST_IMAGE")} |-> Image]
  /\ pc' = [pc EXCEPT !["create_images"] = "done"]
  /\ UNCHANGED <<base, template, arg, env, conf, pulled, place>>

TestSetup ==
  LET image == conf["test_setup"]["BUILT_DOCKER_TEST_IMAGE"] IN
  /\ pc["test_setup"] = "read"
  /\ pulled' = image
  /\ pc' = [pc EXCEPT !["test_setup"] = IF image = "" THEN "failed" ELSE "done"]
  /\ UNCHANGED <<base, template, arg, env, conf, artifact, place>>

\* get_track; "" is an error.
Track(c) == First(<<arg, conf[c]["TRACK"], conf[c]["DEFAULT_TRACK"]>>, "")

\* Where the cluster's configuration is: first in variables with its content,
\* then in those with the name of a file; first in that of the track.  (The first
\* definitions are faulty variants: a general variable comes first; the clean-up
\* makes its client without a track.)
MutConfigurations(t) ==
  << <<"KUBECONFIG", "RAW">>, <<"KUBECONFIG", "RAW", t>>,
     <<"KUBECONFIG">>, <<"KUBECONFIG", t>> >>
Configurations(t) ==
  << <<"KUBECONFIG", "RAW", t>>, <<"KUBECONFIG", "RAW">>,
     <<"KUBECONFIG", t>>, <<"KUBECONFIG">> >>

\* setup_kubeconfig: the API client gets what it returns; kubectl and helm, which
\* the command runs later, what it leaves in their environment.
MutConnect(c) ==
  LET config == First([i \in 1..4 |-> Content(env[c], Configurations(Track(c))[i])], "") IN
  /\ pc[c] = "read"
  /\ IF Track(c) = "" \/ config = ""
       THEN pc' = [pc EXCEPT ![c] = "failed"] /\ UNCHANGED <<env, place>>
       ELSE /\ pc' = [pc EXCEPT ![c] = "done"]
            /\ place' = [place EXCEPT ![c] =
                 [api |-> config, kubectl |-> Content(env[c], <<"KUBECONFIG">>),
                  namespace |-> conf[c]["K8S_NAMESPACE"]]]
            /\ UNCHANGED env
  /\ UNCHANGED <<base, template, arg, conf, artifact, pulled>>
Connect(c) ==
  LET config == First([i \in 1..4 |-> Content(env[c], Configurations(Track(c))[i])], "")
      e == Onto([v \in {<<"KUBECONFIG">>} |-> config], env[c])
  IN
  /\ pc[c] = "read"
  /\ IF Track(c) = "" \/ config = ""
       THEN pc' = [pc EXCEPT ![c] = "failed"] /\ UNCHANGED <<env, place>>
       ELSE /\ pc' = [pc EXCEPT ![c] = "done"]
            /\ env' = [env EXCEPT ![c] = e]
            /\ place' = [place EXCEPT ![c] =
                 [api |-> config, kubectl |-> Content(e, <<"KUBECONFIG">>),
                  namespace |-> conf[c]["K8S_NAMESPACE"]]]
  /\ UNCHANGED <<base, template, arg, conf, artifact, pulled>>

Next ==
  \/ \E c \in Commands : ReadSettings(c)
  \/ CreateImages \/ TestSetup
  \/ \E c \in Deploying : Connect(c)

Spec == Init /\ [][Next]_vars
-----------------------------------------------------------------------------
(* Properties *)

\* What has a value when: settings are read before anything is done with them.
TypeOK ==
  /\ template \in BOOLEAN /\ arg \in TrackArgs
  /\ pc \in [Commands -> {"new", "read", "done", "failed"}]
  /\ \A c \in Commands : pc[c] # "new" \/ DOMAIN env[c] = {}
  /\ \A v \in DOMAIN artifact : artifact[v] = Image
  /\ \A c \in Deploying : place[c] # Unset <=> pc[c] = "done"

\* The variable that names the project is given to it under another name: then
\* create_images names its artifact so that no later command looks for it.
Renamed ==
  /\ Name("PROJECT_NAME") \notin DOMAIN base
  /\ Safe[ProjectName(base)] \o Name("PROJECT_NAME") \in DOMAIN base

\* The tests run on the image that the same pipeline has built: whether the name
\* comes from the file or from the job's script, it reaches test_setup through
\* every layer, unless CI itself is given one, or the project is renamed.
TestsGetTheBuild ==
  pc["test_setup"] \in {"done", "failed"} =>
    \/ pulled = Image
    \/ Name("BUILT_DOCKER_TEST_IMAGE") \in DOMAIN base /\ ~template
    \/ Renamed

\* The template gives only the services a DEFAULT_TRACK: where CI empties TRACK,
\* they are of the track REVIEW and the rest of the pipeline is not.
ServicesApart(c, d) ==
  /\ "deploy_service" \in {c, d} /\ c # d
  /\ template /\ arg = "" /\ Get(base, Name("TRACK")) = ""

\* What one command of a pipeline makes through the API or with helm, another one
\* finds and deletes with kubectl: same cluster, same namespace, although one has
\* files of earlier jobs and the other not, and each has variables of its own.
CleanupFollowsDeploy ==
  \A c, d \in Deploying :
    place[c] # Unset /\ place[d] # Unset =>
      /\ place[c].api = place[d].kubectl \/ ServicesApart(c, d)
      /\ place[c].namespace = place[d].namespace

\* A deployment goes to no cluster of another track, and to that of its own one
\* if it has one, unless a general KUBECONFIG_RAW comes before KUBECONFIG_<track>.
ClusterIsOfTheTrack ==
  \A c \in Deploying :
    LET own == {Content(base, <<"KUBECONFIG", "RAW", Track(c)>>),
                Content(base, <<"KUBECONFIG", Track(c)>>)} \ {""}
        general == {Content(base, <<"KUBECONFIG", "RAW">>), Content(base, <<"KUBECONFIG">>)}
    IN place[c] # Unset =>
         /\ place[c].api \in own \cup general
         /\ own # {} => \/ place[c].api \in own
                        \/ place[c].api = Content(base, <<"KUBECONFIG", "RAW">>)
=============================================================================
