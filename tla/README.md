# Kólga in TLA+

Models, model checks and proofs of [Kólga](../src/README.md), the CI/CD tool
that builds, deploys and cleans up applications on Kubernetes by driving
docker, helm, kubectl and Vault.

## 1. The system

Every `devops <command>` is one process, run by a CI job. It has no state of its
own that survives it: what it leaves behind is in the Kubernetes cluster, in the
container registry, in the artifacts of the CI and in files of the runner. Two
jobs of two pipelines may work on the same environment at the same time, and the
CI may cancel a job at any moment (`interruptible: true` in
`.gitlab-ci-base-template.yml`). That is where the difficulty of this program
lies; within one process the only concurrency is the pod log collector.

| Component | Code | State | Operations | Hard because |
|---|---|---|---|---|
| Deployment and clean-up | `devops` deploy_application, review_cleanup; `libs/kubernetes.py`, `libs/helm.py` | namespace, secrets and Helm release of each project, pods | create_namespace, create_secret (file, env, basic auth), upgrade_chart, delete_namespace | jobs overlap between any two requests; requests fail before or after acting; helm locks, rolls back, times out; jobs are cancelled; the namespace may be terminating |
| Pod log collection | `utils/kube_logger.py`, create_application_deployment | a thread, its kubectl, a temporary file | start, restart of kubectl, stop, reading the log | two threads and child processes share a file; the thread must end |
| Life cycle and plugins | `hooks/hookspec.py`, `plugins/*`, `settings.load_plugins` | nested phases, OpenTelemetry context stack | begin and complete hooks | a plugin that raises skips the ones after it; order of plugins is arbitrary |
| Names | `utils/general.py`, `libs/project.py` | none | deploy, secret and host names | truncation: lengths, collisions |
| Settings | `settings.py`, `utils/fields.py` | environment, dotenv artifacts, kubeconfig files | precedence, project prefixes, kubeconfig choice | each command works it out anew, from an environment that differs |
| Pipeline templates | `.gitlab-ci-base-template.yml` | pipelines and jobs of the CI | jobs start in stages, clean up on failure, are cancelled | a newer pipeline cancels older ones in the middle, whose releases and clean-ups it meets |
| Sources of secrets | `libs/vault.py`, `kubernetes.py`, `project.py` | environment, temporary files | Vault login and read, file secrets, basic auth | missing paths, precedence |
| Image build | `libs/docker.py`, `libs/git.py` | registry tags, build cache, builder | stages, tags, cache tags | partial failure, stages that are not built |
| Services | `libs/service.py`, `services/*`, `database.py` | release, credentials, artifact file | prerequisites, credentials, artifacts | repeated runs with random credentials |
| Logger, models, vendored URL parser, chart templates | `utils/logger.py`, `utils/models.py`, `utils/url.py`, `helm/` | none | formatting, data | - |

How they interact: `devops` calls the libraries one after the other; the libraries
call the plugins through the life cycle; a deployment of a project starts the log
collector; services and image builds hand over to later jobs through dotenv
artifacts, which the settings of those jobs read.

What makes each of them correct:

* Deployment: dependencies before dependents; a failure stops the loop; a release
  left locked stops every job that gets to it, until a clean-up; races over namespace and secrets harm nobody; a job that reports
  success has left what it says, if nobody else was at work; secrets of a finished
  job never serve a later image; every job ends.
* Log collection: at most one kubectl, none left after stop; what is shown is all
  that was collected, and in order; stop returns; a lost kubectl is replaced.
* Life cycle: spans nest, end and tell the truth; an exception is recorded once;
  Slack announces only what was deployed.
* Names: within the limits, never failing, shared only where it cannot be helped.
* Pipelines: a review fails only for a reason, is not taken down by a pipeline it
  replaced, and every pipeline ends.
* Settings: commands that belong together work on the same image, cluster and
  namespace. Secrets: nothing lost, documented
  precedence. Images: artifact only after all were pushed. Services: credentials
  of the artifact are those of the database, parts of one URL are not mixed.

## 2. Plan

What was planned is done, in this order:

1. `Rollout`, `Deploy` (with `MCDeploy`): deployment and clean-up of one
   environment. `DeployProofs`: types, loop, locks and the refinement of `Rollout`,
   then what a job may rely on when nobody overlaps it.
2. `KubeLogger` (with `KubeLoggerProofs`): the log collector.
3. `LifeCycle` (with `LifeCycleProofs`): hooks and plugins.
4. `Secrets` (with `MCSecrets`, `SecretsProofs`): what goes into the secrets of a
   project. It is the data behind what `Deploy` calls the secret of a job.
5. `Naming`, `ProjectSetup` (with `MCProjectSetup`, `ProjectSetupProofs`): names and
   hosts. They say how far projects have releases and secrets of their own, which
   `Deploy` takes for granted.
6. `ImageBuild` (with `MCImageBuild`, `ImageBuildProofs`): stages, tags, pushes, the
   artifact, and what tests pull.
7. `ServiceArtifacts` (with `MCServiceArtifacts`, `ServiceArtifactsProofs`): services
   deployed repeatedly, their accounts and the dotenv files.
8. `Settings` (with `MCSettings`, `SettingsProofs`): where the commands of a pipeline
   get their settings from, the image of the tests, and the choice of the cluster.
9. `Pipeline` (with `MCPipeline`): the jobs of `Deploy` as the pipelines of a merge
   request start and cancel them. It extends `Deploy`; its theorems are the last parts
   of `DeployProofs`.

Every safety property that a passing run checks is a theorem. What would come next:
the refinement of one abstract deployment by `Pipeline` and `Settings` together; the
settings of GitHub events; values of the charts, as far as a property depends on them.

## 3. The modules

### Deploy, Rollout

One environment: a namespace, and in it per project three secrets (`file`: secret
files, `env`: environment, `auth`: basic auth, only for `Protected` projects) and
a Helm release. Jobs are deployers (`deploy_application`) and cleaners
(`review_cleanup`). An action is one request to the cluster, because that is where
other jobs can come in between; `pc[j]` names the request job `j` makes next.

| Action | Code |
|---|---|
| `ReadNamespace`, `CreateNamespace` | create_namespace: read, on 404 create, 409 is success, any phase of the namespace will do |
| `CreateSecret`, `ReplaceSecret` | create_secret: create, on any error replace, whose error is raised |
| `BeginUpgrade`, `UpgradeSucceeds`, `UpgradeFails` | create_application_deployment around `helm upgrade --install --atomic`: helm takes the release (status `pending`), waits for pods, then commits or rolls back; with `"api"` in `Faults` it may also lose the API server and leave the release `pending` (`Failed`); a non-zero result raises DeploymentFailed |
| `LocalError` | what may raise between two requests: helm repositories, Vault, secret files, htpasswd |
| `DeleteNamespace`, `WaitDeleted` | `kubectl delete namespace --ignore-not-found --wait=true` |
| `Start`, `Kill` | the CI starts and cancels jobs |
| `PodRestart`, `DeleteContent`, `NamespaceGone` | kubelet and namespace controller |

A secret and an image are represented by the job they come from, which is all the
properties tell apart. `rel[p].env` is what the serving pods started with,
`rel[p].fresh` what the pods of a pending revision did. Rolling back restores the
release, never the secrets: that is what the code does, and the properties are
stated so. A request that fails may have had its effect (`"api"`), helm may fail
(`"helm"`), a hook may raise (`"hook"`), upgrade_chart may raise instead of
returning a result (`"raise"`, which leaves the process hanging, see KubeLogger),
a job may be cancelled (`"kill"`).

`upgraded` and `before` are history: what a job has upgraded, and which jobs were
over when it started. Properties use them and no action depends on them.

Two of the properties speak of overlaps. `LoneSuccessIsConsistent` and
`LoneCleanupLeavesNothing` are about a job that no other overlapped, whatever jobs
before it have left half done; `SecretsAreNeverStale` and `CleanupFreesLocks` hold
with overlaps, too.

`Rollout` is what a reader expects of a set of concurrent rollouts: each goes
through the projects in order, stops or succeeds, and what is live was put there by
a rollout that had done everything before it. `ImplementsRollout` is the
refinement, with namespace, secrets, locks and clean-up hidden.

### KubeLogger

The main thread between `project_deployment_begin` and the end of
create_application_deployment, the logger thread's loop statement by statement, and
the kubectl processes, which write to the shared file. What a kubectl writes follows
from how it is called: with `--selector` and without `--tail` it begins ten lines
(`TailLines`) before the end of each container's log; with `--follow` it stays with
the containers it has found when it connected (`Connect`), and copies their lines as
they come, mixed (`Copy`). So the log of a failed deployment may lack lines and may
have some twice; `LogInOrder` says what remains true: a kubectl writes nothing after
its successor has begun to, and a container's lines are in order but for the
repetition. The event lookup after the upgrade changes nothing and cannot
raise, so it has no action. `Event.wait` that times out at the instant the event is
set is the same as one that times out just before.

### LifeCycle

The context managers of `_make_manager` as a stack of frames; a frame is calling
begin hooks, running its body, or calling complete hooks. `order` is the order of
registration (any order of any set of plugins, since plugins are found by `glob` and
loaded if configured). `todo` has the places in it of the plugins a hook has yet to
call, and the last of them is called next. What plugins do is in
`OtelBegins`, `OtelCompletes`, `SlackCompletes`, `BinfmtBegins`. pluggy is modelled
by its contract: an implementation that raises ends the call.

### Secrets

One run of `deploy_application` over its projects, while others write to Vault.
`pc` and `p` say which step comes next for which project: `Login`, `ReadMain`,
`ReadTf` or `TfMissing` (the two requests of `Vault.get_secrets`; the missing path
raises `InvalidPath`, which is logged and ends the whole `try`),
`CreateFileSecret`, `CreateSecret` (`dict.update` of Vault's secrets with
`Project.secret_data` and the paths of files). A value is represented by where it
comes from and which write of Vault it is, since that is what can be wrong with it.
`file` holds the `K8S_FILE_SECRET_` variables of the process: they stay when the loop
goes on to the next project. Two keys of Vault that differ in case become the same
variable, and either may win. `seen` is history: what Vault answered.

### ImageBuild

`create_images` in several pipelines on one registry, and `test_setup` after it.
`SetupBuildkit`/`BuilderExists`: `docker buildx create` of a fixed name. `Push`: one
tag of one stage reaches the registry (docker pushes them one after the other, and
the job may be cancelled in between); `StageBuilt`: `build_stages` goes on;
`WriteArtifact`: the dotenv file; `TestSetup`: the pull of the image the file names,
whose failure is only logged. A tag is the sequence of the parts that `-` joins, so
that the tag of branch `main-dev` and that of stage `dev` on branch `main` are the
same. Which commit, branch, Dockerfile and pipeline an invocation has is chosen in
`Init`.

### Naming, ProjectSetup

`Naming` has the functions of `utils/general.py` on sequences of characters, with
the limits of the code; the hash is a function `Digest` of which only the length is
assumed. `ProjectSetup` constructs the main project and its dependencies:
`LimitHost`, `AddDependency` (the host of a dependency is made from the limited host
of the main one and limited again), `Complete`.

Names that had to be cut are told apart by two digits of a hash, so that no property
can say that releases, secrets and hosts are always distinct. `NamesDiffer` says
exactly when they are not. `ReleasesDiffer`: two names are the same once Kubernetes'
characters replace others, or one was cut, they begin alike as far as there is room,
and the hash digits are equal or are what the other name happens to end with
(`LooksCut`); never if their first nine characters differ; the file secret of `x` is
that of the name `x-file`. `TracksDiffer`: a project has the same release on two
tracks only if what is kept of them is the same, or is not equally long and the
project's name is cut on one of them. `HostsDiffer`: two dependencies share a host
only if the digits made for them are the same, seven of the name, or two of the whole
label where the host is cut again; and one shares the main host only if that takes all
the room and ends with its digits. Each of these exceptions occurs in the run.

### ServiceArtifacts

Jobs of `deploy_service` in several pipelines of one environment. `StartRun` makes the
credentials, `Upgrade` or `UpgradeFails` is helm, `WriteArtifact` the dotenv file,
`DeployApps` the reading of these files by a later job (in any order, as they are
found by `glob`), `Cleanup` removes the namespace. `data[s]` are the accounts the
service accepts: external behaviour, assumed of the charts, is that a service sets
up its accounts when it first starts and finds its data when it is upgraded or
installed anew in the same namespace (`Initialised`). MySQL has a new random account
per run and application (`_setup_database_init`); the others have one account, whose
password is random per process unless DATABASE_PASSWORD is set (`fixed`).

### Pipeline

The pipelines of one merge request, whose reviews are one environment. A pipeline
has stages that build, test and deploy services (only whether they fail matters:
`EarlierFails`), then `review` (`StartReview`), which is a deployer of `Deploy`, and
`cleanup_review` (`StartCleanup`), a cleaner of `Deploy`, which the template starts
`when: on_failure` of any job before it. `Create` is a push: a newer commit's
pipeline cancels those it makes redundant, as their jobs are `interruptible`. (The
hidden templates `.docker-image-scan` and `.sonarqube` are not; a project that extends
them before its review has pipelines that are not cancelled once such a job has begun.)
`Cancel` is a user. A cancelled pipeline starts no job any more, and the runners learn
of it later (`KillCanceled`), so that jobs of two pipelines do overlap. That part is
GitLab's behaviour as the template uses it. `stop_review` runs the same command as
`cleanup_review` when somebody asks for it; that is an ordinary cleaner of `Deploy`,
checked there.

`FailureHasCause` is the question a user asks when a review fails: where cancellation
is the only fault, either a clean-up or another review overlapped it, or an upgrade
that was cancelled before has left the release locked, which costs at most one
pipeline. `ReviewStaysUp` says that older pipelines do not take down what a newer one
has deployed. `underway` is history.

### Settings

The five commands that a pipeline runs, each a process that starts with variables of
CI (`base`), of its job (`JobVariables`), and of the files of earlier jobs
(`Artifacts`, which override the others, and which `cleanup_review` does not get, as
it has `dependencies: []`). In GitLab, variables of the project are stronger than
those a job has in the YAML file: `ProcessEnv`. `ReadSettings` is the import of
`settings`: `Setting` goes through the four sources of a setting. The project's name
comes first, because the second source is the variable with that name before it.
`CreateImages` and `TestSetup` are the ends of the path the image's name takes.
`Connect` is `setup_kubeconfig` of a command's `Kubernetes`: the API client gets the
file it returns, while kubectl and helm find it in the environment.

The name of a variable is a sequence of words, since names are made by joining: the
track `RAW` makes `KUBECONFIG_RAW` the configuration of a track.

The properties relate commands: what `create_images` built reaches `test_setup`
(`TestsGetTheBuild`), and the clean-up goes where the deployment went
(`CleanupFollowsDeploy`). Their exceptions, `Renamed` and `ServicesApart`, are in
section 5.

## 4. The runs

| Run | Shows | Bounds |
|---|---|---|
| `deploy_faults` | all safety of Deploy, locks that clean-ups free, refinement of Rollout | 2 deployers, 1 cleaner, 2 projects, all faults: two jobs suffice for every pairwise race, a cleaner for the races with deletion, a second project for order and partial failure |
| `logger` | log collection, safety and liveness | 3 kubectl processes, 2 containers of 2 lines, of which a restarted kubectl repeats 1: a restart after a restart; two containers mix; two lines tell one that is repeated from one that is skipped |
| `logger_garbage` | finding: the log file, and the process, stay when upgrade_chart raises | - |
| `lifecycle` | trace and announcements are true | all commands, 2 stages or projects, all orders of all sets of plugins |
| `secrets` | secrets of each project: nothing lost, strongest source, files and variables that fit | 2 projects, 1 variable name, which is also that of the file and of two keys in Vault (`cert`, `CERT`), 1 write by others: all sources meet under one name, two projects show what stays in the process, one write separates any two reads |
| `secrets_leak` | finding: file secrets become variables | 1 project |
| `image_build` | what the registry holds and tests pull | 2 invocations in one or two pipelines, commits of two branches with clashing tags, Dockerfiles with and without the test stage, all failures: two suffice for every pairwise race and for a retry after a failure |
| `project_setup` | names and hosts fit and are shared only as stated; services are found | two dependencies; slugs, tracks, names and hosts of lengths on both sides of every limit; characters that are replaced; a hash of the last character, so that hashes do collide |
| `services` | applications get credentials that work, and parts that belong together | 2 pipelines, MySQL and PostgreSQL, 2 applications of which one has both, 4 runs: both pipelines can deploy both, or one can repeat two failed jobs |
| `services_uri` | finding: a variable holds the URL of another service | 1 pipeline |
| `pipeline` | why a review fails, what takes it down, every pipeline ends | 3 pipelines, 1 project, cancellation at any moment: one that leaves a locked release, one that fails of it and cleans up, one that works again; locks and namespace do not depend on the number of projects |
| `settings` | tests get the image built, a deployment goes to its track's cluster, the clean-up to where it went | every combination of 4 variables of the project's name and image on every platform, and of 8 variables of tracks and clusters on GitLab, each not set, empty or with a value of its own, with and without the template; tracks of which one is called `RAW` |

Fairness. In `Pipeline` a job of `Deploy` that can take a step does (a running
process is scheduled; helm has a `--timeout`, which is `UpgradeFails`), and so do the
namespace controller and the runners that pick up jobs that are due; nobody has to
push or to cancel. `EveryPipelineEnds` is checked with cancellation as the only fault:
with `"raise"` it is false (see `logger_garbage`), and any other failure only ends a
job earlier. In `KubeLogger` both threads are scheduled; kubectl and pods owe nothing.

For each property of a passing run a faulty variant of a definition (`Mut...` in the
modules, named in `PROJECT.json`) makes TLC find it violated.

Deadlock is not checked in `Secrets`, `Settings`, `ImageBuild` and `ProjectSetup`,
whose commands end. In `Deploy`, `Pipeline`, `KubeLogger` and `LifeCycle` an ended
system stutters explicitly or goes on; in `ServiceArtifacts` a clean-up is always
possible.

## 5. Findings

Runs whose property is what a document or a comment says, violated by the code:

* `logger_garbage`: `KubeLoggerThread` leaves its file, and the process does not end,
  when upgrade_chart raises: `src/kolga/utils/kube_logger.py:44`,
  `src/kolga/libs/kubernetes.py:682-718`.
* `secrets_leak`: with VAULT_TF_SECRETS and no Terraform path, secrets meant to be
  files become plain variables: `src/docs/pages/reference/vault.md:34`,
  `src/kolga/libs/vault.py:137-152`.
* `services_uri`: the variable given with `--env-var` may hold the URL of another
  service, since MySQL and PostgreSQL both write DATABASE_URL:
  `src/docs/pages/reference/stages.md:164`, `src/kolga/settings.py:73-82`.

Seen in the code while modelling, without a run of their own:

* An interrupted command (KeyboardInterrupt) does not fire application_shutdown,
  which is "Fired when the application is exiting." (`hooks/hookspec.py:25`): exit
  hooks run under `except Exception` and `else` only. In `LifeCycle`,
  `Interrupt` is that exit, and `SpansTell` excepts it.
* A project with Terraform secrets only gets none of them: the missing first path
  ends `get_secrets` before the second request (`vault.md:30`, `vault.py:122`).
* Stages other than the final one and the test stage are not built, although "the
  pipeline builds and store all stages" (`stages.md:41`; `docker.py:228`).
* A second `create_images` in one job fails because its builder exists
  (`stages.md:84` proposes to run it twice; `docker.py:56-69`).
* `test_setup` succeeds when the image cannot be pulled (`docker.py:190`).
* setup_kubeconfig "Uses a track-specific kubeconfig if `KUBECONFIG_{track}` is set.
  Otherwise does a fallback to `KUBECONFIG`." (`settings.py:341-342`). A general
  `KUBECONFIG_RAW` comes before a `KUBECONFIG_<TRACK>`; `ClusterIsOfTheTrack` has
  that exception.
* A variable `<PREFIX>_PROJECT_NAME` renames the project: `create_images` then names
  its artifact after the new name, for which no later command looks (`devops:101`;
  `Renamed` in `TestsGetTheBuild`).
* Only `.review-service` of the template has a `DEFAULT_TRACK`. Where the project
  empties TRACK, services go to the cluster of the track review and the application
  to that of the default track (`ServicesApart` in `CleanupFollowsDeploy`).
* `Logger.do_section` ends a section twice if its body raises (`logger.py:50-54`).

Not promised otherwise, but worth knowing: a cancelled upgrade leaves the release
locked until someone intervenes, and so may one whose helm lost the API server, though
its job fails (`LockStopsJobs` allows exactly that); a rollback does
not restore secrets; the log shown of a failed deployment begins with the last ten
lines of each container, and lacks what was printed while no kubectl was connected,
but for these; a project called `<track>-<name>` has the release of `<name>` on that
track, tracks with the same first nine characters have the same releases, and under
a long domain only two hash digits tell the hosts of dependencies apart
(`NamesDiffer`); a Slack failure fails a job whose deployment succeeded; a second
`deploy_service` for MySQL hands out accounts that the database, which keeps its
data, does not have, and so does a retry after a failed first installation
(`AccessUnlessKept` has exactly these exceptions); the
secret files that Vault holds for one project are given to the projects deployed
after it (`FilesAccumulate`).

## 6. Proofs

For any number of jobs, projects, pipelines, restarts, lines, services, builds and
Dockerfiles, and strings of any length. Each module has one inductive invariant, made
of named parts; the properties follow from it.

* `DeployProofs`. `TypeCorrect`: types, with `StageOK`, which project and secret a
  deployer may be at in each stage, without which `NextKind` and `secret[p][k]` are
  not known to be defined. `DeployInvariant` has three parts. `LoopInv`: while it
  runs, a deployer at project `p` has upgraded exactly `1..p-1`. `ServedInv`: a
  project that serves a job's image is one the job has passed, which makes the first
  part of `DependenciesFirst` inductive: the image is set only in the step that adds
  `p` to `upgraded`. `LockInv`: a pending release belongs to a deployer that is at
  that project and upgrading it, was killed there or, if helm may lose the API server,
  has failed there. `DependenciesFirst` follows, and
  `LockStopsJobs` with `ReleasedInv` (below): a job that has upgraded a project found
  no lock of a job that was over before, and none can come back.
  `DeployImplementsRollout`: each step is one of `Rollout`
  or changes nothing of it. The assumptions are `DeployAssumption`: at least one
  project, jobs of two disjoint kinds, `None` no job.
* `DeployProofs`, isolation. `HistoryInv`: the jobs in `before[j]` are over for good.
  `WrittenInv`: a secret that a running job has already replaced is not of a job in
  its `before` (it may be of one that overlaps it); `FreshInv` carries that over to
  the pods of a pending revision, and `SecretsAreNeverStale`, which is inductive with
  them, to those that serve. `CleanInv`: a clean-up that waits for a namespace that
  is gone has left no lock of a job before it, hence `CleanupFreesLocks`.
  `LoneCleanInv` and `LoneDeployInv` say what a job that nobody overlaps can rely on
  at each stage: the namespace it deletes is the last, or what it has upgraded is
  served with its own secrets. The overlap is stated over history, so that it can
  only grow, which makes these inductive.
* `DeployProofs`, pipelines. `PipelineImplementsDeploy`: whatever the CI starts and
  cancels is a behaviour of `Deploy`, so that its theorems hold (`PipelinesAreSafe`).
  `PipelineInvariant` adds `CiInv`, that a pipeline that has a newer one starts no
  clean-up any more (it was over, or is cancelled), and `ReviewInv`, that what
  an undisturbed review has upgraded stands. `ReviewStaysUp` follows.
* `DeployProofs`, failures. `FailureHasCause` under `OnlyCancellations`
  (`Faults \subseteq {"kill"}`), which is what the property is about: with any other
  fault a job may fail by it alone. `ShelterInv`: a deployer that no clean-up has
  overlapped finds at each stage what its next request needs, an active namespace, the
  secrets it has written, the secret that made its create fail, and the lock it
  holds; so it fails only at helm. Why helm refuses it: `ReleasedInv`, a lock of a job
  that was over stays only on releases the later job has yet to upgrade; `JobsInv`, a
  job is killed only in a cancelled pipeline and a clean-up does not fail; `OrderInv`,
  older pipelines are cancelled or over when a newer one is created. Hence the holder
  overlaps the job that fails, or was cancelled with its lock and so was every pipeline
  in between (`LockHasCause`). A cause stays one (`CausesStay`), as history only grows.
* `KubeLoggerProofs`. `LoggerInvariant`: `ThreadsInv` ties the places of the two
  threads together (stop has returned only if the logger thread has ended, and it
  ends only with all kubectl reaped); `ReportInv` says that what has been shown is a
  prefix of the log. `OneKubectl`, `NoKubectlAfterStop` and `ReportIsFinal` follow.
  `LogInOrder` needs `OrderInv`: the kubectl that may still write comes after all that
  have written; how far each has come in a container is behind none of its lines in
  the log, and no more than `TailLines` behind those of the ones before it
  (`LineInv`: a line in the log was printed).
* `SecretsProofs`. `SecretsInvariant`: the values at hand are Vault's, so that none of
  them passes for a mounted file; when the secret of a project is about to be made,
  its file secret has exactly the files the environment has; and the file secrets of
  finished projects have no file that the environment has not. The last is why
  `FilesAccumulate` is inductive: nothing removes a variable. `FilesAnnounced` and
  `FilesAccumulate` (proved only, no run checks it) follow, for any relation of keys
  to files. `TypesCorrect` needs that the values at hand have the type of Vault's,
  since file keys put them into files. `SourcesInvariant` says what each step leaves to
  the next: what was read is what Vault has answered, and the environment has the
  files made so far. A finished secret has the strongest of what its sources offered
  then (`StrongestSourceWins`), and its files are those that were found for their
  variables (`FilesAreCurrent`).
* `LifeCycleProofs`. `LifeCycleInvariant` has four parts beside the types. `StackInv`:
  the frames are a path in the tree of phases, all but the innermost in their bodies,
  and only the innermost has to do with an exception. `SpanInv`: the spans come in the
  order of their phases, and one that has ended tells whether its body raised.
  `ContextInv`: the context stack holds the open spans, each the parent of the next;
  unless the run was interrupted or a plugin that raised kept the tracer from being
  called, each is of a phase being run that has yet to end it. `AnnounceInv`: Slack has
  told only of projects whose body returned, and of all that are over. `SpansNest`,
  `SpansTell` and `AnnouncedMeansDeployed` follow, for any number of stages and
  projects and every order of plugins.
* `ProjectSetupProofs`. `ReleasesFit`, `HostsFit` and `ServicesAreFound` for strings
  over any characters and any hash of sufficient length (`NamingAssumption`).
  The lemmas: `SafeName` keeps lengths and goes character by character, `Truncated` is
  at most `max` long if `max >= 4`, environment and track take at most 40 of Helm's
  53 characters, so at least 13 are left. `HostsFit` needs the invariant that the main
  host is limited before dependencies are made. `NamesDiffer`: what two names have
  in common at the front, or at the end if that is equally long, can be dropped
  (`SameFront`, `SameEnd`); that leaves three cases, with both names cut, one or none
  (`Shared`, `OneCut`), and what is kept of them includes nine characters
  (`SharedBegin`). For hosts there is `HostInv`: each dependency has the limited host
  made of the main one, which is last in the list and no longer changes. `TypesCorrect` has the hypothesis `HexDigest`, that a digest
  of any string has 64 characters; it is a hypothesis of the theorem, not an assumption
  of the module, because TLC cannot evaluate it over all strings.
* `ServiceArtifactsProofs`. `ServicesInvariant`: `DataInv`, the accounts a service has
  are all of the run that set them up; `KeptInv`, a deployed service has its data
  until a clean-up; `EnvInv`, an application has variables only of services of its
  pipeline that grant it access. `AccessUnlessKept` follows, and `PartsFit` under
  `OwnVariables`: no `--env-var` names a part of the other kind of service's
  connection, without which one variable of a broker could be a database's. The
  library's facts on cardinality are used to count the parts. `NoneAssumption`: `None`
  is not the data of a service.
* `ImageBuildProofs`. `ImagesInvariant`: `StateInv`, what an invocation has pushed is
  of the stage it is at; `RegistryInv`, every image is one that some invocation makes,
  under a tag of its; `HeldInv`, what was pushed under a tag of the commit is still
  that stage, and, if nobody at work shares its tags, still its image; `TestsInv`, the
  file of a pipeline names a tag of its commit, and the tests pulled its image. The
  key lemmas are about tags: one that begins with a sha is of that commit and tells
  the stage (`ShaTagIs`, `SameCommit`), and two stages have none of these in common
  (`ShaTagsDiffer`). All properties of the module follow, `TestedIsTheCommit` under
  `OneRepository`, that the build jobs of one pipeline push to one repository: the
  file names only the last. `ImageBuildAssumption` has what a Dockerfile and the names
  allow: stage names are distinct where there are any, and no branch or tag setting
  looks like a sha.

* `SettingsProofs`. `SettingsInvariant`: `SettingsInv`, the settings of a command are
  those of the environment it starts with, since the file of the build is named as
  only the image of the tests is looked for (`FileApart`); `ArtifactInv`, that file
  has the name of the project as its setting has it; `ClusterInv` and `PlaceInv`, a
  deployment is made in the cluster that CI's variables have for its track, whatever
  the template and the files add; `TestInv`, the image a test job is about to pull.
  `TestsGetTheBuild` needs `OneName`, that the setting of an unrenamed project is the
  name it is found by; `CleanupFollowsDeploy` needs `OneTrack`, that the commands of a
  pipeline agree on their track, the services perhaps aside; `ClusterIsOfTheTrack` is
  then about one command. The lemmas before them say which variables a setting depends
  on (`SameSetting`) and how names of variables are told apart (`PrefixedNames`). The
  assumptions: `Unset` is not the value of a variable; `SafeAssumption`, that the
  name of a project becomes at least one word, as `env_var_safe_key` makes of any
  string that is not empty.

Only model-checked: liveness (`EveryPipelineEnds`, `StopReturns`, `KubectlIsReplaced`),
as the prover does not do `ENABLED`; and the runs of section 5, which have
counterexamples.

## 7. Not modelled

The formatting of messages (`utils/logger.py`), the vendored URL parser
(`utils/url.py`), the values and templates of the charts: data. Settings that are
only carried from a variable to a chart or a command, and the unescaping of values.
docker's build cache, of which Kolga only gives the names; platforms and build
arguments; the JWT for Vault; temporary files on the runner that nobody removes.
`delete_all` and `delete_image` are not used by any command, and `status` only reads.
Of the templates, staging and production (one `deploy_application` each, in an
environment of their own) and jobs that do not use Kolga.

Modelled from how the code uses them, not from code of the repository (`external` in
`PROJECT.json`): the CI that starts and cancels jobs, kubelet and namespace
controller, kubectl and the pods, the container registry, other users of Vault, the
charts of the services.
