-------------------------------- MODULE Deploy --------------------------------
(***************************************************************************)
(* `devops deploy_application` and `devops review_cleanup` as concurrent   *)
(* CI jobs on one environment: one Kubernetes namespace, and in it one set *)
(* of secrets and one Helm release per project.  Each step of a job is one *)
(* request to the cluster; what happens between two requests is local to   *)
(* the process.  Helm, the API server and the namespace controller are     *)
(* external and behave as the code uses them.                              *)
(***************************************************************************)
EXTENDS Naturals, FiniteSets

CONSTANTS
  Deployers,   \* processes running deploy_application
  Cleaners,    \* processes running review_cleanup
  N,           \* projects 1..N: the dependencies in order, then the main project
  Protected,   \* the projects with basic auth users
  Faults,      \* the kinds of failure that may strike
  None         \* no job

FaultKinds == {"api",     \* the API server or kubectl fails, before or after acting
               "local",   \* a step between two requests raises (Vault, htpasswd, ...)
               "hook",    \* a plugin raises from a begin or complete hook
               "helm",    \* helm times out or a chart hook fails
               "raise",   \* upgrade_chart raises instead of returning its result
               "kill"}    \* CI cancels the job

Jobs == Deployers \cup Cleaners

ASSUME DeployAssumption ==
  /\ N \in Nat \ {0}
  /\ Protected \subseteq 1..N
  /\ Faults \subseteq FaultKinds
  /\ Deployers \cap Cleaners = {}
  /\ None \notin Jobs

Projects == 1..N
Kinds == {"file", "env", "auth"}   \* the secrets of a project, in this order
Mounted == {"file", "env"}         \* those its pods need to start

VARIABLES
  ns,        \* the namespace: absent, active or terminating
  gen,       \* how many times it has been created
  secret,    \* secret[p][k]: the job whose data the secret holds
  rel,       \* rel[p]: the Helm release of project p and its pods: the job
             \* whose upgrade holds it and the pods that one starts (fresh), the
             \* job whose revision helm recorded last (image) and its pods (env)
  pc,        \* pc[j]: the request job j makes next, or how it ended
  at,        \* at[j]: the project deployer j works on
  kind,      \* kind[j]: the secret it writes next, or "chart"
  target,    \* target[c]: the incarnation of the namespace cleaner c deletes
  upgraded,  \* history: the projects deployer j has upgraded
  before     \* history: the jobs that were over when job j started

cluster == <<ns, gen, secret, rel>>
control == <<pc, at, kind, target>>
history == <<upgraded, before>>
vars == <<cluster, control, history>>

Ended == {"succeeded", "failed", "killed"}
Stages == Ended \cup {"idle", "read_namespace", "create_namespace", "create_secret",
                    "replace_secret", "upgrade", "upgrading", "hung",
                    "delete_namespace", "wait_deleted"}
Active(j) == pc[j] \notin Ended \cup {"idle"}

NoEnv == [k \in Mounted |-> None]
NoSecrets == [k \in Kinds |-> None]
NoRelease == [status |-> "none", holder |-> None, image |-> None,
              env |-> NoEnv, fresh |-> NoEnv]

Env(p) == [k \in Mounted |-> secret[p][k]]
Startable(env) == \A k \in Mounted : env[k] # None
Holds(j, p) == rel[p].status = "pending" /\ rel[p].holder = j

Goto(j, l) == pc' = [pc EXCEPT ![j] = l]

Init ==
  /\ ns \in {"absent", "active"} /\ gen = 0
  /\ secret = [p \in Projects |-> NoSecrets]
  /\ rel = [p \in Projects |-> NoRelease]
  /\ pc = [j \in Jobs |-> "idle"]
  /\ at = [j \in Deployers |-> 1]
  /\ kind = [j \in Deployers |-> "file"]
  /\ target = [c \in Cleaners |-> 0]
  /\ upgraded = [j \in Deployers |-> {}]
  /\ before = [j \in Jobs |-> {}]
-----------------------------------------------------------------------------
(* Parts of the steps *)

RolledBack(r) ==
  IF r.image = None THEN NoRelease
  ELSE [r EXCEPT !.status = "deployed", !.holder = None, !.fresh = NoEnv]

\* What a failed upgrade leaves of project p's release: --atomic puts back the
\* revision that served before, or uninstalls a first one; a helm that has lost
\* the API server cannot, nor record that it failed.  Nothing puts back the secrets.
Failed(j, p) ==
  {[rel EXCEPT ![p] = IF Holds(j, p) THEN RolledBack(@) ELSE @]}
    \cup (IF "api" \in Faults THEN {rel} ELSE {})

\* After a secret comes the next one of the project, then its chart.
NextKind(p, k) ==
  CASE k = "file" -> "env"
    [] k = "env" -> IF p \in Protected THEN "auth" ELSE "chart"
    [] k = "auth" -> "chart"

SecretWritten(j) ==
  LET next == NextKind(at[j], kind[j]) IN
  /\ kind' = [kind EXCEPT ![j] = next]
  /\ Goto(j, IF next = "chart" THEN "upgrade" ELSE "create_secret")

\* The loop goes on to the next project, or ends.
NextProject(j) ==
  IF at[j] < N
    THEN /\ at' = [at EXCEPT ![j] = @ + 1]
         /\ kind' = [kind EXCEPT ![j] = "file"]
         /\ Goto(j, "create_secret")
    ELSE /\ Goto(j, "succeeded")
         /\ UNCHANGED <<at, kind>>

(* Faulty variants of the steps below, one plausible bug each: they show that *)
(* the properties notice it, and are not part of the specification.           *)

\* A namespace conflict is raised.
MutConflictRaises(j) ==
  /\ pc[j] = "create_namespace"
  /\ Goto(j, IF ns = "absent" THEN "create_secret" ELSE "failed")
  /\ ns' = "active"
  /\ gen' = gen + 1
  /\ UNCHANGED <<secret, rel, at, kind, target, history>>

\* A secret that is already there is taken for success; a failed replacement
\* starts over.
MutConflictKeepsSecret(j) ==
  /\ pc[j] = "replace_secret"
  /\ SecretWritten(j)
  /\ UNCHANGED <<ns, gen, secret, rel, at, target, history>>

MutRetryForever(j) ==
  LET p == at[j]
      k == kind[j]
      found == secret[p][k] # None
  IN
  /\ pc[j] = "replace_secret"
  /\ \/ /\ found
        /\ secret' = [secret EXCEPT ![p][k] = j]
        /\ SecretWritten(j)
     \/ ~found /\ Goto(j, "create_secret") /\ UNCHANGED <<secret, kind>>
  /\ UNCHANGED <<ns, gen, rel, at, target, history>>

\* The return code of helm is ignored.
MutFailureIsIgnored(j) ==
  /\ pc[j] = "upgrading"
  /\ rel' \in Failed(j, at[j])
  /\ NextProject(j)
  /\ UNCHANGED <<ns, gen, secret, target, history>>

\* kubectl delete without --wait.
MutNoWait(c) ==
  /\ pc[c] = "delete_namespace"
  /\ ns' = IF ns = "absent" THEN "absent" ELSE "terminating"
  /\ Goto(c, "succeeded")
  /\ UNCHANGED <<gen, secret, rel, at, kind, target, history>>

-----------------------------------------------------------------------------
(* The jobs *)

\* A CI runner starts a job.  A clean-up is not over while the namespace it
\* deletes is still terminating, whatever became of the job.
Start(j) ==
  LET over == {i \in Jobs : pc[i] \in Ended} IN
  /\ pc[j] = "idle"
  /\ Goto(j, IF j \in Cleaners THEN "delete_namespace" ELSE "read_namespace")
  /\ before' = [before EXCEPT ![j] = IF ns = "terminating" THEN over \ Cleaners ELSE over]
  /\ UNCHANGED <<cluster, at, kind, target, upgraded>>

\* create_namespace looks for the namespace and is content with whatever it
\* finds, one that is being deleted included.
ReadNamespace(j) ==
  /\ pc[j] = "read_namespace"
  /\ \/ ns # "absent" /\ Goto(j, "create_secret")
     \/ ns = "absent" /\ Goto(j, "create_namespace")
     \/ "api" \in Faults /\ Goto(j, "failed")
  /\ UNCHANGED <<cluster, at, kind, target, history>>

\* Between the two requests another job may have created it: a conflict (409)
\* is not an error.
CreateNamespace(j) ==
  /\ pc[j] = "create_namespace"
  /\ \/ /\ ns = "absent"
        /\ ns' = "active" /\ gen' = gen + 1
        /\ \/ Goto(j, "create_secret")
           \/ "api" \in Faults /\ Goto(j, "failed")
     \/ /\ ns # "absent"
        /\ Goto(j, "create_secret")
        /\ UNCHANGED <<ns, gen>>
     \/ /\ "api" \in Faults
        /\ Goto(j, "failed")
        /\ UNCHANGED <<ns, gen>>
  /\ UNCHANGED <<secret, rel, at, kind, target, history>>

\* The API server creates a secret only where there is none, in an active
\* namespace; any error sends create_secret on to replace it.
CreateSecret(j) ==
  LET p == at[j]
      k == kind[j]
      new == ns = "active" /\ secret[p][k] = None
      written == [secret EXCEPT ![p][k] = j]
  IN
  /\ pc[j] = "create_secret"
  /\ \/ new /\ secret' = written /\ SecretWritten(j)
     \/ /\ ~new \/ "api" \in Faults
        /\ secret' \in {secret} \cup (IF new THEN {written} ELSE {})
        /\ Goto(j, "replace_secret")
        /\ UNCHANGED kind
  /\ UNCHANGED <<ns, gen, rel, at, target, history>>

\* Replacing needs the secret to be there, and its error is the job's.
ReplaceSecret(j) ==
  LET p == at[j]
      k == kind[j]
      found == secret[p][k] # None
      written == [secret EXCEPT ![p][k] = j]
  IN
  /\ pc[j] = "replace_secret"
  /\ \/ found /\ secret' = written /\ SecretWritten(j)
     \/ /\ ~found \/ "api" \in Faults
        /\ secret' \in {secret} \cup (IF found THEN {written} ELSE {})
        /\ Goto(j, "failed")
        /\ UNCHANGED kind
  /\ UNCHANGED <<ns, gen, rel, at, target, history>>

\* helm upgrade --install takes the release, unless another helm has it
\* ("another operation is in progress") or the namespace does not take new
\* objects; then helm returns at once with an error and the job fails.  The
\* begin hook may raise before; when upgrade_chart itself raises, the logger
\* thread, started and never stopped, keeps the failed process alive ("hung").
BeginUpgrade(j) ==
  LET p == at[j]
      free == ns = "active" /\ rel[p].status # "pending"
  IN
  /\ pc[j] = "upgrade"
  /\ \/ /\ free
        /\ rel' = [rel EXCEPT ![p] = [@ EXCEPT !.status = "pending", !.holder = j,
                                              !.fresh = Env(p)]]
        /\ Goto(j, "upgrading")
     \/ /\ ~free \/ "hook" \in Faults
        /\ Goto(j, "failed")
        /\ UNCHANGED rel
     \/ /\ "raise" \in Faults
        /\ Goto(j, "hung")
        /\ UNCHANGED rel
  /\ UNCHANGED <<ns, gen, secret, at, kind, target, history>>

\* Helm is done and returned 0: the pods of the new revision serve, with the
\* secrets they started with.  The complete hook may still raise and fail the
\* job; otherwise the loop goes on to the next project.
UpgradeSucceeds(j) ==
  LET p == at[j] IN
  /\ pc[j] = "upgrading"
  /\ ns = "active" /\ Holds(j, p) /\ Startable(rel[p].fresh)
  /\ rel' = [rel EXCEPT ![p] = [status |-> "deployed", holder |-> None,
                                image |-> j, env |-> @.fresh, fresh |-> NoEnv]]
  /\ upgraded' = [upgraded EXCEPT ![j] = @ \cup {p}]
  /\ \/ NextProject(j)
     \/ /\ \E f \in {"hook", "raise"} \cap Faults :
              Goto(j, IF f = "hook" THEN "failed" ELSE "hung")
        /\ UNCHANGED <<at, kind>>
  /\ UNCHANGED <<ns, gen, secret, target, before>>

\* Helm gives up and returns an error: it has run into its timeout, a chart hook
\* failed, it has lost the API server, the namespace is going away, or another
\* release took its place.  Only the return code is looked at.
UpgradeFails(j) ==
  LET p == at[j] IN
  /\ pc[j] = "upgrading"
  /\ \/ {"helm", "api"} \cap Faults # {}
     \/ ns # "active" \/ ~Holds(j, p) \/ ~Startable(rel[p].fresh)
  /\ rel' \in Failed(j, p)
  /\ \/ Goto(j, "failed")
     \/ "raise" \in Faults /\ Goto(j, "hung")
  /\ UNCHANGED <<ns, gen, secret, at, kind, target, history>>

\* What a deployer does between two requests may raise: setting up the Helm
\* repositories, the Vault login and read, reading secret files, htpasswd,
\* looking up the certificate issuer.
LocalError(j) ==
  /\ "local" \in Faults
  /\ pc[j] \in {"read_namespace", "create_secret", "upgrade"}
  /\ Goto(j, "failed")
  /\ UNCHANGED <<cluster, at, kind, target, history>>

\* kubectl delete namespace --ignore-not-found --wait=true
DeleteNamespace(c) ==
  /\ pc[c] = "delete_namespace"
  /\ \/ ns = "absent" /\ Goto(c, "succeeded") /\ UNCHANGED <<ns, target>>
     \/ /\ ns # "absent"
        /\ ns' = "terminating"
        /\ target' = [target EXCEPT ![c] = gen]
        /\ Goto(c, "wait_deleted")
     \/ "api" \in Faults /\ Goto(c, "failed") /\ UNCHANGED <<ns, target>>
  /\ UNCHANGED <<gen, secret, rel, at, kind, history>>

WaitDeleted(c) ==
  /\ pc[c] = "wait_deleted"
  /\ \/ (ns = "absent" \/ gen # target[c]) /\ Goto(c, "succeeded")
     \/ "api" \in Faults /\ Goto(c, "failed")
  /\ UNCHANGED <<cluster, at, kind, target, history>>

\* CI cancels a job (interruptible: true, or by hand); a release its helm was
\* upgrading stays pending.
Kill(j) ==
  /\ "kill" \in Faults
  /\ Active(j)
  /\ Goto(j, "killed")
  /\ UNCHANGED <<cluster, at, kind, target, history>>
-----------------------------------------------------------------------------
(* The cluster *)

\* A pod is started again (evicted, rescheduled, scaled) and reads its secrets
\* anew: a pod of the serving revision, or one of the revision helm waits for.
PodRestart(p) ==
  /\ \/ /\ rel[p].image # None
        /\ Startable(Env(p))
        /\ rel' = [rel EXCEPT ![p].env = Env(p)]
     \/ /\ rel[p].status = "pending"
        /\ rel' = [rel EXCEPT ![p].fresh = Env(p)]
  /\ UNCHANGED <<ns, gen, secret, control, history>>

\* The namespace controller empties a terminating namespace, then removes it.
DeleteContent(p) ==
  /\ ns = "terminating"
  /\ secret[p] # NoSecrets \/ rel[p] # NoRelease
  /\ secret' = [secret EXCEPT ![p] = NoSecrets]
  /\ rel' = [rel EXCEPT ![p] = NoRelease]
  /\ UNCHANGED <<ns, gen, control, history>>

NamespaceGone ==
  /\ ns = "terminating"
  /\ \A p \in Projects : secret[p] = NoSecrets /\ rel[p] = NoRelease
  /\ ns' = "absent"
  /\ UNCHANGED <<gen, secret, rel, control, history>>
-----------------------------------------------------------------------------
DeployStep(j) ==
  \/ ReadNamespace(j) \/ CreateNamespace(j) \/ CreateSecret(j) \/ ReplaceSecret(j)
  \/ BeginUpgrade(j) \/ UpgradeSucceeds(j) \/ UpgradeFails(j) \/ LocalError(j)

CleanStep(c) == DeleteNamespace(c) \/ WaitDeleted(c)

Controller == NamespaceGone \/ \E p \in Projects : DeleteContent(p)

\* Every job has ended: nothing more is going to happen.
Finished == (\A j \in Jobs : pc[j] \in Ended) /\ UNCHANGED vars

Next ==
  \/ \E j \in Jobs : Start(j) \/ Kill(j)
  \/ \E j \in Deployers : DeployStep(j)
  \/ \E c \in Cleaners : CleanStep(c)
  \/ \E p \in Projects : PodRestart(p)
  \/ Controller
  \/ Finished

\* A process that runs keeps running (helm ends by its --timeout), and the
\* namespace controller does its work; nobody has to start or cancel a job.
Fairness ==
  /\ \A j \in Deployers : WF_vars(DeployStep(j))
  /\ \A c \in Cleaners : WF_vars(CleanStep(c))
  /\ WF_vars(Controller)

Spec == Init /\ [][Next]_vars
FairSpec == Spec /\ Fairness
-----------------------------------------------------------------------------
(* Properties *)

Releases == [status : {"none", "pending", "deployed"},
             holder : Deployers \cup {None}, image : Deployers \cup {None},
             env : [Mounted -> Deployers \cup {None}],
             fresh : [Mounted -> Deployers \cup {None}]]

\* The values the variables take.
TypeOK ==
  /\ ns \in {"absent", "active", "terminating"}
  /\ gen \in Nat
  /\ secret \in [Projects -> [Kinds -> Deployers \cup {None}]]
  /\ rel \in [Projects -> Releases]
  /\ pc \in [Jobs -> Stages]
  /\ at \in [Deployers -> Projects]
  /\ kind \in [Deployers -> Kinds \cup {"chart"}]
  /\ target \in [Cleaners -> Nat]
  /\ upgraded \in [Deployers -> SUBSET Projects]
  /\ before \in [Jobs -> SUBSET Jobs]

\* A project serves the image of a job only if that job has upgraded every
\* dependency before it, and a job reports success only if it has upgraded
\* every project: the loop of deploy_application, its order and its abort.
DependenciesFirst ==
  \A j \in Deployers :
    /\ \A p \in Projects : rel[p].image = j => 1..p \subseteq upgraded[j]
    /\ pc[j] = "succeeded" => upgraded[j] = Projects

\* Job i ran, or runs, at the same time as job j.
Overlap(i, j) == /\ i # j /\ pc[i] # "idle" /\ pc[j] # "idle"
                 /\ i \notin before[j] /\ j \notin before[i]

\* Every other job was over when j started, or has not started yet.
Lone(j) == \A i \in Jobs \ {j} : pc[i] = "idle" \/ i \in before[j]

\* When a deploy reports success, and nothing overlapped it or has started
\* since, every project serves that job's image with that job's secrets,
\* whatever earlier jobs left behind: half-written secrets, rolled back or
\* uninstalled releases.  Later pod restarts do not change it.
LoneSuccessIsConsistent ==
  \A j \in Deployers :
    pc[j] = "succeeded" /\ Lone(j) =>
      \A p \in Projects : rel[p].image = j /\ rel[p].env = [k \in Mounted |-> j]

\* The pods of an image never run with secrets older than it: deploys that
\* overlap may leave one job's image with the other's secrets, but the secrets
\* of a job that was over when the serving job started are gone, because each
\* job replaces every secret of a project before it upgrades the chart.
SecretsAreNeverStale ==
  \A p \in Projects, k \in Mounted :
    rel[p].image # None => rel[p].env[k] \notin before[rel[p].image]

\* When a clean-up reports success, and nothing overlapped it or has started
\* since, nothing of the environment is left.
LoneCleanupLeavesNothing ==
  \A c \in Cleaners :
    pc[c] = "succeeded" /\ Lone(c) =>
      ns = "absent" /\ \A p \in Projects : rel[p] = NoRelease /\ secret[p] = NoSecrets

\* Where a job is whose lock is on a release.
LockStages == {"upgrading", "killed"} \cup IF "api" \in Faults THEN {"failed", "hung"} ELSE {}

\* A job never goes on past a release it has left locked, nor reports success:
\* it is still upgrading it, CI cancelled it, or helm lost the API server.  And
\* no job that starts later gets past it: one that has upgraded the project no
\* longer finds the lock of a job that was over before.
LockStopsJobs ==
  \A p \in Projects :
    rel[p].status = "pending" =>
      /\ \E j \in Deployers :
           /\ rel[p].holder = j /\ at[j] = p
           /\ pc[j] \in LockStages
      /\ \A d \in Deployers : p \in upgraded[d] => rel[p].holder \notin before[d]

\* A clean-up that succeeded has released every lock left by a job that was over
\* before it: what is locked afterwards was locked later, whatever failed.
CleanupFreesLocks ==
  \A p \in Projects, c \in Cleaners :
    rel[p].status = "pending" /\ pc[c] = "succeeded" => rel[p].holder \notin before[c]

\* The jobs implement Rollout: hidden are the namespace, the secrets, the
\* Helm lock and the clean-up.
Phase(j) ==
  CASE pc[j] = "idle" -> "idle"
    [] pc[j] = "succeeded" -> "succeeded"
    [] pc[j] \in {"failed", "killed", "hung"} -> "stopped"
    [] OTHER -> "running"

R == INSTANCE Rollout WITH live <- [p \in Projects |-> rel[p].image],
                           done <- upgraded,
                           phase <- [j \in Deployers |-> Phase(j)]

ImplementsRollout == R!Spec
=============================================================================
