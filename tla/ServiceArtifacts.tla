--------------------------- MODULE ServiceArtifacts ---------------------------
(***************************************************************************)
(* Databases and brokers for an environment: jobs run deploy_service, each *)
(* leaves a file with the credentials it made, and a later job of the same *)
(* pipeline passes what is in the files to the applications.  The data of  *)
(* a service outlives its release, and with it the accounts made when the  *)
(* service was started for the first time.                                 *)
(***************************************************************************)
EXTENDS Naturals, FiniteSets, SequencesExt

CONSTANTS
  Pipelines,  \* pipelines that deploy to the environment
  Services,   \* the services each of them deploys
  Apps,       \* projects: the main one and those it depends on
  Grants,     \* --projects of each service: which of them get access
  EnvVar,     \* --envvar of each service: the variable for its URL
  MaxRuns,    \* bound: how many runs of deploy_service there may be
  None

ASSUME ServiceArtifactsAssumption ==
  /\ Services \subseteq {"mysql", "postgresql", "rabbitmq"}
  /\ Grants \in [Services -> SUBSET Apps]
  /\ DOMAIN EnvVar = Services
  /\ MaxRuns \in Nat

\* Accounts, and what the data of a service holds.
Accounts == [by : 1..MaxRuns \cup {None}, app : Apps \cup {None}]
Databases == [by : 1..MaxRuns, accounts : SUBSET Accounts]

ASSUME NoneAssumption == None \notin Databases

VARIABLES
  fixed,     \* DATABASE_PASSWORD is set, so that all runs have the same one
  runs,      \* how many runs of deploy_service have begun
  pc, run,   \* per pipeline and service: where its job is, and its run
  data,      \* per service: the accounts it accepts and the run that made them
  artifact,  \* per pipeline and service: the variables in <service>.env, by app
  env,       \* per pipeline: the variables its applications were deployed with
  cleaned    \* history: the pipelines a clean-up came after the beginning of

vars == <<fixed, runs, pc, run, data, artifact, env, cleaned>>

\* MySQL has an account for each application, made up by the run; the others
\* have the account of the settings for all.
Account(s, r, a) ==
  [by  |-> IF s # "mysql" /\ fixed THEN None ELSE r,
   app |-> IF s = "mysql" THEN a ELSE None]

\* Variables have the name of a part, and the service's prefix.
Prefix(s) == IF s = "rabbitmq" THEN "BROKER" ELSE "DATABASE"
Parts == {"URL", "HOST", "PASSWORD"}
DefaultNames(s) == {<<Prefix(s), part>> : part \in Parts}
Names(s) == DefaultNames(s) \cup {EnvVar[s]}

\* What a variable says: all parts of one URL are the same to the properties.
Value(s, r, a) == [service |-> s, run |-> r, account |-> Account(s, r, a)]

\* Faulty variant of Artifacts: one of the variables has another name for one of the services.
MutArtifacts(s, r) ==
  [a \in Grants[s] |->
     [x \in Names(s) \ (IF s = "mysql" THEN {} ELSE {<<"DATABASE", "HOST">>}) |-> Value(s, r, a)]]

\* get_artifacts: the names it gives to the parts, and the URL's own name.
Artifacts(s, r) == [a \in Grants[s] |-> [x \in Names(s) |-> Value(s, r, a)]]

Init ==
  /\ fixed \in BOOLEAN /\ runs = 0
  /\ pc = [l \in Pipelines |-> [s \in Services |-> "new"]]
  /\ run = [l \in Pipelines |-> [s \in Services |-> 0]]
  /\ data = [s \in Services |-> None]
  /\ artifact = [l \in Pipelines |-> [s \in Services |-> None]]
  /\ env = [l \in Pipelines |-> None]
  /\ cleaned = {}
-----------------------------------------------------------------------------
Goes(l, s, from, to) == pc[l][s] = from /\ pc' = [pc EXCEPT ![l][s] = to]
\* The first start of a service makes the accounts; later ones find its data.
Initialised(s, r) ==
  IF data[s] # None THEN data
  ELSE [data EXCEPT ![s] = [by |-> r, accounts |-> {Account(s, r, a) : a \in Grants[s]}]]

(* Faulty variants, one plausible bug each. *)

\* The credentials are those of the process before.
MutStartRun(l, s) ==
  /\ pc[l][s] \in {"new", "failed"} /\ env[l] = None
  /\ runs < MaxRuns /\ runs' = IF runs = 0 THEN 1 ELSE runs
  /\ pc' = [pc EXCEPT ![l][s] = "helm"]
  /\ run' = [run EXCEPT ![l][s] = runs']
  /\ UNCHANGED <<fixed, data, artifact, env, cleaned>>

\* A failed upgrade is only logged.
MutUpgradeFails(l, s) ==
  /\ Goes(l, s, "helm", "artifact")
  /\ data' \in {data, Initialised(s, run[l][s])}
  /\ UNCHANGED <<fixed, runs, run, artifact, env, cleaned>>
-----------------------------------------------------------------------------
(* deploy_service *)

\* The job of a service starts, or starts again after it failed.
StartRun(l, s) ==
  /\ pc[l][s] \in {"new", "failed"} /\ env[l] = None
  /\ runs < MaxRuns /\ runs' = runs + 1
  /\ pc' = [pc EXCEPT ![l][s] = "helm"]
  /\ run' = [run EXCEPT ![l][s] = runs']
  /\ UNCHANGED <<fixed, data, artifact, env, cleaned>>

Upgrade(l, s) ==
  /\ Goes(l, s, "helm", "artifact")
  /\ data' = Initialised(s, run[l][s])
  /\ UNCHANGED <<fixed, runs, run, artifact, env, cleaned>>

\* Rolling back a first installation leaves the data, if there is any yet.
UpgradeFails(l, s) ==
  /\ Goes(l, s, "helm", "failed")
  /\ data' \in {data, Initialised(s, run[l][s])}
  /\ UNCHANGED <<fixed, runs, run, artifact, env, cleaned>>

WriteArtifact(l, s) ==
  /\ Goes(l, s, "artifact", "done")
  /\ artifact' = [artifact EXCEPT ![l][s] = Artifacts(s, run[l][s])]
  /\ UNCHANGED <<fixed, runs, run, data, env, cleaned>>

\* The file cannot be written, or the job is cancelled.
Fails(l, s) ==
  /\ Goes(l, s, "artifact", "failed")
  /\ UNCHANGED <<fixed, runs, run, data, artifact, env, cleaned>>
-----------------------------------------------------------------------------
(* deploy_application, when all service jobs of its pipeline are done *)

\* read_artifact_envfiles: a variable has the value of the last file with it.
Merged(files, a) ==
  LET With(x) == {i \in DOMAIN files : a \in DOMAIN files[i] /\ x \in DOMAIN files[i][a]}
      found == {x \in UNION {Names(s) : s \in Services} : With(x) # {}}
      last == [x \in found |-> CHOOSE i \in With(x) : \A k \in With(x) : k <= i]
  IN [x \in found |-> files[last[x]][a][x]]

\* The files are read in the order the file system lists them.
DeployApps(l) ==
  /\ env[l] = None
  /\ \A s \in Services : pc[l][s] = "done"
  /\ \E order \in SetToSeqs(Services) :
       LET files == [i \in DOMAIN order |-> artifact[l][order[i]]]
       IN env' = [env EXCEPT ![l] = [a \in Apps |-> Merged(files, a)]]
  /\ UNCHANGED <<fixed, runs, pc, run, data, artifact, cleaned>>

\* review_cleanup: the namespace goes, and with it the data of its services.
Cleanup ==
  /\ data' = [s \in Services |-> None]
  /\ cleaned' = cleaned \cup {l \in Pipelines : \E s \in Services : pc[l][s] # "new"}
  /\ UNCHANGED <<fixed, runs, pc, run, artifact, env>>

Next ==
  \/ \E l \in Pipelines, s \in Services :
       StartRun(l, s) \/ Upgrade(l, s) \/ UpgradeFails(l, s) \/ WriteArtifact(l, s) \/ Fails(l, s)
  \/ \E l \in Pipelines : DeployApps(l)
  \/ Cleanup

Spec == Init /\ [][Next]_vars
-----------------------------------------------------------------------------
(* Properties *)

Accepted(v) == data[v.service] # None /\ v.account \in data[v.service].accounts
\* The accounts of a service are those of another run, and depend on the run.
Kept(v) == data[v.service] # None /\ data[v.service].by # v.run /\ (v.service = "mysql" \/ ~fixed)
Deployed == {l \in Pipelines : env[l] # None}

TypeOK ==
  /\ fixed \in BOOLEAN /\ runs \in 0..MaxRuns /\ cleaned \subseteq Pipelines
  /\ pc \in [Pipelines -> [Services -> {"new", "helm", "artifact", "done", "failed"}]]
  /\ data \in [Services -> Databases \cup {None}]
  /\ \A s \in Services : data[s] # None => data[s].by <= runs
  /\ run \in [Pipelines -> [Services -> 0..runs]]
  /\ \A l \in Pipelines, s \in Services :
       /\ run[l][s] = 0 <=> pc[l][s] = "new"
       /\ artifact[l][s] = IF pc[l][s] = "done" THEN Artifacts(s, run[l][s]) ELSE None
  /\ \A l, m \in Pipelines, s, t \in Services :
       run[l][s] = run[m][t] /\ run[l][s] # 0 => l = m /\ s = t

\* An application is deployed with credentials that its service accepts, unless
\* the environment was cleaned up in the meantime, or the accounts were made by
\* another run: an earlier pipeline, an overlapping one, or an attempt that
\* failed.  With DATABASE_PASSWORD set, only MySQL has the latter exception.
AccessUnlessKept ==
  \A l \in Deployed \ cleaned, a \in Apps :
    \A x \in DOMAIN env[l][a] : Accepted(env[l][a][x]) \/ Kept(env[l][a][x])

\* The parts of a connection an application gets are all of one run of one
\* service, and there are all or none, whatever files were read in which order.
PartsFit ==
  \A l \in Deployed, a \in Apps, prefix \in {"BROKER", "DATABASE"} :
    LET names == {<<prefix, part>> : part \in Parts} \cap DOMAIN env[l][a]
    IN /\ Cardinality(names) \in {0, Cardinality(Parts)}
       /\ \A x, y \in names : env[l][a][x] = env[l][a][y]

\* docs/pages/reference/stages.md:164: --env-var says in which variable an
\* application gets the URL of the service.
UriIsOfItsService ==
  \A l \in Deployed, s \in Services : \A a \in Grants[s] :
    env[l][a][EnvVar[s]].service = s
=============================================================================
