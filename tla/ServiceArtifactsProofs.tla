------------------------ MODULE ServiceArtifactsProofs ------------------------
(* Theorems about ServiceArtifacts for any number of pipelines, applications   *)
(* and runs, and any of the three services: the credentials that applications  *)
(* get are accepted, and the parts of a connection belong together.            *)
EXTENDS ServiceArtifacts, FiniteSetTheorems, TLAPS

\* What there is in place of a file.
Files == {None} \cup {Artifacts(s, r) : s \in Services, r \in 0..MaxRuns}

\* There are at most three services, and so at most three files.
LEMMA FewServices == IsFiniteSet(Services) /\ Cardinality(Services) \in 0..3
<1>1. /\ IsFiniteSet({"rabbitmq"}) /\ Cardinality({"rabbitmq"}) = 1
  BY FS_Singleton
<1>2. /\ IsFiniteSet({"rabbitmq"} \cup {"postgresql"})
      /\ Cardinality({"rabbitmq"} \cup {"postgresql"}) = 2
  BY <1>1, FS_AddElement
<1>3. /\ IsFiniteSet({"rabbitmq"} \cup {"postgresql"} \cup {"mysql"})
      /\ Cardinality({"rabbitmq"} \cup {"postgresql"} \cup {"mysql"}) = 3
  BY <1>2, FS_AddElement
<1>4. Services \subseteq {"rabbitmq"} \cup {"postgresql"} \cup {"mysql"}
  BY ServiceArtifactsAssumption
<1>5. IsFiniteSet(Services) /\ Cardinality(Services) <= 3
  BY <1>3, <1>4, FS_Subset
<1> QED
  BY <1>5, FS_CardinalityType

\* The last of some of them.
Latest(W) == CHOOSE i \in W : \A k \in W : k <= i

\* Of several values the latest is one of them.
LEMMA LatestIsOne ==
  ASSUME NEW W, W \subseteq 1..3, W # {}
  PROVE  Latest(W) \in W
<1>1. \E i \in W : \A k \in W : k <= i
  <2>1. CASE 3 \in W
    BY <2>1
  <2>2. CASE 3 \notin W /\ 2 \in W
    BY <2>2
  <2>3. CASE 3 \notin W /\ 2 \notin W
    <3>1. \A i \in W : i = 1
      BY <2>3
    <3>2. 1 \in W
      BY <3>1
    <3> QED
      BY <3>1, <3>2
  <2> QED
    BY <2>1, <2>2, <2>3
<1> QED
  BY <1>1 DEF Latest

\* What read_artifact_envfiles makes of the files of a pipeline: an application has
\* the variables of the services that grant it access, each from one of these, and
\* variables that the same services have come from the same one.
LEMMA MergedFiles ==
  ASSUME NEW order \in SetToSeqs(Services), NEW r, NEW a, NEW files,
         files = [i \in DOMAIN order |-> Artifacts(order[i], r[order[i]])]
  PROVE  LET With(x) == {i \in DOMAIN order : a \in Grants[order[i]] /\ x \in Names(order[i])}
             merged == Merged(files, a)
         IN /\ \A i \in DOMAIN order : order[i] \in Services
            /\ \A x \in DOMAIN merged :
                 /\ With(x) # {} /\ Latest(With(x)) \in With(x)
                 /\ merged[x] = Value(order[Latest(With(x))], r[order[Latest(With(x))]], a)
            /\ \A x : With(x) # {} => x \in DOMAIN merged
<1> DEFINE With(x) == {i \in DOMAIN order : a \in Grants[order[i]] /\ x \in Names(order[i])}
           Held(x) == {i \in DOMAIN files : a \in DOMAIN files[i] /\ x \in DOMAIN files[i][a]}
           found == {x \in UNION {Names(s) : s \in Services} : Held(x) # {}}
           last == [x \in found |-> CHOOSE i \in Held(x) : \A k \in Held(x) : k <= i]
           merged == [x \in found |-> files[last[x]][a][x]]
<1>1. DOMAIN order \subseteq 1..3 /\ \A i \in DOMAIN order : order[i] \in Services
  BY FewServices DEF SetToSeqs
<1>2. \A i \in DOMAIN order :
        /\ files[i] = [b \in Grants[order[i]] |->
                        [x \in Names(order[i]) |-> Value(order[i], r[order[i]], b)]]
        /\ DOMAIN files[i] = Grants[order[i]]
  BY DEF Artifacts
<1>a. \A i \in DOMAIN order : \A b \in Grants[order[i]] :
        files[i][b] = [x \in Names(order[i]) |-> Value(order[i], r[order[i]], b)]
  <2> TAKE i \in DOMAIN order
  <2> TAKE b \in Grants[order[i]]
  <2> QED
    BY <1>2
<1>b. \A i \in DOMAIN order : \A b \in Grants[order[i]] :
        /\ DOMAIN files[i][b] = Names(order[i])
        /\ \A x \in Names(order[i]) : files[i][b][x] = Value(order[i], r[order[i]], b)
  <2> TAKE i \in DOMAIN order
  <2> TAKE b \in Grants[order[i]]
  <2>1. files[i][b] = [x \in Names(order[i]) |-> Value(order[i], r[order[i]], b)]
    BY <1>a
  <2> QED
    BY <2>1, Zenon
<1>3. \A x : Held(x) = With(x)
  <2> TAKE x
  <2>1. \A i \in DOMAIN order :
          (a \in DOMAIN files[i] /\ x \in DOMAIN files[i][a])
            <=> (a \in Grants[order[i]] /\ x \in Names(order[i]))
    BY <1>2, <1>b
  <2> QED
    BY <2>1, DOMAIN files = DOMAIN order
<1>4. Merged(files, a) = merged
  BY DEF Merged
<1>5. DOMAIN Merged(files, a) = found
  BY <1>4
<1>6. ASSUME NEW x \in found
      PROVE  /\ With(x) # {} /\ Latest(With(x)) \in With(x)
             /\ Merged(files, a)[x] = Value(order[Latest(With(x))], r[order[Latest(With(x))]], a)
  <2>1. With(x) # {} /\ With(x) \subseteq 1..3
    BY <1>1, <1>3
  <2>2. Latest(With(x)) \in With(x)
    BY <2>1, LatestIsOne
  <2>3. last[x] = Latest(Held(x))
    BY DEF Latest
  <2>4. last[x] = Latest(With(x))
    <3> HIDE DEF Held, With, last
    <3> QED
      BY <1>3, <2>3
  <2>5. Merged(files, a)[x] = files[last[x]][a][x]
    BY <1>4
  <2>6. PICK i \in DOMAIN order : i = last[x] /\ a \in Grants[order[i]] /\ x \in Names(order[i])
    BY <2>2, <2>4
  <2>7. files[i][a][x] = Value(order[i], r[order[i]], a)
    BY <1>b, <2>6
  <2> QED
    BY <2>1, <2>2, <2>4, <2>5, <2>6, <2>7
<1>7. \A x : With(x) # {} => x \in found
  BY <1>1, <1>3
<1> QED
  BY <1>1, <1>5, <1>6, <1>7
-----------------------------------------------------------------------------
\* The accounts a service has are those of the run that made them.
DataInv ==
  \A s \in Services : data[s] # None =>
    data[s].accounts = {Account(s, data[s].by, a) : a \in Grants[s]}

\* A service that a job has deployed has its data, until somebody cleans up.
KeptInv ==
  \A l \in Pipelines \ cleaned, s \in Services :
    pc[l][s] \in {"artifact", "done"} => data[s] # None

\* An application has variables only from the services of its pipeline that
\* grant it access, all deployed by now.
EnvInv ==
  /\ env = [l \in Pipelines |-> env[l]]
  /\ \A l \in Pipelines : env[l] # None =>
       /\ \A s \in Services : pc[l][s] = "done"
       /\ \A a \in Apps : \A x \in DOMAIN env[l][a] :
            \E s \in Services : a \in Grants[s] /\ env[l][a][x] = Value(s, run[l][s], a)

ArtifactsInv ==
  /\ TypeOK /\ artifact \in [Pipelines -> [Services -> Files]]
  /\ DataInv /\ KeptInv /\ EnvInv

Stages == {"new", "helm", "artifact", "done", "failed"}

\* Initialised leaves the accounts of the service that is installed first.
LEMMA InitialisedIs ==
  ASSUME ArtifactsInv, NEW s \in Services, NEW r \in 1..runs, runs \in 1..MaxRuns
  PROVE  LET d == Initialised(s, r)
         IN /\ d \in [Services -> Databases \cup {None}]
            /\ d[s] # None
            /\ \A q \in Services :
                 /\ data[q] # None => d[q] = data[q]
                 /\ d[q] # None => d[q].by <= runs
                 /\ d[q] # None => d[q].accounts = {Account(q, d[q].by, a) : a \in Grants[q]}
<1>1. CASE data[s] # None
  BY <1>1 DEF ArtifactsInv, TypeOK, DataInv, Initialised
<1>2. CASE data[s] = None
  <2> DEFINE new == [by |-> r, accounts |-> {Account(s, r, a) : a \in Grants[s]}]
  <2>1. \A a \in Grants[s] : a \in Apps
    BY ServiceArtifactsAssumption
  <2>2. r \in 1..MaxRuns
    BY ServiceArtifactsAssumption
  <2>3. \A a \in Grants[s] : Account(s, r, a) \in Accounts
    BY <2>1, <2>2 DEF Account, Accounts
  <2>4. new \in Databases
    BY <2>2, <2>3 DEF Databases
  <2>5. new # None /\ new.by = r /\ new.accounts = {Account(s, new.by, a) : a \in Grants[s]}
    BY <2>4, NoneAssumption
  <2>6. Initialised(s, r) = [data EXCEPT ![s] = new]
    BY <1>2 DEF Initialised
  <2> HIDE DEF new
  <2>7. /\ Initialised(s, r) \in [Services -> Databases \cup {None}]
        /\ Initialised(s, r)[s] = new
        /\ \A q \in Services \ {s} : Initialised(s, r)[q] = data[q]
    BY <2>4, <2>6 DEF ArtifactsInv, TypeOK
  <2>8. r <= runs
    OBVIOUS
  <2> QED
    BY <1>2, <2>5, <2>7, <2>8 DEF ArtifactsInv, TypeOK, DataInv
<1> QED
  BY <1>1, <1>2

\* A job that goes on moves no other.
LEMMA GoesIs ==
  ASSUME ArtifactsInv, NEW l \in Pipelines, NEW s \in Services, NEW from, NEW to \in Stages,
         Goes(l, s, from, to)
  PROVE  /\ pc[l][s] = from
         /\ pc' \in [Pipelines -> [Services -> Stages]]
         /\ \A m \in Pipelines, q \in Services :
              pc'[m][q] = IF m = l /\ q = s THEN to ELSE pc[m][q]
<1>1. pc \in [Pipelines -> [Services -> Stages]] /\ pc[l][s] = from
      /\ pc' = [pc EXCEPT ![l][s] = to]
  BY DEF ArtifactsInv, TypeOK, Stages, Goes
<1> QED
  BY <1>1

\* What a step of one job must show for the invariant to be kept: where it goes,
\* and that its data and file are in order.
LEMMA JobStep ==
  ASSUME ArtifactsInv, NEW l \in Pipelines, NEW s \in Services, NEW from, NEW to \in Stages,
         Goes(l, s, from, to), from \in {"helm", "artifact"}, to # "new",
         UNCHANGED <<fixed, runs, run, env, cleaned>>,
         data' \in [Services -> Databases \cup {None}],
         \A q \in Services :
           /\ data[q] # None => data'[q] = data[q]
           /\ data'[q] # None => data'[q].by <= runs
           /\ data'[q] # None => data'[q].accounts = {Account(q, data'[q].by, a) : a \in Grants[q]},
         l \notin cleaned /\ to \in {"artifact", "done"} => data'[s] # None,
         artifact' = IF to = "done" THEN [artifact EXCEPT ![l][s] = Artifacts(s, run[l][s])]
                     ELSE artifact
  PROVE  ArtifactsInv'
<1>1. /\ pc[l][s] = from /\ pc' \in [Pipelines -> [Services -> Stages]]
      /\ \A m \in Pipelines, q \in Services :
           pc'[m][q] = IF m = l /\ q = s THEN to ELSE pc[m][q]
  BY GoesIs
<1>2. /\ artifact' \in [Pipelines -> [Services -> Files]]
      /\ \A m \in Pipelines, q \in Services :
           artifact'[m][q] = IF m = l /\ q = s /\ to = "done" THEN Artifacts(s, run[l][s])
                             ELSE artifact[m][q]
  <2>1. Artifacts(s, run[l][s]) \in Files
    BY ServiceArtifactsAssumption DEF ArtifactsInv, TypeOK, Files
  <2>2. CASE to = "done"
    BY <2>1, <2>2 DEF ArtifactsInv
  <2>3. CASE to # "done"
    BY <2>3 DEF ArtifactsInv
  <2> QED
    BY <2>2, <2>3
<1>3. Files' = Files
  BY DEF Files, Artifacts, Value, Account
<1>4. TypeOK'
  <2>1. \A m \in Pipelines, q \in Services :
          /\ run'[m][q] = 0 <=> pc'[m][q] = "new"
          /\ artifact'[m][q] = IF pc'[m][q] = "done" THEN Artifacts(q, run[m][q]) ELSE None
    BY <1>1, <1>2 DEF ArtifactsInv, TypeOK
  <2>2. \A m \in Pipelines, q \in Services :
          Artifacts(q, run[m][q])' = Artifacts(q, run[m][q])
    BY DEF Artifacts, Value, Account
  <2>3. \A m \in Pipelines, q \in Services :
          artifact'[m][q] = IF pc'[m][q] = "done" THEN Artifacts(q, run[m][q])' ELSE None
    BY <2>1, <2>2
  <2> QED
    BY <1>1, <2>1, <2>3 DEF ArtifactsInv, TypeOK, Stages
<1>5. DataInv'
  BY DEF DataInv, Account
<1>6. KeptInv'
  BY <1>1 DEF ArtifactsInv, KeptInv
<1>7. EnvInv'
  <2>1. \A m \in Pipelines, q \in Services, a \in Apps :
          Value(q, run[m][q], a)' = Value(q, run[m][q], a)
    BY DEF Value, Account
  <2>2. \A m \in Pipelines, q \in Services : pc[m][q] = "done" => pc'[m][q] = "done"
    BY <1>1
  <2>3. EnvInv /\ env' = env
    BY DEF ArtifactsInv
  <2> QED
    BY <2>1, <2>2, <2>3 DEF EnvInv
<1> QED
  BY <1>2, <1>3, <1>4, <1>5, <1>6, <1>7 DEF ArtifactsInv

\* A new run is no other's.
LEMMA StartRunKeeps ==
  ASSUME ArtifactsInv, NEW l \in Pipelines, NEW s \in Services, StartRun(l, s)
  PROVE  ArtifactsInv'
<1>1. /\ pc[l][s] \in {"new", "failed"} /\ env[l] = None
      /\ runs \in 0..MaxRuns /\ runs < MaxRuns /\ runs' = runs + 1 /\ MaxRuns \in Nat
      /\ UNCHANGED <<fixed, data, artifact, env, cleaned>>
  BY ServiceArtifactsAssumption DEF StartRun, ArtifactsInv, TypeOK
<1>2. /\ pc' \in [Pipelines -> [Services -> Stages]]
      /\ \A m \in Pipelines, q \in Services :
           pc'[m][q] = IF m = l /\ q = s THEN "helm" ELSE pc[m][q]
  BY DEF StartRun, ArtifactsInv, TypeOK, Stages
<1>3. /\ run' \in [Pipelines -> [Services -> 0..runs']]
      /\ \A m \in Pipelines, q \in Services :
           run'[m][q] = IF m = l /\ q = s THEN runs + 1 ELSE run[m][q]
  <2>1. run \in [Pipelines -> [Services -> 0..runs']]
    BY <1>1 DEF ArtifactsInv, TypeOK
  <2>2. runs' \in 0..runs' /\ run' = [run EXCEPT ![l][s] = runs']
    BY <1>1 DEF StartRun
  <2> QED
    BY <1>1, <2>1, <2>2
<1>4. Files' = Files
  BY <1>1 DEF Files, Artifacts, Value, Account
<1>5. TypeOK'
  <2>1. \A m \in Pipelines, q \in Services :
          /\ run[m][q] \in 0..runs
          /\ run'[m][q] = 0 <=> pc'[m][q] = "new"
    BY <1>1, <1>2, <1>3 DEF ArtifactsInv, TypeOK
  <2>2. \A m, k \in Pipelines, q, t \in Services :
          run'[m][q] = run'[k][t] /\ run'[m][q] # 0 => m = k /\ q = t
    <3> SUFFICES ASSUME NEW m \in Pipelines, NEW k \in Pipelines,
                        NEW q \in Services, NEW t \in Services,
                        run'[m][q] = run'[k][t], run'[m][q] # 0
                 PROVE  m = k /\ q = t
      OBVIOUS
    <3>1. run[m][q] # runs + 1 /\ run[k][t] # runs + 1
      BY <1>1, <2>1
    <3>2. CASE run'[m][q] = runs + 1
      <4>1. m = l /\ q = s
        BY <1>3, <3>1, <3>2
      <4>2. run'[k][t] = runs + 1
        BY <3>2
      <4>3. k = l /\ t = s
        BY <1>3, <3>1, <4>2
      <4> QED
        BY <4>1, <4>3
    <3>3. CASE run'[m][q] # runs + 1
      <4>1. run'[m][q] = run[m][q] /\ run'[k][t] = run[k][t]
        BY <1>3, <3>3
      <4>2. /\ run[m][q] = run[k][t] /\ run[m][q] # 0
            /\ \A i, j \in Pipelines, u, v \in Services :
                 run[i][u] = run[j][v] /\ run[i][u] # 0 => i = j /\ u = v
        BY <4>1 DEF ArtifactsInv, TypeOK
      <4> QED
        BY <4>2
    <3> QED
      BY <3>2, <3>3
  <2>3. \A m \in Pipelines, q \in Services :
          artifact'[m][q] = IF pc'[m][q] = "done" THEN Artifacts(q, run[m][q])' ELSE None
    <3> TAKE m \in Pipelines, q \in Services
    <3>1. CASE m = l /\ q = s
      BY <1>1, <1>2, <3>1 DEF ArtifactsInv, TypeOK
    <3>2. CASE ~(m = l /\ q = s)
      <4>1. run'[m][q] = run[m][q] /\ pc'[m][q] = pc[m][q]
        BY <1>2, <1>3, <3>2
      <4>2. Artifacts(q, run[m][q])' = Artifacts(q, run[m][q])
        BY <1>1, <4>1 DEF Artifacts, Value, Account
      <4> QED
        BY <1>1, <4>1, <4>2 DEF ArtifactsInv, TypeOK
    <3> QED
      BY <3>1, <3>2
  <2>4. \A q \in Services : data[q] # None => data[q].by <= runs'
    <3> SUFFICES ASSUME NEW q \in Services, data[q] # None PROVE data[q].by <= runs'
      OBVIOUS
    <3>1. data[q].by \in 1..MaxRuns /\ data[q].by <= runs
      BY DEF ArtifactsInv, TypeOK, Databases
    <3> QED
      BY <1>1, <3>1
  <2> QED
    BY <1>1, <1>2, <1>3, <2>1, <2>2, <2>3, <2>4 DEF ArtifactsInv, TypeOK, Stages
<1>6. DataInv' /\ KeptInv'
  BY <1>1, <1>2 DEF ArtifactsInv, DataInv, KeptInv, Account
<1>7. EnvInv'
  <2>1. \A m \in Pipelines : env[m] # None => m # l
    BY <1>1
  <2>2. \A m \in Pipelines, q \in Services : m # l =>
          run'[m][q] = run[m][q] /\ pc'[m][q] = pc[m][q]
    BY <1>2, <1>3
  <2>3. \A m \in Pipelines, q \in Services, a \in Apps : m # l =>
          Value(q, run[m][q], a)' = Value(q, run[m][q], a)
    BY <1>1, <2>2 DEF Value, Account
  <2>4. EnvInv /\ env' = env
    BY <1>1 DEF ArtifactsInv
  <2> QED
    BY <2>1, <2>2, <2>3, <2>4 DEF EnvInv
<1> QED
  BY <1>1, <1>4, <1>5, <1>6, <1>7 DEF ArtifactsInv

\* What an application gets is what the files hold, and these hold what their
\* runs made.
LEMMA DeployAppsKeeps ==
  ASSUME ArtifactsInv, NEW l \in Pipelines, DeployApps(l)
  PROVE  ArtifactsInv'
<1>1. /\ \A s \in Services : pc[l][s] = "done"
      /\ UNCHANGED <<fixed, runs, pc, run, data, artifact, cleaned>>
  BY DEF DeployApps
<1>2. PICK order \in SetToSeqs(Services) :
        env' = [env EXCEPT ![l] =
          [a \in Apps |-> Merged([i \in DOMAIN order |-> artifact[l][order[i]]], a)]]
  BY DEF DeployApps
<1>3. PICK r, files : r = run[l] /\ files = [i \in DOMAIN order |-> artifact[l][order[i]]]
  OBVIOUS
<1>4. \A i \in DOMAIN order : order[i] \in Services
  BY DEF SetToSeqs
<1>5. files = [i \in DOMAIN order |-> Artifacts(order[i], r[order[i]])]
  <2>1. \A i \in DOMAIN order : artifact[l][order[i]] = Artifacts(order[i], r[order[i]])
    BY <1>1, <1>3, <1>4 DEF ArtifactsInv, TypeOK
  <2> QED
    BY <1>3, <2>1
<1>6. ASSUME NEW a \in Apps, NEW x \in DOMAIN Merged(files, a)
      PROVE  \E s \in Services : a \in Grants[s] /\ Merged(files, a)[x] = Value(s, r[s], a)
  <2> DEFINE With == {i \in DOMAIN order : a \in Grants[order[i]] /\ x \in Names(order[i])}
  <2>1. /\ Latest(With) \in With
        /\ Merged(files, a)[x] = Value(order[Latest(With)], r[order[Latest(With)]], a)
    BY <1>5, MergedFiles
  <2> QED
    BY <1>4, <2>1
<1>7. /\ DOMAIN env = Pipelines /\ env' = [m \in Pipelines |-> env'[m]]
      /\ env'[l] = [a \in Apps |-> Merged(files, a)]
      /\ \A m \in Pipelines \ {l} : env'[m] = env[m]
  BY <1>2, <1>3 DEF ArtifactsInv, EnvInv
<1>8. \A m \in Pipelines, q \in Services, a \in Apps :
        Value(q, run[m][q], a)' = Value(q, run[m][q], a)
  BY <1>1 DEF Value, Account
<1>9. EnvInv'
  <2>1. ASSUME NEW m \in Pipelines, env'[m] # None
        PROVE  /\ \A s \in Services : pc'[m][s] = "done"
               /\ \A a \in Apps : \A x \in DOMAIN env'[m][a] :
                    \E s \in Services : a \in Grants[s] /\ env'[m][a][x] = Value(s, run[m][s], a)
    <3>1. CASE m = l
      <4>1. \A a \in Apps : env'[m][a] = Merged(files, a)
        BY <1>7, <3>1
      <4> QED
        BY <1>1, <1>3, <1>6, <3>1, <4>1
    <3>2. CASE m # l
      BY <1>1, <1>7, <2>1, <3>2 DEF ArtifactsInv, EnvInv
    <3> QED
      BY <3>1, <3>2
  <2> QED
    BY <1>7, <1>8, <2>1 DEF EnvInv
<1>10. Files' = Files /\ DataInv' /\ KeptInv'
  BY <1>1 DEF ArtifactsInv, Files, Artifacts, Value, Account, DataInv, KeptInv
<1>11. TypeOK'
  <2>1. \A m \in Pipelines, q \in Services : Artifacts(q, run[m][q])' = Artifacts(q, run[m][q])
    BY <1>1 DEF Artifacts, Value, Account
  <2> QED
    BY <1>1, <2>1 DEF ArtifactsInv, TypeOK
<1> QED
  BY <1>1, <1>9, <1>10, <1>11 DEF ArtifactsInv

\* The invariant of the services, for any number of pipelines, applications and
\* runs.
THEOREM ServicesInvariant == Spec => []ArtifactsInv
<1>1. Init => ArtifactsInv
  <2> SUFFICES ASSUME Init PROVE ArtifactsInv
    OBVIOUS
  <2>1. 0 \in 0..MaxRuns /\ 0 \in 0..runs /\ runs = 0
    BY ServiceArtifactsAssumption DEF Init
  <2>2. /\ pc \in [Pipelines -> [Services -> Stages]]
        /\ run \in [Pipelines -> [Services -> 0..runs]]
        /\ data \in [Services -> Databases \cup {None}]
        /\ artifact \in [Pipelines -> [Services -> Files]]
    BY <2>1 DEF Init, Stages, Files
  <2>3. \A l \in Pipelines : env[l] = None /\ \A s \in Services :
          /\ pc[l][s] = "new" /\ run[l][s] = 0 /\ artifact[l][s] = None /\ data[s] = None
    BY DEF Init
  <2>4. \A s \in Services : data[s] = None
    BY DEF Init
  <2>5. TypeOK
    BY <2>1, <2>2, <2>3, <2>4 DEF Init, TypeOK, Stages
  <2>6. DataInv /\ KeptInv
    BY <2>3, <2>4 DEF DataInv, KeptInv
  <2>7. EnvInv
    BY <2>3 DEF EnvInv, Init
  <2> QED
    BY <2>2, <2>5, <2>6, <2>7 DEF ArtifactsInv
<1>2. ArtifactsInv /\ [Next]_vars => ArtifactsInv'
  <2> SUFFICES ASSUME ArtifactsInv, [Next]_vars PROVE ArtifactsInv'
    OBVIOUS
  <2>1. CASE UNCHANGED vars
    <3>1. Files' = Files
      BY <2>1 DEF vars, Files, Artifacts, Value, Account
    <3>2. \A m \in Pipelines, q \in Services :
            Artifacts(q, run[m][q])' = Artifacts(q, run[m][q])
      BY <2>1 DEF vars, Artifacts, Value, Account
    <3>3. TypeOK'
      BY <2>1, <3>2 DEF vars, ArtifactsInv, TypeOK
    <3>4. DataInv' /\ KeptInv' /\ EnvInv'
      BY <2>1 DEF vars, ArtifactsInv, DataInv, KeptInv, EnvInv, Account, Value
    <3> QED
      BY <2>1, <3>1, <3>3, <3>4 DEF vars, ArtifactsInv
  <2>2. ASSUME NEW l \in Pipelines, NEW s \in Services, StartRun(l, s) PROVE ArtifactsInv'
    BY <2>2, StartRunKeeps
  <2>3. ASSUME NEW l \in Pipelines, NEW s \in Services, pc[l][s] = "helm"
        PROVE  run[l][s] \in 1..runs /\ runs \in 1..MaxRuns
    <3>1. run[l][s] \in 0..runs /\ run[l][s] # 0 /\ runs \in 0..MaxRuns /\ MaxRuns \in Nat
      BY <2>3, ServiceArtifactsAssumption DEF ArtifactsInv, TypeOK
    <3> QED
      BY <3>1
  <2>4. data \in [Services -> Databases \cup {None}] /\ \A q \in Services :
          /\ data[q] # None => data[q].by <= runs
          /\ data[q] # None => data[q].accounts = {Account(q, data[q].by, a) : a \in Grants[q]}
    BY DEF ArtifactsInv, TypeOK, DataInv
  <2>5. ASSUME NEW l \in Pipelines, NEW s \in Services, Upgrade(l, s) PROVE ArtifactsInv'
    <3>1. /\ Goes(l, s, "helm", "artifact") /\ data' = Initialised(s, run[l][s])
          /\ UNCHANGED <<fixed, runs, run, artifact, env, cleaned>>
      BY <2>5 DEF Upgrade
    <3>2. pc[l][s] = "helm" /\ "artifact" \in Stages
      BY <3>1 DEF Goes, Stages
    <3>3. PICK d : d = data'
      OBVIOUS
    <3>4. /\ d \in [Services -> Databases \cup {None}] /\ d[s] # None
          /\ \A q \in Services :
               /\ data[q] # None => d[q] = data[q]
               /\ d[q] # None => d[q].by <= runs
               /\ d[q] # None => d[q].accounts = {Account(q, d[q].by, a) : a \in Grants[q]}
      BY <2>3, <3>1, <3>2, <3>3, InitialisedIs
    <3> QED
      BY <3>1, <3>2, <3>3, <3>4, JobStep
  <2>6. ASSUME NEW l \in Pipelines, NEW s \in Services, UpgradeFails(l, s) PROVE ArtifactsInv'
    <3>1. /\ Goes(l, s, "helm", "failed") /\ data' \in {data, Initialised(s, run[l][s])}
          /\ UNCHANGED <<fixed, runs, run, artifact, env, cleaned>>
      BY <2>6 DEF UpgradeFails
    <3>2. pc[l][s] = "helm" /\ "failed" \in Stages
      BY <3>1 DEF Goes, Stages
    <3>3. PICK d : d = data'
      OBVIOUS
    <3>4. /\ d \in [Services -> Databases \cup {None}]
          /\ \A q \in Services :
               /\ data[q] # None => d[q] = data[q]
               /\ d[q] # None => d[q].by <= runs
               /\ d[q] # None => d[q].accounts = {Account(q, d[q].by, a) : a \in Grants[q]}
      <4>1. CASE d = data
        BY <2>4, <4>1
      <4>2. CASE d = Initialised(s, run[l][s])
        BY <2>3, <3>2, <4>2, InitialisedIs
      <4> QED
        BY <3>1, <3>3, <4>1, <4>2
    <3> QED
      BY <3>1, <3>2, <3>3, <3>4, JobStep
  <2>7. ASSUME NEW l \in Pipelines, NEW s \in Services, WriteArtifact(l, s) PROVE ArtifactsInv'
    <3>1. /\ Goes(l, s, "artifact", "done") /\ data' = data
          /\ artifact' = [artifact EXCEPT ![l][s] = Artifacts(s, run[l][s])]
          /\ UNCHANGED <<fixed, runs, run, env, cleaned>>
      BY <2>7 DEF WriteArtifact
    <3>2. "done" \in Stages
      BY DEF Stages
    <3>3. l \notin cleaned => data[s] # None
      BY <3>1 DEF ArtifactsInv, KeptInv, Goes
    <3> QED
      BY <2>4, <3>1, <3>2, <3>3, JobStep
  <2>8. ASSUME NEW l \in Pipelines, NEW s \in Services, Fails(l, s) PROVE ArtifactsInv'
    <3>1. /\ Goes(l, s, "artifact", "failed") /\ data' = data
          /\ UNCHANGED <<fixed, runs, run, artifact, env, cleaned>>
      BY <2>8 DEF Fails
    <3>2. "failed" \in Stages
      BY DEF Stages
    <3> QED
      BY <2>4, <3>1, <3>2, JobStep
  <2>9. ASSUME NEW l \in Pipelines, DeployApps(l) PROVE ArtifactsInv'
    BY <2>9, DeployAppsKeeps
  <2>10. CASE Cleanup
    <3>1. /\ data' = [s \in Services |-> None]
          /\ cleaned' = cleaned \cup {l \in Pipelines : \E s \in Services : pc[l][s] # "new"}
          /\ UNCHANGED <<fixed, runs, pc, run, artifact, env>>
      BY <2>10 DEF Cleanup
    <3>2. Files' = Files
      BY <3>1 DEF Files, Artifacts, Value, Account
    <3>3. \A m \in Pipelines, q \in Services :
            Artifacts(q, run[m][q])' = Artifacts(q, run[m][q])
      BY <3>1 DEF Artifacts, Value, Account
    <3>4. TypeOK'
      BY <3>1, <3>3 DEF ArtifactsInv, TypeOK
    <3>5. DataInv' /\ KeptInv'
      BY <3>1 DEF ArtifactsInv, DataInv, KeptInv
    <3>6. EnvInv'
      <4>1. \A m \in Pipelines, q \in Services, a \in Apps :
              Value(q, run[m][q], a)' = Value(q, run[m][q], a)
        BY <3>1 DEF Value, Account
      <4>2. EnvInv /\ UNCHANGED <<pc, run, env>>
        BY <3>1 DEF ArtifactsInv
      <4> QED
        BY <4>1, <4>2 DEF EnvInv
    <3> QED
      BY <3>1, <3>2, <3>4, <3>5, <3>6 DEF ArtifactsInv
  <2> QED
    BY <2>1, <2>2, <2>5, <2>6, <2>7, <2>8, <2>9, <2>10 DEF Next
<1> QED
  BY <1>1, <1>2, PTL DEF Spec

\* The values the variables take.
THEOREM ServicesTypeCorrect == Spec => []TypeOK
<1>1. ArtifactsInv => TypeOK
  BY DEF ArtifactsInv
<1> QED
  BY <1>1, ServicesInvariant, PTL

\* An application gets credentials that its service accepts, unless the service
\* keeps the accounts of another run or somebody has cleaned up.
THEOREM AccessUnlessKeptHolds == Spec => []AccessUnlessKept
<1>1. ArtifactsInv => AccessUnlessKept
  <2> SUFFICES ASSUME ArtifactsInv, NEW l \in Deployed \ cleaned, NEW a \in Apps,
                      NEW x \in DOMAIN env[l][a]
               PROVE  Accepted(env[l][a][x]) \/ Kept(env[l][a][x])
    BY DEF AccessUnlessKept
  <2>1. PICK v, r : v = env[l][a][x] /\ r = run[l]
    OBVIOUS
  <2>2. l \in Pipelines /\ env[l] # None
    BY DEF Deployed
  <2>3. PICK s \in Services : a \in Grants[s] /\ v = Value(s, r[s], a)
    BY <2>1, <2>2 DEF ArtifactsInv, EnvInv
  <2>4. data[s] # None
    BY <2>2, <2>3 DEF ArtifactsInv, EnvInv, KeptInv
  <2>5. PICK by : by = data[s].by
    OBVIOUS
  <2>6. Account(s, by, a) \in data[s].accounts
    BY <2>3, <2>4, <2>5 DEF ArtifactsInv, DataInv
  <2>7. v.service = s /\ v.run = r[s] /\ v.account = Account(s, r[s], a)
    BY <2>3 DEF Value
  <2>8. Accepted(v) \/ Kept(v)
    <3>1. CASE by = r[s] \/ (s # "mysql" /\ fixed)
      <4>1. Account(s, by, a) = Account(s, r[s], a)
        BY <3>1 DEF Account
      <4> QED
        BY <2>4, <2>6, <2>7, <4>1 DEF Accepted
    <3>2. CASE by # r[s] /\ (s = "mysql" \/ ~fixed)
      BY <2>4, <2>5, <2>7, <3>2 DEF Kept
    <3> QED
      BY <3>1, <3>2
  <2> QED
    BY <2>1, <2>8 DEF Accepted, Kept
<1> QED
  BY <1>1, ServicesInvariant, PTL

\* No --env-var asks for the URL of a database as a part of a broker, or the other
\* way round.
OwnVariables ==
  \A s \in Services, prefix \in {"BROKER", "DATABASE"}, part \in Parts :
    EnvVar[s] = <<prefix, part>> => prefix = Prefix(s)

\* The parts of a connection, all or none, whatever files there are.
LEMMA MergedFits ==
  ASSUME OwnVariables, NEW order \in SetToSeqs(Services), NEW r, NEW a, NEW files,
         files = [i \in DOMAIN order |-> Artifacts(order[i], r[order[i]])],
         NEW prefix \in {"BROKER", "DATABASE"}
  PROVE  LET names == {<<prefix, part>> : part \in Parts} \cap DOMAIN Merged(files, a)
         IN /\ names = {} \/ names = {<<prefix, part>> : part \in Parts}
            /\ \A x, y \in names : Merged(files, a)[x] = Merged(files, a)[y]
<1> DEFINE With(x) == {i \in DOMAIN order : a \in Grants[order[i]] /\ x \in Names(order[i])}
           Of == {i \in DOMAIN order : a \in Grants[order[i]] /\ Prefix(order[i]) = prefix}
           all == {<<prefix, part>> : part \in Parts}
<1>1. \A i \in DOMAIN order : order[i] \in Services
  BY DEF SetToSeqs
<1>2. ASSUME NEW x \in all, NEW s \in Services
      PROVE  x \in Names(s) <=> Prefix(s) = prefix
  <2>1. PICK part \in Parts : x = <<prefix, part>>
    OBVIOUS
  <2>2. x \in DefaultNames(s) <=> Prefix(s) = prefix
    BY <2>1 DEF DefaultNames
  <2>3. x = EnvVar[s] => Prefix(s) = prefix
    BY <2>1 DEF OwnVariables
  <2> QED
    BY <2>2, <2>3 DEF Names
<1>3. \A x \in all : With(x) = Of
  BY <1>1, <1>2
<1>4. /\ \A x \in DOMAIN Merged(files, a) :
           /\ With(x) # {}
           /\ Merged(files, a)[x] = Value(order[Latest(With(x))], r[order[Latest(With(x))]], a)
      /\ \A x : With(x) # {} => x \in DOMAIN Merged(files, a)
  BY MergedFiles
<1> HIDE DEF With, Of
<1>5. \A x \in all \cap DOMAIN Merged(files, a) :
        /\ Of # {}
        /\ Merged(files, a)[x] = Value(order[Latest(Of)], r[order[Latest(Of)]], a)
  BY <1>3, <1>4
<1>6. Of # {} => all \subseteq DOMAIN Merged(files, a)
  BY <1>3, <1>4
<1>7. /\ all \cap DOMAIN Merged(files, a) = {} \/ all \cap DOMAIN Merged(files, a) = all
      /\ \A x, y \in all \cap DOMAIN Merged(files, a) : Merged(files, a)[x] = Merged(files, a)[y]
  BY <1>5, <1>6
<1> QED
  BY <1>7

\* A connection has as many variables as parts.
LEMMA ThreeParts ==
  ASSUME NEW prefix
  PROVE  Cardinality({<<prefix, part>> : part \in Parts}) = Cardinality(Parts)
<1> DEFINE all == {<<prefix, part>> : part \in Parts}
           f == [part \in Parts |-> <<prefix, part>>]
<1>1. IsFiniteSet(Parts)
  <2>1. IsFiniteSet({"URL"})
    BY FS_Singleton
  <2>2. IsFiniteSet({"URL"} \cup {"HOST"})
    BY <2>1, FS_AddElement
  <2>3. IsFiniteSet({"URL"} \cup {"HOST"} \cup {"PASSWORD"})
    BY <2>2, FS_AddElement
  <2>4. Parts = {"URL"} \cup {"HOST"} \cup {"PASSWORD"}
    BY DEF Parts
  <2> QED
    BY <2>3, <2>4
<1>2. f \in Bijection(Parts, all)
  <2>1. f \in [Parts -> all]
    OBVIOUS
  <2>2. \A p, q \in Parts : f[p] = f[q] => p = q
    OBVIOUS
  <2>3. \A x \in all : \E p \in Parts : f[p] = x
    OBVIOUS
  <2> QED
    BY <2>1, <2>2, <2>3 DEF Bijection, Injection, Surjection, IsInjective
<1>3. ExistsBijection(Parts, all)
  BY <1>2 DEF ExistsBijection
<1> QED
  BY <1>1, <1>3, FS_Bijection

\* The parts of a connection that an application gets are all of one run of one
\* service, in whatever order the files are found, if --env-var names no part of
\* another kind of service.
THEOREM PartsFitHolds == ASSUME OwnVariables PROVE Spec => []PartsFit
<1>1. Init => PartsFit
  BY DEF Init, PartsFit, Deployed
<1>2. ArtifactsInv /\ PartsFit /\ [Next]_vars => PartsFit'
  <2> SUFFICES ASSUME ArtifactsInv, PartsFit, [Next]_vars,
                      NEW l \in Deployed', NEW a \in Apps, NEW prefix \in {"BROKER", "DATABASE"}
               PROVE  LET names == {<<prefix, part>> : part \in Parts} \cap DOMAIN env'[l][a]
                      IN /\ Cardinality(names) \in {0, Cardinality(Parts)}
                         /\ \A x, y \in names : env'[l][a][x] = env'[l][a][y]
    BY DEF PartsFit
  <2>0. l \in Pipelines /\ env'[l] # None
    BY DEF Deployed
  <2>1. CASE env'[l] = env[l]
    <3>1. l \in Deployed
      BY <2>0, <2>1 DEF Deployed
    <3>2. /\ Cardinality({<<prefix, part>> : part \in Parts} \cap DOMAIN env[l][a])
               \in {0, Cardinality(Parts)}
          /\ \A x, y \in {<<prefix, part>> : part \in Parts} \cap DOMAIN env[l][a] :
               env[l][a][x] = env[l][a][y]
      <4> DEFINE NamesOf(k, b, q) == {<<q, part>> : part \in Parts} \cap DOMAIN env[k][b]
      <4>1. \A k \in Deployed, b \in Apps, q \in {"BROKER", "DATABASE"} :
              /\ Cardinality(NamesOf(k, b, q)) \in {0, Cardinality(Parts)}
              /\ \A x, y \in NamesOf(k, b, q) : env[k][b][x] = env[k][b][y]
        BY DEF PartsFit
      <4> HIDE DEF NamesOf
      <4>2. /\ Cardinality(NamesOf(l, a, prefix)) \in {0, Cardinality(Parts)}
            /\ \A x, y \in NamesOf(l, a, prefix) : env[l][a][x] = env[l][a][y]
        BY <3>1, <4>1
      <4> QED
        BY <4>2 DEF NamesOf
    <3>3. PICK e : e = env[l][a]
      OBVIOUS
    <3>4. env'[l][a] = e
      BY <2>1, <3>3
    <3> QED
      BY <3>2, <3>3, <3>4
  <2>2. CASE DeployApps(l)
    <3>1. PICK order \in SetToSeqs(Services) :
            env' = [env EXCEPT ![l] =
              [b \in Apps |-> Merged([i \in DOMAIN order |-> artifact[l][order[i]]], b)]]
      BY <2>2 DEF DeployApps
    <3>2. PICK r, files : r = run[l] /\ files = [i \in DOMAIN order |-> artifact[l][order[i]]]
      OBVIOUS
    <3>3. files = [i \in DOMAIN order |-> Artifacts(order[i], r[order[i]])]
      <4>1. \A i \in DOMAIN order : artifact[l][order[i]] = Artifacts(order[i], r[order[i]])
        <5>1. \A i \in DOMAIN order : order[i] \in Services
          BY DEF SetToSeqs
        <5> QED
          BY <2>0, <2>2, <3>2, <5>1 DEF DeployApps, ArtifactsInv, TypeOK
      <4> QED
        BY <3>2, <4>1
    <3>4. DOMAIN env = Pipelines
      BY DEF ArtifactsInv, EnvInv
    <3>5. PICK merged : merged = Merged(files, a)
      OBVIOUS
    <3>6. env'[l][a] = merged
      BY <2>0, <3>1, <3>2, <3>4, <3>5
    <3> DEFINE all == {<<prefix, part>> : part \in Parts}
    <3>7. /\ all \cap DOMAIN merged = {} \/ all \cap DOMAIN merged = all
          /\ \A x, y \in all \cap DOMAIN merged : merged[x] = merged[y]
      BY <3>3, <3>5, MergedFits
    <3>8. Cardinality(all) = Cardinality(Parts) /\ Cardinality({}) = 0
      BY ThreeParts, FS_EmptySet
    <3> HIDE DEF all
    <3>9. /\ Cardinality(all \cap DOMAIN merged) \in {0, Cardinality(Parts)}
          /\ \A x, y \in all \cap DOMAIN merged : merged[x] = merged[y]
      BY <3>7, <3>8
    <3> QED
      BY <3>6, <3>9 DEF all
  <2>3. ASSUME NEW m \in Pipelines, m # l, DeployApps(m) PROVE env'[l] = env[l]
    BY <2>3, <2>0 DEF DeployApps, ArtifactsInv, EnvInv
  <2>4. CASE UNCHANGED env
    BY <2>1, <2>4
  <2>5. \/ UNCHANGED env
        \/ \E m \in Pipelines : DeployApps(m)
    BY DEF Next, vars, StartRun, Upgrade, UpgradeFails, WriteArtifact, Fails, Cleanup
  <2> QED
    BY <2>1, <2>2, <2>3, <2>4, <2>5
<1> QED
  BY <1>1, <1>2, ServicesInvariant, PTL DEF Spec
=============================================================================
