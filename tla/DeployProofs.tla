----------------------------- MODULE DeployProofs -----------------------------
(***************************************************************************)
(* Theorems about Deploy, for any number of jobs and projects: its types,  *)
(* the order of the dependencies, the locks, that it implements Rollout,   *)
(* and what overlapping jobs cannot do to each other.  Then about Pipeline,*)
(* for any number of pipelines, too: it is Deploy with the jobs of some    *)
(* pipelines, so that whatever holds of Deploy holds in pipelines; reviews *)
(* stay up, and do not fail without a cause.                               *)
(***************************************************************************)
EXTENDS Pipeline, TLAPS

\* Where a deployer is in its loop, as far as the types need it: the secret it
\* writes is one, and before its first request it is at the first.
StageOK ==
  \A j \in Deployers :
    /\ pc[j] \notin {"delete_namespace", "wait_deleted"}
    /\ pc[j] \in {"idle", "read_namespace", "create_namespace"} => at[j] = 1 /\ kind[j] = "file"
    /\ pc[j] \in {"create_secret", "replace_secret"} => kind[j] \in Kinds
    /\ pc[j] \in {"upgrade", "upgrading"} => kind[j] = "chart"

TypeInv == TypeOK /\ StageOK

\* The secrets pods need are secrets of the project, and a project's sequence
\* of secrets ends with its chart.
LEMMA JobsOK == /\ Deployers \subseteq Jobs /\ Cleaners \subseteq Jobs
                /\ \A j \in Deployers : j \notin Cleaners /\ j # None
                /\ 1 \in Projects
  BY DeployAssumption DEF Jobs, Projects

\* The secrets of a project, and what comes after each.
LEMMA KindsOK == /\ Mounted \subseteq Kinds
                 /\ \A p \in Projects, k \in Kinds : NextKind(p, k) \in Kinds \cup {"chart"}
  BY DEF Mounted, Kinds, NextKind

\* The releases the steps make are releases.
Envs == [Mounted -> Deployers \cup {None}]

\* What helm, its roll-back and the pods make of a release is a release.
LEMMA ReleasesOK ==
  /\ NoRelease \in Releases /\ NoEnv \in Envs
  /\ \A r \in Releases : RolledBack(r) \in Releases /\ r.fresh \in Envs
  /\ \A r \in Releases, j \in Deployers, e \in Envs :
       /\ [r EXCEPT !.status = "pending", !.holder = j, !.fresh = e] \in Releases
       /\ [r EXCEPT !.env = e] \in Releases
       /\ [r EXCEPT !.fresh = e] \in Releases
       /\ [status |-> "deployed", holder |-> None, image |-> j, env |-> e,
           fresh |-> NoEnv] \in Releases
  BY DEF NoRelease, Releases, RolledBack, NoEnv, Envs

\* A failed upgrade changes no more than the lock of its project's release: it
\* gives it back, or has lost the API server.
LEMMA FailedUpgrade ==
  ASSUME TypeOK, NEW j \in Deployers, UpgradeFails(j)
  PROVE  \/ rel' = rel /\ (Holds(j, at[j]) => "api" \in Faults)
         \/ Holds(j, at[j]) /\ rel' = [rel EXCEPT ![at[j]] = RolledBack(rel[at[j]])]
<1>1. PICK p \in Projects : p = at[j]
  BY DEF TypeOK
<1>2. rel' \in Failed(j, p) /\ rel \in [Projects -> Releases]
  BY <1>1 DEF UpgradeFails, TypeOK
<1>3. [rel EXCEPT ![p] = rel[p]] = rel
  BY <1>2
<1> QED
  BY <1>1, <1>2, <1>3 DEF Failed

\* The secrets pods start with are those of the mounted kinds.
LEMMA EnvOK == ASSUME TypeOK, NEW p \in Projects PROVE Env(p) \in Envs
  BY KindsOK DEF TypeOK, Env, Envs

\* The variables keep their types: no job works on a project or a secret that
\* does not exist, whatever the interleaving and the faults.
THEOREM TypeCorrect == Spec => []TypeInv
<1>1. Init => TypeInv
  <2> SUFFICES ASSUME Init PROVE TypeInv
    OBVIOUS
  <2>1. NoRelease \in Releases
    BY ReleasesOK
  <2>2. NoSecrets \in [Kinds -> Deployers \cup {None}]
    BY DEF NoSecrets
  <2> QED
    BY <2>1, <2>2, JobsOK DEF Init, TypeInv, TypeOK, StageOK, Stages, Projects, Kinds
<1>2. TypeInv /\ [Next]_vars => TypeInv'
  <2> SUFFICES ASSUME TypeInv, [Next]_vars PROVE TypeInv'
    OBVIOUS
  <2> USE JobsOK DEF TypeInv, TypeOK, StageOK
  <2>0. CASE UNCHANGED vars
    BY <2>0 DEF vars, cluster, control, history
  <2>1. ASSUME NEW j \in Jobs, Start(j) PROVE TypeInv'
    <3>1. TypeOK'
      BY <2>1 DEF Start, Goto, cluster, Stages, Ended
    <3>2. StageOK'
      BY <2>1 DEF Start, Goto, cluster
    <3> QED
      BY <3>1, <3>2
  <2>2. ASSUME NEW j \in Jobs, Kill(j) PROVE TypeInv'
    <3>1. TypeOK'
      BY <2>2 DEF Kill, Goto, cluster, history, Stages, Ended
    <3>2. StageOK'
      BY <2>2 DEF Kill, Goto, cluster
    <3> QED
      BY <3>1, <3>2
  <2>3. ASSUME NEW j \in Deployers, DeployStep(j) PROVE TypeInv'
    <3>1. CASE ReadNamespace(j)
      <4>1. TypeOK'
        BY <3>1 DEF ReadNamespace, cluster, history, Goto, Stages, Ended, Kinds
      <4>2. StageOK'
        BY <3>1 DEF ReadNamespace, cluster, history, Goto, Kinds
      <4> QED
        BY <4>1, <4>2
    <3>2. CASE CreateNamespace(j)
      <4>1. TypeOK'
        BY <3>2 DEF CreateNamespace, history, Goto, Stages, Ended, Kinds
      <4>2. StageOK'
        BY <3>2 DEF CreateNamespace, history, Goto, Kinds
      <4> QED
        BY <4>1, <4>2
    <3>3. CASE CreateSecret(j)
      <4>1. TypeOK'
        <5>1. at[j] \in Projects /\ kind[j] \in Kinds
          BY <3>3 DEF CreateSecret
        <5>2. [secret EXCEPT ![at[j]][kind[j]] = j] \in [Projects -> [Kinds -> Deployers \cup {None}]]
          <6>1. secret \in [Projects -> [Kinds -> Deployers \cup {None}]]
            OBVIOUS
          <6> QED
            BY ONLY <5>1, <6>1
        <5>3. kind' \in [Deployers -> Kinds \cup {"chart"}]
          <6> DEFINE next == NextKind(at[j], kind[j])
          <6>1. kind' = kind \/ kind' = [kind EXCEPT ![j] = next]
            BY <3>3 DEF CreateSecret, SecretWritten
          <6>2. next \in Kinds \cup {"chart"} /\ kind \in [Deployers -> Kinds \cup {"chart"}]
            BY <5>1, KindsOK
          <6> QED
            BY ONLY <6>1, <6>2
        <5>4. pc' \in [Jobs -> Stages]
          BY <3>3 DEF CreateSecret, SecretWritten, Goto, Stages, Ended
        <5>5. secret' = secret \/ secret' = [secret EXCEPT ![at[j]][kind[j]] = j]
          BY <3>3 DEF CreateSecret
        <5>6. UNCHANGED <<ns, gen, rel, at, target, upgraded, before>>
          BY <3>3 DEF CreateSecret, history
        <5> QED
          BY <5>2, <5>3, <5>4, <5>5, <5>6
      <4>2. StageOK'
        BY <3>3, KindsOK DEF CreateSecret, SecretWritten, history, Goto, Kinds
      <4> QED
        BY <4>1, <4>2
    <3>4. CASE ReplaceSecret(j)
      <4>1. TypeOK'
        <5>1. at[j] \in Projects /\ kind[j] \in Kinds
          BY <3>4 DEF ReplaceSecret
        <5>2. [secret EXCEPT ![at[j]][kind[j]] = j] \in [Projects -> [Kinds -> Deployers \cup {None}]]
          <6>1. secret \in [Projects -> [Kinds -> Deployers \cup {None}]]
            OBVIOUS
          <6> QED
            BY ONLY <5>1, <6>1
        <5>3. kind' \in [Deployers -> Kinds \cup {"chart"}]
          <6> DEFINE next == NextKind(at[j], kind[j])
          <6>1. kind' = kind \/ kind' = [kind EXCEPT ![j] = next]
            BY <3>4 DEF ReplaceSecret, SecretWritten
          <6>2. next \in Kinds \cup {"chart"} /\ kind \in [Deployers -> Kinds \cup {"chart"}]
            BY <5>1, KindsOK
          <6> QED
            BY ONLY <6>1, <6>2
        <5> QED
          <6>1. pc' \in [Jobs -> Stages]
            BY <3>4 DEF ReplaceSecret, SecretWritten, Goto, Stages, Ended
          <6>2. secret' \in [Projects -> [Kinds -> Deployers \cup {None}]]
            BY <3>4, <5>2 DEF ReplaceSecret
          <6> QED
            BY <3>4, <5>3, <6>1, <6>2 DEF ReplaceSecret, history
      <4>2. StageOK'
        BY <3>4, KindsOK DEF ReplaceSecret, SecretWritten, history, Goto, Kinds
      <4> QED
        BY <4>1, <4>2
    <3>5. CASE BeginUpgrade(j)
      <4>1. TypeOK'
        <5>1. [rel EXCEPT ![at[j]] = [@ EXCEPT !.status = "pending", !.holder = j,
                                               !.fresh = Env(at[j])]] \in [Projects -> Releases]
          BY ReleasesOK, EnvOK
        <5> QED
          BY <3>5, <5>1 DEF BeginUpgrade, history, Goto, Stages, Ended
      <4>2. StageOK'
        BY <3>5, KindsOK DEF BeginUpgrade, Env, Releases, history, Goto, Kinds
      <4> QED
        BY <4>1, <4>2
    <3>6. CASE UpgradeSucceeds(j)
      <4>1. TypeOK'
        <5>1. rel' \in [Projects -> Releases]
          BY <3>6, ReleasesOK DEF UpgradeSucceeds
        <5>2. at' \in [Deployers -> Projects]
          <6>1. at[j] < N => at[j] + 1 \in Projects
            BY DeployAssumption DEF Projects
          <6> QED
            BY <3>6, <6>1 DEF UpgradeSucceeds, NextProject
        <5> QED
          <6>1. kind' \in [Deployers -> Kinds \cup {"chart"}]
            BY <3>6 DEF UpgradeSucceeds, NextProject, Kinds
          <6>2. pc' \in [Jobs -> Stages]
            BY <3>6 DEF UpgradeSucceeds, NextProject, Goto, Stages, Ended
          <6>3. upgraded' \in [Deployers -> SUBSET Projects]
            BY <3>6 DEF UpgradeSucceeds
          <6> QED
            BY <3>6, <5>1, <5>2, <6>1, <6>2, <6>3 DEF UpgradeSucceeds
      <4>2. StageOK'
        BY <3>6, DeployAssumption DEF UpgradeSucceeds, NextProject, Releases, NoEnv, Projects, Goto, Kinds
      <4> QED
        BY <4>1, <4>2
    <3>7. CASE UpgradeFails(j)
      <4>1. TypeOK'
        <5>1. rel' \in [Projects -> Releases]
          <6>1. rel \in [Projects -> Releases] /\ at[j] \in Projects
            BY DEF TypeOK
          <6>2. RolledBack(rel[at[j]]) \in Releases
            BY <6>1, ReleasesOK
          <6>3. rel' = rel \/ rel' = [rel EXCEPT ![at[j]] = RolledBack(rel[at[j]])]
            BY <3>7, FailedUpgrade
          <6> QED
            BY ONLY <6>1, <6>2, <6>3
        <5> QED
          BY <3>7, <5>1 DEF UpgradeFails, history, Goto, Stages, Ended, Kinds
      <4>2. StageOK'
        BY <3>7, ReleasesOK DEF UpgradeFails, history, Goto, Kinds
      <4> QED
        BY <4>1, <4>2
    <3>8. CASE LocalError(j)
      <4>1. TypeOK'
        BY <3>8 DEF LocalError, cluster, history, Goto, Stages, Ended, Kinds
      <4>2. StageOK'
        BY <3>8 DEF LocalError, cluster, history, Goto, Kinds
      <4> QED
        BY <4>1, <4>2
    <3> QED
      BY <2>3, <3>1, <3>2, <3>3, <3>4, <3>5, <3>6, <3>7, <3>8 DEF DeployStep
  <2>4. ASSUME NEW c \in Cleaners, CleanStep(c) PROVE TypeInv'
    <3>1. TypeOK'
      <4>1. CASE DeleteNamespace(c)
        BY <4>1 DEF DeleteNamespace, Goto, Stages, Ended, history
      <4>2. CASE WaitDeleted(c)
        BY <4>2 DEF WaitDeleted, Goto, Stages, Ended, cluster, history
      <4> QED
        BY <2>4, <4>1, <4>2 DEF CleanStep
    <3>2. StageOK'
      BY <2>4 DEF CleanStep, DeleteNamespace, WaitDeleted, Goto
    <3> QED
      BY <3>1, <3>2
  <2>5. ASSUME NEW p \in Projects, PodRestart(p) PROVE TypeInv'
    <3>1. rel' \in [Projects -> Releases]
      <4>1. /\ [rel EXCEPT ![p].env = Env(p)] \in [Projects -> Releases]
            /\ [rel EXCEPT ![p].fresh = Env(p)] \in [Projects -> Releases]
        <5>1. rel[p] \in Releases /\ Env(p) \in Envs
          BY EnvOK
        <5>2. /\ [rel[p] EXCEPT !.env = Env(p)] \in Releases
              /\ [rel[p] EXCEPT !.fresh = Env(p)] \in Releases
          BY <5>1 DEF Releases, Envs
        <5> QED
          BY <5>2
      <4> QED
        BY <2>5, <4>1 DEF PodRestart
    <3> QED
      BY <2>5, <3>1 DEF PodRestart, control, history
  <2>6. CASE Controller
    <3>1. CASE NamespaceGone
      BY <3>1 DEF NamespaceGone, control, history
    <3>2. ASSUME NEW p \in Projects, DeleteContent(p) PROVE TypeInv'
      <4>1. NoSecrets \in [Kinds -> Deployers \cup {None}]
        BY DEF NoSecrets
      <4> QED
        BY <3>2, <4>1, ReleasesOK DEF DeleteContent, control, history
    <3> QED
      BY <2>6, <3>1, <3>2 DEF Controller
  <2>7. CASE Finished
    BY <2>7 DEF Finished, vars, cluster, control, history
  <2> QED
    BY <2>0, <2>1, <2>2, <2>3, <2>4, <2>5, <2>6, <2>7 DEF Next
<1> QED
  BY <1>1, <1>2, PTL DEF Spec

(***************************************************************************)
(* The loop of deploy_application: what a deployer has upgraded follows    *)
(* from where it is, a project serves only what has been upgraded, and a   *)
(* locked release belongs to the deployer that is at it.                   *)
(***************************************************************************)
Passed(j, p) == p < at[j] \/ (p = at[j] /\ kind[j] = "chart")

LoopInv ==
  \A j \in Deployers :
    /\ pc[j] \notin Ended \cup {"hung"} => upgraded[j] = 1..(at[j] - 1)
    /\ pc[j] = "succeeded" => upgraded[j] = Projects

ServedInv ==
  \A p \in Projects, j \in Deployers :
    rel[p].image = j => 1..p \subseteq upgraded[j] /\ Passed(j, p)

LockInv ==
  \A p \in Projects :
    rel[p].status = "pending" =>
      \E j \in Deployers : /\ rel[p].holder = j /\ at[j] = p /\ kind[j] = "chart"
                           /\ pc[j] \in LockStages

DeployInv == LoopInv /\ ServedInv /\ LockInv

\* A roll-back gives the lock back and leaves what is served.
LEMMA RolledBackKeepsImage ==
  \A r \in Releases : /\ RolledBack(r).image = r.image
                      /\ r.status = "pending" => RolledBack(r).status # "pending"
  BY DEF Releases, RolledBack, NoRelease

\* A job that has upgraded all projects before n, and n, has upgraded 1..n.
LEMMA IntervalGrows == \A n \in 1..N : (1..(n - 1)) \cup {n} = 1..n
  BY DeployAssumption

\* Pods that start change neither the image nor the lock.
LEMMA PodsKeepRelease ==
  \A r \in Releases, e \in Envs :
    /\ LET t == [r EXCEPT !.env = e]
       IN  t.image = r.image /\ t.status = r.status /\ t.holder = r.holder
    /\ LET t == [r EXCEPT !.fresh = e]
       IN  t.image = r.image /\ t.status = r.status /\ t.holder = r.holder
  BY DEF Releases

\* No job moves, and releases lose at most their image or their lock.
LEMMA JobsUnchanged ==
  ASSUME DeployInv, JobsOK, UNCHANGED <<pc, at, kind, upgraded>>,
         \A q \in Projects :
           /\ rel'[q].image \in {rel[q].image, None}
           /\ rel'[q].status = "pending" =>
                rel[q].status = "pending" /\ rel'[q].holder = rel[q].holder
  PROVE  DeployInv'
<1>1. LoopInv'
  BY DEF DeployInv, LoopInv
<1>2. ServedInv'
  BY JobsOK DEF DeployInv, ServedInv, Passed
<1>3. LockInv'
  BY DEF DeployInv, LockInv
<1> QED
  BY <1>1, <1>2, <1>3 DEF DeployInv

\* Only j moves, before its upgrade, and the releases stay.
LEMMA OneJobMoves ==
  ASSUME DeployInv, NEW j \in Deployers, UNCHANGED <<rel, at, upgraded>>,
         pc[j] \notin Ended \cup {"hung", "upgrading"}, pc'[j] # "succeeded",
         kind[j] = "chart" => kind'[j] = "chart",
         \A i \in Deployers \ {j} : pc'[i] = pc[i] /\ kind'[i] = kind[i]
  PROVE  DeployInv'
<1>1. LoopInv'
  BY DEF DeployInv, LoopInv, Ended
<1>2. ServedInv'
  BY DEF DeployInv, ServedInv, Passed
<1>3. LockInv'
  BY DEF DeployInv, LockInv, LockStages, Ended
<1> QED
  BY <1>1, <1>2, <1>3 DEF DeployInv

\* Dependencies are upgraded before the projects that follow them, success
\* means all of them, and a job goes nowhere from a release it holds.
THEOREM DeployInvariant == Spec => [](TypeInv /\ DeployInv)
<1>1. Init => DeployInv
  BY JobsOK DEF Init, DeployInv, LoopInv, ServedInv, LockInv, NoRelease, Ended, Projects
<1>2. TypeInv /\ DeployInv /\ [Next]_vars => DeployInv'
  <2> SUFFICES ASSUME TypeInv, DeployInv, [Next]_vars PROVE DeployInv'
    OBVIOUS
  <2> USE JobsOK DEF TypeInv, TypeOK, StageOK, DeployInv
  <2>0. CASE UNCHANGED vars
    BY <2>0, JobsUnchanged DEF vars, cluster, control, history
  <2>1. ASSUME NEW j \in Jobs, Start(j) PROVE DeployInv'
    <3>1. LoopInv'
      BY <2>1 DEF Start, Goto, cluster, LoopInv, Ended
    <3>2. ServedInv'
      BY <2>1 DEF Start, Goto, cluster, ServedInv, Passed
    <3>3. LockInv'
      BY <2>1 DEF Start, Goto, cluster, LockInv, LockStages
    <3> QED
      BY <3>1, <3>2, <3>3
  <2>2. ASSUME NEW j \in Jobs, Kill(j) PROVE DeployInv'
    <3>1. LoopInv'
      BY <2>2 DEF Kill, Goto, cluster, history, Active, LoopInv, Ended
    <3>2. ServedInv'
      BY <2>2 DEF Kill, Goto, cluster, history, Active, Ended, ServedInv, Passed
    <3>3. LockInv'
      BY <2>2 DEF Kill, Goto, cluster, history, Active, Ended, LockInv, LockStages
    <3> QED
      BY <3>1, <3>2, <3>3
  <2>3. ASSUME NEW j \in Deployers, DeployStep(j) PROVE DeployInv'
    <3>1. CASE ReadNamespace(j)
      BY <3>1, OneJobMoves DEF ReadNamespace, Goto, cluster, history, Ended, Kinds
    <3>2. CASE CreateNamespace(j)
      BY <3>2, OneJobMoves DEF CreateNamespace, Goto, history, Ended, Kinds
    <3>3. CASE CreateSecret(j)
      BY <3>3, OneJobMoves DEF CreateSecret, SecretWritten, Goto, history, Ended, Kinds
    <3>4. CASE ReplaceSecret(j)
      BY <3>4, OneJobMoves DEF ReplaceSecret, SecretWritten, Goto, history, Ended, Kinds
    <3>5. CASE BeginUpgrade(j)
      <4>1. CASE UNCHANGED rel
        BY <3>5, <4>1, OneJobMoves DEF BeginUpgrade, Goto, history, Ended
      <4>2. CASE pc' = [pc EXCEPT ![j] = "upgrading"]
        <5>1. /\ \A p \in Projects : p # at[j] => rel'[p] = rel[p]
              /\ rel'[at[j]].image = rel[at[j]].image \/ rel' = rel
              /\ rel'[at[j]].holder = j \/ rel' = rel
              /\ UNCHANGED <<at, kind, upgraded>> /\ kind[j] = "chart"
          <6> DEFINE p == at[j]
                     taken == [rel[p] EXCEPT !.status = "pending", !.holder = j, !.fresh = Env(p)]
          <6>1. rel' = rel \/ rel' = [rel EXCEPT ![p] = taken]
            BY <3>5 DEF BeginUpgrade
          <6>2. p \in Projects /\ rel[p] \in Releases /\ rel \in [Projects -> Releases]
            OBVIOUS
          <6>3. taken.image = rel[p].image /\ taken.holder = j
            BY <6>2 DEF Releases
          <6>4. UNCHANGED <<at, kind, upgraded>> /\ kind[j] = "chart"
            BY <3>5 DEF BeginUpgrade, history
          <6> HIDE DEF taken
          <6>5. ASSUME rel' = [rel EXCEPT ![p] = taken]
                PROVE  /\ \A q \in Projects : q # p => rel'[q] = rel[q]
                       /\ rel'[p] = taken
            BY ONLY <6>2, <6>5
          <6> QED
            BY <6>1, <6>3, <6>4, <6>5
        <5>2. LoopInv'
          BY <3>5, <4>2, <5>1 DEF BeginUpgrade, LoopInv, Ended
        <5>3. ServedInv'
          BY <5>1 DEF ServedInv, Passed
        <5>4. LockInv'
          BY <3>5, <4>2, <5>1 DEF BeginUpgrade, LockInv, LockStages
        <5> QED
          BY <5>2, <5>3, <5>4
      <4> QED
        BY <3>5, <4>1, <4>2 DEF BeginUpgrade, Goto
    <3>6. CASE UpgradeSucceeds(j)
      <4>1. /\ upgraded[j] = 1..(at[j] - 1) /\ kind[j] = "chart"
            /\ upgraded' = [upgraded EXCEPT ![j] = 1..at[j]]
        <5>1. upgraded[j] = 1..(at[j] - 1) /\ kind[j] = "chart"
          BY <3>6 DEF UpgradeSucceeds, LoopInv, Ended
        <5>2. at[j] \in 1..N
          BY DEF Projects
        <5>3. (1..(at[j] - 1)) \cup {at[j]} = 1..at[j]
          BY <5>2, IntervalGrows
        <5> QED
          BY <3>6, <5>1, <5>3 DEF UpgradeSucceeds
      <4>2. \/ at[j] < N /\ at' = [at EXCEPT ![j] = at[j] + 1] /\ pc' = [pc EXCEPT ![j] = "create_secret"]
            \/ at[j] = N /\ at' = at /\ kind' = kind /\ pc' = [pc EXCEPT ![j] = "succeeded"]
            \/ at' = at /\ kind' = kind /\ \E s \in {"failed", "hung"} : pc' = [pc EXCEPT ![j] = s]
        BY <3>6, DeployAssumption DEF UpgradeSucceeds, NextProject, Goto, Projects
      <4>3. /\ \A p \in Projects : p # at[j] => rel'[p] = rel[p]
            /\ rel'[at[j]].image = j /\ rel'[at[j]].status = "deployed"
            /\ \A i \in Deployers : i # j => kind'[i] = kind[i] /\ at'[i] = at[i] /\ pc'[i] = pc[i]
        BY <3>6 DEF UpgradeSucceeds, NextProject, Goto
      <4>4. LoopInv'
        BY <4>1, <4>2, <4>3, DeployAssumption DEF LoopInv, Ended, Projects
      <4>5. ServedInv'
        <5> SUFFICES ASSUME NEW p \in Projects, NEW i \in Deployers, rel'[p].image = i
                     PROVE  /\ 1..p \subseteq upgraded'[i]
                            /\ p < at'[i] \/ (p = at'[i] /\ kind'[i] = "chart")
          BY DEF ServedInv, Passed
        <5>1. at[j] \in 1..N /\ p \in 1..N /\ upgraded'[j] = 1..at[j]
          BY <4>1 DEF Projects
        <5>2. p <= at[j] => p < at'[j] \/ (p = at'[j] /\ kind'[j] = "chart")
          <6>1. at'[j] = at[j] + 1 \/ (at'[j] = at[j] /\ kind'[j] = "chart")
            BY <4>1, <4>2
          <6> QED
            BY ONLY <5>1, <6>1
        <5>3. CASE p = at[j]
          <6>1. i = j
            BY <4>3, <5>3
          <6> QED
            BY ONLY <5>1, <5>2, <5>3, <6>1
        <5>4. CASE p # at[j]
          <6>1. 1..p \subseteq upgraded[i] /\ Passed(i, p)
            BY <4>3, <5>4 DEF ServedInv
          <6>2. CASE i = j
            <7>1. p < at[j]
              BY <5>4, <6>1, <6>2 DEF Passed
            <7> QED
              BY <5>1, <5>2, <6>2, <7>1
          <6>3. CASE i # j
            <7>1. upgraded'[i] = upgraded[i] /\ at'[i] = at[i] /\ kind'[i] = kind[i]
              BY <4>1, <4>3, <6>3
            <7> QED
              BY <6>1, <7>1 DEF Passed
          <6> QED
            BY <6>2, <6>3
        <5> QED
          BY <5>3, <5>4
      <4>6. LockInv'
        <5> SUFFICES ASSUME NEW p \in Projects, rel'[p].status = "pending"
                     PROVE  \E i \in Deployers :
                              /\ rel'[p].holder = i /\ at'[i] = p /\ kind'[i] = "chart"
                              /\ pc'[i] \in LockStages
          BY DEF LockInv
        <5>1. p # at[j] /\ rel'[p] = rel[p]
          BY <4>3
        <5>2. PICK i \in Deployers : /\ rel[p].holder = i /\ at[i] = p /\ kind[i] = "chart"
                                     /\ pc[i] \in LockStages
          BY <5>1 DEF LockInv
        <5> QED
          BY <4>3, <5>1, <5>2 DEF LockStages
      <4> QED
        BY <4>4, <4>5, <4>6
    <3>7. CASE UpgradeFails(j)
      <4>1. /\ \A p \in Projects : rel'[p].image = rel[p].image
            /\ \A p \in Projects : p # at[j] => rel'[p] = rel[p]
            /\ rel'[at[j]].status = "pending" =>
                 rel' = rel /\ (Holds(j, at[j]) => "api" \in Faults)
        <5>1. rel \in [Projects -> Releases] /\ at[j] \in Projects
          OBVIOUS
        <5>2. CASE rel' = rel /\ (Holds(j, at[j]) => "api" \in Faults)
          BY <5>2
        <5>3. CASE Holds(j, at[j]) /\ rel' = [rel EXCEPT ![at[j]] = RolledBack(rel[at[j]])]
          <6>1. /\ RolledBack(rel[at[j]]).image = rel[at[j]].image
                /\ RolledBack(rel[at[j]]).status # "pending"
            BY <5>1, <5>3, RolledBackKeepsImage DEF Holds
          <6> QED
            BY <5>1, <5>3, <6>1
        <5> QED
          BY <3>7, <5>2, <5>3, FailedUpgrade
      <4>2. LoopInv'
        BY <3>7 DEF UpgradeFails, Goto, history, LoopInv, Ended
      <4>3. ServedInv'
        BY <3>7, <4>1 DEF UpgradeFails, history, ServedInv, Passed
      <4>4. LockInv'
        <5>1. pc'[j] \in {"failed", "hung"} /\ UNCHANGED <<at, kind>> /\ pc[j] = "upgrading"
              /\ \A i \in Deployers \ {j} : pc'[i] = pc[i]
          BY <3>7 DEF UpgradeFails, Goto
        <5> SUFFICES ASSUME NEW p \in Projects, rel'[p].status = "pending"
                     PROVE  \E i \in Deployers :
                              /\ rel'[p].holder = i /\ at'[i] = p /\ kind'[i] = "chart"
                              /\ pc'[i] \in LockStages
          BY DEF LockInv
        <5>2. rel'[p] = rel[p]
          BY <4>1
        <5>3. PICK i \in Deployers : /\ rel[p].holder = i /\ at[i] = p /\ kind[i] = "chart"
                                     /\ pc[i] \in LockStages
          BY <5>2 DEF LockInv
        <5>4. i = j => pc'[i] \in LockStages
          BY <4>1, <5>1, <5>2, <5>3 DEF Holds, LockStages
        <5> QED
          BY <5>1, <5>2, <5>3, <5>4
      <4> QED
        BY <4>2, <4>3, <4>4
    <3>8. CASE LocalError(j)
      BY <3>8, OneJobMoves DEF LocalError, Goto, cluster, history, Ended, Kinds
    <3> QED
      BY <2>3, <3>1, <3>2, <3>3, <3>4, <3>5, <3>6, <3>7, <3>8 DEF DeployStep
  <2>4. ASSUME NEW c \in Cleaners, CleanStep(c) PROVE DeployInv'
    <3>0. UNCHANGED <<rel, at, kind, upgraded>> /\ \A i \in Deployers : pc'[i] = pc[i]
      <4>1. UNCHANGED <<rel, at, kind, upgraded>>
        BY <2>4 DEF CleanStep, DeleteNamespace, WaitDeleted, cluster, history
      <4>2. \A i \in Deployers : pc'[i] = pc[i]
        BY <2>4 DEF CleanStep, DeleteNamespace, WaitDeleted, Goto
      <4> QED
        BY <4>1, <4>2
    <3>1. LoopInv'
      BY <3>0 DEF LoopInv, Ended
    <3>2. ServedInv'
      BY <3>0 DEF ServedInv, Passed
    <3>3. LockInv'
      BY <3>0 DEF LockInv
    <3> QED
      BY <3>1, <3>2, <3>3
  <2>5. ASSUME NEW p \in Projects, PodRestart(p) PROVE DeployInv'
    <3>1. \A q \in Projects :
             \/ rel'[q] = rel[q]
             \/ \E e \in Envs : \/ rel'[q] = [rel[q] EXCEPT !.env = e]
                               \/ rel'[q] = [rel[q] EXCEPT !.fresh = e]
      <4> DEFINE e0 == Env(p)
      <4>1. e0 \in Envs /\ rel \in [Projects -> Releases]
        BY EnvOK
      <4>2. rel' = [rel EXCEPT ![p].env = e0] \/ rel' = [rel EXCEPT ![p].fresh = e0]
        BY <2>5 DEF PodRestart
      <4> HIDE DEF e0
      <4>3. /\ \A q \in Projects \ {p} : rel'[q] = rel[q]
            /\ \/ rel'[p] = [rel[p] EXCEPT !.env = e0]
               \/ rel'[p] = [rel[p] EXCEPT !.fresh = e0]
        BY ONLY <4>1, <4>2
      <4> QED
        BY ONLY <4>1, <4>3
    <3>2. UNCHANGED <<pc, at, kind, upgraded>>
      BY <2>5 DEF PodRestart, control, history
    <3>3. \A q \in Projects : /\ rel'[q].image = rel[q].image
                              /\ rel'[q].status = rel[q].status
                              /\ rel'[q].holder = rel[q].holder
      <4> SUFFICES ASSUME NEW q \in Projects
                   PROVE  /\ rel'[q].image = rel[q].image
                          /\ rel'[q].status = rel[q].status
                          /\ rel'[q].holder = rel[q].holder
        OBVIOUS
      <4>1. rel[q] \in Releases
        OBVIOUS
      <4>2. ASSUME NEW e \in Envs, rel'[q] = [rel[q] EXCEPT !.env = e]
            PROVE  rel'[q].image = rel[q].image /\ rel'[q].status = rel[q].status
                   /\ rel'[q].holder = rel[q].holder
        BY ONLY <4>1, <4>2, PodsKeepRelease
      <4>3. ASSUME NEW e \in Envs, rel'[q] = [rel[q] EXCEPT !.fresh = e]
            PROVE  rel'[q].image = rel[q].image /\ rel'[q].status = rel[q].status
                   /\ rel'[q].holder = rel[q].holder
        BY ONLY <4>1, <4>3, PodsKeepRelease
      <4> QED
        BY <3>1, <4>2, <4>3
    <3> QED
      BY <3>2, <3>3, JobsUnchanged
  <2>6. CASE Controller
    <3>1. UNCHANGED <<pc, at, kind, upgraded>>
      BY <2>6 DEF Controller, NamespaceGone, DeleteContent, control, history
    <3>2. \A q \in Projects : rel'[q] = rel[q] \/ rel'[q] = NoRelease
      BY <2>6 DEF Controller, NamespaceGone, DeleteContent
    <3>3. \A q \in Projects :
            /\ rel'[q].image \in {rel[q].image, None}
            /\ rel'[q].status = "pending" =>
                 rel[q].status = "pending" /\ rel'[q].holder = rel[q].holder
      <4>1. NoRelease.image = None /\ NoRelease.status # "pending"
        BY DEF NoRelease
      <4> QED
        BY ONLY <3>2, <4>1
    <3>4. DeployInv /\ JobsOK
      BY JobsOK
    <3> QED
      BY ONLY <3>1, <3>3, <3>4, JobsUnchanged
  <2>7. CASE Finished
    BY <2>7, JobsUnchanged DEF Finished, vars, cluster, control, history
  <2> QED
    BY <2>0, <2>1, <2>2, <2>3, <2>4, <2>5, <2>6, <2>7 DEF Next
<1> QED
  BY <1>1, <1>2, TypeCorrect, PTL DEF Spec

\* A project serves a job's image only if that job upgraded every dependency
\* before it, and success means every project was upgraded.
THEOREM DependenciesFirstHolds == Spec => []DependenciesFirst
<1>1. TypeInv /\ DeployInv => DependenciesFirst
  BY DEF DeployInv, LoopInv, ServedInv, DependenciesFirst
<1> QED
  BY <1>1, DeployInvariant, PTL

(***************************************************************************)
(* Deploy implements Rollout: each step of a job is a step of its rollout  *)
(* or is not noticed there.                                                *)
(***************************************************************************)
\* What a step means to Rollout is what it does to these three.
Live == [p \in Projects |-> rel[p].image]
Phases == [j \in Deployers |-> Phase(j)]

\* A deployer's next stage is its rollout's next phase,
LEMMA PhaseMoves ==
  ASSUME TypeInv, NEW j \in Deployers, NEW l \in Stages, pc' = [pc EXCEPT ![j] = l]
  PROVE  Phases' = [Phases EXCEPT ![j] = Phase(j)']
  BY JobsOK DEF TypeInv, TypeOK, Phases, Phase

\* a cleaner's is not to be seen.
LEMMA CleanersHaveNoPhase ==
  ASSUME TypeInv, NEW c \in Cleaners, NEW l \in Stages, pc' = [pc EXCEPT ![c] = l]
  PROVE  Phases' = Phases
  BY JobsOK DEF TypeInv, TypeOK, Phases, Phase

\* A job that only changes its stage begins, stops or is not noticed.
LEMMA StageChange ==
  ASSUME TypeInv, NEW j \in Deployers, NEW l \in Stages, pc' = [pc EXCEPT ![j] = l],
         UNCHANGED upgraded, Live' = Live,
         \/ pc[j] = "idle" /\ l = "read_namespace"
         \/ pc[j] \notin Ended \cup {"idle"} /\ l \notin {"idle", "succeeded"}
            /\ (pc[j] = "hung" => l \in {"failed", "killed", "hung"})
  PROVE  [R!Next]_R!vars
<1>1. Phases' = [Phases EXCEPT ![j] = Phase(j)']
  BY PhaseMoves
<1>2. pc'[j] = l /\ Phases[j] = Phase(j)
  BY JobsOK DEF TypeInv, TypeOK, Phases
<1>3. \/ Phases[j] = "idle" /\ Phase(j)' = "running"
      \/ Phases[j] = "running" /\ Phase(j)' \in {"running", "stopped"}
      \/ Phases[j] = "stopped" /\ Phase(j)' = "stopped"
  BY <1>2 DEF Phase, Stages, Ended
<1>4. Phase(j)' = Phases[j] => Phases' = Phases
  BY <1>1 DEF Phases
<1> QED
  BY <1>1, <1>3, <1>4 DEF R!Next, R!Begin, R!Stop, R!vars, Live, Phases

\* Releases that keep their image do not matter to Rollout.
LEMMA LiveStays ==
  ASSUME \A p \in Projects : rel'[p].image = rel[p].image
  PROVE  Live' = Live
  BY DEF Live

\* Each step is one of a rollout, or not to be seen.
LEMMA StepsAreRollout ==
  ASSUME TypeInv, DeployInv, [Next]_vars PROVE [R!Next]_R!vars
<1> USE JobsOK DEF TypeInv, TypeOK, StageOK
<1>0. ASSUME UNCHANGED <<rel, pc, upgraded>> PROVE UNCHANGED R!vars
  BY <1>0 DEF R!vars, Phase
<1>1. ASSUME NEW j \in Jobs, Start(j) PROVE [R!Next]_R!vars
  <2>1. Live' = Live /\ UNCHANGED upgraded /\ pc[j] = "idle"
    BY <1>1 DEF Start, cluster, Live
  <2>2. CASE j \in Deployers
    BY <1>1, <2>1, <2>2, StageChange DEF Start, Goto, Stages
  <2>3. CASE j \in Cleaners
    BY <1>1, <2>1, <2>3, CleanersHaveNoPhase DEF Start, Goto, Stages, R!vars, Live, Phases
  <2> QED
    BY <2>2, <2>3 DEF Jobs
<1>2. ASSUME NEW j \in Jobs, Kill(j) PROVE [R!Next]_R!vars
  <2>1. Live' = Live /\ UNCHANGED upgraded
    BY <1>2 DEF Kill, cluster, history, Live
  <2>2. CASE j \in Deployers
    BY <1>2, <2>1, <2>2, StageChange DEF Kill, Goto, Active, Stages, Ended
  <2>3. CASE j \in Cleaners
    BY <1>2, <2>1, <2>3, CleanersHaveNoPhase DEF Kill, Goto, Stages, Ended, R!vars, Live, Phases
  <2> QED
    BY <2>2, <2>3 DEF Jobs
<1>3. ASSUME NEW j \in Deployers, DeployStep(j) PROVE [R!Next]_R!vars
  <2>1. CASE ReadNamespace(j)
    BY <2>1, StageChange DEF ReadNamespace, cluster, history, Goto, Live, Stages, Ended
  <2>2. CASE CreateNamespace(j)
    BY <2>2, StageChange DEF CreateNamespace, history, Goto, Live, Stages, Ended
  <2>3. CASE CreateSecret(j)
    <3>1. \E l \in {"upgrade", "create_secret", "replace_secret"} : pc' = [pc EXCEPT ![j] = l]
      BY <2>3 DEF CreateSecret, SecretWritten, Goto
    <3>2. pc[j] = "create_secret" /\ UNCHANGED upgraded /\ Live' = Live
      BY <2>3 DEF CreateSecret, history, Live
    <3>3. PICK l \in {"upgrade", "create_secret", "replace_secret"} : pc' = [pc EXCEPT ![j] = l]
      BY <3>1
    <3>4. l \in Stages /\ l \notin {"idle", "succeeded"} /\ pc[j] \notin Ended \cup {"idle", "hung"}
      BY <3>2 DEF Stages, Ended
    <3> QED
      BY <3>2, <3>3, <3>4, StageChange
  <2>4. CASE ReplaceSecret(j)
    <3>1. \E l \in {"upgrade", "create_secret", "failed"} : pc' = [pc EXCEPT ![j] = l]
      BY <2>4 DEF ReplaceSecret, SecretWritten, Goto
    <3>2. pc[j] = "replace_secret" /\ UNCHANGED upgraded /\ Live' = Live
      BY <2>4 DEF ReplaceSecret, history, Live
    <3>3. PICK l \in {"upgrade", "create_secret", "failed"} : pc' = [pc EXCEPT ![j] = l]
      BY <3>1
    <3>4. l \in Stages /\ l \notin {"idle", "succeeded"} /\ pc[j] \notin Ended \cup {"idle", "hung"}
      BY <3>2 DEF Stages, Ended
    <3> QED
      BY <3>2, <3>3, <3>4, StageChange
  <2>5. CASE BeginUpgrade(j)
    <3> DEFINE r == rel[at[j]]
               taken == [r EXCEPT !.status = "pending", !.holder = j, !.fresh = Env(at[j])]
    <3>1. r \in Releases /\ at[j] \in Projects /\ rel \in [Projects -> Releases]
      OBVIOUS
    <3>2. taken.image = r.image
      BY <3>1 DEF Releases
    <3>3. rel' = rel \/ rel' = [rel EXCEPT ![at[j]] = taken]
      BY <2>5 DEF BeginUpgrade
    <3> HIDE DEF taken
    <3>4. Live' = Live
      BY <3>1, <3>2, <3>3, LiveStays
    <3> QED
      BY <2>5, <3>4, StageChange DEF BeginUpgrade, history, Goto, Stages, Ended
  <2>6. CASE UpgradeSucceeds(j)
    <3>0. PICK p \in Projects : p = at[j]
      OBVIOUS
    <3>1. p \in Projects /\ p \in 1..N /\ Phases[j] = "running" /\ upgraded[j] = 1..(p - 1)
      BY <2>6, <3>0 DEF UpgradeSucceeds, DeployInv, LoopInv, Ended, Projects, Phases, Phase
    <3>2. Live' = [Live EXCEPT ![p] = j]
      BY <2>6, <3>0, <3>1 DEF UpgradeSucceeds, Live
    <3>3. upgraded' = [upgraded EXCEPT ![j] = @ \cup {p}]
      BY <2>6, <3>0 DEF UpgradeSucceeds
    <3>4. \/ p < N /\ pc' = [pc EXCEPT ![j] = "create_secret"]
          \/ p = N /\ pc' = [pc EXCEPT ![j] = "succeeded"]
          \/ \E s \in {"failed", "hung"} : pc' = [pc EXCEPT ![j] = s]
      BY <2>6, <3>0, <3>1, DeployAssumption DEF UpgradeSucceeds, NextProject, Goto
    <3>5. \E s \in {"running", "stopped", "succeeded"} :
            /\ s = "running" => p < N
            /\ s = "succeeded" => p = N
            /\ Phases' = [Phases EXCEPT ![j] = s]
      BY <3>4, PhaseMoves DEF Phase, Stages, Ended
    <3>6. R!Upgrade(j, p)
      BY <3>1, <3>2, <3>3, <3>5 DEF R!Upgrade, Live, Phases
    <3> QED
      BY <3>1, <3>6 DEF R!Next, R!Projects, Projects
  <2>7. CASE UpgradeFails(j)
    <3>1. Live' = Live
      <4>1. rel \in [Projects -> Releases] /\ at[j] \in Projects
        BY DEF TypeInv, TypeOK
      <4>2. RolledBack(rel[at[j]]).image = rel[at[j]].image
        BY <4>1, RolledBackKeepsImage
      <4>3. rel' = rel \/ rel' = [rel EXCEPT ![at[j]] = RolledBack(rel[at[j]])]
        BY <2>7, FailedUpgrade DEF TypeInv
      <4> QED
        BY <4>1, <4>2, <4>3, LiveStays
    <3>2. \E l \in {"failed", "hung"} : pc' = [pc EXCEPT ![j] = l]
      BY <2>7 DEF UpgradeFails, Goto
    <3>3. pc[j] = "upgrading" /\ UNCHANGED upgraded
      BY <2>7 DEF UpgradeFails, history
    <3>4. PICK l \in {"failed", "hung"} : pc' = [pc EXCEPT ![j] = l]
      BY <3>2
    <3>5. l \in Stages /\ l \notin {"idle", "succeeded"} /\ pc[j] \notin Ended \cup {"idle", "hung"}
      BY <3>3 DEF Stages, Ended
    <3> QED
      BY <3>1, <3>3, <3>4, <3>5, StageChange
  <2>8. CASE LocalError(j)
    BY <2>8, StageChange DEF LocalError, cluster, history, Goto, Live, Stages, Ended
  <2> QED
    BY <1>3, <2>1, <2>2, <2>3, <2>4, <2>5, <2>6, <2>7, <2>8 DEF DeployStep
<1>4. ASSUME NEW c \in Cleaners, CleanStep(c) PROVE [R!Next]_R!vars
  <2>1. \E l \in Stages : pc' = [pc EXCEPT ![c] = l]
    BY <1>4 DEF CleanStep, DeleteNamespace, WaitDeleted, Goto, Stages, Ended
  <2>2. UNCHANGED <<rel, upgraded>>
    BY <1>4 DEF CleanStep, DeleteNamespace, WaitDeleted, cluster, history
  <2>3. Phases' = Phases
    BY <2>1, CleanersHaveNoPhase
  <2> QED
    BY <2>2, <2>3 DEF R!vars, Phases
<1>5. ASSUME NEW p \in Projects, PodRestart(p) PROVE [R!Next]_R!vars
  <2> DEFINE env == Env(p)
             a == [rel[p] EXCEPT !.env = env]
             b == [rel[p] EXCEPT !.fresh = env]
  <2>1. rel[p] \in Releases /\ rel \in [Projects -> Releases]
    OBVIOUS
  <2>2. a.image = rel[p].image /\ b.image = rel[p].image
    BY <2>1 DEF Releases
  <2>3. rel' = [rel EXCEPT ![p] = a] \/ rel' = [rel EXCEPT ![p] = b]
    BY <1>5 DEF PodRestart
  <2> HIDE DEF a, b
  <2>4. Live' = Live
    BY <2>1, <2>2, <2>3, LiveStays
  <2>5. UNCHANGED <<pc, upgraded>>
    BY <1>5 DEF PodRestart, control, history
  <2> QED
    BY <2>4, <2>5 DEF R!vars, Live, Phase
<1>6. CASE Controller
  <2>1. CASE NamespaceGone
    BY <1>0, <2>1 DEF NamespaceGone, control, history
  <2>2. ASSUME NEW p \in Projects, DeleteContent(p) PROVE [R!Next]_R!vars
    <3>1. Live' = [Live EXCEPT ![p] = None]
      BY <2>2 DEF DeleteContent, Live, NoRelease
    <3>2. UNCHANGED <<pc, upgraded>>
      BY <2>2 DEF DeleteContent, control, history
    <3>3. R!Remove(p)
      BY <3>1, <3>2 DEF R!Remove, Live, Phase
    <3> QED
      BY <3>3 DEF R!Next, R!Projects, Projects
  <2> QED
    BY <1>6, <2>1, <2>2 DEF Controller
<1>7. CASE Finished \/ UNCHANGED vars
  BY <1>0, <1>7 DEF Finished, vars, cluster, control, history
<1> QED
  BY <1>1, <1>2, <1>3, <1>4, <1>5, <1>6, <1>7 DEF Next

\* Whatever the interleaving and the faults, concurrent jobs on one environment
\* are rollouts: they upgrade the projects in order, stop at the first that
\* fails, and what is served was put there by a job that had done all before it.
THEOREM DeployImplementsRollout == Spec => ImplementsRollout
<1>1. Init => R!Init
  BY JobsOK DEF Init, R!Init, R!Projects, Projects, NoRelease, Phase
<1>2. TypeInv /\ DeployInv /\ [Next]_vars => [R!Next]_R!vars
  BY StepsAreRollout
<1> QED
  BY <1>1, <1>2, DeployInvariant, PTL DEF Spec, ImplementsRollout, R!Spec

-----------------------------------------------------------------------------
(* What relates jobs to those that were over before them. *)

\* A job in `before` is over, for good, and is another one.
HistoryInv ==
  \A j \in Jobs : j \notin before[j] /\ \A i \in before[j] : pc[i] \in Ended

\* One running job makes a request, or is cancelled.
Acts(j) == /\ Active(j) /\ UNCHANGED before
           /\ \E l \in Stages \ {"idle"} : pc' = [pc EXCEPT ![j] = l]

\* What a deployer does is an act of a running job.
LEMMA DeployStepActs == ASSUME TypeInv, NEW j \in Deployers, DeployStep(j) PROVE Acts(j)
<1> USE JobsOK DEF TypeInv, TypeOK, StageOK
<1>1. CASE ReadNamespace(j)
  BY <1>1 DEF ReadNamespace, Acts, Active, Goto, history, Stages, Ended
<1>2. CASE CreateNamespace(j)
  BY <1>2 DEF CreateNamespace, Acts, Active, Goto, history, Stages, Ended
<1>3. CASE CreateSecret(j)
  BY <1>3 DEF CreateSecret, SecretWritten, Acts, Active, Goto, history, Stages, Ended
<1>4. CASE ReplaceSecret(j)
  <2>1. \E l \in {"upgrade", "create_secret", "failed"} : pc' = [pc EXCEPT ![j] = l]
    BY <1>4 DEF ReplaceSecret, SecretWritten, Goto
  <2>2. pc[j] = "replace_secret" /\ UNCHANGED before
    BY <1>4 DEF ReplaceSecret, history
  <2> QED
    BY <2>1, <2>2 DEF Acts, Active, Stages, Ended
<1>5. CASE BeginUpgrade(j)
  BY <1>5 DEF BeginUpgrade, Acts, Active, Goto, history, Stages, Ended
<1>6. CASE UpgradeSucceeds(j)
  <2>1. \E l \in {"create_secret", "succeeded", "failed", "hung"} : pc' = [pc EXCEPT ![j] = l]
    BY <1>6 DEF UpgradeSucceeds, NextProject, Goto
  <2>2. pc[j] = "upgrading" /\ UNCHANGED before
    BY <1>6 DEF UpgradeSucceeds
  <2> QED
    BY <2>1, <2>2 DEF Acts, Active, Stages, Ended
<1>7. CASE UpgradeFails(j)
  BY <1>7 DEF UpgradeFails, Acts, Active, Goto, history, Stages, Ended
<1>8. CASE LocalError(j)
  BY <1>8 DEF LocalError, Acts, Active, Goto, history, Stages, Ended
<1> QED
  BY <1>1, <1>2, <1>3, <1>4, <1>5, <1>6, <1>7, <1>8 DEF DeployStep

\* So is what a cleaner does,
LEMMA CleanStepActs == ASSUME TypeInv, NEW c \in Cleaners, CleanStep(c) PROVE Acts(c)
<1> USE JobsOK DEF TypeInv, TypeOK, StageOK
<1>1. CASE DeleteNamespace(c)
  BY <1>1 DEF DeleteNamespace, Acts, Active, Goto, history, Stages, Ended
<1>2. CASE WaitDeleted(c)
  BY <1>2 DEF WaitDeleted, Acts, Active, Goto, history, Stages, Ended
<1> QED
  BY <1>1, <1>2 DEF CleanStep

\* and its cancellation.
LEMMA KillActs == ASSUME NEW j \in Jobs, Kill(j) PROVE Acts(j)
  BY DEF Kill, Acts, Goto, history, Stages, Ended

\* In each step the cluster moves, a job starts, or one that runs acts.
LEMMA StepShape ==
  ASSUME TypeInv, [Next]_vars
  PROVE  \/ UNCHANGED <<control, history>>
         \/ \E j \in Jobs : Start(j) \/ Acts(j)
<1>1. ASSUME NEW p \in Projects, PodRestart(p) PROVE UNCHANGED <<control, history>>
  BY <1>1 DEF PodRestart
<1>2. CASE Controller
  BY <1>2 DEF Controller, NamespaceGone, DeleteContent
<1>3. CASE Finished \/ UNCHANGED vars
  BY <1>3 DEF Finished, vars
<1> QED
  BY <1>1, <1>2, <1>3, DeployStepActs, CleanStepActs, KillActs, JobsOK DEF Next

\* Jobs that are over stay over, and before[j] does not change once j has started.
LEMMA HistoryStep ==
  ASSUME TypeInv, HistoryInv, [Next]_vars PROVE HistoryInv'
<1> USE DEF TypeInv, TypeOK, HistoryInv
<1>1. CASE UNCHANGED <<control, history>>
  BY <1>1 DEF control, history
<1>2. ASSUME NEW j \in Jobs, Start(j) PROVE HistoryInv'
  <2>1. pc' \in [Jobs -> Stages] /\ \A i \in Jobs \ {j} : pc'[i] = pc[i] /\ before'[i] = before[i]
    BY <1>2, JobsOK DEF Start, Goto, Stages
  <2>2. pc[j] = "idle" /\ before'[j] \subseteq {i \in Jobs : pc[i] \in Ended}
    BY <1>2 DEF Start
  <2>3. "idle" \notin Ended
    BY DEF Ended
  <2> QED
    BY <2>1, <2>2, <2>3
<1>3. ASSUME NEW j \in Jobs, Acts(j) PROVE HistoryInv'
  BY <1>3 DEF Acts, Active
<1> QED
  BY <1>1, <1>2, <1>3, StepShape

\* When only j is left in the end, nobody else has acted.
LEMMA Alone ==
  ASSUME TypeInv, HistoryInv, [Next]_vars, NEW j \in Jobs, pc[j] # "idle", Lone(j)'
  PROVE  /\ Lone(j) /\ UNCHANGED before
         /\ \A i \in Jobs \ {j} : pc'[i] = pc[i] /\ ~Active(i)
<1> USE DEF TypeInv, TypeOK, HistoryInv
<1>1. CASE UNCHANGED <<control, history>>
  BY <1>1 DEF control, history, Lone, Active
<1>2. ASSUME NEW i \in Jobs, Start(i) PROVE FALSE
  <2>1. i # j /\ pc[i] = "idle" /\ pc'[i] # "idle" /\ before'[j] = before[j]
    BY <1>2 DEF Start, Goto
  <2> QED
    BY <2>1 DEF Lone, Ended
<1>3. ASSUME NEW i \in Jobs, Acts(i)
      PROVE  /\ Lone(j) /\ UNCHANGED before
             /\ \A k \in Jobs \ {j} : pc'[k] = pc[k] /\ ~Active(k)
  <2>1. Active(i) /\ UNCHANGED before /\ pc'[i] # "idle" /\ \A k \in Jobs \ {i} : pc'[k] = pc[k]
    BY <1>3 DEF Acts
  <2>2. i = j
    BY <2>1 DEF Lone, Active
  <2> QED
    BY <2>1, <2>2 DEF Lone, Active
<1> QED
  BY <1>1, <1>2, <1>3, StepShape

(***************************************************************************)
(* Secrets.  What a job has written may be overwritten, but only by a job  *)
(* that runs, which is in nobody's `before`.  A pending revision and the   *)
(* image of a project belong to a job that has written the secrets of the  *)
(* project, so that pods that start again read none that are stale.        *)
(***************************************************************************)
Before(p, k, q, l) ==   \* secret k of project p comes before secret (or chart) l of q
  p < q \/ (p = q /\ l # "file" /\ (k = "env" => l # "env"))

Written(j, p, k) == Before(p, k, at[j], kind[j])

WrittenInv ==
  \A j \in Deployers, p \in Projects, k \in Mounted :
    Written(j, p, k) => secret[p][k] \notin before[j]

FreshInv ==
  \A p \in Projects, k \in Mounted :
    rel[p].status = "pending" => rel[p].fresh[k] \notin before[rel[p].holder]

\* A step of create_secret writes at most the secret the job is at, and goes on
\* to the next only if it has.
WritesSecret(j) ==
  LET p == at[j]
      k == kind[j]
      written == [secret EXCEPT ![p][k] = j]
  IN  /\ k \in Kinds /\ Active(j) /\ pc[j] # "upgrading"
      /\ \/ secret' \in {secret, written} /\ kind' = kind
         \/ secret' = written /\ kind' = [kind EXCEPT ![j] = NextKind(p, k)]
      /\ UNCHANGED <<ns, gen, rel, at, target, history>>

\* Both requests for a secret write it, and nothing else.
LEMMA SecretSteps ==
  ASSUME TypeInv, NEW j \in Deployers, CreateSecret(j) \/ ReplaceSecret(j)
  PROVE  WritesSecret(j)
<1> USE DEF TypeInv, TypeOK, StageOK
<1>1. kind[j] \in Kinds /\ Active(j) /\ pc[j] # "upgrading"
  BY DEF CreateSecret, ReplaceSecret, Active, Ended
<1> QED
  BY <1>1 DEF CreateSecret, ReplaceSecret, SecretWritten, WritesSecret

\* Writing the secret a job is at disturbs no other, and completes its own.
LEMMA SecretEntries ==
  ASSUME TypeInv, NEW j \in Deployers, WritesSecret(j)
  PROVE  /\ UNCHANGED <<at, before>>
         /\ \A p \in Projects, k \in Kinds : secret'[p][k] \in {secret[p][k], j}
         /\ \A i \in Deployers, p \in Projects, k \in Mounted :
               Before(p, k, at[i], kind'[i]) => Written(i, p, k) \/ (i = j /\ secret'[p][k] = j)
         /\ \A p \in Projects, k \in Mounted :
               Written(j, p, k) => secret'[p][k] = secret[p][k]
<1>1. PICK q \in Projects, l \in Kinds : q = at[j] /\ l = kind[j]
  BY DEF TypeInv, TypeOK, WritesSecret
<1> DEFINE written == [secret EXCEPT ![q][l] = j]
<1>2. \/ secret' \in {secret, written} /\ kind' = kind
      \/ secret' = written /\ kind' = [kind EXCEPT ![j] = NextKind(q, l)]
  BY <1>1 DEF WritesSecret
<1>3. written[q][l] = j /\ \A p \in Projects, k \in Kinds : p # q \/ k # l => written[p][k] = secret[p][k]
  BY <1>1 DEF TypeInv, TypeOK
<1>4. \A k \in Mounted : Written(j, q, k) => k # l
  BY <1>1 DEF Projects, Mounted, Written, Before
<1> HIDE DEF written
<1>5. \A i \in Deployers : i # j => kind'[i] = kind[i]
  BY <1>2 DEF TypeInv, TypeOK
<1>6. \A k \in Mounted : Before(q, k, q, NextKind(q, l)) => Written(j, q, k) \/ k = l
  BY <1>1 DEF Mounted, Kinds, Written, NextKind, Before
<1>7. secret'[q][l] \in {secret[q][l], j} /\ (kind' # kind => secret'[q][l] = j)
  BY <1>2, <1>3
<1>8. \A p \in Projects, k \in Kinds : p # q \/ k # l => secret'[p][k] = secret[p][k]
  BY <1>2, <1>3
<1>9. kind'[j] = l \/ (kind'[j] = NextKind(q, l) /\ secret'[q][l] = j)
  BY <1>1, <1>2, <1>3 DEF TypeInv, TypeOK
<1>10. \A p \in Projects, k \in Mounted :
         Before(p, k, q, kind'[j]) => Written(j, p, k) \/ secret'[p][k] = j
  <2>1. \A p \in Projects, k \in Mounted, m \in Kinds \cup {"chart"} :
          p # q /\ Before(p, k, q, m) => Before(p, k, q, l)
    BY DEF Before
  <2>2. CASE kind'[j] = l
    BY <1>1, <2>2 DEF Written
  <2>3. CASE kind'[j] = NextKind(q, l) /\ secret'[q][l] = j
    BY <1>1, <1>6, <2>1, <2>3, KindsOK DEF Written
  <2> QED
    BY <1>9, <2>2, <2>3
<1>11. \A i \in Deployers, p \in Projects, k \in Mounted :
         Before(p, k, at[i], kind'[i]) => Written(i, p, k) \/ (i = j /\ secret'[p][k] = j)
  BY <1>1, <1>5, <1>10 DEF Written
<1>12. \A p \in Projects, k \in Mounted : Written(j, p, k) => secret'[p][k] = secret[p][k]
  BY <1>4, <1>8, KindsOK
<1>13. UNCHANGED <<at, before>>
  BY DEF WritesSecret, history
<1> QED
  BY <1>7, <1>8, <1>11, <1>12, <1>13

\* The other steps, as far as the secrets are concerned.
LEMMA SecretsStay ==
  ASSUME TypeInv, [Next]_vars
  PROVE  \/ UNCHANGED <<secret, at, kind, before>>
         \/ \E j \in Jobs : Start(j)
         \/ \E j \in Deployers : WritesSecret(j) \/ UpgradeSucceeds(j)
         \/ \E p \in Projects : DeleteContent(p)
<1>1. ASSUME NEW j \in Jobs, Kill(j) PROVE UNCHANGED <<secret, at, kind, before>>
  BY <1>1 DEF Kill, cluster, history
<1>2. ASSUME NEW j \in Deployers, DeployStep(j)
      PROVE  UNCHANGED <<secret, at, kind, before>> \/ WritesSecret(j) \/ UpgradeSucceeds(j)
  BY <1>2, SecretSteps
     DEF DeployStep, ReadNamespace, CreateNamespace, BeginUpgrade, UpgradeFails, LocalError,
         cluster, history
<1>3. ASSUME NEW c \in Cleaners, CleanStep(c) PROVE UNCHANGED <<secret, at, kind, before>>
  BY <1>3 DEF CleanStep, DeleteNamespace, WaitDeleted, cluster, history
<1>4. ASSUME NEW p \in Projects, PodRestart(p) PROVE UNCHANGED <<secret, at, kind, before>>
  BY <1>4 DEF PodRestart, control, history
<1>5. CASE NamespaceGone
  BY <1>5 DEF NamespaceGone, control, history
<1>6. CASE Finished \/ UNCHANGED vars
  BY <1>6 DEF Finished, vars, cluster, control, history
<1> QED
  BY <1>1, <1>2, <1>3, <1>4, <1>5, <1>6 DEF Next, Controller

\* Secrets a running job has replaced are not of jobs over before it: those do not
\* act any more.
LEMMA WrittenStep ==
  ASSUME TypeInv, HistoryInv, WrittenInv, [Next]_vars PROVE WrittenInv'
<1> USE JobsOK DEF TypeInv, TypeOK, StageOK
<1>1. CASE UNCHANGED <<secret, at, kind, before>>
  BY <1>1 DEF WrittenInv, Written
<1>2. ASSUME NEW j \in Jobs, Start(j) PROVE WrittenInv'
  <2>1. UNCHANGED <<secret, at, kind>> /\ \A i \in Jobs \ {j} : before'[i] = before[i]
    BY <1>2 DEF Start, cluster
  <2>2. j \in Deployers => at[j] = 1 /\ kind[j] = "file"
    BY <1>2 DEF Start
  <2> QED
    BY <2>1, <2>2 DEF WrittenInv, Written, Before, Projects
<1>3. ASSUME NEW j \in Deployers, WritesSecret(j) PROVE WrittenInv'
  <2>1. UNCHANGED <<at, before>> /\ \A i \in Deployers : j \notin before[i]
    BY <1>3, SecretEntries DEF WritesSecret, HistoryInv, Active
  <2>2. \A i \in Deployers, p \in Projects, k \in Mounted :
          Before(p, k, at[i], kind'[i]) => Written(i, p, k) \/ secret'[p][k] = j
    BY <1>3, SecretEntries
  <2>3. \A p \in Projects, k \in Mounted : secret'[p][k] \in {secret[p][k], j}
    BY <1>3, SecretEntries, KindsOK
  <2> SUFFICES ASSUME NEW i \in Deployers, NEW p \in Projects, NEW k \in Mounted,
                      Before(p, k, at[i], kind'[i])
               PROVE  secret'[p][k] \notin before[i]
    BY <2>1 DEF WrittenInv, Written
  <2>4. CASE Written(i, p, k)
    <3>1. secret[p][k] \notin before[i]
      BY <2>4 DEF WrittenInv
    <3> QED
      BY <2>1, <2>3, <3>1
  <2> QED
    BY <2>1, <2>2, <2>4
<1>4. ASSUME NEW j \in Deployers, UpgradeSucceeds(j) PROVE WrittenInv'
  <2>1. UNCHANGED <<secret, before>> /\ kind[j] = "chart"
    BY <1>4 DEF UpgradeSucceeds
  <2>2. \A i \in Deployers \ {j} : at'[i] = at[i] /\ kind'[i] = kind[i]
    BY <1>4 DEF UpgradeSucceeds, NextProject
  <2>3. \/ at'[j] = at[j] /\ kind'[j] = kind[j]
        \/ at'[j] = at[j] + 1 /\ kind'[j] = "file"
    <3>1. \/ at' = at /\ kind' = kind
          \/ at' = [at EXCEPT ![j] = at[j] + 1] /\ kind' = [kind EXCEPT ![j] = "file"]
      BY <1>4 DEF UpgradeSucceeds, NextProject
    <3> QED
      BY <3>1 DEF Kinds
  <2>4. \A p \in Projects, k \in Mounted :
          Before(p, k, at[j] + 1, "file") => Before(p, k, at[j], "chart")
    BY DEF Before, Projects
  <2> SUFFICES ASSUME NEW i \in Deployers, NEW p \in Projects, NEW k \in Mounted,
                      Before(p, k, at'[i], kind'[i])
               PROVE  Written(i, p, k)
    BY <2>1 DEF WrittenInv, Written
  <2>5. CASE i # j
    BY <2>2, <2>5 DEF Written
  <2>6. CASE i = j
    <3>1. CASE at'[j] = at[j] /\ kind'[j] = kind[j]
      BY <2>6, <3>1 DEF Written
    <3>2. CASE at'[j] = at[j] + 1 /\ kind'[j] = "file"
      BY <2>1, <2>4, <2>6, <3>2 DEF Written
    <3> QED
      BY <2>3, <3>1, <3>2
  <2> QED
    BY <2>5, <2>6
<1>5. ASSUME NEW q \in Projects, DeleteContent(q) PROVE WrittenInv'
  <2>1. UNCHANGED <<at, kind, before>>
    BY <1>5 DEF DeleteContent, control, history
  <2>2. \A p \in Projects, k \in Mounted : secret'[p][k] \in {secret[p][k], None}
    BY <1>5, KindsOK DEF DeleteContent, NoSecrets
  <2>3. \A j \in Deployers : None \notin before[j]
    <3>1. \A j \in Deployers : before[j] \subseteq Jobs
      OBVIOUS
    <3> QED
      BY <3>1, DeployAssumption
  <2> SUFFICES ASSUME NEW i \in Deployers, NEW p \in Projects, NEW k \in Mounted,
                      Written(i, p, k)
               PROVE  secret'[p][k] \notin before[i]
    BY <2>1 DEF WrittenInv, Written
  <2>4. secret[p][k] \notin before[i]
    BY DEF WrittenInv
  <2> QED
    BY <2>2, <2>3, <2>4
<1> QED
  BY <1>1, <1>2, <1>3, <1>4, <1>5, SecretsStay

\* A job that may still use the secrets of a project has none that are stale.
LEMMA SecretsAtHand ==
  ASSUME TypeInv, WrittenInv, NEW j \in Deployers, NEW p \in Projects, Passed(j, p)
  PROVE  \A k \in Mounted : Env(p)[k] \notin before[j]
  BY DEF WrittenInv, Written, Before, Passed, Env, Mounted

\* What the steps do to a release: its lock and what its pods have read.
LEMMA ReleaseSteps ==
  ASSUME TypeInv, DeployInv, [Next]_vars, NEW p \in Projects
  PROVE  \/ rel'[p] = rel[p]
         \/ rel'[p] = NoRelease /\ ns = "terminating"
         \/ \E j \in Deployers :
              /\ pc[j] = "upgrade" /\ at[j] = p /\ ns = "active" /\ UNCHANGED history
              /\ rel[p].status # "pending"
              /\ rel'[p] = [rel[p] EXCEPT !.status = "pending", !.holder = j, !.fresh = Env(p)]
         \/ \E j \in Deployers :
              /\ UpgradeSucceeds(j) /\ at[j] = p
              /\ rel'[p] = [status |-> "deployed", holder |-> None, image |-> j,
                            env |-> rel[p].fresh, fresh |-> NoEnv]
         \/ /\ rel'[p] = RolledBack(rel[p]) /\ rel[p].status = "pending" /\ UNCHANGED history
            /\ \E j \in Deployers : UpgradeFails(j) /\ Holds(j, p)
         \/ PodRestart(p)
<1> USE DEF TypeInv, TypeOK
<1>1. ASSUME NEW j \in Jobs, Start(j) \/ Kill(j) PROVE rel' = rel
  BY <1>1 DEF Start, Kill, cluster
<1>2. ASSUME NEW j \in Deployers, BeginUpgrade(j)
      PROVE  \/ rel' = rel
             \/ /\ pc[j] = "upgrade" /\ ns = "active" /\ UNCHANGED history
                /\ rel[at[j]].status # "pending"
                /\ rel' = [rel EXCEPT ![at[j]] = [@ EXCEPT !.status = "pending", !.holder = j,
                                                          !.fresh = Env(at[j])]]
  BY <1>2 DEF BeginUpgrade
<1>3. ASSUME NEW j \in Deployers, UpgradeSucceeds(j)
      PROVE  rel' = [rel EXCEPT ![at[j]] = [status |-> "deployed", holder |-> None, image |-> j,
                                            env |-> rel[at[j]].fresh, fresh |-> NoEnv]]
  BY <1>3 DEF UpgradeSucceeds
<1>4. ASSUME NEW j \in Deployers, UpgradeFails(j)
      PROVE  \/ rel' = rel
             \/ /\ Holds(j, at[j]) /\ UNCHANGED history
                /\ rel' = [rel EXCEPT ![at[j]] = RolledBack(rel[at[j]])]
  BY <1>4, FailedUpgrade DEF UpgradeFails
<1>5. ASSUME NEW j \in Deployers, DeployStep(j)
      PROVE  rel' = rel \/ BeginUpgrade(j) \/ UpgradeSucceeds(j) \/ UpgradeFails(j)
  BY <1>5 DEF DeployStep, ReadNamespace, CreateNamespace, CreateSecret, ReplaceSecret, LocalError, cluster
<1>6. ASSUME NEW c \in Cleaners, CleanStep(c) PROVE rel' = rel
  BY <1>6 DEF CleanStep, DeleteNamespace, WaitDeleted, cluster
<1>7. ASSUME NEW q \in Projects, PodRestart(q) PROVE q = p \/ rel'[p] = rel[p]
  BY <1>7 DEF PodRestart
<1>8. CASE Controller
  BY <1>8 DEF Controller, NamespaceGone, DeleteContent
<1>9. CASE Finished \/ UNCHANGED vars
  BY <1>9 DEF Finished, vars, cluster
<1>10. rel \in [Projects -> Releases]
  OBVIOUS
<1>11. ASSUME NEW j \in Deployers, BeginUpgrade(j), rel'[p] # rel[p]
       PROVE  /\ pc[j] = "upgrade" /\ at[j] = p /\ ns = "active" /\ UNCHANGED history
              /\ rel[p].status # "pending"
              /\ rel'[p] = [rel[p] EXCEPT !.status = "pending", !.holder = j, !.fresh = Env(p)]
  <2> DEFINE taken(q) == [rel[q] EXCEPT !.status = "pending", !.holder = j, !.fresh = Env(q)]
  <2>1. /\ pc[j] = "upgrade" /\ ns = "active" /\ UNCHANGED history
        /\ rel[at[j]].status # "pending" /\ rel' = [rel EXCEPT ![at[j]] = taken(at[j])]
    BY <1>2, <1>11
  <2> HIDE DEF taken
  <2>2. at[j] = p /\ rel'[p] = taken(p)
    BY <2>1, <1>10, <1>11
  <2> QED
    BY <2>1, <2>2 DEF taken
<1>12. ASSUME NEW j \in Deployers, UpgradeSucceeds(j), rel'[p] # rel[p]
       PROVE  /\ at[j] = p
              /\ rel'[p] = [status |-> "deployed", holder |-> None, image |-> j,
                            env |-> rel[p].fresh, fresh |-> NoEnv]
  BY <1>3, <1>10, <1>12
<1>13. ASSUME NEW j \in Deployers, UpgradeFails(j), rel'[p] # rel[p]
       PROVE  /\ rel'[p] = RolledBack(rel[p]) /\ rel[p].status = "pending" /\ UNCHANGED history
              /\ Holds(j, p)
  BY <1>4, <1>10, <1>13 DEF Holds
<1> QED
  BY <1>1, <1>5, <1>6, <1>7, <1>8, <1>9, <1>11, <1>12, <1>13 DEF Next

ReleaseInv == WrittenInv /\ FreshInv /\ SecretsAreNeverStale

\* The job that has a release, or whose image it serves, has passed the project.
LEMMA OwnersHavePassed ==
  ASSUME TypeInv, DeployInv, NEW p \in Projects
  PROVE  /\ rel[p].status = "pending" =>
              \E j \in Deployers : rel[p].holder = j /\ Passed(j, p) /\ pc[j] # "idle"
         /\ rel[p].image # None =>
              \E j \in Deployers : rel[p].image = j /\ Passed(j, p) /\ pc[j] # "idle"
<1>1. rel[p].status = "pending" =>
        \E j \in Deployers : rel[p].holder = j /\ Passed(j, p) /\ pc[j] # "idle"
  BY DEF DeployInv, LockInv, LockStages, Passed
<1>2. ASSUME NEW j \in Deployers, rel[p].image = j PROVE Passed(j, p) /\ pc[j] # "idle"
  <2>1. Passed(j, p)
    BY <1>2 DEF DeployInv, ServedInv
  <2>2. pc[j] = "idle" => at[j] = 1 /\ kind[j] = "file"
    BY DEF TypeInv, StageOK
  <2> QED
    BY <2>1, <2>2 DEF Passed, Projects
<1>3. rel[p].image \in Deployers \cup {None}
  BY DEF TypeInv, TypeOK, Releases
<1> QED
  BY <1>1, <1>2, <1>3

\* Nor are those of the pods, which start with the secrets there are.
LEMMA ReleaseStep ==
  ASSUME TypeInv, TypeInv', DeployInv, HistoryInv, ReleaseInv, [Next]_vars
  PROVE  ReleaseInv'
<1>1. WrittenInv'
  BY WrittenStep DEF ReleaseInv
<1>2. ASSUME NEW p \in Projects, NEW k \in Mounted
      PROVE  /\ rel'[p].status = "pending" => rel'[p].fresh[k] \notin before'[rel'[p].holder]
             /\ rel'[p].image # None => rel'[p].env[k] \notin before'[rel'[p].image]
  <2> USE DEF ReleaseInv, TypeInv, TypeOK
  <2>1. /\ rel[p].status = "pending" => rel[p].fresh[k] \notin before[rel[p].holder]
        /\ rel[p].image # None => rel[p].env[k] \notin before[rel[p].image]
    BY <1>2 DEF FreshInv, SecretsAreNeverStale
  <2>2. rel[p] \in Releases /\ Env(p) \in Envs
    BY EnvOK
  <2>3. \A j \in Jobs : pc[j] # "idle" => before'[j] = before[j]
    BY StepShape DEF Start, Acts, history
  <2>4. /\ rel[p].status = "pending" => before'[rel[p].holder] = before[rel[p].holder]
        /\ rel[p].image # None => before'[rel[p].image] = before[rel[p].image]
    BY <2>3, OwnersHavePassed, JobsOK
  <2>5. CASE rel'[p] = rel[p]
    BY <2>1, <2>4, <2>5
  <2>6. CASE rel'[p] = NoRelease
    BY <2>6 DEF NoRelease
  <2>7. ASSUME NEW j \in Deployers, pc[j] = "upgrade", at[j] = p, UNCHANGED history,
               rel'[p] = [rel[p] EXCEPT !.status = "pending", !.holder = j, !.fresh = Env(p)]
        PROVE  /\ rel'[p].status = "pending" => rel'[p].fresh[k] \notin before'[rel'[p].holder]
               /\ rel'[p].image # None => rel'[p].env[k] \notin before'[rel'[p].image]
    <3>1. Passed(j, p)
      BY <2>7 DEF Passed, StageOK
    <3>2. Env(p)[k] \notin before[j]
      BY <3>1, <1>2, SecretsAtHand
    <3> DEFINE e == Env(p)
    <3>3. e \in Envs /\ e[k] \notin before[j]
      BY <2>2, <3>2
    <3> HIDE DEF e
    <3>4. rel'[p].image = rel[p].image /\ rel'[p].env = rel[p].env /\ rel'[p].holder = j /\ rel'[p].fresh = e
      BY <2>2, <2>7 DEF Releases, e
    <3> QED
      BY <2>1, <2>4, <2>7, <3>3, <3>4 DEF history
  <2>8. ASSUME NEW j \in Deployers, UpgradeSucceeds(j), at[j] = p,
               rel'[p] = [status |-> "deployed", holder |-> None, image |-> j,
                          env |-> rel[p].fresh, fresh |-> NoEnv]
        PROVE  /\ rel'[p].status = "pending" => rel'[p].fresh[k] \notin before'[rel'[p].holder]
               /\ rel'[p].image # None => rel'[p].env[k] \notin before'[rel'[p].image]
    BY <2>1, <2>8 DEF UpgradeSucceeds, Holds
  <2>9. CASE rel'[p] = RolledBack(rel[p]) /\ rel[p].status = "pending" /\ UNCHANGED history
    <3>1. \A r \in Releases : r.image # None => RolledBack(r).env = r.env
      BY DEF RolledBack, Releases
    <3> QED
      BY <2>1, <2>2, <2>9, <3>1, RolledBackKeepsImage DEF history
  <2>10. CASE PodRestart(p)
    <3> DEFINE e == Env(p)
    <3>1. \/ rel[p].image # None /\ rel' = [rel EXCEPT ![p].env = e]
          \/ rel[p].status = "pending" /\ rel' = [rel EXCEPT ![p].fresh = e]
      BY <2>10 DEF PodRestart
    <3>2. /\ rel[p].status = "pending" => e[k] \notin before[rel[p].holder]
          /\ rel[p].image # None => e[k] \notin before[rel[p].image]
      BY <1>2, OwnersHavePassed, SecretsAtHand
    <3>3. e \in Envs /\ rel \in [Projects -> Releases]
      BY <2>2
    <3> HIDE DEF e
    <3>4. /\ rel'[p].status = rel[p].status /\ rel'[p].image = rel[p].image
          /\ rel'[p].holder = rel[p].holder
          /\ rel'[p].env # rel[p].env => rel[p].image # None /\ rel'[p].env = e
          /\ rel'[p].fresh # rel[p].fresh => rel[p].status = "pending" /\ rel'[p].fresh = e
      BY <3>1, <3>3 DEF Releases
    <3> QED
      BY <2>1, <2>4, <3>2, <3>4
  <2> QED
    BY <2>5, <2>6, <2>7, <2>8, <2>9, <2>10, ReleaseSteps
<1> QED
  BY <1>1, <1>2 DEF ReleaseInv, FreshInv, SecretsAreNeverStale
(***************************************************************************)
(* Clean-up.  An absent namespace is empty; a cleaner waits for the        *)
(* incarnation of the namespace that it deletes, and when that is gone so  *)
(* is every lock of a job that was over before the cleaner started.        *)
(***************************************************************************)
Empty == \A p \in Projects : rel[p] = NoRelease /\ secret[p] = NoSecrets

Freed(c) == \A p \in Projects : rel[p].status = "pending" => rel[p].holder \notin before[c]

CleanInv ==
  /\ ns = "absent" => Empty
  /\ \A c \in Cleaners :
       /\ pc[c] = "wait_deleted" => /\ target[c] <= gen
                                   /\ (target[c] = gen => ns # "active")
                                   /\ (target[c] < gen => Freed(c))
       /\ pc[c] = "succeeded" => Freed(c)

\* No job that was over before a clean-up takes a lock again.
LEMMA FreedStays ==
  ASSUME TypeInv, DeployInv, HistoryInv, [Next]_vars,
         NEW c \in Cleaners, pc[c] # "idle", Freed(c)
  PROVE  Freed(c)'
<1> SUFFICES ASSUME NEW p \in Projects, rel'[p].status = "pending"
             PROVE  rel'[p].holder \notin before'[c]
  BY DEF Freed
<1>1. before'[c] = before[c]
  BY StepShape, JobsOK DEF Start, Acts, control, history, TypeInv, TypeOK
<1>2. rel[p] \in Releases /\ Env(p) \in Envs
  BY EnvOK DEF TypeInv, TypeOK
<1>3. CASE rel'[p] = rel[p] \/ rel'[p] = NoRelease
  BY <1>1, <1>3 DEF NoRelease, Freed
<1>4. ASSUME NEW j \in Deployers, pc[j] = "upgrade", at[j] = p, ns = "active", UNCHANGED history,
             rel'[p] = [rel[p] EXCEPT !.status = "pending", !.holder = j, !.fresh = Env(p)]
      PROVE  rel'[p].holder \notin before'[c]
  <2>1. rel'[p].holder = j
    BY <1>2, <1>4 DEF Releases
  <2>2. j \notin before[c]
    BY <1>4, JobsOK DEF HistoryInv, Ended
  <2> QED
    BY <1>1, <2>1, <2>2
<1>5. ASSUME NEW j \in Deployers, UpgradeSucceeds(j), at[j] = p,
             rel'[p] = [status |-> "deployed", holder |-> None, image |-> j,
                        env |-> rel[p].fresh, fresh |-> NoEnv]
      PROVE  FALSE
  BY <1>5
<1>6. CASE rel'[p] = RolledBack(rel[p]) /\ rel[p].status = "pending" /\ UNCHANGED history
  BY <1>2, <1>6, RolledBackKeepsImage
<1>7. CASE PodRestart(p)
  <2> DEFINE e == Env(p)
  <2>1. rel' = [rel EXCEPT ![p].env = e] \/ rel' = [rel EXCEPT ![p].fresh = e]
    BY <1>7 DEF PodRestart
  <2>2. e \in Envs /\ rel \in [Projects -> Releases]
    BY <1>2 DEF TypeInv, TypeOK
  <2> HIDE DEF e
  <2>3. rel'[p].status = rel[p].status /\ rel'[p].holder = rel[p].holder
    BY <2>1, <2>2 DEF Releases
  <2> QED
    BY <1>1, <2>3 DEF Freed
<1> QED
  BY <1>3, <1>4, <1>5, <1>6, <1>7, ReleaseSteps

\* Nothing comes into a namespace that is not there.
LEMMA EmptyStays ==
  ASSUME TypeInv, DeployInv, [Next]_vars, ns = "absent", Empty PROVE Empty'
<1>1. \A p \in Projects : rel'[p] = NoRelease
  <2> SUFFICES ASSUME NEW p \in Projects PROVE rel'[p] = NoRelease
    OBVIOUS
  <2>1. rel[p].status = "none" /\ rel[p].image = None
    BY DEF Empty, NoRelease
  <2>2. CASE PodRestart(p)
    BY <2>1, <2>2 DEF PodRestart
  <2> QED
    BY <2>1, <2>2, ReleaseSteps DEF Empty, UpgradeSucceeds
<1>2. \A p \in Projects : secret'[p] = NoSecrets
  <2>1. \A p \in Projects, k \in Kinds : secret[p][k] = None
    BY DEF Empty, NoSecrets
  <2>2. ASSUME NEW j \in Deployers, CreateSecret(j) \/ ReplaceSecret(j) PROVE secret' = secret
    <3>1. at[j] \in Projects /\ kind[j] \in Kinds
      BY <2>2, SecretSteps DEF TypeInv, TypeOK, WritesSecret
    <3> QED
      BY <2>1, <2>2, <3>1 DEF CreateSecret, ReplaceSecret
  <2>3. ASSUME NEW j \in Deployers, DeployStep(j) PROVE secret' = secret
    BY <2>2, <2>3 DEF DeployStep, ReadNamespace, CreateNamespace, BeginUpgrade, UpgradeSucceeds,
                      UpgradeFails, LocalError, cluster
  <2>4. ASSUME NEW c \in Cleaners, CleanStep(c) PROVE secret' = secret
    BY <2>4 DEF CleanStep, DeleteNamespace, WaitDeleted, cluster
  <2>5. ASSUME NEW j \in Jobs, Start(j) \/ Kill(j) PROVE secret' = secret
    BY <2>5 DEF Start, Kill, cluster
  <2>6. ASSUME NEW p \in Projects, PodRestart(p) \/ DeleteContent(p) PROVE secret' = secret
    BY <2>6 DEF PodRestart, DeleteContent
  <2>7. ASSUME NamespaceGone \/ Finished \/ UNCHANGED vars PROVE secret' = secret
    BY <2>7 DEF NamespaceGone, Finished, vars, cluster
  <2> QED
    BY <2>3, <2>4, <2>5, <2>6, <2>7 DEF Next, Controller, Empty
<1> QED
  BY <1>1, <1>2 DEF Empty

\* The four ways the namespace goes.
LEMMA NamespaceSteps ==
  ASSUME TypeInv, [Next]_vars
  PROVE  \/ UNCHANGED <<ns, gen>>
         \/ \E j \in Deployers : /\ CreateNamespace(j) /\ ns = "absent"
                                 /\ ns' = "active" /\ gen' = gen + 1
         \/ \E c \in Cleaners : /\ DeleteNamespace(c) /\ ns # "absent"
                                /\ ns' = "terminating" /\ gen' = gen
         \/ Empty' /\ UNCHANGED control /\ ns = "terminating" /\ ns' = "absent" /\ gen' = gen
<1>1. ASSUME NEW j \in Deployers, DeployStep(j)
      PROVE  UNCHANGED <<ns, gen>> \/ (/\ CreateNamespace(j) /\ ns = "absent"
                                       /\ ns' = "active" /\ gen' = gen + 1)
  BY <1>1 DEF DeployStep, ReadNamespace, CreateNamespace, CreateSecret, ReplaceSecret,
              BeginUpgrade, UpgradeSucceeds, UpgradeFails, LocalError, cluster
<1>2. ASSUME NEW c \in Cleaners, CleanStep(c)
      PROVE  UNCHANGED <<ns, gen>> \/ (/\ DeleteNamespace(c) /\ ns # "absent"
                                       /\ ns' = "terminating" /\ gen' = gen)
  BY <1>2 DEF CleanStep, DeleteNamespace, WaitDeleted, cluster
<1>3. ASSUME NEW j \in Jobs, Start(j) \/ Kill(j) PROVE UNCHANGED <<ns, gen>>
  BY <1>3 DEF Start, Kill, cluster
<1>4. ASSUME NEW p \in Projects, PodRestart(p) \/ DeleteContent(p) PROVE UNCHANGED <<ns, gen>>
  BY <1>4 DEF PodRestart, DeleteContent
<1>5. CASE NamespaceGone
  BY <1>5 DEF NamespaceGone, Empty
<1>6. CASE Finished \/ UNCHANGED vars
  BY <1>6 DEF Finished, vars, cluster
<1> QED
  BY <1>1, <1>2, <1>3, <1>4, <1>5, <1>6 DEF Next, Controller

\* The ways a clean-up goes.
LEMMA CleanerSteps ==
  ASSUME TypeInv, [Next]_vars, NEW c \in Cleaners
  PROVE  \/ pc'[c] = pc[c] /\ target'[c] = target[c]
         \/ pc'[c] \in {"delete_namespace", "killed"}
         \/ CleanStep(c)
<1> USE JobsOK DEF TypeInv, TypeOK
<1>1. ASSUME NEW j \in Jobs, Start(j) \/ Kill(j)
      PROVE  pc'[c] \in {"delete_namespace", "killed"} \/ (pc'[c] = pc[c] /\ target'[c] = target[c])
  BY <1>1 DEF Start, Kill, Goto
<1>2. ASSUME NEW j \in Deployers, DeployStep(j) PROVE pc'[c] = pc[c] /\ target' = target
  <2>1. j # c /\ \A l \in Stages : [pc EXCEPT ![j] = l][c] = pc[c]
    OBVIOUS
  <2>2. CASE ReplaceSecret(j)
    BY <2>1, <2>2 DEF ReplaceSecret, SecretWritten, Goto, Stages, Ended
  <2>3. CASE UpgradeSucceeds(j)
    BY <2>1, <2>3 DEF UpgradeSucceeds, NextProject, Goto, Stages, Ended
  <2> QED
    BY <1>2, <2>1, <2>2, <2>3 DEF DeployStep, ReadNamespace, CreateNamespace, CreateSecret, SecretWritten,
             BeginUpgrade, UpgradeFails, LocalError, Goto, Stages, Ended
<1>3. ASSUME NEW d \in Cleaners, CleanStep(d), d # c PROVE pc'[c] = pc[c] /\ target'[c] = target[c]
  BY <1>3 DEF CleanStep, DeleteNamespace, WaitDeleted, Goto
<1>4. CASE (\E p \in Projects : PodRestart(p)) \/ Controller \/ Finished \/ UNCHANGED vars
  BY <1>4 DEF PodRestart, Controller, NamespaceGone, DeleteContent, Finished, vars, control
<1> QED
  BY <1>1, <1>2, <1>3, <1>4 DEF Next

\* A clean-up that waits for an incarnation of the namespace that is gone has freed
\* all locks of jobs before it.
LEMMA CleanStepKeeps ==
  ASSUME TypeInv, DeployInv, HistoryInv, CleanInv, [Next]_vars PROVE CleanInv'
<1>1. ns' = "absent" => Empty'
  BY EmptyStays, NamespaceSteps DEF CleanInv
<1>2. ns = "absent" => \A c \in Cleaners : Freed(c)
  BY DEF CleanInv, Empty, NoRelease, Freed
<1>3. ASSUME NEW c \in Cleaners
      PROVE  /\ pc'[c] = "wait_deleted" => /\ target'[c] <= gen'
                                          /\ (target'[c] = gen' => ns' # "active")
                                          /\ (target'[c] < gen' => Freed(c)')
             /\ pc'[c] = "succeeded" => Freed(c)'
  <2>1. target[c] \in Nat /\ gen \in Nat
    BY DEF TypeInv, TypeOK
  <2>2. CASE pc'[c] = pc[c] /\ target'[c] = target[c]
    <3>1. CASE UNCHANGED <<ns, gen>>
      BY <2>2, <3>1, FreedStays DEF CleanInv
    <3>2. CASE ns = "absent" /\ ns' = "active" /\ gen' = gen + 1
      BY <1>2, <2>1, <2>2, <3>2, FreedStays DEF CleanInv
    <3>3. CASE ns' # "active" /\ gen' = gen
      BY <2>2, <3>3, FreedStays DEF CleanInv
    <3> QED
      BY <3>1, <3>2, <3>3, NamespaceSteps
  <2>3. CASE DeleteNamespace(c)
    BY <1>2, <2>1, <2>3, FreedStays, JobsOK DEF DeleteNamespace, Goto, TypeInv, TypeOK
  <2>4. CASE WaitDeleted(c)
    <3>1. pc'[c] \in {"succeeded", "failed"} /\ pc[c] = "wait_deleted"
      BY <2>4, JobsOK DEF WaitDeleted, Goto, TypeInv, TypeOK
    <3>2. pc'[c] = "succeeded" => ns = "absent" \/ gen # target[c]
      BY <2>4, JobsOK DEF WaitDeleted, Goto, TypeInv, TypeOK
    <3> QED
      BY <1>2, <2>1, <3>1, <3>2, FreedStays DEF CleanInv
  <2> QED
    BY <2>2, <2>3, <2>4, CleanerSteps DEF CleanStep
<1> QED
  BY <1>1, <1>3 DEF CleanInv

\* Of a cleaner that nobody overlapped: it deletes the last incarnation.
LoneCleanInv ==
  \A c \in Cleaners :
    Lone(c) => /\ (pc[c] = "wait_deleted" => target[c] = gen)
               /\ (pc[c] = "succeeded" => ns = "absent")

\* Without an overlap nobody makes the namespace again.
LEMMA LoneCleanStep ==
  ASSUME TypeInv, DeployInv, HistoryInv, CleanInv, LoneCleanInv, [Next]_vars
  PROVE  LoneCleanInv'
<1> SUFFICES ASSUME NEW c \in Cleaners, Lone(c)'
             PROVE  /\ pc'[c] = "wait_deleted" => target'[c] = gen'
                    /\ pc'[c] = "succeeded" => ns' = "absent"
  BY DEF LoneCleanInv
<1>1. CASE pc[c] = "idle"
  BY <1>1, CleanerSteps DEF CleanStep, DeleteNamespace, WaitDeleted
<1>2. CASE pc[c] # "idle"
  <2>1. Lone(c) /\ \A i \in Jobs \ {c} : pc'[i] = pc[i] /\ ~Active(i)
    BY <1>2, Alone, JobsOK
  <2>2. ~\E j \in Deployers : CreateNamespace(j)
    BY <2>1, JobsOK DEF CreateNamespace, Active, Ended
  <2>3. CASE pc'[c] = pc[c] /\ target'[c] = target[c]
    BY <2>1, <2>2, <2>3, NamespaceSteps DEF LoneCleanInv
  <2>4. CASE DeleteNamespace(c)
    BY <2>4, JobsOK DEF DeleteNamespace, Goto, TypeInv, TypeOK
  <2>5. CASE WaitDeleted(c)
    BY <2>1, <2>5, JobsOK DEF WaitDeleted, Goto, TypeInv, TypeOK, LoneCleanInv, cluster
  <2> QED
    BY <2>3, <2>4, <2>5, CleanerSteps DEF CleanStep
<1> QED
  BY <1>1, <1>2

\* When a namespace is terminating, some cleaner has started.
LEMMA TerminatingStep ==
  ASSUME TypeInv, [Next]_vars, ns = "terminating" => \E c \in Cleaners : pc[c] # "idle"
  PROVE  ns' = "terminating" => \E c \in Cleaners : pc'[c] # "idle"
<1>1. \A c \in Cleaners : pc[c] # "idle" => pc'[c] # "idle"
  BY CleanerSteps, JobsOK DEF CleanStep, DeleteNamespace, WaitDeleted, Goto, TypeInv, TypeOK
<1>2. \A c \in Cleaners : DeleteNamespace(c) => pc[c] # "idle"
  BY DEF DeleteNamespace
<1> QED
  BY <1>1, <1>2, NamespaceSteps

(***************************************************************************)
(* A deployer that nobody overlaps: the secrets it has written and the     *)
(* projects it has upgraded are its own, with pods that run with them.     *)
(***************************************************************************)
Mine(j) == [k \in Mounted |-> j]

Deploying(j) == pc[j] \notin {"idle", "failed", "killed", "hung"}

Owns(j) ==
  /\ ns # "terminating"
  /\ \A p \in Projects, k \in Mounted : Written(j, p, k) => secret[p][k] = j
  /\ \A p \in Projects : pc[j] = "upgrading" /\ Holds(j, p) => rel[p].fresh = Mine(j)
  /\ \A p \in upgraded[j] : rel[p].image = j /\ rel[p].env = Mine(j)

LoneDeployInv ==
  /\ ns = "terminating" => \E c \in Cleaners : pc[c] # "idle"
  /\ \A j \in Deployers : Deploying(j) /\ Lone(j) => Owns(j)

\* The step with which it starts.
LEMMA LoneStart ==
  ASSUME TypeInv, LoneDeployInv, DeployInv, [Next]_vars,
         NEW j \in Deployers, Start(j), Lone(j)'
  PROVE  Owns(j)'
<1> USE JobsOK DEF TypeInv, TypeOK, StageOK
<1>1. at'[j] = 1 /\ kind'[j] = "file" /\ upgraded'[j] = {}
  <2>1. pc[j] = "idle" /\ UNCHANGED <<at, kind, upgraded>>
    BY DEF Start
  <2>2. at[j] = 1 /\ kind[j] = "file"
    BY <2>1
  <2>3. upgraded[j] = 1..(at[j] - 1)
    BY <2>1 DEF DeployInv, LoopInv, Ended
  <2>4. 1..(1 - 1) = {}
    OBVIOUS
  <2> QED
    BY <2>1, <2>2, <2>3, <2>4
<1>2. ns' = ns /\ pc'[j] = "read_namespace"
  BY DEF Start, Goto, cluster
<1>3. ns # "terminating"
  <2>1. SUFFICES ASSUME ns = "terminating" PROVE FALSE
    OBVIOUS
  <2>2. PICK c \in Cleaners : pc[c] # "idle"
    BY <2>1 DEF LoneDeployInv
  <2>3. c \notin before'[j] /\ pc'[c] # "idle" /\ c # j
    BY <2>1, <2>2 DEF Start, Goto
  <2> QED
    BY <2>3 DEF Lone
<1> QED
  BY <1>1, <1>2, <1>3 DEF Owns, Written, Before, Projects

\* The secrets of a project that it has passed.
LEMMA MineAtHand ==
  ASSUME NEW j \in Deployers, NEW p \in Projects, Owns(j), Passed(j, p)
  PROVE  Env(p) = Mine(j)
  BY DEF Owns, Passed, Written, Before, Env, Mine, Mounted

\* Its own steps.
LEMMA LoneWrites ==
  ASSUME TypeInv, NEW j \in Deployers, Owns(j), WritesSecret(j), pc'[j] # "upgrading"
  PROVE  Owns(j)'
<1>1. UNCHANGED <<ns, rel, upgraded>>
  BY DEF WritesSecret, history
<1>2. \A p \in Projects, k \in Mounted : Written(j, p, k)' => secret'[p][k] = j
  BY SecretEntries DEF Owns, Written
<1> QED
  BY <1>1, <1>2 DEF Owns, Mine

\* A job that nobody overlaps starts its upgrade with its own secrets,
LEMMA LoneBegins ==
  ASSUME TypeInv, DeployInv, NEW j \in Deployers, Owns(j), BeginUpgrade(j), Deploying(j)'
  PROVE  Owns(j)'
<1> USE JobsOK DEF TypeInv, TypeOK, StageOK
<1>1. PICK p \in Projects : p = at[j]
  OBVIOUS
<1> DEFINE e == Env(p)
<1>2. /\ UNCHANGED <<ns, secret, at, kind, upgraded>>
      /\ rel' = [rel EXCEPT ![p] = [@ EXCEPT !.status = "pending", !.holder = j, !.fresh = e]]
  BY <1>1 DEF BeginUpgrade, Goto, Deploying, history
<1>3. e = Mine(j) /\ e \in Envs
  BY <1>1, MineAtHand, EnvOK DEF BeginUpgrade, Passed
<1> HIDE DEF e
<1>4. /\ rel'[p].fresh = e /\ rel'[p].image = rel[p].image /\ rel'[p].env = rel[p].env
      /\ \A q \in Projects : q # p => rel'[q] = rel[q]
  BY <1>2, <1>3 DEF Releases
<1>5. \A q \in Projects : q # p => ~Holds(j, q)
  BY <1>1 DEF Holds, DeployInv, LockInv
<1>6. \A q \in Projects : Holds(j, q)' => rel'[q].fresh = Mine(j)
  BY <1>3, <1>4, <1>5 DEF Holds
<1>7. \A q \in upgraded[j] : rel'[q].image = j /\ rel'[q].env = Mine(j)
  BY <1>4 DEF Owns
<1>8. \A q \in Projects, k \in Mounted : Written(j, q, k)' => secret'[q][k] = j
  BY <1>2 DEF Owns, Written
<1> QED
  BY <1>2, <1>6, <1>7, <1>8 DEF Owns, Mine

\* and its pods serve with them.
LEMMA LoneUpgrades ==
  ASSUME TypeInv, NEW j \in Deployers, Owns(j), UpgradeSucceeds(j)
  PROVE  Owns(j)'
<1> USE JobsOK DEF TypeInv, TypeOK, StageOK
<1>1. PICK p \in Projects : p = at[j]
  OBVIOUS
<1>2. rel[p].fresh = Mine(j) /\ pc[j] = "upgrading" /\ kind[j] = "chart"
  BY <1>1 DEF UpgradeSucceeds, Owns
<1>3. /\ UNCHANGED <<ns, secret>> /\ upgraded'[j] = upgraded[j] \cup {p}
      /\ rel'[p].image = j /\ rel'[p].env = Mine(j)
      /\ \A q \in Projects : q # p => rel'[q] = rel[q]
  BY <1>1, <1>2 DEF UpgradeSucceeds
<1>4. \A q \in upgraded'[j] : rel'[q].image = j /\ rel'[q].env = Mine(j)
  BY <1>3 DEF Owns
<1>5. \/ at' = at /\ kind' = kind
      \/ at' = [at EXCEPT ![j] = at[j] + 1] /\ kind' = [kind EXCEPT ![j] = "file"]
  BY DEF UpgradeSucceeds, NextProject
<1>6. at'[j] = p \/ (at'[j] = p + 1 /\ kind'[j] = "file")
  BY <1>1, <1>5 DEF Kinds
<1>7. \A q \in Projects, k \in Mounted : Written(j, q, k)' => q <= p
  BY <1>6 DEF Written, Before, Projects
<1>8. \A q \in Projects, k \in Mounted : q <= p => Written(j, q, k)
  BY <1>1, <1>2 DEF Written, Before, Projects
<1>9. \A q \in Projects, k \in Mounted : Written(j, q, k)' => secret'[q][k] = j
  BY <1>3, <1>7, <1>8 DEF Owns
<1>10. pc'[j] # "upgrading"
  BY DEF UpgradeSucceeds, NextProject, Goto
<1> QED
  BY <1>3, <1>4, <1>9, <1>10 DEF Owns, Mine

\* Pods that start again.
LEMMA LoneRestart ==
  ASSUME TypeInv, DeployInv, NEW j \in Deployers, Owns(j), NEW p \in Projects, PodRestart(p)
  PROVE  Owns(j)'
<1> USE JobsOK DEF TypeInv, TypeOK, StageOK
<1> DEFINE e == Env(p)
<1>1. rel' = [rel EXCEPT ![p].env = e] \/ rel' = [rel EXCEPT ![p].fresh = e]
  BY DEF PodRestart
<1>2. UNCHANGED <<ns, secret, pc, at, kind, upgraded>>
  BY DEF PodRestart, control, history
<1>3. e \in Envs
  BY EnvOK
<1>4. (rel[p].image = j \/ Holds(j, p)) => e = Mine(j)
  <2>1. j # None
    OBVIOUS
  <2> QED
    BY <2>1, OwnersHavePassed, MineAtHand DEF Holds
<1> HIDE DEF e
<1>5. /\ \A q \in Projects : q # p => rel'[q] = rel[q]
      /\ rel'[p].image = rel[p].image /\ rel'[p].status = rel[p].status
      /\ rel'[p].holder = rel[p].holder
      /\ rel'[p].env \in {rel[p].env, e} /\ rel'[p].fresh \in {rel[p].fresh, e}
  BY <1>1, <1>3 DEF Releases
<1>6. \A q \in upgraded[j] : rel'[q].image = j /\ rel'[q].env = Mine(j)
  <2> SUFFICES ASSUME NEW q \in upgraded[j]
               PROVE  rel'[q].image = j /\ rel'[q].env = Mine(j)
    OBVIOUS
  <2>1. q \in Projects /\ rel[q].image = j /\ rel[q].env = Mine(j)
    BY DEF Owns
  <2> QED
    BY <1>4, <1>5, <2>1
<1>7. \A q \in Projects : pc[j] = "upgrading" /\ Holds(j, q)' => rel'[q].fresh = Mine(j)
  <2> SUFFICES ASSUME NEW q \in Projects, pc[j] = "upgrading",
                      rel'[q].status = "pending", rel'[q].holder = j
               PROVE  rel'[q].fresh = Mine(j)
    BY DEF Holds
  <2>1. Holds(j, q)
    BY <1>5 DEF Holds
  <2>2. rel[q].fresh = Mine(j)
    BY <2>1 DEF Owns
  <2> QED
    BY <1>4, <1>5, <2>1, <2>2
<1>8. \A q \in Projects, k \in Mounted : Written(j, q, k)' => secret'[q][k] = j
  BY <1>2 DEF Owns, Written
<1> QED
  BY <1>2, <1>6, <1>7, <1>8 DEF Owns, Mine

\* The steps after the first are its own or the cluster's.
LEMMA LoneStep ==
  ASSUME TypeInv, DeployInv, HistoryInv, LoneDeployInv, [Next]_vars,
         NEW j \in Deployers, pc[j] # "idle", Deploying(j)', Lone(j)'
  PROVE  Owns(j)'
<1> USE JobsOK DEF TypeInv, TypeOK, StageOK
<1>1. Lone(j) /\ \A i \in Jobs \ {j} : pc'[i] = pc[i] /\ ~Active(i)
  BY Alone
<1>2. ASSUME NEW i \in Jobs, Start(i) \/ Kill(i) PROVE FALSE
  BY <1>1, <1>2 DEF Start, Kill, Goto, Deploying
<1>3. ASSUME NEW c \in Cleaners, CleanStep(c) PROVE FALSE
  BY <1>1, <1>3 DEF CleanStep, DeleteNamespace, WaitDeleted, Active, Ended
<1>4. ASSUME NEW i \in Deployers, DeployStep(i)
      PROVE  /\ i = j
             /\ pc[j] \in {"read_namespace", "create_namespace", "create_secret", "replace_secret",
                           "upgrade", "upgrading"}
  <2>1. pc[i] \in {"read_namespace", "create_namespace", "create_secret", "replace_secret",
                   "upgrade", "upgrading"}
    BY <1>4 DEF DeployStep, ReadNamespace, CreateNamespace, CreateSecret, ReplaceSecret,
                BeginUpgrade, UpgradeSucceeds, UpgradeFails, LocalError
  <2> QED
    BY <1>1, <2>1 DEF Active, Ended
<1>5. Deploying(j) => Owns(j)
  BY <1>1 DEF LoneDeployInv
<1>6. ASSUME DeployStep(j) PROVE Owns(j)'
  <2>1. Owns(j)
    BY <1>4, <1>5, <1>6 DEF Deploying
  <2>2. CASE ReadNamespace(j)
    BY <2>1, <2>2 DEF ReadNamespace, Goto, cluster, history, Owns, Written, Mine
  <2>3. CASE CreateNamespace(j)
    BY <2>1, <2>3 DEF CreateNamespace, Goto, history, Owns, Written, Mine
  <2>4. CASE CreateSecret(j)
    <3>1. pc'[j] # "upgrading"
      BY <2>4 DEF CreateSecret, SecretWritten, Goto
    <3> QED
      BY <2>1, <2>4, <3>1, LoneWrites, SecretSteps
  <2>5. CASE ReplaceSecret(j)
    <3>1. pc'[j] # "upgrading"
      BY <2>5 DEF ReplaceSecret, SecretWritten, Goto
    <3> QED
      BY <2>1, <2>5, <3>1, LoneWrites, SecretSteps
  <2>6. CASE BeginUpgrade(j)
    BY <2>1, <2>6, LoneBegins
  <2>7. CASE UpgradeSucceeds(j)
    BY <2>1, <2>7, LoneUpgrades
  <2>8. CASE UpgradeFails(j) \/ LocalError(j)
    BY <2>8 DEF UpgradeFails, LocalError, Goto, Deploying
  <2> QED
    BY <1>6, <2>2, <2>3, <2>4, <2>5, <2>6, <2>7, <2>8 DEF DeployStep
<1>7. ASSUME NEW p \in Projects, PodRestart(p) PROVE Owns(j)'
  <2>1. Owns(j)
    BY <1>5, <1>7 DEF PodRestart, control, Deploying
  <2> QED
    BY <1>7, <2>1, LoneRestart
<1>8. CASE Controller
  <2>1. pc' = pc /\ ns = "terminating"
    BY <1>8 DEF Controller, NamespaceGone, DeleteContent, control
  <2> QED
    BY <1>5, <2>1 DEF Deploying, Owns
<1>9. CASE Finished \/ UNCHANGED vars
  BY <1>5, <1>9 DEF Finished, vars, cluster, control, history, Deploying, Owns, Holds, Written, Mine
<1> QED
  BY <1>2, <1>3, <1>4, <1>6, <1>7, <1>8, <1>9 DEF Next

\* Nobody takes away what such a job has upgraded.
LEMMA LoneDeployStep ==
  ASSUME TypeInv, DeployInv, HistoryInv, LoneDeployInv, [Next]_vars
  PROVE  LoneDeployInv'
<1>1. ASSUME NEW j \in Deployers, pc[j] = "idle", Deploying(j)', Lone(j)' PROVE Owns(j)'
  <2>1. \E i \in Jobs : Start(i) \/ Acts(i)
    BY <1>1, StepShape DEF control, Deploying
  <2>2. Start(j)
    BY <1>1, <2>1, JobsOK DEF Start, Acts, Active, Goto, Deploying, TypeInv, TypeOK
  <2> QED
    BY <1>1, <2>2, LoneStart
<1> QED
  BY <1>1, LoneStep, TerminatingStep DEF LoneDeployInv

-----------------------------------------------------------------------------
IsolationInv ==
  HistoryInv /\ ReleaseInv /\ CleanInv /\ LoneCleanInv /\ LoneDeployInv

\* What is needed of the past in each state, whatever the interleaving of jobs,
\* their failures and cancellations.
THEOREM IsolationInvariant == Spec => [](TypeInv /\ DeployInv /\ IsolationInv)
<1>1. Init => IsolationInv
  <2> SUFFICES ASSUME Init PROVE IsolationInv
    OBVIOUS
  <2> USE JobsOK DEF Init
  <2>1. HistoryInv
    BY DEF HistoryInv
  <2>2. ReleaseInv
    BY DEF ReleaseInv, WrittenInv, FreshInv, SecretsAreNeverStale, NoRelease, NoEnv
  <2>3. CleanInv
    BY DEF CleanInv, Empty
  <2>4. LoneCleanInv /\ LoneDeployInv
    BY DEF LoneCleanInv, LoneDeployInv, Deploying
  <2> QED
    BY <2>1, <2>2, <2>3, <2>4 DEF IsolationInv
<1>2. TypeInv /\ TypeInv' /\ DeployInv /\ IsolationInv /\ [Next]_vars => IsolationInv'
  BY HistoryStep, ReleaseStep, CleanStepKeeps, LoneCleanStep, LoneDeployStep DEF IsolationInv
<1> QED
  BY <1>1, <1>2, DeployInvariant, PTL DEF Spec

\* The pods of an image never run with secrets of a job that was over when the
\* image's job started: every job replaces all secrets of a project before it
\* upgrades the chart.
THEOREM SecretsAreNeverStaleHolds == Spec => []SecretsAreNeverStale
<1>1. IsolationInv => SecretsAreNeverStale
  BY DEF IsolationInv, ReleaseInv
<1> QED
  BY <1>1, IsolationInvariant, PTL

\* A deployment that succeeded, and that no other job overlapped, is what all
\* projects serve, with its secrets, whatever earlier jobs left behind.
THEOREM LoneSuccessIsConsistentHolds == Spec => []LoneSuccessIsConsistent
<1>1. DeployInv /\ IsolationInv => LoneSuccessIsConsistent
  <2> SUFFICES ASSUME DeployInv, IsolationInv, NEW j \in Deployers, pc[j] = "succeeded", Lone(j)
               PROVE  \A p \in Projects : rel[p].image = j /\ rel[p].env = Mine(j)
    BY DEF LoneSuccessIsConsistent, Mine
  <2>1. Owns(j)
    BY DEF IsolationInv, LoneDeployInv, Deploying
  <2>2. upgraded[j] = Projects
    BY DEF DeployInv, LoopInv
  <2> QED
    BY <2>1, <2>2 DEF Owns
<1> QED
  BY <1>1, IsolationInvariant, PTL

\* After a clean-up that succeeded, and that no other job overlapped, nothing is
\* left of the environment.
THEOREM LoneCleanupLeavesNothingHolds == Spec => []LoneCleanupLeavesNothing
<1>1. IsolationInv => LoneCleanupLeavesNothing
  BY DEF IsolationInv, LoneCleanInv, CleanInv, Empty, LoneCleanupLeavesNothing
<1> QED
  BY <1>1, IsolationInvariant, PTL

\* A clean-up that succeeded has freed the releases that earlier jobs left locked.
THEOREM CleanupFreesLocksHolds == Spec => []CleanupFreesLocks
<1>1. IsolationInv => CleanupFreesLocks
  BY DEF IsolationInv, CleanInv, Freed, CleanupFreesLocks
<1> QED
  BY <1>1, IsolationInvariant, PTL

\* Only a successful upgrade changes what a job has upgraded.
LEMMA UpgradedSteps ==
  ASSUME [Next]_vars
  PROVE  upgraded' = upgraded \/ \E j \in Deployers : UpgradeSucceeds(j)
<1>1. ASSUME NEW j \in Deployers, DeployStep(j) PROVE upgraded' = upgraded \/ UpgradeSucceeds(j)
  BY <1>1 DEF DeployStep, ReadNamespace, CreateNamespace, CreateSecret, ReplaceSecret, BeginUpgrade,
              UpgradeFails, LocalError, history
<1>2. ASSUME NEW c \in Cleaners, CleanStep(c) PROVE upgraded' = upgraded
  BY <1>2 DEF CleanStep, DeleteNamespace, WaitDeleted, history
<1>3. ASSUME NEW j \in Jobs, Start(j) \/ Kill(j) PROVE upgraded' = upgraded
  BY <1>3 DEF Start, Kill, history
<1>4. ASSUME NEW p \in Projects, PodRestart(p) \/ DeleteContent(p) PROVE upgraded' = upgraded
  BY <1>4 DEF PodRestart, DeleteContent, history
<1>5. ASSUME NamespaceGone \/ Finished \/ UNCHANGED vars PROVE upgraded' = upgraded
  BY <1>5 DEF NamespaceGone, Finished, vars, history
<1> QED
  BY <1>1, <1>2, <1>3, <1>4, <1>5 DEF Next, Controller

\* A job that has started stays so, after the same jobs, and once over does not change.
LEMMA StartedStays ==
  ASSUME TypeInv, [Next]_vars, NEW j \in Jobs, pc[j] # "idle"
  PROVE  /\ pc'[j] # "idle" /\ before'[j] = before[j]
         /\ pc[j] \in Ended => pc'[j] = pc[j]
<1> USE DEF TypeInv, TypeOK
<1>1. CASE UNCHANGED <<control, history>>
  BY <1>1 DEF control, history
<1>2. ASSUME NEW i \in Jobs, Start(i)
      PROVE  pc'[j] = pc[j] /\ before'[j] = before[j]
  BY <1>2 DEF Start, Goto
<1>3. ASSUME NEW i \in Jobs, Acts(i)
      PROVE  /\ pc'[j] # "idle" /\ before'[j] = before[j]
             /\ pc[j] \in Ended => pc'[j] = pc[j]
  BY <1>3 DEF Acts, Active
<1> QED
  BY <1>1, <1>2, <1>3, StepShape

(***************************************************************************)
(* What a job has upgraded it has unlocked: a lock left by a job that was  *)
(* over before it was in its way.                                          *)
(***************************************************************************)
ReleasedInv ==
  \A p \in Projects, d \in Deployers :
    rel[p].status = "pending" /\ p \in upgraded[d] => rel[p].holder \notin before[d]

\* Only running jobs take locks, and none is taken by one that is over.
LEMMA ReleasedStep ==
  ASSUME TypeInv, DeployInv, HistoryInv, ReleasedInv, [Next]_vars
  PROVE  ReleasedInv'
<1> USE JobsOK DEF TypeInv, TypeOK
<1> SUFFICES ASSUME NEW p \in Projects, NEW d \in Deployers,
                    rel'[p].status = "pending", p \in upgraded'[d]
             PROVE  rel'[p].holder \notin before'[d]
  BY DEF ReleasedInv
<1>1. rel[p] \in Releases /\ Env(p) \in Envs
  BY EnvOK
<1>2. p \in upgraded[d]
  <2>1. ASSUME NEW i \in Deployers, UpgradeSucceeds(i), p \notin upgraded[d] PROVE FALSE
    <3>1. d = i /\ p = at[i]
      BY <2>1 DEF UpgradeSucceeds
    <3>2. rel'[p].status = "deployed"
      BY <2>1, <3>1 DEF UpgradeSucceeds
    <3> QED
      BY <3>2
  <2>2. (\A i \in Deployers : ~UpgradeSucceeds(i)) => upgraded' = upgraded
    BY UpgradedSteps
  <2> QED
    BY <2>1, <2>2
<1>3. pc[d] # "idle"
  <2>1. pc[d] = "idle" => upgraded[d] = 1..(1 - 1)
    BY DEF DeployInv, LoopInv, StageOK, Ended
  <2> QED
    BY <1>2, <2>1
<1>4. before'[d] = before[d]
  BY <1>3, StartedStays
<1>5. CASE rel'[p] = rel[p]
  BY <1>2, <1>4, <1>5 DEF ReleasedInv
<1>6. CASE rel'[p] = NoRelease
  BY <1>6 DEF NoRelease
<1>7. ASSUME NEW j \in Deployers, pc[j] = "upgrade",
             rel'[p] = [rel[p] EXCEPT !.status = "pending", !.holder = j, !.fresh = Env(p)]
      PROVE  rel'[p].holder \notin before'[d]
  <2>1. rel'[p].holder = j
    BY <1>1, <1>7 DEF Releases
  <2>2. j \notin before[d]
    BY <1>7 DEF HistoryInv, Ended
  <2> QED
    BY <1>4, <2>1, <2>2
<1>8. ASSUME NEW j \in Deployers,
             rel'[p] = [status |-> "deployed", holder |-> None, image |-> j,
                        env |-> rel[p].fresh, fresh |-> NoEnv]
      PROVE  FALSE
  BY <1>8
<1>9. CASE rel'[p] = RolledBack(rel[p]) /\ rel[p].status = "pending"
  BY <1>1, <1>9, RolledBackKeepsImage
<1>10. CASE PodRestart(p)
  <2> DEFINE e == Env(p)
  <2>1. rel' = [rel EXCEPT ![p].env = e] \/ rel' = [rel EXCEPT ![p].fresh = e]
    BY <1>10 DEF PodRestart
  <2>2. e \in Envs /\ rel \in [Projects -> Releases]
    BY <1>1
  <2> HIDE DEF e
  <2>3. rel'[p].status = rel[p].status /\ rel'[p].holder = rel[p].holder
    BY <2>1, <2>2 DEF Releases
  <2> QED
    BY <1>2, <1>4, <2>3 DEF ReleasedInv
<1> QED
  BY <1>5, <1>6, <1>7, <1>8, <1>9, <1>10, ReleaseSteps

\* A release left locked stops the job that left it and every later one: a job
\* that goes on has got the lock back from helm, and one that gets past a release
\* finds no lock of a job that was over before it.
THEOREM LockStopsJobsHolds == Spec => []LockStopsJobs
<1>1. Init => ReleasedInv
  BY DEF Init, ReleasedInv
<1>2. TypeInv /\ DeployInv /\ IsolationInv /\ ReleasedInv /\ [Next]_vars => ReleasedInv'
  BY ReleasedStep DEF IsolationInv
<1>3. DeployInv /\ ReleasedInv => LockStopsJobs
  BY DEF DeployInv, LockInv, ReleasedInv, LockStopsJobs
<1> QED
  BY <1>1, <1>2, <1>3, IsolationInvariant, PTL DEF Spec
-----------------------------------------------------------------------------
(***************************************************************************)
(* Pipelines.                                                              *)
(***************************************************************************)
\* The CI starts and cancels jobs, which otherwise do what they do in Deploy.
LEMMA PipelineStepsAreDeploys == [PipelineNext]_pipelineVars => [Next]_vars
<1> SUFFICES ASSUME [PipelineNext]_pipelineVars PROVE [Next]_vars
  OBVIOUS
<1>1. CASE Create \/ AllOver \/ UNCHANGED pipelineVars
  BY <1>1 DEF Create, AllOver, pipelineVars
<1>2. ASSUME NEW i \in Pipelines,
             EarlierFails(i) \/ StartReview(i) \/ StartCleanup(i) \/ Cancel(i) \/ KillCanceled(i)
      PROVE  [Next]_vars
  <2>1. review[i] \in Jobs /\ cleanup[i] \in Jobs
    BY PipelineAssumption DEF Jobs
  <2>2. CASE EarlierFails(i) \/ Cancel(i)
    BY <2>2 DEF EarlierFails, Cancel
  <2>3. CASE StartReview(i) \/ StartCleanup(i)
    BY <2>1, <2>3 DEF StartReview, StartCleanup, Next
  <2>4. CASE KillCanceled(i)
    BY <2>1, <2>4 DEF KillCanceled, Own, Next
  <2> QED
    BY <1>2, <2>2, <2>3, <2>4
<1>3. ASSUME NEW j \in Jobs, JobStep(j) PROVE [Next]_vars
  BY <1>3 DEF JobStep, Next
<1>4. CASE ClusterStep
  BY <1>4 DEF ClusterStep, Next
<1> QED
  BY <1>1, <1>2, <1>3, <1>4 DEF PipelineNext

\* Whatever the CI starts and cancels, the jobs of pipelines are jobs of Deploy.
THEOREM PipelineImplementsDeploy == PipelineSpec => Spec
<1>1. PipelineInit => Init
  BY DEF PipelineInit
<1> QED
  BY <1>1, PipelineStepsAreDeploys, PTL DEF PipelineSpec, Spec

\* Hence in pipelines, too: dependencies first, locks stop jobs and are freed by
\* clean-ups, secrets are never stale.
THEOREM PipelinesAreSafe ==
  PipelineSpec => [](DependenciesFirst /\ LockStopsJobs /\ CleanupFreesLocks /\ SecretsAreNeverStale)
  BY PipelineImplementsDeploy, DependenciesFirstHolds, LockStopsJobsHolds,
     CleanupFreesLocksHolds, SecretsAreNeverStaleHolds, PTL

\* The values the variables of the CI take: only pipelines that exist break or are
\* canceled.
THEOREM PipelineTypeCorrect == PipelineSpec => []PipelineTypeOK
<1>1. PipelineInit => PipelineTypeOK
  BY PipelineAssumption DEF PipelineInit, PipelineTypeOK
<1>2. PipelineTypeOK /\ [PipelineNext]_pipelineVars => PipelineTypeOK'
  <2> SUFFICES ASSUME PipelineTypeOK, [PipelineNext]_pipelineVars PROVE PipelineTypeOK'
    OBVIOUS
  <2> USE PipelineAssumption DEF PipelineTypeOK
  <2>1. CASE Create
    <3>1. created' \in 0..P /\ 1..created \subseteq 1..created'
      BY <2>1 DEF Create
    <3>2. underway' \in [Pipelines -> SUBSET Cleaners]
      BY <2>1 DEF Create
    <3> QED
      BY <2>1, <3>1, <3>2 DEF Create
  <2>2. ASSUME NEW i \in Pipelines, EarlierFails(i) \/ Cancel(i) PROVE PipelineTypeOK'
    <3>1. i <= created /\ UNCHANGED <<created, underway>>
      BY <2>2 DEF EarlierFails, Cancel, ReviewDue, Runs
    <3>2. i \in 1..created
      BY <3>1 DEF Pipelines
    <3>3. broken' \subseteq broken \cup {i} /\ canceled' \subseteq canceled \cup {i}
      BY <2>2 DEF EarlierFails, Cancel
    <3> QED
      BY <3>1, <3>2, <3>3
  <2>3. CASE UNCHANGED ci
    BY <2>3 DEF ci
  <2> QED
    BY <2>1, <2>2, <2>3 DEF PipelineNext, StartReview, StartCleanup, KillCanceled, JobStep,
                            ClusterStep, AllOver, pipelineVars
<1> QED
  BY <1>1, <1>2, PTL DEF PipelineSpec
-----------------------------------------------------------------------------
(***************************************************************************)
(* When the CI starts and does not start jobs.                             *)
(***************************************************************************)
\* Its clean-up is of no use to pipeline k any more: canceled, or done without.
NeverCleans(k) ==
  k \in canceled \/ (k \notin broken /\ pc[review[k]] \in {"succeeded", "killed"})

CiInv ==
  /\ \A c \in Cleaners : pc[c] # "idle" => \E k \in Pipelines : c = cleanup[k]
  /\ \A k \in Pipelines :
       /\ pc[review[k]] # "idle" \/ pc[cleanup[k]] # "idle" => k <= created
       /\ k \in broken => pc[review[k]] = "idle"
       /\ pc[cleanup[k]] # "idle" => k \in broken \/ pc[review[k]] = "failed"
  /\ \A i, k \in Pipelines : k < i /\ i <= created =>
       /\ pc[cleanup[k]] = "idle" => NeverCleans(k)
       /\ Active(cleanup[k]) => cleanup[k] \in underway[i]

\* The CI, or one job, or the cluster moves in each step.
LEMMA PipelineShape ==
  ASSUME TypeInv, [PipelineNext]_pipelineVars
  PROVE  \/ UNCHANGED <<control, history, ci>>
         \/ Create /\ UNCHANGED <<pc, before>>
         \/ \E i \in Pipelines : (EarlierFails(i) \/ Cancel(i)) /\ UNCHANGED <<pc, before>>
         \/ \E i \in Pipelines : StartReview(i) \/ StartCleanup(i)
         \/ UNCHANGED ci /\ \E j \in Jobs : Acts(j)
<1>1. ASSUME NEW i \in Pipelines, KillCanceled(i) PROVE UNCHANGED ci /\ \E j \in Jobs : Acts(j)
  <2>1. review[i] \in Jobs /\ cleanup[i] \in Jobs
    BY PipelineAssumption DEF Jobs
  <2> QED
    BY <1>1, <2>1, KillActs DEF KillCanceled, Own
<1>2. ASSUME NEW j \in Jobs, JobStep(j) PROVE UNCHANGED ci /\ \E i \in Jobs : Acts(i)
  BY <1>2, DeployStepActs, CleanStepActs DEF JobStep
<1>3. ASSUME ClusterStep \/ AllOver \/ UNCHANGED pipelineVars PROVE UNCHANGED <<control, history, ci>>
  BY <1>3 DEF ClusterStep, Controller, NamespaceGone, DeleteContent, PodRestart, AllOver,
              pipelineVars, vars
<1>4. ASSUME NEW i \in Pipelines, EarlierFails(i) \/ Cancel(i) PROVE UNCHANGED <<pc, before>>
  BY <1>4 DEF EarlierFails, Cancel, vars, control, history
<1>5. ASSUME Create PROVE UNCHANGED <<pc, before>>
  BY <1>5 DEF Create, vars, control, history
<1> QED
  BY <1>1, <1>2, <1>3, <1>4, <1>5 DEF PipelineNext

\* A job that goes on neither starts nor, once over, changes.
LEMMA ActsKeeps ==
  ASSUME TypeInv, NEW j \in Jobs, Acts(j)
  PROVE  \A i \in Jobs : /\ (pc'[i] = "idle") <=> (pc[i] = "idle")
                         /\ pc[i] \in Ended => pc'[i] = pc[i]
                         /\ Active(i)' => Active(i)
  BY DEF Acts, Active, TypeInv, TypeOK, Ended

\* A pipeline that has a newer one starts no clean-up any more: it was over when
\* that was created, or is canceled.
LEMMA CiStep ==
  ASSUME TypeInv, PipelineTypeOK, CiInv, [PipelineNext]_pipelineVars PROVE CiInv'
<1> USE DEF CiInv
<1>0. \A k \in Pipelines : review[k] \in Jobs /\ cleanup[k] \in Jobs /\ cleanup[k] \in Cleaners
  BY PipelineAssumption DEF Jobs
<1>1. CASE UNCHANGED <<control, ci>>
  BY <1>1 DEF control, ci, NeverCleans, Active
<1>2. CASE Create /\ UNCHANGED pc
  <2>1. /\ created' = created + 1 /\ created + 1 \in Pipelines /\ created \in Nat
        /\ broken' = broken /\ canceled \subseteq canceled'
    BY <1>2, PipelineAssumption DEF Create, PipelineTypeOK, Pipelines
  <2>2. ASSUME NEW k \in Pipelines, k <= created, k \notin canceled'
        PROVE  ~CleanupDue(k) /\ ~ReviewDue(k) /\ ~Active(review[k]) /\ ~Active(cleanup[k])
    BY <1>2, <2>2 DEF Create, Over, Own, Pipelines
  <2>3. ASSUME NEW k \in Pipelines, k <= created, pc[cleanup[k]] = "idle" PROVE NeverCleans(k)'
    <3>1. CASE k \in canceled'
      BY <3>1 DEF NeverCleans
    <3>2. CASE k \notin canceled'
      <4>1. k \notin canceled
        BY <2>1, <3>2
      <4>2. k \notin broken /\ pc[review[k]] # "failed"
        BY <2>2, <2>3, <3>2, <4>1 DEF CleanupDue, Runs
      <4>3. pc[review[k]] # "idle"
        BY <2>2, <2>3, <3>2, <4>1, <4>2 DEF ReviewDue, Runs
      <4>4. pc[review[k]] \in {"succeeded", "killed"}
        BY <2>2, <2>3, <3>2, <4>2, <4>3 DEF Active, Ended
      <4> QED
        BY <1>2, <2>1, <4>2, <4>4 DEF NeverCleans
    <3> QED
      BY <3>1, <3>2
  <2>4. \A k \in Pipelines : Active(cleanup[k]) => cleanup[k] \in underway'[created + 1]
    BY <1>0, <1>2, <2>1 DEF Create, PipelineTypeOK
  <2>5. \A i \in Pipelines : i <= created => underway'[i] = underway[i]
    BY <1>2, <2>1 DEF Create, PipelineTypeOK, Pipelines
  <2>6. \A i, k \in Pipelines : k < i /\ i <= created' =>
          /\ pc'[cleanup[k]] = "idle" => NeverCleans(k)'
          /\ Active(cleanup[k])' => cleanup[k] \in underway'[i]
    <3> SUFFICES ASSUME NEW i \in Pipelines, NEW k \in Pipelines, k < i, i <= created'
                 PROVE  /\ pc'[cleanup[k]] = "idle" => NeverCleans(k)'
                        /\ Active(cleanup[k])' => cleanup[k] \in underway'[i]
      OBVIOUS
    <3>1. k <= created /\ (i <= created \/ i = created + 1)
      BY <2>1 DEF Pipelines
    <3>2. Active(cleanup[k])' => Active(cleanup[k])
      BY <1>2 DEF Active
    <3> QED
      BY <1>2, <2>3, <2>4, <2>5, <3>1, <3>2
  <2>7. \A k \in Pipelines : k <= created => k <= created'
    BY <2>1 DEF Pipelines
  <2> QED
    BY <1>2, <2>1, <2>6, <2>7
<1>3. ASSUME NEW i \in Pipelines, (EarlierFails(i) \/ Cancel(i)) /\ UNCHANGED pc PROVE CiInv'
  <2>1. /\ created' = created /\ underway' = underway /\ canceled \subseteq canceled'
        /\ broken' = broken \/ (/\ broken' = broken \cup {i} /\ pc[review[i]] = "idle"
                                /\ i \notin canceled)
    BY <1>3 DEF EarlierFails, Cancel, ReviewDue, Runs
  <2>2. \A k \in Pipelines : NeverCleans(k) => NeverCleans(k)'
    BY <1>3, <2>1 DEF NeverCleans
  <2> QED
    BY <1>3, <2>1, <2>2 DEF Active
<1>4. ASSUME NEW i \in Pipelines, StartReview(i) PROVE CiInv'
  <2>1. /\ UNCHANGED ci /\ i <= created /\ i \notin broken /\ i \notin canceled
        /\ pc[review[i]] = "idle" /\ pc' = [pc EXCEPT ![review[i]] = "read_namespace"]
    BY <1>4, PipelineAssumption, JobsOK DEF StartReview, ReviewDue, Runs, Start, Goto
  <2>2. \A c \in Cleaners : pc'[c] = pc[c] /\ (Active(c)' <=> Active(c))
    BY <2>1, JobsOK, PipelineAssumption DEF TypeInv, TypeOK, Active
  <2>3. pc'[review[i]] = "read_namespace" /\ \A k \in Pipelines : k # i => pc'[review[k]] = pc[review[k]]
    BY <2>1, <1>0, PipelineAssumption DEF TypeInv, TypeOK
  <2>4. \A k \in Pipelines : NeverCleans(k) => NeverCleans(k)'
    BY <2>1, <2>3 DEF NeverCleans, ci
  <2>5. pc[cleanup[i]] = "idle"
    BY <2>1
  <2> QED
    BY <1>0, <2>1, <2>2, <2>3, <2>4, <2>5 DEF ci
<1>5. ASSUME NEW i \in Pipelines, StartCleanup(i) PROVE CiInv'
  <2>1. /\ UNCHANGED ci /\ i <= created /\ i \notin canceled
        /\ pc[cleanup[i]] = "idle" /\ pc' = [pc EXCEPT ![cleanup[i]] = "delete_namespace"]
        /\ i \in broken \/ pc[review[i]] = "failed"
    BY <1>0, <1>5 DEF StartCleanup, CleanupDue, Runs, Start, Goto
  <2>2. \A j \in Deployers : pc'[j] = pc[j]
    BY <2>1, <1>0, JobsOK DEF TypeInv, TypeOK
  <2>3. /\ pc'[cleanup[i]] = "delete_namespace"
        /\ \A c \in Cleaners : c # cleanup[i] => pc'[c] = pc[c] /\ (Active(c)' <=> Active(c))
    BY <2>1, <1>0, JobsOK DEF TypeInv, TypeOK, Active
  <2>4. \A k \in Pipelines : NeverCleans(k) => NeverCleans(k)'
    BY <2>1, <2>2, PipelineAssumption DEF NeverCleans, ci
  <2>5. ~NeverCleans(i)
    BY <2>1 DEF NeverCleans
  <2>6. \A k \in Pipelines : k # i => cleanup[k] # cleanup[i]
    BY PipelineAssumption
  <2>7. \A k \in Pipelines : i < k => ~(k <= created)
    BY <2>1, <2>5
  <2> QED
    BY <1>0, <2>1, <2>2, <2>3, <2>4, <2>6, <2>7, PipelineAssumption DEF ci
<1>6. ASSUME UNCHANGED ci, NEW j \in Jobs, Acts(j) PROVE CiInv'
  <2>1. \A i \in Jobs : /\ (pc'[i] = "idle") <=> (pc[i] = "idle")
                        /\ pc[i] \in Ended => pc'[i] = pc[i]
                        /\ Active(i)' => Active(i)
    BY <1>6, ActsKeeps
  <2>2. \A k \in Pipelines : NeverCleans(k) => NeverCleans(k)'
    BY <1>0, <1>6, <2>1 DEF NeverCleans, ci, Ended
  <2> QED
    BY <1>0, <1>6, <2>1, <2>2, JobsOK DEF ci, Ended
<1> QED
  BY <1>1, <1>2, <1>3, <1>4, <1>5, <1>6, PipelineShape
(***************************************************************************)
(* Reviews.  While neither another review nor a clean-up that threatens it *)
(* has come between, no cleaner runs at all, so that the namespace stays   *)
(* active and what the review has upgraded keeps its image.                *)
(***************************************************************************)
Undisturbed(i) ==
  /\ \A j \in Deployers \ {review[i]} : pc[j] = "idle" \/ j \in before[review[i]]
  /\ \A k \in Pipelines : pc[cleanup[k]] # "idle" => ~(k > i) /\ cleanup[k] \notin underway[i]

Stands(j) == /\ upgraded[j] # {} => ns = "active"
             /\ \A p \in upgraded[j] : rel[p].image = j

ReviewInv ==
  \A i \in Pipelines :
    pc[review[i]] \notin {"idle", "failed"} /\ Undisturbed(i) => Stands(review[i])

\* Nobody else is at work where nobody disturbs a review,
LEMMA NoOtherActs ==
  ASSUME TypeInv, HistoryInv, CiInv, NEW i \in Pipelines,
         pc[review[i]] \notin {"idle", "failed"}, Undisturbed(i)
  PROVE  /\ \A c \in Cleaners : ~Active(c)
         /\ \A j \in Deployers \ {review[i]} : ~Active(j)
<1> USE DEF CiInv
<1>1. i <= created /\ i \notin broken
  OBVIOUS
<1>2. ASSUME NEW c \in Cleaners, Active(c) PROVE FALSE
  <2>1. PICK k \in Pipelines : c = cleanup[k]
    BY <1>2 DEF Active
  <2>2. pc[cleanup[k]] # "idle"
    BY <1>2, <2>1 DEF Active
  <2>3. ~(k > i) /\ cleanup[k] \notin underway[i]
    BY <2>2 DEF Undisturbed
  <2>4. k # i
    BY <1>1, <2>2
  <2>5. k < i
    BY <2>3, <2>4 DEF Pipelines
  <2> QED
    BY <1>1, <1>2, <2>1, <2>3, <2>5
<1>3. review[i] \in Jobs
  BY PipelineAssumption DEF Jobs
<1>4. ASSUME NEW j \in Deployers \ {review[i]}, Active(j) PROVE FALSE
  BY <1>3, <1>4 DEF Active, Undisturbed, HistoryInv
<1> QED
  BY <1>2, <1>4

\* nor was before the step.
LEMMA UndisturbedBefore ==
  ASSUME TypeInv, CiInv, PipelineTypeOK, [PipelineNext]_pipelineVars, NEW i \in Pipelines,
         pc[review[i]] # "idle", Undisturbed(i)'
  PROVE  Undisturbed(i)
<1>0. /\ review[i] \in Jobs /\ \A k \in Pipelines : cleanup[k] \in Jobs
      /\ Deployers \subseteq Jobs
  BY PipelineAssumption DEF Jobs
<1>1. underway'[i] = underway[i]
  <2>1. i <= created
    BY DEF CiInv
  <2>2. Create => underway'[i] = underway[i]
    BY <2>1 DEF Create, PipelineTypeOK, Pipelines
  <2> QED
    BY <2>2, PipelineShape DEF ci, EarlierFails, Cancel, StartReview, StartCleanup
<1>2. /\ before'[review[i]] = before[review[i]]
      /\ \A j \in Jobs : pc[j] # "idle" => pc'[j] # "idle"
  <2>1. [Next]_vars
    BY PipelineStepsAreDeploys
  <2>2. CASE UNCHANGED <<control, history>>
    BY <2>2 DEF control, history
  <2>3. ASSUME NEW j \in Jobs, Start(j)
        PROVE  /\ before'[review[i]] = before[review[i]]
               /\ \A k \in Jobs : pc[k] # "idle" => pc'[k] # "idle"
    BY <1>0, <2>3 DEF Start, Goto, TypeInv, TypeOK
  <2>4. ASSUME NEW j \in Jobs, Acts(j)
        PROVE  /\ before'[review[i]] = before[review[i]]
               /\ \A k \in Jobs : pc[k] # "idle" => pc'[k] # "idle"
    BY <2>4, ActsKeeps DEF Acts
  <2> QED
    BY <2>1, <2>2, <2>3, <2>4, StepShape
<1> QED
  BY <1>0, <1>1, <1>2 DEF Undisturbed

\* What an undisturbed review has upgraded stays.
LEMMA ReviewStep ==
  ASSUME TypeInv, DeployInv, HistoryInv, PipelineTypeOK, CiInv, ReviewInv,
         [PipelineNext]_pipelineVars
  PROVE  ReviewInv'
<1> SUFFICES ASSUME NEW i \in Pipelines, pc'[review[i]] \notin {"idle", "failed"}, Undisturbed(i)'
             PROVE  Stands(review[i])'
  BY DEF ReviewInv
<1> DEFINE j == review[i]
<1>0. j \in Deployers /\ j \in Jobs
  BY PipelineAssumption DEF Jobs
<1> HIDE DEF j
<1>1. [Next]_vars
  BY PipelineStepsAreDeploys
<1>2. CASE pc[j] = "idle"
  <2>1. at[j] = 1
    BY <1>0, <1>2 DEF TypeInv, StageOK
  <2>2. upgraded[j] = {}
    BY <1>0, <1>2, <2>1 DEF DeployInv, LoopInv, Ended
  <2>3. \A d \in Deployers : UpgradeSucceeds(d) => upgraded'[j] = upgraded[j]
    BY <1>0, <1>2 DEF UpgradeSucceeds, TypeInv, TypeOK
  <2>4. upgraded'[j] = {}
    BY <1>1, <2>2, <2>3, UpgradedSteps
  <2> QED
    BY <2>4 DEF Stands, j
<1>3. CASE pc[j] # "idle"
  <2>1. pc[j] # "failed"
    <3>1. pc[j] = "failed" => pc'[j] = pc[j]
      BY <1>0, <1>1, StepShape DEF Start, Goto, Acts, Active, Ended, control, TypeInv, TypeOK
    <3> QED
      BY <3>1 DEF j
  <2>2. Undisturbed(i)
    BY <1>3, UndisturbedBefore DEF j
  <2>3. Stands(j) /\ (\A c \in Cleaners : ~Active(c)) /\ \A d \in Deployers \ {j} : ~Active(d)
    BY <1>3, <2>1, <2>2, NoOtherActs DEF ReviewInv, j
  <2>4. \A d \in Deployers : UpgradeSucceeds(d) => d = j
    BY <2>3 DEF UpgradeSucceeds, Active, Ended
  <2>5. \A c \in Cleaners : ~DeleteNamespace(c)
    BY <2>3 DEF DeleteNamespace, Active, Ended
  <2>6. ns = "active" => ns' = "active"
    BY <1>1, <2>5, NamespaceSteps
  <2>7. ASSUME NEW p \in Projects, rel[p].image = j, ns = "active" PROVE rel'[p].image = j
    <3>1. rel[p] \in Releases /\ Env(p) \in Envs
      BY EnvOK DEF TypeInv, TypeOK
    <3>2. ASSUME NEW d \in Deployers,
                 rel'[p] = [rel[p] EXCEPT !.status = "pending", !.holder = d, !.fresh = Env(p)]
          PROVE  rel'[p].image = j
      BY <2>7, <3>1, <3>2 DEF Releases
    <3>3. CASE PodRestart(p)
      <4> DEFINE e == Env(p)
      <4>1. rel' = [rel EXCEPT ![p].env = e] \/ rel' = [rel EXCEPT ![p].fresh = e]
        BY <3>3 DEF PodRestart
      <4>2. e \in Envs /\ rel \in [Projects -> Releases]
        BY <3>1 DEF TypeInv, TypeOK
      <4> HIDE DEF e
      <4> QED
        BY <2>7, <4>1, <4>2 DEF Releases
    <3>4. rel'[p] = RolledBack(rel[p]) => rel'[p].image = j
      BY <2>7, <3>1, RolledBackKeepsImage
    <3>5. ASSUME NEW d \in Deployers, UpgradeSucceeds(d),
                 rel'[p] = [status |-> "deployed", holder |-> None, image |-> d,
                            env |-> rel[p].fresh, fresh |-> NoEnv]
          PROVE  rel'[p].image = j
      BY <2>4, <3>5
    <3> QED
      BY <1>1, <2>7, <3>2, <3>3, <3>4, <3>5, ReleaseSteps
  <2>8. CASE upgraded' = upgraded
    BY <1>0, <2>3, <2>6, <2>7, <2>8 DEF Stands, TypeInv, TypeOK, j
  <2>9. CASE UpgradeSucceeds(j)
    BY <1>0, <2>3, <2>9 DEF UpgradeSucceeds, Stands, TypeInv, TypeOK, j
  <2> QED
    BY <1>1, <2>4, <2>8, <2>9, UpgradedSteps
<1> QED
  BY <1>2, <1>3

\* The state of the CI, for any number of pipelines: with it, which jobs can still
\* start and what a review without disturbance has kept.
THEOREM PipelineInvariant ==
  PipelineSpec => [](TypeInv /\ DeployInv /\ IsolationInv /\ PipelineTypeOK /\ CiInv /\ ReviewInv)
<1>1. PipelineInit => CiInv /\ ReviewInv
  BY PipelineAssumption, JobsOK DEF PipelineInit, Init, CiInv, ReviewInv, Active, Pipelines
<1>2. TypeInv /\ PipelineTypeOK /\ CiInv /\ [PipelineNext]_pipelineVars => CiInv'
  BY CiStep
<1>3. /\ TypeInv /\ DeployInv /\ IsolationInv /\ PipelineTypeOK /\ CiInv /\ ReviewInv
      /\ [PipelineNext]_pipelineVars
      => ReviewInv'
  BY ReviewStep DEF IsolationInv
<1> QED
  BY <1>1, <1>2, <1>3, PipelineImplementsDeploy, IsolationInvariant, PipelineTypeCorrect, PTL
     DEF PipelineSpec

\* What a review has deployed, alone, is taken away only by a newer pipeline that
\* fails, or by a clean-up under way when its pipeline was created: the CI cancels
\* the older pipelines, and those it leaves have no clean-up to come.
THEOREM ReviewStaysUpHolds == PipelineSpec => []ReviewStaysUp
<1>1. TypeInv /\ DeployInv /\ ReviewInv => ReviewStaysUp
  <2> SUFFICES ASSUME TypeInv, DeployInv, ReviewInv, NEW i \in Pipelines,
                      pc[review[i]] = "succeeded",
                      \A j \in Deployers \ {review[i]} : pc[j] = "idle" \/ j \in before[review[i]],
                      ~\E k \in Pipelines : /\ pc[cleanup[k]] # "idle"
                                            /\ k > i \/ cleanup[k] \in underway[i]
               PROVE  \A p \in Projects : rel[p].image = review[i]
    BY DEF ReviewStaysUp
  <2>1. Undisturbed(i)
    BY DEF Undisturbed
  <2>2. upgraded[review[i]] = Projects
    BY PipelineAssumption DEF DeployInv, LoopInv
  <2> QED
    BY <2>1, <2>2 DEF ReviewInv, Stands
<1> QED
  BY <1>1, PipelineInvariant, PTL
(***************************************************************************)
(* Where cancellation is the only failure: a deployer that no clean-up     *)
(* overlaps can only fail at the door of helm, at a release that another   *)
(* job has locked.                                                         *)
(***************************************************************************)
OnlyCancellations == Faults \subseteq {"kill"}

Sheltered(j) == \A c \in Cleaners : ~Overlap(c, j)

\* What its next requests need: an active namespace, the secrets it has written,
\* the secret that is in the way of the next, and the lock it holds.
Thrives(j) ==
  /\ ns # "terminating"
  /\ pc[j] \in {"create_secret", "replace_secret", "upgrade", "upgrading"} => ns = "active"
  /\ \A p \in Projects, k \in Mounted : Written(j, p, k) => secret[p][k] # None
  /\ pc[j] = "replace_secret" => secret[at[j]][kind[j]] # None
  /\ pc[j] = "upgrading" => Holds(j, at[j]) /\ Startable(rel[at[j]].fresh)

ShelterInv == \A j \in Deployers : Active(j) /\ Sheltered(j) => Thrives(j)

\* The ways a deployer goes.
LEMMA DeployerSteps ==
  ASSUME TypeInv, [Next]_vars, NEW j \in Deployers
  PROVE  \/ pc'[j] = pc[j] /\ at'[j] = at[j] /\ kind'[j] = kind[j]
         \/ Start(j) \/ Kill(j) \/ DeployStep(j)
<1> USE JobsOK DEF TypeInv, TypeOK
<1>1. ASSUME NEW i \in Jobs, Start(i) \/ Kill(i), i # j
      PROVE  pc'[j] = pc[j] /\ at'[j] = at[j] /\ kind'[j] = kind[j]
  BY <1>1 DEF Start, Kill, Goto
<1>2. ASSUME NEW i \in Deployers, DeployStep(i), i # j
      PROVE  pc'[j] = pc[j] /\ at'[j] = at[j] /\ kind'[j] = kind[j]
  <2>1. pc'[j] = pc[j]
    <3>1. Acts(i)
      BY <1>2, DeployStepActs
    <3> QED
      BY <1>2, <3>1 DEF Acts
  <2>2. UNCHANGED <<at, kind>> \/ WritesSecret(i) \/ UpgradeSucceeds(i)
    BY <1>2, SecretSteps
       DEF DeployStep, ReadNamespace, CreateNamespace, BeginUpgrade, UpgradeFails, LocalError
  <2>3. WritesSecret(i) => at'[j] = at[j] /\ kind'[j] = kind[j]
    BY <1>2 DEF WritesSecret
  <2>4. UpgradeSucceeds(i) => at'[j] = at[j] /\ kind'[j] = kind[j]
    BY <1>2 DEF UpgradeSucceeds, NextProject
  <2> QED
    BY <2>1, <2>2, <2>3, <2>4
<1>3. ASSUME NEW c \in Cleaners, CleanStep(c)
      PROVE  pc'[j] = pc[j] /\ at'[j] = at[j] /\ kind'[j] = kind[j]
  BY <1>3 DEF CleanStep, DeleteNamespace, WaitDeleted, Goto
<1>4. CASE (\E p \in Projects : PodRestart(p)) \/ Controller \/ Finished \/ UNCHANGED vars
  BY <1>4 DEF PodRestart, Controller, NamespaceGone, DeleteContent, Finished, vars, control
<1> QED
  BY <1>1, <1>2, <1>3, <1>4 DEF Next

\* It starts in a namespace that is not going away: a clean-up under way overlaps it.
LEMMA ShelterStarts ==
  ASSUME TypeInv, HistoryInv, LoneDeployInv, [Next]_vars,
         NEW j \in Deployers, Start(j), Sheltered(j)'
  PROVE  Thrives(j)'
<1> USE JobsOK DEF TypeInv, TypeOK, StageOK
<1>1. /\ pc[j] = "idle" /\ pc'[j] = "read_namespace" /\ UNCHANGED <<ns, secret, at, kind>>
      /\ at[j] = 1 /\ kind[j] = "file"
  BY DEF Start, Goto, cluster
<1>2. ns # "terminating"
  <2>1. SUFFICES ASSUME ns = "terminating" PROVE FALSE
    OBVIOUS
  <2>2. PICK c \in Cleaners : pc[c] # "idle"
    BY <2>1 DEF LoneDeployInv
  <2>3. c \notin before'[j] /\ pc'[c] # "idle" /\ c # j /\ before'[c] = before[c]
    BY <2>1, <2>2 DEF Start, Goto
  <2>4. j \notin before[c]
    BY <1>1 DEF HistoryInv, Ended
  <2> QED
    BY <1>1, <2>3, <2>4 DEF Sheltered, Overlap
<1> QED
  BY <1>1, <1>2 DEF Thrives, Written, Before, Projects

\* Its own steps.  Writing a secret leaves what it has written,
LEMMA ShelterWrites ==
  ASSUME TypeInv, OnlyCancellations, NEW j \in Deployers, Thrives(j),
         CreateSecret(j) \/ ReplaceSecret(j)
  PROVE  Thrives(j)' /\ pc'[j] # "failed"
<1> USE JobsOK DEF TypeInv, TypeOK, StageOK
<1>1. WritesSecret(j)
  BY SecretSteps
<1>2. ns = "active" /\ ns' = ns
  BY DEF Thrives, CreateSecret, ReplaceSecret
<1>3. \A p \in Projects, k \in Mounted : Written(j, p, k)' => secret'[p][k] # None
  BY <1>1, SecretEntries, KindsOK DEF Thrives, Written
<1>4. /\ pc'[j] \in {"replace_secret", "create_secret", "upgrade"}
      /\ pc'[j] = "replace_secret" => secret'[at'[j]][kind'[j]] # None
  <2>1. CASE ReplaceSecret(j)
    <3>1. secret[at[j]][kind[j]] # None /\ "api" \notin Faults
      BY <2>1 DEF ReplaceSecret, Thrives, OnlyCancellations
    <3> QED
      BY <2>1, <3>1 DEF ReplaceSecret, SecretWritten, Goto
  <2>2. CASE CreateSecret(j)
    <3>1. "api" \notin Faults
      BY DEF OnlyCancellations
    <3>2. \/ SecretWritten(j)
          \/ secret[at[j]][kind[j]] # None /\ UNCHANGED <<secret, kind>> /\ Goto(j, "replace_secret")
      BY <1>2, <2>2, <3>1 DEF CreateSecret
    <3>3. UNCHANGED at
      BY <2>2 DEF CreateSecret
    <3> QED
      BY <3>2, <3>3 DEF SecretWritten, Goto
  <2> QED
    BY <2>1, <2>2
<1> QED
  BY <1>2, <1>3, <1>4 DEF Thrives

\* and its upgrade takes the lock, with pods that can start, or is refused.
LEMMA ShelterBegins ==
  ASSUME TypeInv, OnlyCancellations, NEW j \in Deployers, Thrives(j), BeginUpgrade(j)
  PROVE  \/ Thrives(j)' /\ pc'[j] # "failed"
         \/ rel[at[j]].status = "pending" /\ UNCHANGED rel
<1> USE JobsOK DEF TypeInv, TypeOK, StageOK
<1>1. PICK p \in Projects : p = at[j]
  OBVIOUS
<1> DEFINE e == Env(p)
<1>2. ns = "active" /\ UNCHANGED <<ns, secret, at, kind>> /\ kind[j] = "chart"
  BY DEF Thrives, BeginUpgrade
<1>3. \/ rel[p].status = "pending" /\ UNCHANGED rel
      \/ /\ rel' = [rel EXCEPT ![p] = [@ EXCEPT !.status = "pending", !.holder = j, !.fresh = e]]
         /\ pc'[j] = "upgrading"
  BY <1>1, <1>2 DEF BeginUpgrade, OnlyCancellations, Goto
<1>4. \A k \in Mounted : Written(j, p, k)
  BY <1>1, <1>2 DEF Written, Before, Mounted
<1>5. e \in Envs /\ Startable(e)
  BY <1>4, EnvOK DEF Thrives, Startable, Env
<1> HIDE DEF e
<1>6. CASE /\ rel' = [rel EXCEPT ![p] = [@ EXCEPT !.status = "pending", !.holder = j, !.fresh = e]]
           /\ pc'[j] = "upgrading"
  <2>1. rel'[p].status = "pending" /\ rel'[p].holder = j /\ rel'[p].fresh = e
    BY <1>5, <1>6 DEF Releases
  <2>2. Holds(j, at[j])' /\ Startable(rel'[at'[j]].fresh)
    BY <1>1, <1>2, <1>5, <2>1 DEF Holds, Startable
  <2>3. \A q \in Projects, k \in Mounted : Written(j, q, k)' => secret'[q][k] # None
    BY <1>2 DEF Thrives, Written
  <2> QED
    BY <1>2, <1>6, <2>2, <2>3 DEF Thrives
<1> QED
  BY <1>1, <1>3, <1>6

\* When helm is done it goes on to the next project,
LEMMA ShelterUpgrades ==
  ASSUME TypeInv, OnlyCancellations, NEW j \in Deployers, Thrives(j), UpgradeSucceeds(j)
  PROVE  Thrives(j)' /\ pc'[j] # "failed"
<1> USE JobsOK DEF TypeInv, TypeOK, StageOK
<1>1. PICK p \in Projects : p = at[j]
  OBVIOUS
<1>2. ns = "active" /\ UNCHANGED <<ns, secret>> /\ kind[j] = "chart" /\ NextProject(j)
  BY DEF UpgradeSucceeds, OnlyCancellations
<1>3. pc'[j] \in {"create_secret", "succeeded"}
  BY <1>2 DEF NextProject, Goto
<1>4. \/ at' = at /\ kind' = kind
      \/ at' = [at EXCEPT ![j] = at[j] + 1] /\ kind' = [kind EXCEPT ![j] = "file"]
  BY <1>2 DEF NextProject
<1>5. at'[j] = p \/ (at'[j] = p + 1 /\ kind'[j] = "file")
  BY <1>1, <1>4 DEF Kinds
<1>6. \A q \in Projects, k \in Mounted : Written(j, q, k)' => q <= p
  BY <1>5 DEF Written, Before, Projects
<1>7. \A q \in Projects, k \in Mounted : q <= p => Written(j, q, k)
  BY <1>1, <1>2 DEF Written, Before, Projects
<1>8. \A q \in Projects, k \in Mounted : Written(j, q, k)' => secret'[q][k] # None
  BY <1>2, <1>6, <1>7 DEF Thrives
<1> QED
  BY <1>2, <1>3, <1>8 DEF Thrives

\* so that there is no other way to fail.
LEMMA ShelterOwnSteps ==
  ASSUME TypeInv, OnlyCancellations, NEW j \in Deployers, Thrives(j), DeployStep(j)
  PROVE  \/ Thrives(j)' /\ pc'[j] # "failed"
         \/ BeginUpgrade(j) /\ rel[at[j]].status = "pending" /\ UNCHANGED rel
<1> USE JobsOK DEF TypeInv, TypeOK, StageOK
<1>1. CASE ReadNamespace(j) \/ CreateNamespace(j)
  <2>1. UNCHANGED <<secret, at, kind>>
    BY <1>1 DEF ReadNamespace, CreateNamespace, cluster
  <2>2. "api" \notin Faults
    BY DEF OnlyCancellations
  <2>3. /\ pc'[j] \in {"create_namespace", "create_secret"} /\ ns' # "terminating"
        /\ pc'[j] = "create_secret" => ns' = "active"
    BY <1>1, <2>2 DEF ReadNamespace, CreateNamespace, Goto, cluster, Thrives
  <2>4. \A q \in Projects, k \in Mounted : Written(j, q, k)' => secret'[q][k] # None
    BY <2>1 DEF Thrives, Written
  <2> QED
    BY <2>3, <2>4 DEF Thrives
<1>2. ~UpgradeFails(j)
  BY DEF UpgradeFails, Thrives, OnlyCancellations
<1>3. ~LocalError(j)
  BY DEF LocalError, OnlyCancellations
<1> QED
  BY <1>1, <1>2, <1>3, ShelterWrites, ShelterBegins, ShelterUpgrades DEF DeployStep

\* What others do: nobody else takes the lock or removes a secret.
LEMMA ShelterOthers ==
  ASSUME TypeInv, DeployInv, [Next]_vars, NEW j \in Deployers, Thrives(j), Active(j),
         pc'[j] = pc[j], at'[j] = at[j], kind'[j] = kind[j],
         \A c \in Cleaners : ~Active(c)
  PROVE  Thrives(j)'
<1> USE JobsOK DEF TypeInv, TypeOK, StageOK
<1>1. ns' # "terminating" /\ (ns = "active" => ns' = "active")
  <2>1. \A c \in Cleaners : ~DeleteNamespace(c)
    BY DEF DeleteNamespace, Active, Ended
  <2> QED
    BY <2>1, NamespaceSteps DEF Thrives
<1>2. \A p \in Projects, k \in Kinds : secret[p][k] # None => secret'[p][k] # None
  <2>1. ASSUME NEW i \in Deployers, WritesSecret(i)
        PROVE  \A p \in Projects, k \in Kinds : secret[p][k] # None => secret'[p][k] # None
    BY <2>1, SecretEntries
  <2>2. \A p \in Projects : ~DeleteContent(p)
    BY DEF DeleteContent, Thrives
  <2>3. \A i \in Jobs : Start(i) => secret' = secret
    BY DEF Start, cluster
  <2>4. \A i \in Deployers : UpgradeSucceeds(i) => secret' = secret
    BY DEF UpgradeSucceeds
  <2> QED
    BY <2>1, <2>2, <2>3, <2>4, SecretsStay
<1>3. \A p \in Projects, k \in Mounted : Written(j, p, k)' => secret'[p][k] # None
  BY <1>2, KindsOK DEF Thrives, Written
<1>4. pc[j] = "replace_secret" => secret'[at[j]][kind[j]] # None
  BY <1>2 DEF Thrives
<1>5. ASSUME pc[j] = "upgrading" PROVE Holds(j, at[j])' /\ Startable(rel'[at[j]].fresh)
  <2>1. PICK p \in Projects : p = at[j]
    OBVIOUS
  <2>2. rel[p].status = "pending" /\ rel[p].holder = j /\ Startable(rel[p].fresh) /\ ns # "terminating"
    BY <1>5, <2>1 DEF Thrives, Holds
  <2>3. ASSUME NEW i \in Deployers, UpgradeSucceeds(i) \/ UpgradeFails(i), Holds(i, p) PROVE FALSE
    <3>1. i = j
      BY <2>2, <2>3 DEF Holds
    <3> QED
      BY <1>5, <2>3, <3>1 DEF UpgradeSucceeds, UpgradeFails, NextProject, Goto
  <2>4. CASE PodRestart(p)
    <3> DEFINE e == Env(p)
    <3>1. rel' = [rel EXCEPT ![p].env = e] \/ rel' = [rel EXCEPT ![p].fresh = e]
      BY <2>4 DEF PodRestart
    <3>2. e \in Envs /\ rel \in [Projects -> Releases]
      BY EnvOK
    <3>3. Startable(e)
      <4>1. \A k \in Mounted : Written(j, p, k)
        BY <1>5, <2>1 DEF Written, Before, Mounted
      <4> QED
        BY <4>1 DEF Thrives, Startable, Env
    <3> HIDE DEF e
    <3>4. /\ rel'[p].status = rel[p].status /\ rel'[p].holder = rel[p].holder
          /\ rel'[p].fresh \in {rel[p].fresh, e}
      BY <3>1, <3>2 DEF Releases
    <3> QED
      BY <2>1, <2>2, <3>3, <3>4 DEF Holds
  <2>5. CASE rel'[p] = rel[p]
    BY <2>1, <2>2, <2>5 DEF Holds
  <2> QED
    BY <2>1, <2>2, <2>3, <2>4, <2>5, ReleaseSteps DEF UpgradeSucceeds
<1> QED
  BY <1>1, <1>3, <1>4, <1>5 DEF Thrives

\* A job that no clean-up overlaps was one before, with none under way.
LEMMA ShelteredBefore ==
  ASSUME TypeInv, HistoryInv, [Next]_vars, NEW j \in Deployers, pc[j] # "idle", Sheltered(j)'
  PROVE  Sheltered(j) /\ (Active(j) => \A c \in Cleaners : ~Active(c))
<1>1. ASSUME NEW c \in Cleaners PROVE ~Overlap(c, j)
  BY <1>1, StartedStays, JobsOK DEF Sheltered, Overlap
<1>2. ASSUME NEW c \in Cleaners, Active(c), Active(j) PROVE FALSE
  <2>1. c \notin before[j] /\ j \notin before[c] /\ c # j
    BY <1>2, JobsOK DEF HistoryInv, Active
  <2> QED
    BY <1>1, <1>2, <2>1 DEF Overlap, Active
<1> QED
  BY <1>1, <1>2 DEF Sheltered

\* It thrives while it runs, until it is refused.
LEMMA ShelterStep ==
  ASSUME OnlyCancellations, TypeInv, DeployInv, HistoryInv, LoneDeployInv, ShelterInv,
         [Next]_vars
  PROVE  ShelterInv'
<1> SUFFICES ASSUME NEW j \in Deployers, Active(j)', Sheltered(j)' PROVE Thrives(j)'
  BY DEF ShelterInv
<1> USE JobsOK
<1>1. CASE pc[j] = "idle"
  <2>1. ~Kill(j) /\ ~DeployStep(j)
    BY <1>1, KillActs, DeployStepActs DEF Acts, Active
  <2> QED
    BY <1>1, <2>1, DeployerSteps, ShelterStarts DEF Active
<1>2. CASE pc[j] # "idle"
  <2>1. Active(j)
    BY <1>2, StartedStays DEF Active
  <2>2. Thrives(j) /\ \A c \in Cleaners : ~Active(c)
    BY <1>2, <2>1, ShelteredBefore DEF ShelterInv
  <2>3. ~Start(j) /\ ~Kill(j)
    BY <1>2 DEF Start, Kill, Goto, Active, Ended, TypeInv, TypeOK
  <2>4. CASE DeployStep(j)
    <3>1. ASSUME BeginUpgrade(j), rel[at[j]].status = "pending" PROVE FALSE
      BY <3>1 DEF BeginUpgrade, Goto, TypeInv, TypeOK, Active, Ended, OnlyCancellations
    <3> QED
      BY <2>2, <2>4, <3>1, ShelterOwnSteps
  <2> QED
    BY <2>1, <2>2, <2>3, <2>4, DeployerSteps, ShelterOthers
<1> QED
  BY <1>1, <1>2

(***************************************************************************)
(* Why a review finds a release locked.  The order of pipelines is that of *)
(* their reviews: when a newer one is there, an older one that is not      *)
(* canceled is over.                                                       *)
(***************************************************************************)
\* Deployers are reviews, only jobs of canceled pipelines are killed, and
\* clean-ups do not fail.
JobsInv ==
  /\ \A j \in Deployers : pc[j] # "idle" => \E k \in Pipelines : j = review[k]
  /\ \A k \in Pipelines : \A j \in Own(k) : pc[j] = "killed" => k \in canceled
  /\ \A c \in Cleaners : pc[c] # "failed"

\* Pipelines one after the other, and the clean-up of each after its review.
OrderInv ==
  /\ \A k, l \in Pipelines : k < l =>
       /\ l <= created => k \in canceled \/ Over(k)
       /\ review[l] \notin before[review[k]]
  /\ \A k \in Pipelines :
       pc[cleanup[k]] # "idle" /\ pc[review[k]] # "idle" =>
         before[review[k]] \cap Deployers \subseteq before[cleanup[k]]

\* The jobs of a pipeline, which are those of no other.
LEMMA OwnOK ==
  /\ \A k \in Pipelines : /\ review[k] \in Deployers /\ cleanup[k] \in Cleaners
                          /\ review[k] \in Jobs /\ cleanup[k] \in Jobs
  /\ \A k, l \in Pipelines : \A j \in Own(k) : j \in Own(l) => k = l
  BY PipelineAssumption, JobsOK DEF Own

\* By itself no job ends as killed, and no cleaner as failed.
LEMMA JobsEnd ==
  ASSUME TypeInv, OnlyCancellations, NEW j \in Jobs, JobStep(j)
  PROVE  pc'[j] # "killed" /\ (j \in Cleaners => pc'[j] # "failed")
<1> USE JobsOK DEF TypeInv, TypeOK
<1>1. ASSUME j \in Deployers, DeployStep(j) PROVE pc'[j] # "killed"
  BY <1>1 DEF DeployStep, ReadNamespace, CreateNamespace, CreateSecret, ReplaceSecret, SecretWritten,
              BeginUpgrade, UpgradeSucceeds, UpgradeFails, LocalError, NextProject, Goto
<1>2. ASSUME j \in Cleaners, CleanStep(j) PROVE pc'[j] \notin {"killed", "failed"}
  BY <1>2 DEF CleanStep, DeleteNamespace, WaitDeleted, Goto, OnlyCancellations
<1> QED
  BY <1>1, <1>2 DEF JobStep

\* The CI starts the jobs of pipelines, and kills those of canceled ones only.
LEMMA JobsStep ==
  ASSUME TypeInv, OnlyCancellations, JobsInv, [PipelineNext]_pipelineVars
  PROVE  JobsInv'
<1> USE OwnOK, JobsOK DEF JobsInv, TypeInv, TypeOK
<1>1. canceled \subseteq canceled'
  BY PipelineShape DEF ci, Create, EarlierFails, Cancel, StartReview, StartCleanup
<1>2. CASE UNCHANGED pc
  BY <1>1, <1>2
<1>3. ASSUME NEW i \in Pipelines, StartReview(i) PROVE JobsInv'
  <2>1. pc' = [pc EXCEPT ![review[i]] = "read_namespace"]
    BY <1>3 DEF StartReview, Start, Goto
  <2> QED
    BY <1>1, <2>1
<1>4. ASSUME NEW i \in Pipelines, StartCleanup(i) PROVE JobsInv'
  <2>1. pc' = [pc EXCEPT ![cleanup[i]] = "delete_namespace"]
    BY <1>4 DEF StartCleanup, Start, Goto
  <2> QED
    BY <1>1, <2>1
<1>5. ASSUME NEW i \in Pipelines, KillCanceled(i) PROVE JobsInv'
  <2>1. PICK j \in Own(i) : Kill(j) /\ i \in canceled
    BY <1>5 DEF KillCanceled
  <2>2. j \in Jobs /\ pc[j] # "idle" /\ pc' = [pc EXCEPT ![j] = "killed"]
    BY <2>1 DEF Own, Kill, Goto, Active
  <2> QED
    BY <1>1, <2>1, <2>2
<1>6. ASSUME NEW j \in Jobs, JobStep(j) PROVE JobsInv'
  <2>1. Acts(j)
    BY <1>6, DeployStepActs, CleanStepActs DEF JobStep
  <2>2. pc[j] # "idle" /\ \A i \in Jobs \ {j} : pc'[i] = pc[i]
    BY <2>1 DEF Acts, Active
  <2>3. pc'[j] # "killed" /\ (j \in Cleaners => pc'[j] # "failed")
    BY <1>6, JobsEnd
  <2>4. \A k \in Pipelines : Own(k) \subseteq Jobs
    BY DEF Own
  <2> QED
    BY <1>1, <2>2, <2>3, <2>4
<1>7. CASE ClusterStep \/ AllOver \/ Create \/ UNCHANGED pipelineVars
  <2>1. UNCHANGED pc
    BY <1>7 DEF ClusterStep, Controller, NamespaceGone, DeleteContent, PodRestart, AllOver, Create,
                pipelineVars, vars, control
  <2> QED
    BY <1>2, <2>1
<1>8. ASSUME NEW i \in Pipelines, EarlierFails(i) \/ Cancel(i) PROVE JobsInv'
  <2>1. UNCHANGED pc
    BY <1>8 DEF EarlierFails, Cancel, vars, control
  <2> QED
    BY <1>2, <2>1
<1> QED
  BY <1>3, <1>4, <1>5, <1>6, <1>7, <1>8 DEF PipelineNext

\* A pipeline that is over, and is not canceled, starts nothing any more.
LEMMA OverStays ==
  ASSUME TypeInv, PipelineTypeOK, [PipelineNext]_pipelineVars,
         NEW k \in Pipelines, k <= created, k \notin canceled', Over(k)
  PROVE  Over(k)'
<1> USE OwnOK, JobsOK DEF TypeInv, TypeOK
<1>1. ASSUME created' >= created, UNCHANGED pc, k \in broken' <=> k \in broken, canceled \subseteq canceled'
      PROVE  Over(k)'
  BY <1>1 DEF Over, ReviewDue, CleanupDue, Runs, Own, Active
<1>2. CASE UNCHANGED <<control, history, ci>>
  BY <1>1, <1>2 DEF control, ci, PipelineTypeOK
<1>3. CASE Create /\ UNCHANGED <<pc, before>>
  BY <1>1, <1>3 DEF Create, PipelineTypeOK
<1>4. ASSUME NEW i \in Pipelines, EarlierFails(i) \/ Cancel(i), UNCHANGED <<pc, before>>
      PROVE  Over(k)'
  <2>1. EarlierFails(i) => i # k
    BY DEF EarlierFails, Over
  <2> QED
    BY <1>1, <1>4, <2>1 DEF EarlierFails, Cancel, PipelineTypeOK
<1>5. ASSUME NEW i \in Pipelines, StartReview(i) \/ StartCleanup(i) PROVE Over(k)'
  <2>1. i # k
    <3>1. StartReview(i) => ReviewDue(i)
      BY DEF StartReview
    <3>2. StartCleanup(i) => CleanupDue(i)
      BY DEF StartCleanup
    <3> QED
      BY <1>5, <3>1, <3>2 DEF Over
  <2>2. UNCHANGED ci /\ pc'[review[k]] = pc[review[k]] /\ pc'[cleanup[k]] = pc[cleanup[k]]
    <3>1. PICK j \in Own(i) : Start(j) /\ UNCHANGED ci
      BY <1>5 DEF StartReview, StartCleanup, Own
    <3>2. j \notin Own(k)
      BY <2>1
    <3> QED
      BY <3>1, <3>2 DEF Start, Goto, Own
  <2> QED
    BY <2>2 DEF Over, ReviewDue, CleanupDue, Runs, Own, Active, ci
<1>6. ASSUME UNCHANGED ci, NEW j \in Jobs, Acts(j) PROVE Over(k)'
  <2>1. j \notin Own(k)
    BY <1>6 DEF Acts, Over
  <2>2. pc'[review[k]] = pc[review[k]] /\ pc'[cleanup[k]] = pc[cleanup[k]]
    BY <1>6, <2>1 DEF Acts, Own
  <2> QED
    BY <1>6, <2>2 DEF Over, ReviewDue, CleanupDue, Runs, Own, Active, ci
<1> QED
  BY <1>2, <1>3, <1>4, <1>5, <1>6, PipelineShape

\* The CI alone starts jobs.
LEMMA Starts ==
  ASSUME TypeInv, [PipelineNext]_pipelineVars, NEW j \in Jobs, pc[j] = "idle"
  PROVE  \/ pc'[j] = "idle" /\ before'[j] = before[j]
         \/ \E i \in Pipelines : \/ j = review[i] /\ StartReview(i)
                                 \/ j = cleanup[i] /\ StartCleanup(i)
<1> USE OwnOK DEF TypeInv, TypeOK
<1>1. ASSUME NEW h \in Jobs, Start(h), h # j PROVE pc'[j] = "idle" /\ before'[j] = before[j]
  BY <1>1 DEF Start, Goto
<1>2. ASSUME NEW h \in Jobs, Acts(h) PROVE pc'[j] = "idle" /\ before'[j] = before[j]
  BY <1>2 DEF Acts, Active
<1> QED
  BY <1>1, <1>2, PipelineShape DEF StartReview, StartCleanup, control, history

\* A review starts when no newer one has, and a clean-up when its review is over.
LEMMA OrderStep ==
  ASSUME TypeInv, HistoryInv, PipelineTypeOK, CiInv, OrderInv, [PipelineNext]_pipelineVars
  PROVE  OrderInv'
<1> USE OwnOK, JobsOK
<1>0. [Next]_vars
  BY PipelineStepsAreDeploys
<1>1. ASSUME NEW k \in Pipelines, NEW l \in Pipelines, k < l, l <= created', k \notin canceled'
      PROVE  Over(k)'
  <2>1. canceled \subseteq canceled'
    BY PipelineShape DEF ci, Create, EarlierFails, Cancel, StartReview, StartCleanup
  <2>2. created' = created \/ (Create /\ created' = created + 1)
    BY PipelineShape DEF ci, Create, EarlierFails, Cancel, StartReview, StartCleanup
  <2>3. k <= created /\ k \in 1..created
    BY <1>1, <2>2 DEF PipelineTypeOK, Pipelines
  <2>4. Over(k)
    <3>1. CASE l <= created
      BY <1>1, <2>1, <3>1 DEF OrderInv
    <3>2. CASE Create
      BY <1>1, <2>3, <3>2 DEF Create
    <3> QED
      BY <1>1, <2>2, <3>1, <3>2
  <2> QED
    BY <1>1, <2>3, <2>4, OverStays
<1>2. ASSUME NEW k \in Pipelines, StartReview(k)
      PROVE  /\ ReviewDue(k) /\ pc[review[k]] = "idle" /\ pc[cleanup[k]] = "idle"
             /\ pc'[cleanup[k]] = "idle"
             /\ before'[review[k]] \subseteq {i \in Jobs : pc[i] \in Ended}
  <2>1. ReviewDue(k) /\ pc[review[k]] = "idle" /\ pc[cleanup[k]] = "idle"
    BY <1>2 DEF StartReview, ReviewDue, CiInv
  <2>2. cleanup[k] # review[k]
    OBVIOUS
  <2> QED
    BY <1>2, <2>1, <2>2 DEF StartReview, Start, Goto, TypeInv, TypeOK
<1>3. ASSUME NEW k \in Pipelines, StartCleanup(k), pc[review[k]] # "idle"
      PROVE  before[review[k]] \cap Deployers \subseteq before'[cleanup[k]]
  <2>1. {i \in Jobs : pc[i] \in Ended} \ Cleaners \subseteq before'[cleanup[k]]
    BY <1>3 DEF StartCleanup, Start, TypeInv, TypeOK
  <2> QED
    BY <2>1 DEF HistoryInv
<1>4. ASSUME NEW k \in Pipelines, NEW l \in Pipelines, k < l
      PROVE  review[l] \notin before'[review[k]]
  <2>1. CASE before'[review[k]] = before[review[k]]
    BY <1>4, <2>1 DEF OrderInv
  <2>2. CASE StartReview(k)
    <3>1. pc[review[l]] \in Ended => l <= created
      BY DEF CiInv, Ended
    <3> QED
      BY <1>2, <1>4, <2>2, <3>1 DEF OrderInv, Over, ReviewDue, Runs
  <2> QED
    BY <1>0, <2>1, <2>2, StartedStays, Starts, PipelineAssumption
<1>5. ASSUME NEW k \in Pipelines, pc'[cleanup[k]] # "idle", pc'[review[k]] # "idle"
      PROVE  before'[review[k]] \cap Deployers \subseteq before'[cleanup[k]]
  <2>1. pc[review[k]] # "idle"
    BY <1>2, <1>5, Starts, PipelineAssumption
  <2>2. before'[review[k]] = before[review[k]]
    BY <1>0, <2>1, StartedStays
  <2>3. CASE pc[cleanup[k]] # "idle"
    BY <1>0, <2>1, <2>2, <2>3, StartedStays DEF OrderInv
  <2>4. CASE pc[cleanup[k]] = "idle"
    <3>1. StartCleanup(k)
      BY <1>5, <2>4, Starts, PipelineAssumption
    <3> QED
      BY <1>3, <2>1, <2>2, <3>1
  <2> QED
    BY <2>3, <2>4
<1> QED
  BY <1>1, <1>4, <1>5 DEF OrderInv

\* What was the cause of a failure stays so.
LEMMA CausesStay ==
  ASSUME TypeInv, HistoryInv, [PipelineNext]_pipelineVars, NEW h \in Jobs, NEW j \in Jobs
  PROVE  /\ Overlap(h, j) => Overlap(h, j)'
         /\ pc[j] # "idle" /\ LeftLocked(h, j) => LeftLocked(h, j)'
<1> USE OwnOK, JobsOK
<1>1. \A i \in Jobs : pc[i] # "idle" => /\ pc'[i] # "idle" /\ before'[i] = before[i]
                                        /\ pc[i] \in Ended => pc'[i] = pc[i]
  BY PipelineStepsAreDeploys, StartedStays
<1>2. Overlap(h, j) => Overlap(h, j)'
  BY <1>1 DEF Overlap
<1>3. ASSUME pc[j] # "idle", LeftLocked(h, j) PROVE LeftLocked(h, j)'
  <2>1. before'[j] = before[j] /\ h \in before[j] /\ pc'[h] = "killed"
    BY <1>1, <1>3 DEF LeftLocked, Ended
  <2>2. \A i \in before[j] : i \in Jobs /\ before'[i] = before[i] /\ pc'[i] = pc[i]
    BY <1>1 DEF HistoryInv, Ended, TypeInv, TypeOK
  <2>3. canceled \subseteq canceled'
    BY PipelineShape DEF ci, Create, EarlierFails, Cancel, StartReview, StartCleanup
  <2> QED
    BY <1>3, <2>1, <2>2, <2>3 DEF LeftLocked
<1> QED
  BY <1>2, <1>3

\* A release that a review finds locked is locked by one that overlaps it, or by one
\* that was canceled before it: any pipeline in between that was not canceled has
\* upgraded the release, or has cleaned up after its review.
LEMMA LockHasCause ==
  ASSUME OnlyCancellations, TypeInv, DeployInv, HistoryInv, CleanInv, CiInv, JobsInv, OrderInv,
         ReleasedInv, NEW j \in Deployers, pc[j] = "upgrade", rel[at[j]].status = "pending"
  PROVE  \E h \in Deployers : Overlap(h, j) \/ LeftLocked(h, j)
<1> USE OwnOK, JobsOK
<1>1. PICK p \in Projects : p = at[j]
  BY DEF TypeInv, TypeOK
<1>2. PICK h \in Deployers : rel[p].holder = h /\ pc[h] \in {"upgrading", "killed"}
  BY <1>1 DEF DeployInv, LockInv, LockStages, OnlyCancellations
<1> SUFFICES ASSUME ~Overlap(h, j) PROVE LeftLocked(h, j)
  OBVIOUS
<1>3. h \in before[j] /\ pc[h] = "killed"
  <2>1. j \notin before[h] /\ h # j
    BY <1>2 DEF HistoryInv, Ended
  <2>2. h \in before[j]
    BY <1>2, <2>1 DEF Overlap
  <2> QED
    BY <1>2, <2>2 DEF HistoryInv, Ended
<1>4. \A c \in Cleaners : pc[c] = "succeeded" => h \notin before[c]
  BY <1>1, <1>2 DEF CleanInv, Freed
<1>5. ASSUME NEW k \in Pipelines, h \in before[review[k]], review[k] \in before[j]
      PROVE  k \in canceled
  <2> SUFFICES ASSUME k \notin canceled PROVE FALSE
    OBVIOUS
  <2>1. pc[review[k]] \in Ended
    BY <1>5 DEF HistoryInv
  <2>2. PICK l \in Pipelines : j = review[l]
    BY DEF JobsInv
  <2>3. k < l /\ l <= created
    <3>1. k # l
      BY <1>5, <2>2 DEF HistoryInv
    <3>2. ~(l < k)
      BY <1>5, <2>2 DEF OrderInv
    <3>3. l <= created
      BY <2>2 DEF CiInv
    <3> QED
      BY <3>1, <3>2, <3>3 DEF Pipelines
  <2>4. Over(k) /\ k <= created
    BY <2>1, <2>3 DEF OrderInv, CiInv, Ended
  <2>5. pc[review[k]] # "killed"
    BY DEF JobsInv, Own
  <2>6. pc[review[k]] # "succeeded"
    <3>1. pc[review[k]] = "succeeded" => p \in upgraded[review[k]]
      BY DEF DeployInv, LoopInv
    <3> QED
      BY <1>1, <1>2, <1>5, <3>1 DEF ReleasedInv
  <2>7. pc[review[k]] = "failed"
    BY <2>1, <2>5, <2>6 DEF Ended
  <2>8. pc[cleanup[k]] = "succeeded"
    <3>1. pc[cleanup[k]] # "idle" /\ ~Active(cleanup[k])
      BY <2>4, <2>7 DEF Over, CleanupDue, Runs, Own
    <3>2. pc[cleanup[k]] \notin {"killed", "failed"}
      BY DEF JobsInv, Own
    <3> QED
      BY <3>1, <3>2 DEF Active, Ended
  <2>9. h \in before[cleanup[k]]
    BY <1>5, <2>7, <2>8 DEF OrderInv
  <2> QED
    BY <1>4, <2>8, <2>9
<1> QED
  BY <1>3, <1>4, <1>5 DEF LeftLocked

\* The step with which a review fails.
LEMMA CauseStep ==
  ASSUME OnlyCancellations, TypeInv, DeployInv, HistoryInv, CleanInv, CiInv, ShelterInv,
         ReleasedInv, JobsInv, OrderInv, FailureHasCause, [PipelineNext]_pipelineVars
  PROVE  FailureHasCause'
<1> USE JobsOK
<1>0. [Next]_vars
  BY PipelineStepsAreDeploys
<1> SUFFICES ASSUME NEW j \in Deployers, pc'[j] = "failed", Sheltered(j)'
             PROVE  /\ kind'[j] = "chart"
                    /\ \E h \in Deployers : (Overlap(h, j) \/ LeftLocked(h, j))'
  BY DEF FailureHasCause, Sheltered
<1>1. ASSUME kind[j] = "chart", pc[j] # "idle", kind'[j] = kind[j],
             \E h \in Deployers : Overlap(h, j) \/ LeftLocked(h, j)
      PROVE  /\ kind'[j] = "chart"
             /\ \E h \in Deployers : (Overlap(h, j) \/ LeftLocked(h, j))'
  BY <1>1, CausesStay
<1>2. pc[j] # "idle" /\ Sheltered(j)
  <2>1. pc[j] # "idle"
    BY <1>0, DeployerSteps, KillActs, DeployStepActs DEF Start, Goto, Acts, Active, TypeInv, TypeOK
  <2> QED
    BY <1>0, <2>1, ShelteredBefore
<1>3. CASE pc[j] = "failed"
  <2>1. kind[j] = "chart" /\ \E h \in Deployers : Overlap(h, j) \/ LeftLocked(h, j)
    BY <1>2, <1>3 DEF FailureHasCause, Sheltered
  <2>2. kind'[j] = kind[j]
    BY <1>0, <1>3, DeployerSteps, KillActs, DeployStepActs DEF Start, Acts, Active, Ended
  <2> QED
    BY <1>1, <1>2, <2>1, <2>2
<1>4. CASE pc[j] # "failed"
  <2>1. DeployStep(j)
    BY <1>0, <1>2, <1>4, DeployerSteps DEF Start, Kill, Goto, TypeInv, TypeOK
  <2>2. Thrives(j)
    BY <1>2, <2>1, DeployStepActs DEF ShelterInv, Acts
  <2>3. BeginUpgrade(j) /\ rel[at[j]].status = "pending"
    BY <2>1, <2>2, ShelterOwnSteps
  <2>4. pc[j] = "upgrade" /\ kind[j] = "chart" /\ UNCHANGED kind
    BY <2>3 DEF BeginUpgrade, TypeInv, StageOK
  <2> QED
    BY <1>1, <1>2, <2>3, <2>4, LockHasCause
<1> QED
  BY <1>3, <1>4

\* Where cancellation is the only failure, nothing but a clean-up, a review at the
\* same time or a canceled upgrade makes a review fail: neither races over the
\* namespace and the secrets, nor older locks once a pipeline was left to its end.
THEOREM FailureHasCauseHolds ==
  ASSUME OnlyCancellations PROVE PipelineSpec => []FailureHasCause
<1> DEFINE CauseInv == ShelterInv /\ ReleasedInv /\ JobsInv /\ OrderInv /\ FailureHasCause
<1>1. PipelineInit => CauseInv
  <2> SUFFICES ASSUME PipelineInit PROVE CauseInv
    OBVIOUS
  <2> USE JobsOK, OwnOK DEF PipelineInit, Init
  <2>1. ShelterInv /\ JobsInv /\ FailureHasCause
    BY DEF ShelterInv, JobsInv, FailureHasCause, Active, Own
  <2>2. ReleasedInv
    BY DEF ReleasedInv
  <2>3. OrderInv
    BY DEF OrderInv, Pipelines
  <2> QED
    BY <2>1, <2>2, <2>3
<1>2. /\ TypeInv /\ DeployInv /\ IsolationInv /\ PipelineTypeOK /\ CiInv /\ CauseInv
      /\ [PipelineNext]_pipelineVars
      => CauseInv'
  BY PipelineStepsAreDeploys, ShelterStep, ReleasedStep, JobsStep, OrderStep, CauseStep
     DEF IsolationInv
<1>3. CauseInv => FailureHasCause
  OBVIOUS
<1> HIDE DEF CauseInv
<1> QED
  BY <1>1, <1>2, <1>3, PipelineInvariant, PTL DEF PipelineSpec
=============================================================================
