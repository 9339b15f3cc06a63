------------------------------- MODULE Pipeline -------------------------------
(***************************************************************************)
(* The pipelines of one merge request, as .gitlab-ci-base-template.yml     *)
(* defines them: stages that build, test and deploy services, then the     *)
(* review deployment, and a clean-up that runs when any job before it has  *)
(* failed.  The jobs are those of Deploy; this module says when the CI     *)
(* starts and cancels them.  It leaves out stop_review, the same command   *)
(* started by hand at any time, which is what a cleaner of Deploy is.      *)
(***************************************************************************)
EXTENDS Deploy

CONSTANTS
  P,           \* pipelines 1..P, in the order in which commits are pushed
  review,      \* review[i]: the deploy_application of pipeline i
  cleanup      \* cleanup[i]: its cleanup_review

Pipelines == 1..P

ASSUME PipelineAssumption ==
  /\ P \in Nat
  /\ review \in [Pipelines -> Deployers]
  /\ cleanup \in [Pipelines -> Cleaners]
  /\ \A i, k \in Pipelines : i # k => review[i] # review[k] /\ cleanup[i] # cleanup[k]

VARIABLES
  created,     \* how many pipelines there are
  broken,      \* the pipelines of which a job before the review has failed
  canceled,    \* the canceled pipelines
  underway     \* history: the clean-ups that ran when pipeline i was created

ci == <<created, broken, canceled, underway>>
pipelineVars == <<vars, ci>>

Own(i) == {review[i], cleanup[i]}
Runs(i) == i <= created /\ i \notin canceled
ReviewDue(i) == Runs(i) /\ i \notin broken /\ pc[review[i]] = "idle"

(* Faulty variants of CleanupDue, one plausible mistake each.                *)

\* cleanup_review runs whether or not a job failed (when: always).
MutCleanupAlways(i) ==
  /\ Runs(i) /\ pc[cleanup[i]] = "idle"
  /\ i \in broken \/ pc[review[i]] \in {"failed", "succeeded"}

\* cleanup_review does not look at failures of the review.
MutCleanupNever(i) == Runs(i) /\ pc[cleanup[i]] = "idle" /\ i \in broken

\* cleanup_review, when: on_failure.
CleanupDue(i) == /\ Runs(i) /\ pc[cleanup[i]] = "idle"
                 /\ i \in broken \/ pc[review[i]] = "failed"

\* Pipeline i has nothing left to do.
Over(i) == ~ReviewDue(i) /\ ~CleanupDue(i) /\ \A j \in Own(i) : ~Active(j)

PipelineInit ==
  /\ Init
  /\ created = 0
  /\ broken = {}
  /\ canceled = {}
  /\ underway = [i \in Pipelines |-> {}]
-----------------------------------------------------------------------------
(* The CI *)

\* A commit is pushed.  The jobs of older pipelines are interruptible (unless the
\* project extends .docker-image-scan or .sonarqube), so that the CI cancels the
\* pipelines it makes redundant, those that are not over.
Create ==
  /\ created < P
  /\ created' = created + 1
  /\ canceled' = canceled \cup {i \in 1..created : ~Over(i)}
  /\ underway' = [underway EXCEPT ![created + 1] = {c \in Cleaners : Active(c)}]
  /\ UNCHANGED <<vars, broken>>

\* A job of the stages before the review fails: build, test, review-service.
EarlierFails(i) ==
  /\ ReviewDue(i)
  /\ broken' = broken \cup {i}
  /\ UNCHANGED <<vars, created, canceled, underway>>

\* They have passed, and the review starts.
StartReview(i) == ReviewDue(i) /\ Start(review[i]) /\ UNCHANGED ci

\* cleanup_review, when: on_failure.
StartCleanup(i) == CleanupDue(i) /\ Start(cleanup[i]) /\ UNCHANGED ci

\* Somebody cancels a pipeline.
Cancel(i) ==
  /\ i <= created /\ i \notin canceled /\ ~Over(i)
  /\ canceled' = canceled \cup {i}
  /\ UNCHANGED <<vars, created, broken, underway>>

\* The runner of a canceled pipeline's job learns of it.
KillCanceled(i) == i \in canceled /\ (\E j \in Own(i) : Kill(j)) /\ UNCHANGED ci

\* What the jobs and the cluster do by themselves.
JobStep(j) == /\ \/ j \in Deployers /\ DeployStep(j)
                 \/ j \in Cleaners /\ CleanStep(j)
              /\ UNCHANGED ci
ClusterStep == (Controller \/ \E p \in Projects : PodRestart(p)) /\ UNCHANGED ci

\* Nobody pushes any more, and everything has ended.
AllOver == /\ created = P /\ \A i \in Pipelines : Over(i)
           /\ UNCHANGED pipelineVars

PipelineNext ==
  \/ Create
  \/ \E i \in Pipelines : \/ EarlierFails(i) \/ StartReview(i) \/ StartCleanup(i)
                          \/ Cancel(i) \/ KillCanceled(i)
  \/ \E j \in Jobs : JobStep(j)
  \/ ClusterStep
  \/ AllOver

\* A runner picks up the jobs that are due and ends the earlier stages one way
\* or the other; running jobs and the namespace controller go on, as in Deploy.
\* Nobody has to push or to cancel.
PipelineFairness ==
  /\ \A i \in Pipelines : WF_pipelineVars(EarlierFails(i) \/ StartReview(i) \/ StartCleanup(i))
  /\ \A j \in Jobs : WF_pipelineVars(JobStep(j))
  /\ WF_pipelineVars(Controller /\ UNCHANGED ci)

PipelineSpec == PipelineInit /\ [][PipelineNext]_pipelineVars
FairPipelineSpec == PipelineSpec /\ PipelineFairness
-----------------------------------------------------------------------------
(* Properties *)

\* The values the variables of the CI take.
PipelineTypeOK ==
  /\ created \in 0..P
  /\ broken \subseteq 1..created
  /\ canceled \subseteq 1..created
  /\ underway \in [Pipelines -> SUBSET Cleaners]

\* Job h was canceled while it upgraded, before j started, and nothing has put
\* that right in between: neither a clean-up that succeeded, nor a pipeline
\* whose review failed of it and whose own clean-up was not canceled.
LeftLocked(h, j) ==
  /\ pc[h] = "killed" /\ h \in before[j]
  /\ \A c \in Cleaners : h \in before[c] /\ c \in before[j] => pc[c] # "succeeded"
  /\ \A k \in Pipelines :
       h \in before[review[k]] /\ review[k] \in before[j] => k \in canceled

\* Where cancellation is the only failure, a review fails only because a
\* clean-up overlapped it, or at helm, because another review overlapped it or
\* an upgrade canceled before it has left the release locked.  Races over the
\* namespace and the secrets are harmless (create_namespace accepts a conflict,
\* create_secret replaces), and a canceled upgrade costs at most one more
\* pipeline, whose own clean-up makes the next one work.
FailureHasCause ==
  \A j \in Deployers :
    pc[j] = "failed" =>
      \/ \E c \in Cleaners : Overlap(c, j)
      \/ /\ kind[j] = "chart"
         /\ \E i \in Deployers : Overlap(i, j) \/ LeftLocked(i, j)

\* What a review has deployed, alone, is taken away only by a newer pipeline that
\* fails, or by a clean-up that was under way when its pipeline was created:
\* clean-ups still to come are those of pipelines that the CI has canceled.
ReviewStaysUp ==
  \A i \in Pipelines :
    /\ pc[review[i]] = "succeeded"
    /\ \A j \in Deployers \ {review[i]} : pc[j] = "idle" \/ j \in before[review[i]]
    => \/ \A p \in Projects : rel[p].image = review[i]
       \/ \E k \in Pipelines : /\ pc[cleanup[k]] # "idle"
                               /\ k > i \/ cleanup[k] \in underway[i]

\* Every pipeline comes to its end, and with it every job, whatever else goes on
\* in the environment: again and again nothing is left to do.
EveryPipelineEnds == []<>(\A i \in Pipelines : Over(i))
=============================================================================
