------------------------------ MODULE ImageBuild ------------------------------
(***************************************************************************)
(* create_images and test_setup: invocations of create_images build stages *)
(* of a Dockerfile and push them under several tags to one registry; a     *)
(* file they leave tells the tests of the same pipeline which image to     *)
(* pull.  Pipelines of the same commit or branch overlap, invocations of   *)
(* one CI job follow each other on the same runner.                        *)
(***************************************************************************)
EXTENDS Naturals, Sequences, FiniteSets

CONSTANTS
  Builds,      \* invocations of create_images
  Pipelines,   \* pipelines, each with one build job and one test job
  Assignments, \* which invocations the build jobs may make, as functions
  Repo,        \* the image repository it pushes to
  Commits,     \* what may be built: a commit's sha, a word, and its ref, a
               \*   sequence of words: the tag made of the ref has a dash
               \*   wherever the name of the branch has _, / or -
  Dockerfiles, \* Dockerfiles that occur, as sequences of stage names, "": unnamed
  TestStage,   \* DOCKER_TEST_IMAGE_STAGE, "": not set
  TagSettings, \* the DOCKER_IMAGE_TAGS that occur: None or a set of words
  Faults,      \* whether commands may fail and jobs be cancelled
  None

Words == STRING

ASSUME ImageBuildAssumption ==
  /\ Assignments \subseteq [Builds -> Pipelines]
  /\ DOMAIN Repo = Builds
  /\ \A c \in Commits : c.sha \in Words /\ c.ref \in Seq(Words) /\ Len(c.ref) > 0
  /\ \A c, d \in Commits : c.ref[1] # d.sha
  /\ \A ts \in TagSettings \ {None} : ts \subseteq Words
  /\ \A ts \in TagSettings \ {None}, c \in Commits : c.sha \notin ts
  /\ \A d \in Dockerfiles :
       /\ d \in Seq(Words) /\ Len(d) > 0
       /\ \A i, k \in 1..Len(d) : d[i] = d[k] /\ d[i] # "" => i = k
  /\ TestStage \in Words
  /\ Faults \in BOOLEAN

VARIABLES
  pipeline,    \* the pipeline whose build job makes an invocation
  commit,      \* what each invocation builds
  dockerfile,  \* the Dockerfile of each repository and commit
  imageTags,   \* DOCKER_IMAGE_TAGS
  pc, stage,   \* per invocation: what it does next, the stage it is at
  pushed,      \* per invocation: the tags of that stage that are pushed
  registry,    \* the images in the registry: tag, and what was built from what
  builder,     \* the runners (one per pipeline) that have a builder "kolgabk"
  artifact,    \* per pipeline: the image docker_build.env names, None: no file
  tested,      \* per pipeline: the images test_setup pulled, None: not run
  before       \* the invocations that were over when one began: history

settings == <<pipeline, commit, dockerfile, imageTags>>
vars == <<settings, pc, stage, pushed, registry, builder, artifact, tested, before>>

Sha(b) == commit[b].sha
Ref(b) == commit[b].ref
File(b) == dockerfile[<<Repo[b], Sha(b)>>]

\* build_stages: the final stage and the test stage are built, no other.
IsFinal(b, i) == i = Len(File(b))
IsBuilt(b, i) == IsFinal(b, i) \/ (TestStage # "" /\ File(b)[i] = TestStage)

Named(base, name) == IF name = "" THEN base ELSE Append(base, name)
\* The tags besides the commit's: those configured, else the branch's.
ExtraTags(b) == IF imageTags = None THEN {Ref(b)} ELSE {<<t>> : t \in imageTags}
\* Faulty variant: tags without the stage's name for every stage.
MutBareTags(b, i) == LET bases == {<<Sha(b)>>} \cup ExtraTags(b)
                     IN bases \cup {Named(t, File(b)[i]) : t \in bases}
\* The tags of a stage: with its name, and without it if it is the final one.
ImageTags(b, i) ==
  LET bases == {<<Sha(b)>>} \cup ExtraTags(b)
  IN {Named(t, File(b)[i]) : t \in bases} \cup (IF IsFinal(b, i) THEN bases ELSE {})

\* The stage built after the i-th, 0 if that is the last one.
After(b, i) == LET later == {k \in i+1..Len(File(b)) : IsBuilt(b, k)}
               IN IF later = {} THEN 0 ELSE CHOOSE k \in later : \A m \in later : k <= m

\* What the tag of a repository holds: one image or none.
Holds(r, t) == {e \in registry : e.repo = r /\ e.tag = t}
Image(b) == [sha |-> Sha(b), stage |-> stage[b], by |-> b]
TestImage(b) == Named(<<Sha(b)>>, TestStage)

Init ==
  /\ pipeline \in Assignments
  /\ commit \in [Builds -> Commits]
  /\ \A b, c \in Builds : pipeline[b] = pipeline[c] => commit[b] = commit[c]
  /\ dockerfile \in [{<<Repo[b], Sha(b)>> : b \in Builds} -> Dockerfiles]
  /\ imageTags \in TagSettings
  /\ pc = [b \in Builds |-> "new"] /\ stage = [b \in Builds |-> 0]
  /\ pushed = [b \in Builds |-> {}]
  /\ registry = {} /\ builder = {}
  /\ artifact = [l \in Pipelines |-> None] /\ tested = [l \in Pipelines |-> None]
  /\ before = [b \in Builds |-> {}]

Over(b) == pc[b] \in {"done", "failed"}
Goes(b, from, to) == pc[b] = from /\ pc' = [pc EXCEPT ![b] = to]
-----------------------------------------------------------------------------
(* Faulty variants of the steps below, one plausible bug each. *)

\* A failed build is logged but does not end the command.
MutFails(b) ==
  /\ Faults /\ pc[b] = "build" /\ pushed[b] # ImageTags(b, stage[b])
  /\ LET next == After(b, stage[b])
     IN /\ stage' = [stage EXCEPT ![b] = next]
        /\ pc' = [pc EXCEPT ![b] = IF next = 0 THEN "artifact" ELSE "build"]
  /\ pushed' = [pushed EXCEPT ![b] = {}]
  /\ UNCHANGED <<settings, registry, builder, artifact, tested, before>>

\* The artifact names the branch's image.
MutWriteArtifact(b) ==
  /\ Goes(b, "artifact", "done")
  /\ artifact' = [artifact EXCEPT ![pipeline[b]] = [repo |-> Repo[b], tag |-> Named(Ref(b), TestStage)]]
  /\ UNCHANGED <<settings, stage, pushed, registry, builder, tested, before>>

\* A push leaves the image that had the tag.
MutTwoImages(b) ==
  /\ pc[b] = "build"
  /\ \E t \in ImageTags(b, stage[b]) \ pushed[b] :
       /\ registry' = registry \cup {[repo |-> Repo[b], tag |-> t, image |-> Image(b)]}
       /\ pushed' = [pushed EXCEPT ![b] = @ \cup {t}]
  /\ UNCHANGED <<settings, pc, stage, builder, artifact, tested, before>>

\* A tag that exists is not moved.
MutPush(b) ==
  /\ pc[b] = "build"
  /\ \E t \in ImageTags(b, stage[b]) \ pushed[b] :
       /\ registry' = registry \cup (IF Holds(Repo[b], t) # {} THEN {}
                                     ELSE {[repo |-> Repo[b], tag |-> t, image |-> Image(b)]})
       /\ pushed' = [pushed EXCEPT ![b] = @ \cup {t}]
  /\ UNCHANGED <<settings, pc, stage, builder, artifact, tested, before>>
-----------------------------------------------------------------------------
(* create_images *)

\* Submodules are updated.  The script of a CI job runs one command at a time
\* and ends with the first that fails.
Begin(b) ==
  /\ \A c \in Builds \ {b} : pipeline[c] = pipeline[b] => pc[c] \in {"new", "done"}
  /\ Goes(b, "new", "buildkit")
  /\ before' = [before EXCEPT ![b] = {c \in Builds : Over(c)}]
  /\ UNCHANGED <<settings, stage, pushed, registry, builder, artifact, tested>>

\* setup_buildkit and login.  docker buildx creates no second builder of a name.
SetupBuildkit(b) ==
  /\ pipeline[b] \notin builder
  /\ Goes(b, "buildkit", "build")
  /\ builder' = builder \cup {pipeline[b]}
  /\ stage' = [stage EXCEPT ![b] = After(b, 0)]
  /\ UNCHANGED <<settings, pushed, registry, artifact, tested, before>>

BuilderExists(b) ==
  /\ pipeline[b] \in builder
  /\ Goes(b, "buildkit", "failed")
  /\ UNCHANGED <<settings, stage, pushed, registry, builder, artifact, tested, before>>

\* docker buildx build --push puts one tag after the other into the registry.
Push(b) ==
  /\ pc[b] = "build"
  /\ \E t \in ImageTags(b, stage[b]) \ pushed[b] :
       /\ registry' = (registry \ Holds(Repo[b], t))
                        \cup {[repo |-> Repo[b], tag |-> t, image |-> Image(b)]}
       /\ pushed' = [pushed EXCEPT ![b] = @ \cup {t}]
  /\ UNCHANGED <<settings, pc, stage, builder, artifact, tested, before>>

\* build_stage returns; build_stages goes on to the next stage.
StageBuilt(b) ==
  /\ pc[b] = "build" /\ pushed[b] = ImageTags(b, stage[b])
  /\ LET next == After(b, stage[b])
     IN /\ stage' = [stage EXCEPT ![b] = next]
        /\ pc' = [pc EXCEPT ![b] = IF next = 0 THEN "artifact" ELSE "build"]
  /\ pushed' = [pushed EXCEPT ![b] = {}]
  /\ UNCHANGED <<settings, registry, builder, artifact, tested, before>>

\* The file is written anew, whatever an earlier invocation left in it.
WriteArtifact(b) ==
  /\ Goes(b, "artifact", "done")
  /\ artifact' = [artifact EXCEPT ![pipeline[b]] = [repo |-> Repo[b], tag |-> TestImage(b)]]
  /\ UNCHANGED <<settings, stage, pushed, registry, builder, tested, before>>

\* Any command fails, or the job is cancelled; what is pushed stays.
Fails(b) ==
  /\ Faults /\ pc[b] \notin {"new", "done", "failed"}
  /\ pc' = [pc EXCEPT ![b] = "failed"]
  /\ UNCHANGED <<settings, stage, pushed, registry, builder, artifact, tested, before>>
-----------------------------------------------------------------------------
(* test_setup, in a later job of a pipeline whose builds are done.  It raises *)
(* without an artifact, but not when the image cannot be pulled.              *)

TestSetup(l) ==
  /\ \A b \in Builds : pipeline[b] = l => pc[b] = "done"
  /\ tested[l] = None /\ artifact[l] # None
  /\ LET found == {e.image : e \in Holds(artifact[l].repo, artifact[l].tag)}
     IN \/ tested' = [tested EXCEPT ![l] = found]
        \/ Faults /\ tested' = [tested EXCEPT ![l] = {}]
  /\ UNCHANGED <<settings, pc, stage, pushed, registry, builder, artifact, before>>

Step(b) ==
  \/ Begin(b) \/ SetupBuildkit(b) \/ BuilderExists(b)
  \/ Push(b) \/ StageBuilt(b) \/ WriteArtifact(b) \/ Fails(b)
Next == (\E b \in Builds : Step(b)) \/ (\E l \in Pipelines : TestSetup(l))

Spec == Init /\ [][Next]_vars
-----------------------------------------------------------------------------
BuiltStages(b) == {i \in 1..Len(File(b)) : IsBuilt(b, i)}
TagsOf(b) == UNION {ImageTags(b, i) : i \in BuiltStages(b)}

TypeOK ==
  /\ \A b \in Builds : File(b) \in Dockerfiles
  /\ pc \in [Builds -> {"new", "buildkit", "build", "artifact", "done", "failed"}]
  /\ \A b \in Builds : /\ stage[b] \in 0..Len(File(b))
                       /\ pc[b] = "build" => stage[b] \in BuiltStages(b)
                       /\ pushed[b] \subseteq TagsOf(b)
  /\ \A e, f \in registry : e.repo = f.repo /\ e.tag = f.tag => e = f
  /\ builder \subseteq Pipelines
  /\ before \in [Builds -> SUBSET Builds]

\* A tag of a commit is an image of that commit, and of the stage it names: what
\* deploy_application deploys (the tag without a stage) is the final stage's,
\* whatever other branches and retries push, in any order and however they end.
ShaTagsAreTrue ==
  \A e \in registry, b \in Builds :
    (e.repo = Repo[b] /\ e.tag[1] = Sha(b)) =>
      /\ e.image.sha = Sha(b)
      /\ e.tag = Named(<<Sha(b)>>, File(b)[e.image.stage])
         \/ (e.tag = <<Sha(b)>> /\ IsFinal(b, e.image.stage))

\* A create_images that succeeded leaves every image it had to build in the
\* registry, under the tags of its commit.
SuccessMeansPushed ==
  \A b \in Builds : pc[b] = "done" =>
    \A i \in BuiltStages(b) :
      /\ \E e \in Holds(Repo[b], Named(<<Sha(b)>>, File(b)[i])) : e.image.stage = i
      /\ IsFinal(b, i) => \E e \in Holds(Repo[b], <<Sha(b)>>) : e.image.stage = i

\* If a successful invocation shared its tags only with invocations that were
\* over when it began, or have not begun, all of its tags are its own images:
\* those of the branch have moved, and those of a stage are identical
\* (docs/pages/reference/stages.md:64), also after an attempt that failed midway.
LoneBuildOwnsItsTags ==
  \A b \in Builds :
    /\ pc[b] = "done"
    /\ \A c \in Builds \ {b} :
         Repo[c] # Repo[b] \/ TagsOf(c) \cap TagsOf(b) = {} \/ c \in before[b] \/ pc[c] = "new"
    => \A t \in TagsOf(b) : \E e \in Holds(Repo[b], t) : e.image.by = b

\* The image tests run on is of the commit and the stage they are meant to test,
\* though other pipelines push the same branch.
TestedIsTheCommit ==
  \A b \in Builds :
    LET pulled == tested[pipeline[b]]
    IN pulled # None => \A i \in pulled :
         /\ i.sha = Sha(b)
         /\ IF TestStage = "" THEN IsFinal(b, i.stage)
            ELSE File(b)[i.stage] = TestStage

=============================================================================
