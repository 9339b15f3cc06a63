--------------------------- MODULE ImageBuildProofs ---------------------------
(* Theorems about ImageBuild for any number of invocations, pipelines, commits *)
(* and Dockerfiles: what the tags in the registry hold, and what tests pull.   *)
EXTENDS ImageBuild, SequenceTheorems, TLAPS

\* What Init chooses and no step changes.
SettingsInv ==
  /\ pipeline \in Assignments /\ pipeline \in [Builds -> Pipelines]
  /\ commit \in [Builds -> Commits]
  /\ \A b, c \in Builds : pipeline[b] = pipeline[c] => commit[b] = commit[c]
  /\ \A b \in Builds : File(b) \in Dockerfiles
  /\ imageTags \in TagSettings

\* A tag with the name of a stage begins as it does without, and ends with it.
LEMMA NamedIs ==
  ASSUME NEW W, NEW base \in Seq(W), Len(base) > 0, NEW name \in W
  PROVE  /\ Named(base, name)[1] = base[1]
         /\ name = "" => Named(base, name) = base
         /\ name # "" => /\ Named(base, name) # base
                         /\ \A other \in W : Named(base, other) = Named(base, name) => other = name
<1>1. Len(base) \in Nat
  BY LenProperties
<1>2. ASSUME NEW n \in W
      PROVE  /\ Len(Append(base, n)) = Len(base) + 1
             /\ Append(base, n)[1] = base[1]
             /\ Append(base, n)[Len(base) + 1] = n
  <2>1. /\ Len(Append(base, n)) = Len(base) + 1
        /\ \A i \in 1..Len(base) : Append(base, n)[i] = base[i]
        /\ Append(base, n)[Len(base) + 1] = n
    BY <1>2, AppendProperties
  <2> QED
    BY <1>1, <2>1
<1>3. CASE name = ""
  BY <1>3 DEF Named
<1>4. CASE name # ""
  <2>1. Named(base, name) = Append(base, name)
    BY <1>4 DEF Named
  <2>2. Named(base, name) # base
    BY <1>1, <1>2, <2>1
  <2>3. ASSUME NEW other \in W, Named(base, other) = Named(base, name) PROVE other = name
    <3>1. other # ""
      BY <2>2, <2>3 DEF Named
    <3>2. Append(base, other) = Append(base, name)
      BY <2>1, <2>3, <3>1 DEF Named
    <3> QED
      BY <1>2, <3>2
  <2> QED
    BY <1>2, <1>4, <2>1, <2>2, <2>3
<1> QED
  BY <1>3, <1>4

\* The stages of a Dockerfile.
LEMMA FileIs ==
  ASSUME SettingsInv, NEW b \in Builds
  PROVE  /\ Len(File(b)) \in Nat /\ Len(File(b)) > 0
         /\ \A i \in 1..Len(File(b)) : File(b)[i] \in Words
         /\ \A i, k \in 1..Len(File(b)) : File(b)[i] = File(b)[k] /\ File(b)[i] # "" => i = k
         /\ Sha(b) \in Words /\ <<Sha(b)>> \in Seq(Words) /\ Len(<<Sha(b)>>) = 1
         /\ <<Sha(b)>>[1] = Sha(b)
<1>1. File(b) \in Dockerfiles /\ commit[b] \in Commits
  BY DEF SettingsInv
<1>2. PICK d : d = File(b)
  OBVIOUS
<1>3. /\ d \in Seq(Words) /\ Len(d) > 0
      /\ \A i, k \in 1..Len(d) : d[i] = d[k] /\ d[i] # "" => i = k
  <2>1. \A f \in Dockerfiles :
          /\ f \in Seq(Words) /\ Len(f) > 0
          /\ \A i, k \in 1..Len(f) : f[i] = f[k] /\ f[i] # "" => i = k
    BY ImageBuildAssumption
  <2> QED
    BY <1>1, <1>2, <2>1
<1>4. Len(d) \in Nat /\ \A i \in 1..Len(d) : d[i] \in Words
  BY <1>3, LenProperties, ElementOfSeq
<1>5. PICK w \in Words : w = Sha(b)
  BY <1>1, ImageBuildAssumption DEF Sha
<1>6. <<w>> \in Seq(Words) /\ Len(<<w>>) = 1 /\ <<w>>[1] = w
  OBVIOUS
<1> QED
  BY <1>2, <1>3, <1>4, <1>5, <1>6

\* The tag of a commit and a stage begins with the sha.
LEMMA ShaFirst ==
  ASSUME SettingsInv, NEW b \in Builds, NEW i \in 1..Len(File(b))
  PROVE  Named(<<Sha(b)>>, File(b)[i])[1] = Sha(b)
<1>1. PICK bare, name : bare = <<Sha(b)>> /\ name = File(b)[i]
  OBVIOUS
<1>2. bare \in Seq(Words) /\ Len(bare) > 0 /\ bare[1] = Sha(b) /\ name \in Words
  <2>1. /\ File(b)[i] \in Words /\ <<Sha(b)>> \in Seq(Words) /\ Len(<<Sha(b)>>) = 1
        /\ <<Sha(b)>>[1] = Sha(b)
    BY FileIs
  <2> QED
    BY <1>1, <2>1
<1>3. Named(bare, name)[1] = bare[1]
  BY <1>2, NamedIs
<1> QED
  BY <1>1, <1>2, <1>3

\* A tag that begins with the sha of a commit is of that commit, and tells the
\* stage.
LEMMA ShaTagIs ==
  ASSUME SettingsInv, NEW b \in Builds, NEW i \in 1..Len(File(b)), NEW t \in ImageTags(b, i),
         NEW c \in Builds, t[1] = Sha(c)
  PROVE  /\ Sha(b) = Sha(c)
         /\ t = Named(<<Sha(b)>>, File(b)[i]) \/ (t = <<Sha(b)>> /\ IsFinal(b, i))
<1>1. commit[b] \in Commits /\ commit[c] \in Commits /\ imageTags \in TagSettings
  BY DEF SettingsInv
<1>2. /\ File(b)[i] \in Words /\ <<Sha(b)>> \in Seq(Words) /\ Len(<<Sha(b)>>) = 1
      /\ <<Sha(b)>>[1] = Sha(b)
  BY FileIs
<1>3. PICK base \in {<<Sha(b)>>} \cup ExtraTags(b) :
        t = Named(base, File(b)[i]) \/ (t = base /\ IsFinal(b, i))
  BY DEF ImageTags
<1>4. CASE base = <<Sha(b)>>
  <2>1. Named(base, File(b)[i])[1] = Sha(b)
    BY <1>4, ShaFirst
  <2> QED
    BY <1>2, <1>3, <1>4, <2>1
<1>5. CASE base \in ExtraTags(b)
  <2>1. base \in Seq(Words) /\ Len(base) > 0 /\ base[1] # Sha(c)
    <3>1. CASE imageTags = None
      <4>1. base = Ref(b)
        BY <1>5, <3>1 DEF ExtraTags
      <4> QED
        BY <1>1, <4>1, ImageBuildAssumption DEF Ref, Sha
    <3>2. CASE imageTags # None
      <4>1. PICK w \in imageTags : base = <<w>>
        BY <1>5, <3>2 DEF ExtraTags
      <4>2. w \in Words /\ w # Sha(c)
        <5>1. /\ \A ts \in TagSettings \ {None} : ts \subseteq Words
              /\ \A ts \in TagSettings \ {None}, k \in Commits : k.sha \notin ts
          BY ImageBuildAssumption
        <5>2. w \in Words /\ w # commit[c].sha
          BY <1>1, <3>2, <4>1, <5>1
        <5> QED
          BY <5>2 DEF Sha
      <4> QED
        BY <4>1, <4>2
    <3> QED
      BY <3>1, <3>2
  <2>2. Named(base, File(b)[i])[1] = base[1]
    BY <1>2, <2>1, NamedIs
  <2> QED
    BY <1>3, <2>1, <2>2
<1> QED
  BY <1>3, <1>4, <1>5

\* Two stages that are built have no tag of the commit in common.
LEMMA ShaTagsDiffer ==
  ASSUME SettingsInv, NEW b \in Builds, NEW i \in BuiltStages(b), NEW k \in BuiltStages(b),
         NEW t \in ImageTags(b, i) \cap ImageTags(b, k), t[1] = Sha(b)
  PROVE  i = k
<1>1. i \in 1..Len(File(b)) /\ k \in 1..Len(File(b)) /\ IsBuilt(b, i) /\ IsBuilt(b, k)
  BY DEF BuiltStages
<1>2. PICK bare, m, n : bare = <<Sha(b)>> /\ m = File(b)[i] /\ n = File(b)[k]
  OBVIOUS
<1>3. /\ bare \in Seq(Words) /\ Len(bare) > 0 /\ m \in Words /\ n \in Words
      /\ m = n /\ m # "" => i = k
  <2>1. <<Sha(b)>> \in Seq(Words) /\ Len(<<Sha(b)>>) = 1
    BY FileIs
  <2>2. \A j \in 1..Len(File(b)) : File(b)[j] \in Words
    BY FileIs
  <2>3. \A j, l \in 1..Len(File(b)) : File(b)[j] = File(b)[l] /\ File(b)[j] # "" => j = l
    BY FileIs
  <2>4. bare \in Seq(Words) /\ Len(bare) > 0
    BY <1>2, <2>1
  <2>5. m \in Words /\ n \in Words
    BY <1>1, <1>2, <2>2
  <2>6. m = n /\ m # "" => i = k
    BY <1>1, <1>2, <2>3
  <2> QED
    BY <2>4, <2>5, <2>6
<1>4. /\ t = Named(bare, m) \/ (t = bare /\ IsFinal(b, i))
      /\ t = Named(bare, n) \/ (t = bare /\ IsFinal(b, k))
  <2>1. /\ t = Named(<<Sha(b)>>, File(b)[i]) \/ (t = <<Sha(b)>> /\ IsFinal(b, i))
        /\ t = Named(<<Sha(b)>>, File(b)[k]) \/ (t = <<Sha(b)>> /\ IsFinal(b, k))
    BY <1>1, ShaTagIs
  <2> QED
    BY <1>2, <2>1 DEF Named
<1>5. /\ m = "" => Named(bare, m) = bare
      /\ n = "" => Named(bare, n) = bare
      /\ m # "" => Named(bare, m) # bare
      /\ n # "" => Named(bare, n) # bare /\ (Named(bare, m) = Named(bare, n) => m = n)
  <2>1. /\ m = "" => Named(bare, m) = bare
        /\ m # "" => Named(bare, m) # bare
    BY <1>3, NamedIs
  <2>2. /\ n = "" => Named(bare, n) = bare
        /\ n # "" => Named(bare, n) # bare
    BY <1>3, NamedIs
  <2>3. ASSUME n # "", Named(bare, m) = Named(bare, n) PROVE m = n
    <3>1. n # "" => \A other \in Words : Named(bare, other) = Named(bare, n) => other = n
      BY <1>3, NamedIs
    <3> QED
      BY <1>3, <2>3, <3>1
  <2> QED
    BY <2>1, <2>2, <2>3
<1>6. /\ m = "" => IsFinal(b, i)
      /\ n = "" => IsFinal(b, k)
  <2>1. ASSUME m = "" PROVE IsFinal(b, i)
    BY <1>1, <1>2, <2>1 DEF IsBuilt
  <2>2. ASSUME n = "" PROVE IsFinal(b, k)
    BY <1>1, <1>2, <2>2 DEF IsBuilt
  <2> QED
    BY <2>1, <2>2
<1>7. IsFinal(b, i) /\ IsFinal(b, k) => i = k
  BY DEF IsFinal
<1>8. CASE t = bare
  BY <1>4, <1>5, <1>6, <1>7, <1>8
<1>9. CASE t # bare
  BY <1>3, <1>4, <1>5, <1>9
<1> QED
  BY <1>8, <1>9

\* The stage that is built next.
LEMMA AfterIs ==
  ASSUME SettingsInv, NEW b \in Builds, NEW i \in 0..Len(File(b))
  PROVE  \/ After(b, i) = 0 /\ \A k \in BuiltStages(b) : k <= i
         \/ /\ After(b, i) \in BuiltStages(b) /\ After(b, i) > i
            /\ \A k \in BuiltStages(b) : k <= i \/ After(b, i) <= k
<1> DEFINE later == {k \in i+1..Len(File(b)) : IsBuilt(b, k)}
<1>1. PICK n : n = Len(File(b)) /\ n \in Nat /\ n > 0 /\ i \in 0..n
  BY FileIs
<1>2. \A k \in 1..n : k \in BuiltStages(b) /\ k > i <=> k \in later
  BY <1>1 DEF BuiltStages
<1>3. BuiltStages(b) \subseteq 1..n
  BY <1>1 DEF BuiltStages
<1>4. CASE later = {}
  <2>1. After(b, i) = 0
    BY <1>4 DEF After
  <2> QED
    BY <1>1, <1>2, <1>3, <1>4, <2>1
<1>5. CASE later # {}
  <2>1. \E k \in later : \A m \in later : k <= m
    <3>1. CASE \E k \in later : TestStage # "" /\ File(b)[k] = TestStage
      <4>1. PICK k \in later : TestStage # "" /\ File(b)[k] = TestStage
        BY <3>1
      <4>2. ASSUME NEW m \in later PROVE k <= m
        <5>1. k \in 1..n /\ m \in 1..n /\ (m = n \/ File(b)[m] = TestStage)
          <6>1. k \in i+1..n /\ m \in i+1..n /\ IsBuilt(b, m)
            BY <1>1, <4>1, <4>2
          <6>2. k \in 1..n /\ m \in 1..n
            BY <1>1, <6>1
          <6>3. m = n \/ File(b)[m] = TestStage
            <7>1. IsFinal(b, m) \/ File(b)[m] = TestStage
              BY <6>1 DEF IsBuilt
            <7> QED
              BY <1>1, <7>1 DEF IsFinal
          <6> QED
            BY <6>2, <6>3
        <5>2. File(b)[m] = TestStage => m = k
          BY <1>1, <4>1, <5>1, FileIs
        <5> QED
          BY <5>1, <5>2
      <4> QED
        BY <4>2
    <3>2. CASE ~\E k \in later : TestStage # "" /\ File(b)[k] = TestStage
      <4>1. \A m \in later : m = n
        BY <1>1, <3>2 DEF IsBuilt, IsFinal
      <4> QED
        BY <1>1, <1>5, <4>1
    <3> QED
      BY <3>1, <3>2
  <2>2. After(b, i) = CHOOSE k \in later : \A m \in later : k <= m
    BY <1>5 DEF After
  <2>3. After(b, i) \in later /\ \A m \in later : After(b, i) <= m
    <3> HIDE DEF later
    <3> QED
      BY <2>1, <2>2
  <2>4. After(b, i) \in 1..n /\ After(b, i) > i
    BY <1>1, <2>3
  <2> QED
    BY <1>1, <1>2, <1>3, <2>3, <2>4
<1> QED
  BY <1>4, <1>5

\* There is a first stage to build.
LEMMA FirstIs ==
  ASSUME SettingsInv, NEW b \in Builds
  PROVE  After(b, 0) \in BuiltStages(b)
<1>1. Len(File(b)) \in BuiltStages(b) /\ Len(File(b)) > 0 /\ Len(File(b)) \in Nat
  <2>1. Len(File(b)) > 0 /\ Len(File(b)) \in Nat
    BY FileIs
  <2>2. Len(File(b)) \in 1..Len(File(b))
    BY <2>1
  <2> QED
    BY <2>1, <2>2 DEF BuiltStages, IsBuilt, IsFinal
<1> QED
  BY <1>1, AfterIs
-----------------------------------------------------------------------------
\* What an invocation has pushed belongs to the stage it is at.
StateInv ==
  /\ pc \in [Builds -> {"new", "buildkit", "build", "artifact", "done", "failed"}]
  /\ stage \in [Builds -> Nat]
  /\ pushed = [b \in Builds |-> pushed[b]] /\ DOMAIN artifact = Pipelines /\ DOMAIN tested = Pipelines
  /\ before \in [Builds -> SUBSET Builds] /\ builder \subseteq Pipelines
  /\ \A b \in Builds :
       /\ stage[b] \in BuiltStages(b) \cup {0}
       /\ pc[b] = "build" => stage[b] \in BuiltStages(b)
       /\ pc[b] \in {"new", "buildkit"} => pushed[b] = {}
       /\ pushed[b] # {} => stage[b] \in BuiltStages(b)
       /\ pushed[b] # {} => pushed[b] \subseteq ImageTags(b, stage[b])

\* Every image in the registry is one that an invocation makes, under a tag of its.
RegistryInv ==
  /\ \A e, f \in registry : e.repo = f.repo /\ e.tag = f.tag => e = f
  /\ \A e \in registry : \E b \in Builds : \E i \in BuiltStages(b) :
       /\ e.repo = Repo[b] /\ e.tag \in ImageTags(b, i)
       /\ e.image.sha = Sha(b) /\ e.image.stage = i

\* What was over stays over.
BeforeInv == \A b \in Builds : \A c \in before[b] : Over(c)

\* An invocation has pushed a stage under a tag.
Pushed(b, i, t) ==
  /\ t \in ImageTags(b, i)
  /\ \/ pc[b] \in {"artifact", "done"}
     \/ pc[b] = "build" /\ (i < stage[b] \/ (i = stage[b] /\ t \in pushed[b]))

Lone(b) ==
  \A c \in Builds \ {b} :
    Repo[c] # Repo[b] \/ TagsOf(c) \cap TagsOf(b) = {} \/ c \in before[b] \/ pc[c] = "new"

\* What was pushed under a tag of the commit, or by an invocation that shares its
\* tags with none that is at work, is still there.
HeldInv ==
  \A b \in Builds : \A i \in BuiltStages(b) : \A t \in ImageTags(b, i) :
    Pushed(b, i, t) =>
      /\ t[1] = Sha(b) => \E e \in Holds(Repo[b], t) : e.image.stage = i
      /\ Lone(b) => \E e \in Holds(Repo[b], t) : e.image.by = b

\* What Init chooses is settled, and all that follows from it.
LEMMA Settled ==
  ASSUME UNCHANGED settings
  PROVE  /\ SettingsInv' <=> SettingsInv
         /\ \A b \in Builds :
              /\ Sha(b)' = Sha(b) /\ File(b)' = File(b) /\ TagsOf(b)' = TagsOf(b)
              /\ BuiltStages(b)' = BuiltStages(b) /\ TestImage(b)' = TestImage(b)
         /\ \A b \in Builds : \A i \in Nat :
              ImageTags(b, i)' = ImageTags(b, i) /\ (IsFinal(b, i)' <=> IsFinal(b, i))
<1>1. UNCHANGED <<pipeline, commit, dockerfile, imageTags>>
  BY DEF settings
<1>2. SettingsInv' <=> SettingsInv
  BY <1>1 DEF SettingsInv, File, Sha
<1>3. ASSUME NEW b \in Builds
      PROVE  /\ Sha(b)' = Sha(b) /\ File(b)' = File(b) /\ TestImage(b)' = TestImage(b)
             /\ ExtraTags(b)' = ExtraTags(b)
  BY <1>1 DEF Sha, File, TestImage, ExtraTags, Ref
<1>4. ASSUME NEW b \in Builds, NEW i
      PROVE  /\ ImageTags(b, i)' = ImageTags(b, i) /\ (IsFinal(b, i)' <=> IsFinal(b, i))
             /\ (IsBuilt(b, i)' <=> IsBuilt(b, i))
  <2>1. IsFinal(b, i)' <=> IsFinal(b, i)
    BY <1>3 DEF IsFinal
  <2>2. IsBuilt(b, i)' <=> IsBuilt(b, i)
    BY <1>3, <2>1 DEF IsBuilt
  <2>3. ImageTags(b, i)' = ImageTags(b, i)
    BY <1>3, <2>1 DEF ImageTags
  <2> QED
    BY <2>1, <2>2, <2>3
<1>5. ASSUME NEW b \in Builds PROVE BuiltStages(b)' = BuiltStages(b)
  BY <1>3, <1>4 DEF BuiltStages
<1>6. ASSUME NEW b \in Builds PROVE TagsOf(b)' = TagsOf(b)
  BY <1>4, <1>5 DEF TagsOf
<1> QED
  BY <1>2, <1>3, <1>4, <1>5, <1>6

\* The tags and stages of an invocation.
LEMMA StagesAre ==
  ASSUME SettingsInv, NEW b \in Builds, NEW i \in BuiltStages(b)
  PROVE  /\ i \in 1..Len(File(b)) /\ i \in Nat /\ i > 0
         /\ ImageTags(b, i) \subseteq TagsOf(b)
<1>1. i \in 1..Len(File(b)) /\ Len(File(b)) \in Nat
  BY FileIs DEF BuiltStages
<1> QED
  BY <1>1 DEF TagsOf

\* No step changes what Init chose.
LEMMA SettingsKept == [Next]_vars => UNCHANGED settings
  BY DEF Next, Step, vars, Begin, SetupBuildkit, BuilderExists, Push, StageBuilt,
     WriteArtifact, Fails, TestSetup

\* Each step goes on to a stage that is to be built.
LEMMA StateKept ==
  ASSUME SettingsInv, StateInv, [Next]_vars
  PROVE  StateInv'
<1>1. UNCHANGED settings
  BY SettingsKept
<1>2. /\ \A b \in Builds : BuiltStages(b)' = BuiltStages(b)
      /\ \A b \in Builds : \A i \in Nat : ImageTags(b, i)' = ImageTags(b, i)
  BY <1>1, Settled
<1>3. \A b \in Builds : pipeline[b] \in Pipelines /\ stage[b] \in Nat /\ BuiltStages(b) \subseteq Nat
  BY StagesAre DEF SettingsInv, StateInv
\* What one invocation does is enough.
<1>4. ASSUME NEW b \in Builds, NEW p \in {"buildkit", "build", "artifact", "done", "failed"},
             NEW n \in BuiltStages(b) \cup {0}, NEW tags,
             pc' = [pc EXCEPT ![b] = p], stage' = [stage EXCEPT ![b] = n],
             pushed' = [pushed EXCEPT ![b] = tags],
             p = "build" => n \in BuiltStages(b),
             p = "buildkit" => tags = {},
             tags # {} => n \in BuiltStages(b) /\ tags \subseteq ImageTags(b, n),
             DOMAIN artifact' = Pipelines, builder' \subseteq Pipelines, UNCHANGED tested,
             before' \in [Builds -> SUBSET Builds]
      PROVE  StateInv'
  <2>1. /\ pc' \in [Builds -> {"new", "buildkit", "build", "artifact", "done", "failed"}]
        /\ pc'[b] = p /\ \A c \in Builds \ {b} : pc'[c] = pc[c]
    BY <1>4 DEF StateInv
  <2>2. /\ stage' \in [Builds -> Nat]
        /\ stage'[b] = n /\ \A c \in Builds \ {b} : stage'[c] = stage[c]
    BY <1>3, <1>4 DEF StateInv
  <2>3. /\ pushed' = [c \in Builds |-> pushed'[c]]
        /\ pushed'[b] = tags /\ \A c \in Builds \ {b} : pushed'[c] = pushed[c]
    BY <1>4 DEF StateInv
  <2>4. DOMAIN tested' = Pipelines
    BY <1>4 DEF StateInv
  <2>5. ASSUME NEW c \in Builds
        PROVE  /\ stage'[c] \in BuiltStages(c) \cup {0}
               /\ pc'[c] = "build" => stage'[c] \in BuiltStages(c)
               /\ pc'[c] \in {"new", "buildkit"} => pushed'[c] = {}
               /\ pushed'[c] # {} => stage'[c] \in BuiltStages(c)
               /\ pushed'[c] # {} => pushed'[c] \subseteq ImageTags(c, stage'[c])
    <3>1. CASE c = b
      BY <1>4, <2>1, <2>2, <2>3, <3>1
    <3>2. CASE c # b
      BY <2>1, <2>2, <2>3, <3>2 DEF StateInv
    <3> QED
      BY <3>1, <3>2
  <2>6. ASSUME NEW c \in Builds
        PROVE  ImageTags(c, stage[c])' = ImageTags(c, stage'[c])
    BY <1>2, <2>2, <2>6
  <2> QED
    BY <1>2, <1>4, <2>1, <2>2, <2>3, <2>4, <2>5, <2>6 DEF StateInv
<1>5. CASE UNCHANGED <<pc, stage, pushed, builder, before>> /\ DOMAIN artifact' = Pipelines
           /\ DOMAIN tested' = Pipelines
  <2>1. ASSUME NEW c \in Builds
        PROVE  ImageTags(c, stage[c])' = ImageTags(c, stage[c])
    BY <1>2, <1>3, <1>5
  <2> QED
    BY <1>2, <1>5, <2>1 DEF StateInv
<1>6. ASSUME NEW b \in Builds, Step(b) PROVE StateInv'
  <2>0. /\ stage' = stage => stage' = [stage EXCEPT ![b] = stage[b]]
        /\ pushed' = pushed => pushed' = [pushed EXCEPT ![b] = pushed[b]]
        /\ artifact' = artifact => DOMAIN artifact' = Pipelines
        /\ builder' = builder => builder' \subseteq Pipelines
        /\ before' = before => before' \in [Builds -> SUBSET Builds]
        /\ stage[b] \in BuiltStages(b) \cup {0}
        /\ pushed[b] # {} => stage[b] \in BuiltStages(b) /\ pushed[b] \subseteq ImageTags(b, stage[b])
    <3>1. /\ stage = [stage EXCEPT ![b] = stage[b]] /\ pushed = [pushed EXCEPT ![b] = pushed[b]]
          /\ stage[b] \in BuiltStages(b) \cup {0}
      <4>1. stage \in [Builds -> Nat] /\ pushed = [c \in Builds |-> pushed[c]]
        BY DEF StateInv
      <4>2. stage[b] \in BuiltStages(b) \cup {0}
        BY DEF StateInv
      <4>3. stage = [stage EXCEPT ![b] = stage[b]]
        BY <4>1
      <4>4. pushed = [pushed EXCEPT ![b] = pushed[b]]
        BY <4>1, Zenon
      <4> QED
        BY <4>2, <4>3, <4>4
    <3>2. pushed[b] # {} => stage[b] \in BuiltStages(b) /\ pushed[b] \subseteq ImageTags(b, stage[b])
      BY DEF StateInv
    <3>3. /\ artifact' = artifact => DOMAIN artifact' = Pipelines
          /\ builder' = builder => builder' \subseteq Pipelines
          /\ before' = before => before' \in [Builds -> SUBSET Builds]
      BY DEF StateInv
    <3> QED
      BY <3>1, <3>2, <3>3
  <2>1. CASE Begin(b)
    <3>1. pc' = [pc EXCEPT ![b] = "buildkit"] /\ pc[b] = "new"
      BY <2>1 DEF Begin, Goes
    <3>2. UNCHANGED <<stage, pushed, builder, artifact, tested>>
      BY <2>1 DEF Begin
    <3>3. pushed[b] = {}
      BY <3>1 DEF StateInv
    <3>4. before' \in [Builds -> SUBSET Builds]
      BY <2>1 DEF Begin, StateInv
    <3> QED
      BY <2>0, <3>1, <3>2, <3>3, <3>4, <1>4
  <2>2. CASE SetupBuildkit(b)
    <3>1. /\ pc' = [pc EXCEPT ![b] = "build"] /\ pc[b] = "buildkit"
          /\ stage' = [stage EXCEPT ![b] = After(b, 0)]
          /\ UNCHANGED <<pushed, artifact, tested, before>>
      BY <2>2 DEF SetupBuildkit, Goes
    <3>2. After(b, 0) \in BuiltStages(b)
      BY FirstIs
    <3>3. pushed[b] = {}
      BY <3>1 DEF StateInv
    <3>4. builder' \subseteq Pipelines
      BY <2>2, <1>3 DEF SetupBuildkit, StateInv
    <3> QED
      BY <2>0, <3>1, <3>2, <3>3, <3>4, <1>4
  <2>3. CASE BuilderExists(b) \/ Fails(b)
    <3>1. /\ pc' = [pc EXCEPT ![b] = "failed"]
          /\ UNCHANGED <<stage, pushed, builder, artifact, tested, before>>
      BY <2>3 DEF BuilderExists, Fails, Goes
    <3> QED
      BY <2>0, <3>1, <1>4
  <2>4. CASE Push(b)
    <3>1. PICK t \in ImageTags(b, stage[b]) \ pushed[b] : pushed' = [pushed EXCEPT ![b] = @ \cup {t}]
      BY <2>4 DEF Push
    <3>2. pc[b] = "build" /\ UNCHANGED <<pc, stage, builder, artifact, tested, before>>
      BY <2>4 DEF Push
    <3>3. stage[b] \in BuiltStages(b) /\ pc' = [pc EXCEPT ![b] = "build"]
      BY <3>2 DEF StateInv
    <3>4. pushed' = [pushed EXCEPT ![b] = pushed[b] \cup {t}]
      BY <3>1 DEF StateInv
    <3>5. pushed[b] \cup {t} \subseteq ImageTags(b, stage[b])
      BY <2>0, <3>1
    <3> QED
      BY <2>0, <3>2, <3>3, <3>4, <3>5, <1>4
  <2>5. CASE StageBuilt(b)
    <3>1. PICK n : n = After(b, stage[b])
      OBVIOUS
    <3>2. /\ pc[b] = "build" /\ stage' = [stage EXCEPT ![b] = n]
          /\ pc' = [pc EXCEPT ![b] = IF n = 0 THEN "artifact" ELSE "build"]
          /\ pushed' = [pushed EXCEPT ![b] = {}]
          /\ UNCHANGED <<builder, artifact, tested, before>>
      BY <2>5, <3>1 DEF StageBuilt
    <3>3. stage[b] \in 0..Len(File(b))
      <4>1. stage[b] \in BuiltStages(b)
        BY <3>2 DEF StateInv
      <4>2. stage[b] \in 1..Len(File(b)) /\ Len(File(b)) \in Nat
        BY <4>1, StagesAre, FileIs
      <4> QED
        BY <4>2
    <3>4. n = 0 \/ n \in BuiltStages(b)
      BY <3>1, <3>3, AfterIs
    <3>5. CASE n = 0
      <4>1. pc' = [pc EXCEPT ![b] = "artifact"] /\ n \in BuiltStages(b) \cup {0}
        BY <3>2, <3>5
      <4> QED
        BY <2>0, <3>2, <3>5, <4>1, <1>4
    <3>6. CASE n # 0
      <4>1. pc' = [pc EXCEPT ![b] = "build"] /\ n \in BuiltStages(b)
        BY <3>2, <3>4, <3>6
      <4> QED
        BY <2>0, <3>2, <4>1, <1>4
    <3> QED
      BY <3>5, <3>6
  <2>6. CASE WriteArtifact(b)
    <3>1. /\ pc' = [pc EXCEPT ![b] = "done"]
          /\ UNCHANGED <<stage, pushed, builder, tested, before>>
      BY <2>6 DEF WriteArtifact, Goes
    <3>2. DOMAIN artifact' = Pipelines
      BY <2>6 DEF WriteArtifact, StateInv
    <3> QED
      BY <2>0, <3>1, <3>2, <1>4
  <2> QED
    BY <1>6, <2>1, <2>2, <2>3, <2>4, <2>5, <2>6 DEF Step
<1>7. ASSUME NEW l \in Pipelines, TestSetup(l) PROVE StateInv'
  <2>1. DOMAIN tested' = Pipelines /\ UNCHANGED <<pc, stage, pushed, builder, before, artifact>>
    BY <1>7 DEF TestSetup, StateInv
  <2> QED
    BY <1>5, <2>1 DEF StateInv
<1>8. CASE UNCHANGED vars
  BY <1>5, <1>8 DEF vars, StateInv
<1> QED
  BY <1>6, <1>7, <1>8 DEF Next

\* How the steps move the invocations: none that is over goes on, and what one
\* found over when it began is what it found.
LEMMA Moves ==
  ASSUME StateInv, [Next]_vars
  PROVE  /\ \A c \in Builds : Over(c) => pc'[c] = pc[c]
         /\ \A c \in Builds : pc'[c] = "new" => pc[c] = "new"
         /\ \A c \in Builds : before'[c] # before[c] =>
              before'[c] = {d \in Builds : Over(d)} /\ pc'[c] = "buildkit"
<1>1. /\ pc \in [Builds -> {"new", "buildkit", "build", "artifact", "done", "failed"}]
      /\ before \in [Builds -> SUBSET Builds]
  BY DEF StateInv
<1>2. CASE UNCHANGED <<pc, before>>
  <2>1. pc' = pc /\ before' = before
    BY <1>2
  <2> QED
    BY <2>1, Zenon
<1>3. ASSUME NEW b \in Builds, NEW p, pc' = [pc EXCEPT ![b] = p], ~Over(b), p # "new"
      PROVE  /\ \A c \in Builds : Over(c) => pc'[c] = pc[c]
             /\ \A c \in Builds : pc'[c] = "new" => pc[c] = "new"
  BY <1>1, <1>3 DEF Over
<1>4. CASE \E b \in Builds : Begin(b)
  <2>1. PICK b \in Builds : Begin(b)
    BY <1>4
  <2>2. PICK old : old = {d \in Builds : Over(d)}
    OBVIOUS
  <2>3. /\ pc[b] = "new" /\ pc' = [pc EXCEPT ![b] = "buildkit"]
        /\ before' = [before EXCEPT ![b] = old]
    BY <2>1, <2>2 DEF Begin, Goes
  <2>4. ~Over(b)
    BY <2>3 DEF Over
  <2>5. \A c \in Builds : before'[c] # before[c] => before'[c] = old /\ pc'[c] = "buildkit"
    BY <1>1, <2>3
  <2> QED
    BY <1>3, <2>2, <2>3, <2>4, <2>5
<1>5. ASSUME NEW b \in Builds, SetupBuildkit(b) \/ BuilderExists(b) \/ StageBuilt(b)
                               \/ WriteArtifact(b) \/ Fails(b)
      PROVE  \E p : pc' = [pc EXCEPT ![b] = p] /\ ~Over(b) /\ p # "new" /\ UNCHANGED before
  <2>1. CASE SetupBuildkit(b)
    BY <2>1 DEF SetupBuildkit, Goes, Over
  <2>2. CASE BuilderExists(b)
    BY <2>2 DEF BuilderExists, Goes, Over
  <2>3. CASE StageBuilt(b)
    BY <2>3 DEF StageBuilt, Over
  <2>4. CASE WriteArtifact(b)
    BY <2>4 DEF WriteArtifact, Goes, Over
  <2>5. CASE Fails(b)
    BY <2>5 DEF Fails, Over
  <2> QED
    BY <1>5, <2>1, <2>2, <2>3, <2>4, <2>5
<1>6. CASE \E b \in Builds : SetupBuildkit(b) \/ BuilderExists(b) \/ StageBuilt(b)
                               \/ WriteArtifact(b) \/ Fails(b)
  <2>1. PICK b, p : /\ b \in Builds /\ pc' = [pc EXCEPT ![b] = p] /\ ~Over(b) /\ p # "new"
                    /\ UNCHANGED before
    BY <1>5, <1>6
  <2>2. \A c \in Builds : before'[c] = before[c]
    BY <2>1
  <2> QED
    BY <1>3, <2>1, <2>2
<1>7. CASE (\E b \in Builds : Push(b)) \/ (\E l \in Pipelines : TestSetup(l)) \/ UNCHANGED vars
  <2>1. UNCHANGED <<pc, before>>
    BY <1>7 DEF Push, TestSetup, vars
  <2> QED
    BY <1>2, <2>1
<1> QED
  BY <1>4, <1>6, <1>7 DEF Next, Step

\* What one found over when it began stays over.
LEMMA BeforeKept ==
  ASSUME StateInv, BeforeInv, [Next]_vars
  PROVE  BeforeInv'
<1>1. \A c \in Builds : Over(c) => Over(c)'
  BY Moves DEF Over
<1>2. ASSUME NEW b \in Builds, NEW c \in before'[b] PROVE Over(c)'
  <2>1. c \in Builds /\ Over(c)
    BY <1>2, Moves DEF BeforeInv, StateInv
  <2> QED
    BY <1>1, <2>1
<1> QED
  BY <1>2 DEF BeforeInv

\* Only Push changes the registry: it puts an image in the place of what had its
\* tag.
LEMMA PushIs ==
  ASSUME SettingsInv, StateInv, NEW b \in Builds, Push(b)
  PROVE  /\ pc[b] = "build" /\ stage[b] \in BuiltStages(b) /\ UNCHANGED <<pc, stage, before>>
         /\ \E t, e :
              /\ t \in ImageTags(b, stage[b])
              /\ e.repo = Repo[b] /\ e.tag = t
              /\ e.image.sha = Sha(b) /\ e.image.stage = stage[b] /\ e.image.by = b
              /\ e \in registry'
              /\ \A f : f \in registry' <=> f = e \/ (f \in registry /\ ~(f.repo = Repo[b] /\ f.tag = t))
              /\ \A c \in Builds : pushed'[c] = IF c = b THEN pushed[b] \cup {t} ELSE pushed[c]
<1>1. /\ pc[b] = "build" /\ stage[b] \in BuiltStages(b) /\ UNCHANGED <<pc, stage, before>>
  BY DEF Push, StateInv
<1>2. PICK t \in ImageTags(b, stage[b]) \ pushed[b] :
        /\ registry' = (registry \ Holds(Repo[b], t))
                         \cup {[repo |-> Repo[b], tag |-> t, image |-> Image(b)]}
        /\ pushed' = [pushed EXCEPT ![b] = @ \cup {t}]
  BY DEF Push
<1>3. PICK e : e = [repo |-> Repo[b], tag |-> t, image |-> Image(b)]
  OBVIOUS
<1>4. /\ e.repo = Repo[b] /\ e.tag = t
      /\ e.image.sha = Sha(b) /\ e.image.stage = stage[b] /\ e.image.by = b
  BY <1>3 DEF Image
<1>5. /\ e \in registry'
      /\ \A f : f \in registry' <=> f = e \/ (f \in registry /\ ~(f.repo = Repo[b] /\ f.tag = t))
  BY <1>2, <1>3 DEF Holds
<1>6. \A c \in Builds : pushed'[c] = IF c = b THEN pushed[b] \cup {t} ELSE pushed[c]
  BY <1>2 DEF StateInv
<1> QED
  BY <1>1, <1>4, <1>5, <1>6

\* No other step changes the registry.
LEMMA RegistryChanges ==
  [Next]_vars => UNCHANGED registry \/ \E b \in Builds : Push(b)
BY DEF Next, Step, vars, Begin, SetupBuildkit, BuilderExists, StageBuilt, WriteArtifact,
   Fails, TestSetup

\* The new image has the tag it replaces, and is one its invocation makes.
LEMMA RegistryKept ==
  ASSUME SettingsInv, StateInv, RegistryInv, [Next]_vars
  PROVE  RegistryInv'
<1>1. \A b \in Builds : /\ Sha(b)' = Sha(b) /\ BuiltStages(b)' = BuiltStages(b)
                        /\ BuiltStages(b) \subseteq Nat
                        /\ \A i \in BuiltStages(b) : ImageTags(b, i)' = ImageTags(b, i)
  BY SettingsKept, Settled, StagesAre
<1>2. CASE UNCHANGED registry
  BY <1>1, <1>2 DEF RegistryInv
<1>3. ASSUME NEW b \in Builds, Push(b) PROVE RegistryInv'
  <2>0. stage[b] \in BuiltStages(b)
    BY <1>3, PushIs
  <2>1. PICK t, e :
          /\ t \in ImageTags(b, stage[b])
          /\ e.repo = Repo[b] /\ e.tag = t
          /\ e.image.sha = Sha(b) /\ e.image.stage = stage[b] /\ e.image.by = b
          /\ e \in registry'
          /\ \A f : f \in registry' <=> f = e \/ (f \in registry /\ ~(f.repo = Repo[b] /\ f.tag = t))
          /\ \A c \in Builds : pushed'[c] = IF c = b THEN pushed[b] \cup {t} ELSE pushed[c]
    BY <1>3, PushIs, Zenon
  <2>2. ASSUME NEW f \in registry', NEW g \in registry', f.repo = g.repo, f.tag = g.tag PROVE f = g
    BY <2>1, <2>2 DEF RegistryInv
  <2>3. ASSUME NEW f \in registry'
        PROVE  \E c \in Builds : \E i \in BuiltStages(c) :
                 /\ f.repo = Repo[c] /\ f.tag \in ImageTags(c, i)
                 /\ f.image.sha = Sha(c) /\ f.image.stage = i
    BY <2>0, <2>1, <2>3 DEF RegistryInv
  <2> QED
    BY <1>1, <2>2, <2>3 DEF RegistryInv
<1> QED
  BY <1>2, <1>3, RegistryChanges
-----------------------------------------------------------------------------
\* A stage is pushed under a tag by Push alone.
LEMMA PushedByPush ==
  ASSUME SettingsInv, StateInv, [Next]_vars, NEW b \in Builds, NEW i \in BuiltStages(b), NEW t,
         ~Push(b), Pushed(b, i, t)'
  PROVE  Pushed(b, i, t)
<1>1. /\ i \in Nat /\ i > 0 /\ t \in ImageTags(b, i)
      /\ \/ pc'[b] \in {"artifact", "done"}
         \/ pc'[b] = "build" /\ (i < stage'[b] \/ (i = stage'[b] /\ t \in pushed'[b]))
  <2>1. i \in Nat /\ i > 0 /\ ImageTags(b, i)' = ImageTags(b, i)
    BY SettingsKept, Settled, StagesAre
  <2>2. t \in ImageTags(b, i)
    BY <2>1 DEF Pushed
  <2>3. \/ pc'[b] \in {"artifact", "done"}
        \/ pc'[b] = "build" /\ (i < stage'[b] \/ (i = stage'[b] /\ t \in pushed'[b]))
    BY DEF Pushed
  <2> QED
    BY <2>1, <2>2, <2>3
<1>2. /\ pc \in [Builds -> {"new", "buildkit", "build", "artifact", "done", "failed"}]
      /\ stage \in [Builds -> Nat] /\ pushed = [c \in Builds |-> pushed[c]]
  BY DEF StateInv
<1>3. CASE pc'[b] = pc[b] /\ stage'[b] = stage[b] /\ pushed'[b] = pushed[b]
  BY <1>1, <1>3 DEF Pushed
<1>4. CASE SetupBuildkit(b)
  <2>1. PICK n : n = After(b, 0)
    OBVIOUS
  <2>2. pc'[b] = "build" /\ stage'[b] = n /\ pushed'[b] = pushed[b] /\ pc[b] = "buildkit"
    BY <1>2, <1>4, <2>1 DEF SetupBuildkit, Goes
  <2>3. pushed[b] = {}
    BY <2>2 DEF StateInv
  <2>4. n \in Nat /\ ~(i < n)
    <3>1. n \in BuiltStages(b)
      BY <2>1, FirstIs
    <3>2. n \in Nat /\ n > 0 /\ 0 \in 0..Len(File(b))
      <4>1. n \in Nat /\ n > 0
        BY <3>1, StagesAre
      <4>2. Len(File(b)) \in Nat
        BY FileIs
      <4> QED
        BY <4>1, <4>2
    <3>3. i <= 0 \/ n <= i
      BY <2>1, <3>2, AfterIs
    <3> QED
      BY <1>1, <3>2, <3>3
  <2> QED
    BY <1>1, <2>2, <2>3, <2>4
<1>5. CASE StageBuilt(b)
  <2>1. PICK n : n = After(b, stage[b])
    OBVIOUS
  <2>2. /\ pc[b] = "build" /\ pushed[b] = ImageTags(b, stage[b])
        /\ stage' = [stage EXCEPT ![b] = n]
        /\ pc' = [pc EXCEPT ![b] = IF n = 0 THEN "artifact" ELSE "build"]
        /\ pushed' = [pushed EXCEPT ![b] = {}]
    BY <1>5, <2>1 DEF StageBuilt
  <2>3. PICK k : k = stage[b]
    OBVIOUS
  <2>4. k \in Nat /\ k \in 0..Len(File(b)) /\ pushed[b] = ImageTags(b, k)
    <3>1. k \in BuiltStages(b)
      BY <2>2, <2>3 DEF StateInv
    <3>2. k \in 1..Len(File(b)) /\ k \in Nat /\ Len(File(b)) \in Nat
      BY <3>1, StagesAre, FileIs
    <3> QED
      BY <2>2, <2>3, <3>2
  <2>5. \/ n = 0 /\ i <= k
        \/ n \in Nat /\ n # 0 /\ (i <= k \/ n <= i)
    <3>1. \/ n = 0 /\ \A m \in BuiltStages(b) : m <= k
          \/ n \in BuiltStages(b) /\ \A m \in BuiltStages(b) : m <= k \/ n <= m
      BY <2>1, <2>3, <2>4, AfterIs
    <3>2. n \in BuiltStages(b) => n \in Nat /\ n # 0
      BY StagesAre
    <3> QED
      BY <3>1, <3>2
  <2>6. stage'[b] = n /\ pushed'[b] = {} /\ (n # 0 => pc'[b] = "build")
    BY <1>2, <2>2
  <2>7. i <= k
    BY <1>1, <2>5, <2>6
  <2>8. i = k => t \in pushed[b]
    BY <1>1, <2>4
  <2> QED
    BY <1>1, <2>2, <2>3, <2>4, <2>7, <2>8 DEF Pushed
<1>6. CASE WriteArtifact(b)
  <2>1. pc[b] = "artifact"
    BY <1>6 DEF WriteArtifact, Goes
  <2> QED
    BY <1>1, <2>1 DEF Pushed
<1>7. CASE Begin(b) \/ BuilderExists(b) \/ Fails(b)
  <2>1. pc'[b] \in {"buildkit", "failed"}
    BY <1>2, <1>7 DEF Begin, BuilderExists, Fails, Goes
  <2> QED
    BY <1>1, <2>1
<1>8. CASE \E c \in Builds \ {b} : Step(c)
  <2>1. PICK c \in Builds \ {b} : Step(c)
    BY <1>8
  <2>2. pc'[b] = pc[b]
    BY <1>2, <2>1 DEF Step, Begin, SetupBuildkit, BuilderExists, Push, StageBuilt, WriteArtifact,
       Fails, Goes
  <2>3. stage'[b] = stage[b]
    BY <1>2, <2>1 DEF Step, Begin, SetupBuildkit, BuilderExists, Push, StageBuilt, WriteArtifact,
       Fails
  <2>4. pushed'[b] = pushed[b]
    BY <1>2, <2>1 DEF Step, Begin, SetupBuildkit, BuilderExists, Push, StageBuilt, WriteArtifact,
       Fails
  <2> QED
    BY <1>3, <2>2, <2>3, <2>4
<1>9. CASE (\E l \in Pipelines : TestSetup(l)) \/ UNCHANGED vars
  BY <1>3, <1>9 DEF TestSetup, vars
<1> QED
  BY <1>4, <1>5, <1>6, <1>7, <1>8, <1>9 DEF Next, Step

\* An invocation that has pushed and shares its tags with none at work did so
\* before the step as well.
LEMMA LoneBefore ==
  ASSUME SettingsInv, StateInv, [Next]_vars, NEW b \in Builds, Lone(b)', pc'[b] # "buildkit"
  PROVE  Lone(b)
<1>1. before'[b] = before[b] /\ \A c \in Builds : pc'[c] = "new" => pc[c] = "new"
  BY Moves
<1>2. \A c \in Builds : TagsOf(c)' = TagsOf(c)
  BY SettingsKept, Settled
<1>3. ASSUME NEW c \in Builds \ {b}
      PROVE  Repo[c] # Repo[b] \/ TagsOf(c) \cap TagsOf(b) = {} \/ c \in before[b] \/ pc[c] = "new"
  <2>1. Repo[c] # Repo[b] \/ TagsOf(c)' \cap TagsOf(b)' = {} \/ c \in before'[b] \/ pc'[c] = "new"
    BY DEF Lone
  <2> QED
    BY <1>1, <1>2, <2>1
<1> QED
  BY <1>3 DEF Lone

\* A tag of a commit that an invocation pushes is the tag of the same stage for
\* every invocation that builds the commit.
LEMMA SameCommit ==
  ASSUME SettingsInv, NEW a \in Builds, NEW b \in Builds, Repo[a] = Repo[b],
         NEW k \in BuiltStages(a), NEW t \in ImageTags(a, k), t[1] = Sha(b)
  PROVE  /\ Sha(a) = Sha(b) /\ File(a) = File(b)
         /\ k \in BuiltStages(b) /\ t \in ImageTags(b, k)
<1>1. k \in 1..Len(File(a))
  BY DEF BuiltStages
<1>2. /\ Sha(a) = Sha(b)
      /\ t = Named(<<Sha(a)>>, File(a)[k]) \/ (t = <<Sha(a)>> /\ IsFinal(a, k))
  BY <1>1, ShaTagIs
<1>3. File(a) = File(b)
  BY <1>2 DEF File
<1>4. k \in BuiltStages(b) /\ (IsFinal(a, k) <=> IsFinal(b, k))
  BY <1>3 DEF BuiltStages, IsBuilt, IsFinal
<1>5. t \in ImageTags(b, k)
  BY <1>2, <1>3, <1>4 DEF ImageTags
<1> QED
  BY <1>2, <1>3, <1>4, <1>5

\* Who pushes to a tag of a commit pushes the same stage of the commit, and who
\* pushes to another tag of a finished invocation overlaps it.
LEMMA HeldKept ==
  ASSUME SettingsInv, StateInv, BeforeInv, HeldInv, [Next]_vars
  PROVE  HeldInv'
<1>1. \A b \in Builds :
        /\ Sha(b)' = Sha(b) /\ BuiltStages(b)' = BuiltStages(b)
        /\ \A i \in BuiltStages(b) : i \in Nat /\ ImageTags(b, i)' = ImageTags(b, i)
  BY SettingsKept, Settled, StagesAre
<1>2. ASSUME NEW b \in Builds, NEW i \in BuiltStages(b), NEW t \in ImageTags(b, i),
             Pushed(b, i, t)'
      PROVE  /\ t[1] = Sha(b) => \E e \in registry' : e.repo = Repo[b] /\ e.tag = t /\ e.image.stage = i
             /\ Lone(b)' => \E e \in registry' : e.repo = Repo[b] /\ e.tag = t /\ e.image.by = b
  <2>1. Pushed(b, i, t) =>
          /\ t[1] = Sha(b) => \E e \in registry : e.repo = Repo[b] /\ e.tag = t /\ e.image.stage = i
          /\ Lone(b)' => \E e \in registry : e.repo = Repo[b] /\ e.tag = t /\ e.image.by = b
    <3>1. Lone(b)' => Lone(b)
      <4>1. pc'[b] # "buildkit"
        BY <1>2 DEF Pushed
      <4> QED
        BY <4>1, LoneBefore
    <3>2. Pushed(b, i, t) =>
            /\ t[1] = Sha(b) => \E e \in Holds(Repo[b], t) : e.image.stage = i
            /\ Lone(b) => \E e \in Holds(Repo[b], t) : e.image.by = b
      BY DEF HeldInv
    <3> QED
      BY <3>1, <3>2 DEF Holds
  <2>2. CASE UNCHANGED registry /\ ~Push(b)
    <3>1. Pushed(b, i, t)
      BY <1>2, <2>2, PushedByPush
    <3>2. registry' = registry
      BY <2>2
    <3> QED
      BY <2>1, <3>1, <3>2
  <2>3. ASSUME NEW a \in Builds, Push(a), NEW k, k = stage[a], NEW s, NEW e,
               s \in ImageTags(a, k),
               e.repo = Repo[a], e.tag = s,
               e.image.stage = k, e.image.by = a,
               \A f : f \in registry' <=> f = e \/ (f \in registry /\ ~(f.repo = Repo[a] /\ f.tag = s)),
               \A c \in Builds : pushed'[c] = IF c = a THEN pushed[a] \cup {s} ELSE pushed[c]
        PROVE  /\ t[1] = Sha(b) => \E f \in registry' : f.repo = Repo[b] /\ f.tag = t /\ f.image.stage = i
               /\ Lone(b)' => \E f \in registry' : f.repo = Repo[b] /\ f.tag = t /\ f.image.by = b
    <3>1. k \in BuiltStages(a) /\ pc[a] = "build" /\ pc' = pc /\ stage' = stage /\ e \in registry'
      BY <2>3, PushIs
    <3>2. CASE Repo[a] = Repo[b] /\ s = t
      <4>1. t[1] = Sha(b) => e.image.stage = i
        <5>1. ASSUME t[1] = Sha(b) PROVE i = k
          <6>1. k \in BuiltStages(b) /\ t \in ImageTags(b, k)
            BY <2>3, <3>1, <3>2, <5>1, SameCommit
          <6> QED
            BY <1>2, <5>1, <6>1, ShaTagsDiffer
        <5> QED
          BY <2>3, <5>1
      <4>2. Lone(b)' => a = b
        <5>1. ASSUME Lone(b)', a # b PROVE FALSE
          <6>1. Lone(b)
            BY <1>2, <5>1, LoneBefore DEF Pushed
          <6>2. t \in TagsOf(a) \cap TagsOf(b)
            BY <1>2, <2>3, <3>1, <3>2, StagesAre
          <6>3. a \in before[b] \/ pc[a] = "new"
            BY <3>2, <5>1, <6>1, <6>2 DEF Lone
          <6>4. a \in before[b] => Over(a)
            BY DEF BeforeInv
          <6> QED
            BY <3>1, <6>3, <6>4 DEF Over
        <5> QED
          BY <5>1
      <4> QED
        BY <2>3, <3>1, <3>2, <4>1, <4>2
    <3>3. CASE ~(Repo[a] = Repo[b] /\ s = t)
      <4>1. Pushed(b, i, t)
        <5>1. CASE a = b
          <6>1. t \in pushed'[b] => t \in pushed[b]
            BY <2>3, <3>3, <5>1
          <6>2. \/ pc'[b] \in {"artifact", "done"}
                \/ pc'[b] = "build" /\ (i < stage'[b] \/ (i = stage'[b] /\ t \in pushed'[b]))
            BY <1>2 DEF Pushed
          <6> QED
            BY <1>2, <3>1, <6>1, <6>2 DEF Pushed
        <5>2. CASE a # b
          <6>1. t \in pushed'[b] => t \in pushed[b]
            BY <2>3, <5>2
          <6>2. \/ pc'[b] \in {"artifact", "done"}
                \/ pc'[b] = "build" /\ (i < stage'[b] \/ (i = stage'[b] /\ t \in pushed'[b]))
            BY <1>2 DEF Pushed
          <6> QED
            BY <1>2, <3>1, <6>1, <6>2 DEF Pushed
        <5> QED
          BY <5>1, <5>2
      <4>2. \A f \in registry : f.repo = Repo[b] /\ f.tag = t => f \in registry'
        BY <2>3, <3>3
      <4> QED
        BY <2>1, <4>1, <4>2
    <3> QED
      BY <3>2, <3>3
  <2>4. CASE \E a \in Builds : Push(a)
    <3>1. PICK a \in Builds : Push(a)
      BY <2>4
    <3>2. PICK k : k = stage[a]
      OBVIOUS
    <3>3. PICK s, e :
            /\ s \in ImageTags(a, stage[a])
            /\ e.repo = Repo[a] /\ e.tag = s
            /\ e.image.sha = Sha(a) /\ e.image.stage = stage[a] /\ e.image.by = a
            /\ e \in registry'
            /\ \A f : f \in registry' <=> f = e \/ (f \in registry /\ ~(f.repo = Repo[a] /\ f.tag = s))
            /\ \A c \in Builds : pushed'[c] = IF c = a THEN pushed[a] \cup {s} ELSE pushed[c]
      BY <3>1, PushIs, Zenon
    <3>4. s \in ImageTags(a, k) /\ e.image.stage = k
      BY <3>2, <3>3
    <3> QED
      BY <2>3, <3>1, <3>2, <3>3, <3>4
  <2> QED
    BY <2>2, <2>4, RegistryChanges
<1>3. ASSUME NEW b \in Builds, NEW i \in BuiltStages(b), NEW t \in ImageTags(b, i),
             Pushed(b, i, t)'
      PROVE  /\ t[1] = Sha(b) => \E e \in Holds(Repo[b], t)' : e.image.stage = i
             /\ Lone(b)' => \E e \in Holds(Repo[b], t)' : e.image.by = b
  BY <1>2, <1>3 DEF Holds
<1> QED
  BY <1>1, <1>3 DEF HeldInv
-----------------------------------------------------------------------------
\* What the file of a pipeline names, and what its tests pulled.
Tests(b, image) ==
  /\ image.sha = Sha(b)
  /\ IF TestStage = "" THEN IsFinal(b, image.stage) ELSE File(b)[image.stage] = TestStage
TestsInv ==
  /\ \A l \in Pipelines : artifact[l] # None =>
       \E b \in Builds : /\ pipeline[b] = l
                          /\ artifact[l].repo = Repo[b] /\ artifact[l].tag = TestImage(b)
  /\ \A l \in Pipelines : tested[l] # None => \A image \in tested[l] :
       \E b \in Builds : pipeline[b] = l /\ Tests(b, image)

\* The image under the tag of the tests is of the commit and of the test stage.
LEMMA TestTagIs ==
  ASSUME SettingsInv, RegistryInv, NEW b \in Builds, NEW e \in registry,
         e.repo = Repo[b], e.tag = TestImage(b)
  PROVE  Tests(b, e.image)
<1>1. PICK a, k :
        /\ a \in Builds /\ k \in BuiltStages(a)
        /\ e.repo = Repo[a] /\ e.tag \in ImageTags(a, k)
        /\ e.image.sha = Sha(a) /\ e.image.stage = k
  BY DEF RegistryInv
<1>2. PICK t, bare : t = e.tag /\ bare = <<Sha(b)>>
  OBVIOUS
<1>3. bare \in Seq(Words) /\ Len(bare) > 0 /\ bare[1] = Sha(b) /\ TestStage \in Words
  <2>1. /\ <<Sha(b)>> \in Seq(Words) /\ Len(<<Sha(b)>>) = 1 /\ <<Sha(b)>>[1] = Sha(b)
    BY FileIs
  <2>2. TestStage \in Words
    BY ImageBuildAssumption
  <2> QED
    BY <1>2, <2>1, <2>2
<1>4. t = Named(bare, TestStage)
  BY <1>2 DEF TestImage, Named
<1>5. t[1] = Sha(b)
  BY <1>3, <1>4, NamedIs
<1>6. /\ Sha(a) = Sha(b) /\ File(a) = File(b)
      /\ k \in BuiltStages(b) /\ t \in ImageTags(b, k)
  <2>1. /\ a \in Builds /\ Repo[a] = Repo[b] /\ k \in BuiltStages(a) /\ t \in ImageTags(a, k)
        /\ t[1] = Sha(b)
    BY <1>1, <1>2, <1>5
  <2> QED
    BY <2>1, SameCommit
<1>7. k \in 1..Len(File(b)) /\ IsBuilt(b, k) /\ File(b)[k] \in Words
  BY <1>6, FileIs DEF BuiltStages
<1>8. t = Named(bare, File(b)[k]) \/ (t = bare /\ IsFinal(b, k))
  <2>1. t = Named(<<Sha(b)>>, File(b)[k]) \/ (t = <<Sha(b)>> /\ IsFinal(b, k))
    BY <1>5, <1>6, <1>7, ShaTagIs
  <2> QED
    BY <1>2, <2>1 DEF Named
<1>9. CASE TestStage = ""
  <2>1. t = bare
    BY <1>4, <1>9 DEF Named
  <2>2. IsFinal(b, k)
    BY <1>7, <1>9 DEF IsBuilt
  <2> QED
    BY <1>1, <1>6, <1>9, <2>2 DEF Tests
<1>10. CASE TestStage # ""
  <2>1. t # bare /\ \A other \in Words : Named(bare, other) = t => other = TestStage
    <3>1. TestStage # "" => Named(bare, TestStage) # bare
      BY <1>3, NamedIs
    <3>2. TestStage # "" =>
            \A other \in Words : Named(bare, other) = Named(bare, TestStage) => other = TestStage
      BY <1>3, NamedIs
    <3> QED
      BY <1>4, <1>10, <3>1, <3>2
  <2>2. PICK n \in Words : n = File(b)[k]
    BY <1>7
  <2>3. n = TestStage
    BY <1>8, <2>1, <2>2 DEF Named
  <2> QED
    BY <1>1, <1>6, <1>10, <2>2, <2>3 DEF Tests
<1> QED
  BY <1>9, <1>10

\* The file names a tag of the commit, whose image is the commit's when it is pulled.
LEMMA TestsKept ==
  ASSUME SettingsInv, StateInv, RegistryInv, TestsInv, [Next]_vars
  PROVE  TestsInv'
<1>1. /\ pipeline' = pipeline /\ pipeline \in [Builds -> Pipelines]
      /\ DOMAIN artifact = Pipelines /\ DOMAIN tested = Pipelines
  BY SettingsKept DEF settings, SettingsInv, StateInv
<1>2. \A b \in Builds : TestImage(b)' = TestImage(b)
  BY SettingsKept, Settled
<1>3. ASSUME NEW b \in Builds, NEW image PROVE Tests(b, image)' <=> Tests(b, image)
  <2>1. Sha(b)' = Sha(b) /\ File(b)' = File(b)
    BY SettingsKept, Settled
  <2> QED
    BY <2>1 DEF Tests, IsFinal
<1>4. CASE UNCHANGED <<artifact, tested>>
  <2>1. artifact' = artifact /\ tested' = tested
    BY <1>4
  <2>2. ASSUME NEW l \in Pipelines, artifact'[l] # None
        PROVE  \E b \in Builds : /\ pipeline'[b] = l
                                  /\ artifact'[l].repo = Repo[b] /\ artifact'[l].tag = TestImage(b)'
    BY <1>1, <1>2, <2>1, <2>2 DEF TestsInv
  <2>3. ASSUME NEW l \in Pipelines, tested'[l] # None, NEW image \in tested'[l]
        PROVE  \E b \in Builds : pipeline'[b] = l /\ Tests(b, image)'
    BY <1>1, <1>3, <2>1, <2>3 DEF TestsInv
  <2> QED
    BY <2>2, <2>3 DEF TestsInv
<1>5. ASSUME NEW c \in Builds, WriteArtifact(c) PROVE TestsInv'
  <2>1. PICK l0, w : l0 = pipeline[c] /\ w = [repo |-> Repo[c], tag |-> TestImage(c)]
    OBVIOUS
  <2>2. artifact' = [artifact EXCEPT ![l0] = w] /\ tested' = tested
    BY <1>5, <2>1 DEF WriteArtifact
  <2>3. w.repo = Repo[c] /\ w.tag = TestImage(c)
    BY <2>1
  <2>4. \A l \in Pipelines : artifact'[l] = IF l = l0 THEN w ELSE artifact[l]
    BY <1>1, <2>2
  <2>5. ASSUME NEW l \in Pipelines, artifact'[l] # None
        PROVE  \E b \in Builds : /\ pipeline'[b] = l
                                  /\ artifact'[l].repo = Repo[b] /\ artifact'[l].tag = TestImage(b)'
    <3>1. CASE l = l0
      BY <1>1, <1>2, <2>1, <2>3, <2>4, <3>1
    <3>2. CASE l # l0
      BY <1>1, <1>2, <2>4, <2>5, <3>2 DEF TestsInv
    <3> QED
      BY <3>1, <3>2
  <2>6. ASSUME NEW l \in Pipelines, tested'[l] # None, NEW image \in tested'[l]
        PROVE  \E b \in Builds : pipeline'[b] = l /\ Tests(b, image)'
    BY <1>1, <1>3, <2>2, <2>6 DEF TestsInv
  <2> QED
    BY <2>5, <2>6 DEF TestsInv
<1>6. ASSUME NEW k \in Pipelines, TestSetup(k) PROVE TestsInv'
  <2>1. PICK found : found = {e.image : e \in Holds(artifact[k].repo, artifact[k].tag)}
    OBVIOUS
  <2>2. /\ artifact[k] # None /\ artifact' = artifact
        /\ \/ tested' = [tested EXCEPT ![k] = found]
           \/ tested' = [tested EXCEPT ![k] = {}]
    BY <1>6, <2>1 DEF TestSetup
  <2>3. PICK c \in Builds : /\ pipeline[c] = k
                            /\ artifact[k].repo = Repo[c] /\ artifact[k].tag = TestImage(c)
    BY <2>2 DEF TestsInv
  <2>4. ASSUME NEW image \in found PROVE Tests(c, image)
    <3>1. PICK e \in registry : e.repo = artifact[k].repo /\ e.tag = artifact[k].tag /\ image = e.image
      BY <2>1, <2>4 DEF Holds
    <3>2. e.repo = Repo[c] /\ e.tag = TestImage(c)
      BY <2>3, <3>1
    <3>3. Tests(c, e.image)
      BY <3>2, TestTagIs
    <3> QED
      BY <3>1, <3>3
  <2>5. ASSUME NEW l \in Pipelines, artifact'[l] # None
        PROVE  \E b \in Builds : /\ pipeline'[b] = l
                                  /\ artifact'[l].repo = Repo[b] /\ artifact'[l].tag = TestImage(b)'
    BY <1>1, <1>2, <2>2, <2>5 DEF TestsInv
  <2>6. ASSUME NEW l \in Pipelines, tested'[l] # None, NEW image \in tested'[l]
        PROVE  \E b \in Builds : pipeline'[b] = l /\ Tests(b, image)'
    <3>1. CASE l = k
      <4>1. image \in found
        BY <1>1, <2>2, <2>6, <3>1
      <4> QED
        BY <1>1, <1>3, <2>3, <2>4, <3>1, <4>1
    <3>2. CASE l # k
      <4>1. tested'[l] = tested[l]
        BY <1>1, <2>2, <3>2
      <4>2. PICK b \in Builds : pipeline[b] = l /\ Tests(b, image)
        BY <2>6, <4>1 DEF TestsInv
      <4> QED
        BY <1>1, <1>3, <4>2
    <3> QED
      BY <3>1, <3>2
  <2> QED
    BY <2>5, <2>6 DEF TestsInv
<1>7. UNCHANGED <<artifact, tested>> \/ (\E b \in Builds : WriteArtifact(b)) \/ (\E l \in Pipelines : TestSetup(l))
  BY DEF Next, Step, vars, Begin, SetupBuildkit, BuilderExists, Push, StageBuilt, Fails
<1> QED
  BY <1>4, <1>5, <1>6, <1>7
-----------------------------------------------------------------------------
IInv == SettingsInv /\ StateInv /\ RegistryInv /\ BeforeInv /\ HeldInv /\ TestsInv

\* The inductive invariant: what an invocation has pushed belongs to its stage
\* (StateInv), the registry holds what invocations make (RegistryInv), what was
\* pushed is still there (HeldInv), and files and tests name it (TestsInv).
THEOREM ImagesInvariant == Spec => []IInv
<1>1. Init => IInv
  <2> SUFFICES ASSUME Init PROVE IInv
    OBVIOUS
  <2>1. SettingsInv
    <3>1. pipeline \in Assignments /\ commit \in [Builds -> Commits] /\ imageTags \in TagSettings
          /\ \A b, c \in Builds : pipeline[b] = pipeline[c] => commit[b] = commit[c]
      BY DEF Init
    <3>2. pipeline \in [Builds -> Pipelines]
      BY <3>1, ImageBuildAssumption
    <3>3. \A b \in Builds : File(b) \in Dockerfiles
      BY DEF Init, File
    <3> QED
      BY <3>1, <3>2, <3>3 DEF SettingsInv
  <2>2. StateInv
    <3>1. /\ pc = [b \in Builds |-> "new"] /\ stage = [b \in Builds |-> 0]
          /\ pushed = [b \in Builds |-> {}] /\ builder = {} /\ before = [b \in Builds |-> {}]
      BY DEF Init
    <3>2. DOMAIN artifact = Pipelines /\ DOMAIN tested = Pipelines
      BY DEF Init
    <3> QED
      BY <3>1, <3>2 DEF StateInv
  <2>3. RegistryInv
    BY DEF Init, RegistryInv
  <2>4. BeforeInv
    BY DEF Init, BeforeInv
  <2>5. HeldInv
    BY DEF Init, HeldInv, Pushed
  <2>6. TestsInv
    BY DEF Init, TestsInv
  <2> QED
    BY <2>1, <2>2, <2>3, <2>4, <2>5, <2>6 DEF IInv
<1>2. IInv /\ [Next]_vars => IInv'
  <2> SUFFICES ASSUME IInv, [Next]_vars PROVE IInv'
    OBVIOUS
  <2>1. SettingsInv /\ StateInv /\ RegistryInv /\ BeforeInv /\ HeldInv /\ TestsInv
    BY DEF IInv
  <2>2. SettingsInv'
    BY <2>1, SettingsKept, Settled
  <2>3. StateInv' /\ RegistryInv' /\ BeforeInv'
    BY <2>1, StateKept, RegistryKept, BeforeKept
  <2>4. HeldInv' /\ TestsInv'
    BY <2>1, HeldKept, TestsKept
  <2> QED
    BY <2>2, <2>3, <2>4 DEF IInv
<1> QED
  BY <1>1, <1>2, PTL DEF Spec

\* Each create_images builds the stages it is to build, of a Dockerfile there is,
\* and a tag names one image.
THEOREM ImagesTypeCorrect == Spec => []TypeOK
<1>1. IInv => TypeOK
  <2> SUFFICES ASSUME IInv PROVE TypeOK
    OBVIOUS
  <2>1. SettingsInv /\ StateInv /\ RegistryInv
    BY DEF IInv
  <2>2. ASSUME NEW b \in Builds
        PROVE  /\ stage[b] \in 0..Len(File(b))
               /\ pc[b] = "build" => stage[b] \in BuiltStages(b)
               /\ pushed[b] \subseteq TagsOf(b)
    <3>1. /\ stage[b] \in BuiltStages(b) \cup {0}
          /\ pc[b] = "build" => stage[b] \in BuiltStages(b)
          /\ pushed[b] # {} => stage[b] \in BuiltStages(b)
          /\ pushed[b] # {} => pushed[b] \subseteq ImageTags(b, stage[b])
      BY <2>1 DEF StateInv
    <3>2. PICK i : i = stage[b]
      OBVIOUS
    <3>3. i \in BuiltStages(b) => i \in 1..Len(File(b)) /\ ImageTags(b, i) \subseteq TagsOf(b)
      BY <2>1, StagesAre
    <3>4. pushed[b] # {} => pushed[b] \subseteq ImageTags(b, i)
      BY <3>1, <3>2
    <3>5. Len(File(b)) \in Nat
      BY <2>1, FileIs
    <3>6. stage[b] \in 0..Len(File(b))
      BY <3>1, <3>2, <3>3, <3>5
    <3>7. pushed[b] \subseteq TagsOf(b)
      BY <3>1, <3>2, <3>3, <3>4
    <3> QED
      BY <3>1, <3>6, <3>7
  <2> QED
    BY <2>1, <2>2 DEF TypeOK, SettingsInv, StateInv, RegistryInv
<1> QED
  BY <1>1, ImagesInvariant, PTL

\* A tag of a commit is an image of that commit and of the stage it names,
\* whatever create_images of other pipelines push and wherever they stop.
THEOREM ShaTagsAreTrueHolds == Spec => []ShaTagsAreTrue
<1>1. IInv => ShaTagsAreTrue
  <2> SUFFICES ASSUME IInv, NEW e \in registry, NEW b \in Builds, e.repo = Repo[b], e.tag[1] = Sha(b)
               PROVE  /\ e.image.sha = Sha(b)
                      /\ e.tag = Named(<<Sha(b)>>, File(b)[e.image.stage])
                         \/ (e.tag = <<Sha(b)>> /\ IsFinal(b, e.image.stage))
    BY DEF ShaTagsAreTrue
  <2>1. SettingsInv /\ RegistryInv
    BY DEF IInv
  <2>2. PICK a, k : /\ a \in Builds /\ k \in BuiltStages(a)
                    /\ e.repo = Repo[a] /\ e.tag \in ImageTags(a, k)
                    /\ e.image.sha = Sha(a) /\ e.image.stage = k
    BY <2>1 DEF RegistryInv
  <2>3. PICK t : t = e.tag
    OBVIOUS
  <2>4. Repo[a] = Repo[b] /\ t \in ImageTags(a, k) /\ t[1] = Sha(b)
    BY <2>2, <2>3
  <2>5. Sha(a) = Sha(b) /\ k \in BuiltStages(b) /\ t \in ImageTags(b, k)
    <3>1. a \in Builds /\ k \in BuiltStages(a)
      BY <2>2
    <3> QED
      BY <2>1, <2>4, <3>1, SameCommit
  <2>6. k \in 1..Len(File(b))
    BY <2>5 DEF BuiltStages
  <2>7. t = Named(<<Sha(b)>>, File(b)[k]) \/ (t = <<Sha(b)>> /\ IsFinal(b, k))
    BY <2>1, <2>4, <2>5, <2>6, ShaTagIs
  <2> QED
    BY <2>2, <2>3, <2>5, <2>7
<1> QED
  BY <1>1, ImagesInvariant, PTL

\* What a create_images that succeeded had to push is in the registry.
THEOREM SuccessMeansPushedHolds == Spec => []SuccessMeansPushed
<1>1. IInv => SuccessMeansPushed
  <2> SUFFICES ASSUME IInv, NEW b \in Builds, pc[b] = "done", NEW i \in BuiltStages(b)
               PROVE  /\ \E e \in Holds(Repo[b], Named(<<Sha(b)>>, File(b)[i])) : e.image.stage = i
                      /\ IsFinal(b, i) => \E e \in Holds(Repo[b], <<Sha(b)>>) : e.image.stage = i
    BY DEF SuccessMeansPushed
  <2>1. SettingsInv /\ HeldInv
    BY DEF IInv
  <2>2. PICK bare, name, tag : bare = <<Sha(b)>> /\ name = File(b)[i] /\ tag = Named(<<Sha(b)>>, File(b)[i])
    OBVIOUS
  <2>3. bare \in Seq(Words) /\ Len(bare) > 0 /\ bare[1] = Sha(b) /\ name \in Words
    <3>1. <<Sha(b)>> \in Seq(Words) /\ Len(<<Sha(b)>>) = 1 /\ <<Sha(b)>>[1] = Sha(b)
      BY <2>1, FileIs
    <3>2. File(b)[i] \in Words
      BY <2>1, FileIs DEF BuiltStages
    <3> QED
      BY <2>2, <3>1, <3>2
  <2>4. tag[1] = Sha(b)
    <3>1. i \in 1..Len(File(b))
      BY DEF BuiltStages
    <3> QED
      BY <2>1, <2>2, <3>1, ShaFirst
  <2>5. tag \in ImageTags(b, i) /\ (IsFinal(b, i) => bare \in ImageTags(b, i))
    BY <2>2 DEF ImageTags
  <2>6. ASSUME NEW t \in ImageTags(b, i), t[1] = Sha(b)
        PROVE  \E e \in Holds(Repo[b], t) : e.image.stage = i
    BY <2>1, <2>6 DEF HeldInv, Pushed
  <2> QED
    BY <2>2, <2>3, <2>4, <2>5, <2>6
<1> QED
  BY <1>1, ImagesInvariant, PTL

\* All tags of an invocation that shared them with none at work are its images.
THEOREM LoneBuildOwnsItsTagsHolds == Spec => []LoneBuildOwnsItsTags
<1>1. IInv => LoneBuildOwnsItsTags
  <2> SUFFICES ASSUME IInv, NEW b \in Builds, pc[b] = "done",
                      \A c \in Builds \ {b} :
                        Repo[c] # Repo[b] \/ TagsOf(c) \cap TagsOf(b) = {} \/ c \in before[b] \/ pc[c] = "new",
                      NEW t \in TagsOf(b)
               PROVE  \E e \in Holds(Repo[b], t) : e.image.by = b
    BY DEF LoneBuildOwnsItsTags
  <2>1. Lone(b)
    BY DEF Lone
  <2>2. PICK i \in BuiltStages(b) : t \in ImageTags(b, i)
    BY DEF TagsOf
  <2>3. pc[b] \in {"artifact", "done"}
    OBVIOUS
  <2>4. Pushed(b, i, t)
    BY <2>2, <2>3 DEF Pushed
  <2>5. HeldInv
    BY DEF IInv
  <2> QED
    BY <2>1, <2>2, <2>4, <2>5 DEF HeldInv
<1> QED
  BY <1>1, ImagesInvariant, PTL

\* The build jobs of one pipeline build one image repository.
OneRepository ==
  \A as \in Assignments : \A b, c \in Builds : as[b] = as[c] => Repo[b] = Repo[c]

\* Tests run on images of the commit of their pipeline and of the test stage,
\* if its build jobs build one image repository: the file names only the last.
THEOREM TestedIsTheCommitHolds == ASSUME OneRepository PROVE Spec => []TestedIsTheCommit
<1>1. ASSUME IInv PROVE TestedIsTheCommit
  <2>1. SettingsInv /\ TestsInv
    BY <1>1 DEF IInv
  <2>2. ASSUME NEW b \in Builds, tested[pipeline[b]] # None, NEW image \in tested[pipeline[b]]
        PROVE  Tests(b, image)
    <3>1. pipeline[b] \in Pipelines
      BY <2>1 DEF SettingsInv
    <3>2. PICK c \in Builds : pipeline[c] = pipeline[b] /\ Tests(c, image)
      BY <2>1, <2>2, <3>1 DEF TestsInv
    <3>3. Sha(c) = Sha(b) /\ Repo[c] = Repo[b]
      <4>1. commit[c] = commit[b] /\ pipeline \in Assignments
        BY <2>1, <3>2 DEF SettingsInv
      <4>2. Repo[c] = Repo[b]
        BY <3>2, <4>1 DEF OneRepository
      <4> QED
        BY <4>1, <4>2 DEF Sha
    <3>4. File(c) = File(b)
      BY <3>3 DEF File
    <3> QED
      BY <3>2, <3>3, <3>4 DEF Tests, IsFinal
  <2> QED
    BY <2>2 DEF TestedIsTheCommit, Tests
<1> QED
  BY <1>1, ImagesInvariant, PTL
=============================================================================
