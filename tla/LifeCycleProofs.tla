--------------------------- MODULE LifeCycleProofs ---------------------------
(***************************************************************************)
(* What the trace and the announcements of a run tell is true, however     *)
(* many phases the run has, whichever plugins are loaded in whichever      *)
(* order, and whatever raises.                                             *)
(***************************************************************************)
EXTENDS LifeCycle, SequenceTheorems, TLAPS

Phases == {"application", "git_submodule_update", "buildx_setup_buildkit", "container_build",
           "container_build_stage", "project_deployment", "service_deployment"}

\* How deep in the tree of phases a phase is: those of a stack all differ.
Depth(phase) ==
  IF phase = "application" THEN 1 ELSE IF phase = "container_build_stage" THEN 3 ELSE 2

FrameType == [id : Nat, phase : Phases, mode : {"begin", "body", "complete"}, next : Nat \ {0},
              todo : SUBSET Nat, error : Nat]
SpanType == [frame : Nat, phase : Phases, state : {"open", "ok", "error"}, parent : Nat,
             errors : SUBSET Nat]

Loaded(plugin) == \E i \in DOMAIN order : order[i] = plugin

\* A plugin is still to be called by the hook that a frame is at.
Awaits(f, plugin) == \E i \in f.todo : order[i] = plugin

\* What may keep a span open: the exception of a plugin called before.
Lost == raised > 0 /\ \E i, j \in DOMAIN order :
                        i < j /\ order[i] = "opentelemetry" /\ order[j] = "slack"

Types ==
  /\ command \in Commands /\ order \in Seq(Plugins)
  /\ \A i, j \in DOMAIN order : order[i] = order[j] => i = j
  /\ frames \in Seq(FrameType) /\ spans \in Seq(SpanType) /\ context \in Seq(Nat)
  /\ phases \in Seq(Phases) /\ raised \in Nat
  /\ interrupted \in BOOLEAN /\ (interrupted => frames = <<>>)
  /\ announced \subseteq 1..Len(phases) /\ broken \subseteq 1..Len(phases)

\* The frames are a path in the tree of phases; all but the innermost are in their
\* bodies, and only the innermost has to do with an exception.
StackInv ==
  /\ \A k \in 1..Len(frames) :
       LET f == frames[k] IN
       /\ f.id \in 1..Len(phases) /\ f.phase = phases[f.id] /\ Depth(f.phase) = k
       /\ f.mode # "body" => k = Len(frames) /\ f.todo \subseteq Hooks(f.phase, f.mode)
       /\ f.error = IF k = Len(frames) THEN raised ELSE 0
       /\ k = Len(frames) /\ raised # 0 => f.mode = "complete"
       /\ f.id \in broken <=> k = Len(frames) /\ raised # 0
  /\ \A k, l \in 1..Len(frames) : k < l => frames[k].id < frames[l].id

\* The spans come in the order of their phases; one that has ended tells whether its
\* body has raised, and its phase is over or about to be.
SpanInv ==
  /\ \A s \in 1..Len(spans) :
       LET p == spans[s] IN
       /\ p.frame \in 1..Len(phases) /\ p.phase = phases[p.frame]
       /\ p.phase # "buildx_setup_buildkit" /\ Loaded("opentelemetry")
       /\ p.parent < s /\ p.errors \subseteq 1..raised
       /\ p.state # "open" => (p.state = "error" <=> p.frame \in broken)
       /\ \A k \in 1..Len(frames) :
            /\ frames[k].id = p.frame /\ p.state # "open" => frames[k].mode = "complete"
            /\ frames[k].mode = "begin" /\ Awaits(frames[k], "opentelemetry")
                 => p.frame < frames[k].id
  /\ \A s, t \in 1..Len(spans) : s < t => spans[s].frame < spans[t].frame
  /\ \A s, t \in 1..Len(spans) : s # t => spans[s].errors \cap spans[t].errors = {}

\* The context stack holds the open spans, each the parent of the next; while
\* nothing was lost, they are of phases being run that have yet to end them.
ContextInv ==
  /\ \A i \in 1..Len(context) :
       /\ context[i] \in 1..Len(spans)
       /\ spans[context[i]].parent = IF i = 1 THEN 0 ELSE context[i - 1]
  /\ \A i, j \in 1..Len(context) : i < j => context[i] < context[j]
  /\ \A s \in 1..Len(spans) : spans[s].state = "open" <=> \E i \in 1..Len(context) : context[i] = s
  /\ \A i \in 1..Len(context), k \in 1..Len(frames) :
       spans[context[i]].phase = frames[k].phase => spans[context[i]].frame = frames[k].id
  /\ ~interrupted /\ ~Lost =>
       \A i \in 1..Len(context) : \E k \in 1..Len(frames) :
         /\ frames[k].id = spans[context[i]].frame
         /\ frames[k].mode = "complete" => Awaits(frames[k], "opentelemetry")

\* What Slack has told is of projects whose body returned; while nothing was raised,
\* it has told of all whose deployment is over.
AnnounceInv ==
  /\ announced \cap broken = {}
  /\ \A k \in 1..Len(frames) : frames[k].id \in announced => frames[k].mode = "complete"
  /\ Loaded("slack") =>
       /\ \A f \in 1..Len(phases) :
            phases[f] = "project_deployment" /\ f < Len(phases) => f \in announced
       /\ raised = 0 /\ ~interrupted =>
            \A f \in 1..Len(phases) : phases[f] = "project_deployment" =>
              \/ f \in announced
              \/ \E k \in 1..Len(frames) :
                   /\ frames[k].id = f
                   /\ frames[k].mode = "complete" => Awaits(frames[k], "slack")

Inv == Types /\ StackInv /\ SpanInv /\ ContextInv /\ AnnounceInv
-----------------------------------------------------------------------------
(* The stack of frames. *)

\* The innermost phase is on the stack.
LEMMA TopIs ==
  ASSUME Types, frames # <<>>
  PROVE  /\ Len(frames) \in Nat \ {0} /\ Len(frames) \in 1..Len(frames)
         /\ Top = frames[Len(frames)] /\ Top \in FrameType
         /\ \A k \in 1..Len(frames) : frames[k] \in FrameType
<1>1. frames \in Seq(FrameType)
  BY DEF Types
<1>2. Len(frames) \in Nat \ {0}
  BY <1>1, EmptySeq
<1>3. \A k \in 1..Len(frames) : frames[k] \in FrameType
  BY <1>1, ElementOfSeq
<1> QED
  BY <1>2, <1>3 DEF Top

\* Only the innermost phase changes.
LEMMA TopChanges ==
  ASSUME Types, frames # <<>>, NEW g \in FrameType, frames' = WithTop(g)
  PROVE  /\ frames' \in Seq(FrameType) /\ Len(frames') = Len(frames)
         /\ frames'[Len(frames)] = g /\ frames' # <<>>
         /\ \A k \in 1..Len(frames) : k # Len(frames) => frames'[k] = frames[k]
<1>1. frames \in Seq(FrameType)
  BY DEF Types
<1>2. Len(frames) \in 1..Len(frames) /\ Len(frames) # 0
  BY TopIs
<1>3. frames' = [frames EXCEPT ![Len(frames)] = g]
  BY DEF WithTop
<1>4. /\ frames' \in Seq(FrameType) /\ Len(frames') = Len(frames)
      /\ \A k \in 1..Len(frames) : frames'[k] = IF k = Len(frames) THEN g ELSE frames[k]
  BY <1>1, <1>2, <1>3, ExceptSeq
<1>5. Len(<<>>) = 0
  BY EmptySeq
<1> QED
  BY <1>2, <1>4, <1>5

\* What is around the innermost phase.
LEMMA FrontIs ==
  ASSUME NEW S, NEW s \in Seq(S), s # <<>>
  PROVE  /\ Front(s) \in Seq(S) /\ Len(Front(s)) = Len(s) - 1
         /\ \A k \in 1..Len(s) - 1 : Front(s)[k] = s[k]
         /\ Last(s) = s[Len(s)] /\ Last(s) \in S
<1>1. Len(s) \in Nat \ {0} /\ Len(s) \in 1..Len(s)
  BY EmptySeq
<1>2. \A k \in 1..Len(s) - 1 : s[k] \in S
  BY <1>1, ElementOfSeq
<1>3. /\ SubSeq(s, 1, Len(s) - 1) \in Seq(S)
      /\ Len(SubSeq(s, 1, Len(s) - 1)) = IF 1 <= Len(s) - 1 THEN Len(s) - 1 - 1 + 1 ELSE 0
      /\ \A k \in 1..Len(s) - 1 - 1 + 1 : SubSeq(s, 1, Len(s) - 1)[k] = s[1 + k - 1]
  <2>1. 1 \in Int /\ Len(s) - 1 \in Int
    BY <1>1
  <2> QED
    BY <1>2, <2>1, SubSeqProperties
<1>4. Last(s) = s[Len(s)] /\ Last(s) \in S
  BY <1>1, ElementOfSeq DEF Last
<1>5. /\ Front(s) \in Seq(S) /\ Len(Front(s)) = Len(s) - 1
      /\ \A k \in 1..Len(s) - 1 : Front(s)[k] = s[k]
  <2> DEFINE n == Len(s)
             f == Front(s)
  <2>1. f \in Seq(S) /\ Len(f) = (IF 1 <= n - 1 THEN n - 1 - 1 + 1 ELSE 0)
    BY <1>3 DEF Front
  <2>2. \A k \in 1..n - 1 - 1 + 1 : f[k] = s[1 + k - 1]
    BY <1>3 DEF Front
  <2>3. n \in Nat \ {0}
    BY <1>1
  <2> HIDE DEF n, f
  <2>4. Len(f) = n - 1
    BY <2>1, <2>3
  <2>5. \A k \in 1..n - 1 : k \in 1..n - 1 - 1 + 1 /\ 1 + k - 1 = k
    BY <2>3
  <2>6. \A k \in 1..n - 1 : f[k] = s[k]
    BY <2>2, <2>5
  <2> QED
    BY <2>1, <2>4, <2>6 DEF f, n
<1> QED
  BY <1>4, <1>5

\* A hook calls plugins that are loaded.
LEMMA HooksIn ==
  ASSUME order \in Seq(Plugins), NEW phase, NEW hook
  PROVE  /\ Hooks(phase, hook) \subseteq Nat /\ Hooks(phase, hook) \subseteq DOMAIN order
<1>1. DOMAIN order = 1..Len(order) /\ Len(order) \in Nat
  BY LenProperties
<1> QED
  BY <1>1 DEF Hooks

\* The phases of a body are one level deeper.
LEMMA ChildrenAreDeeper ==
  ASSUME Types, NEW phase \in Phases, NEW n \in Nat \ {0}, n <= Len(Children(phase))
  PROVE  /\ phase # "project_deployment"
         /\ Children(phase)[n] \in Phases
         /\ Depth(Children(phase)[n]) = Depth(phase) + 1
<1> DEFINE c == Children(phase)
<1>1. Len(<<>>) = 0
  BY EmptySeq
<1>2. CASE phase = "application"
  <2>1. CASE command = "create_images"
    <3>1. c = <<"git_submodule_update", "buildx_setup_buildkit", "container_build">>
      BY <1>2, <2>1 DEF Children
    <3>2. n \in 1..3
      BY <3>1
    <3> HIDE DEF c
    <3>3. c[n] \in {"git_submodule_update", "buildx_setup_buildkit", "container_build"}
      BY <3>1, <3>2
    <3> QED
      BY <1>2, <3>3 DEF c, Depth, Phases
  <2>2. CASE command = "deploy_application"
    <3>1. c = [i \in 1..N |-> "project_deployment"]
      BY <1>2, <2>2 DEF Children
    <3> HIDE DEF c
    <3>2. c \in Seq({"project_deployment"})
      <4>1. N \in Nat
        BY LifeCycleAssumption
      <4>2. c \in [1..N -> {"project_deployment"}]
        BY <3>1
      <4> QED
        BY <4>1, <4>2, SeqDef
    <3>3. n \in 1..Len(c)
      BY <3>2, LenProperties DEF c
    <3>4. c[n] = "project_deployment"
      BY <3>2, <3>3, ElementOfSeq
    <3> QED
      BY <1>2, <3>4 DEF c, Depth, Phases
  <2>3. CASE command = "deploy_service"
    <3>1. c = <<"service_deployment">>
      BY <1>2, <2>3 DEF Children
    <3>2. n = 1
      BY <3>1
    <3> HIDE DEF c
    <3>3. c[n] = "service_deployment"
      BY <3>1, <3>2
    <3> QED
      BY <1>2, <3>3 DEF c, Depth, Phases
  <2> QED
    BY <2>1, <2>2, <2>3 DEF Types, Commands
<1>3. CASE phase = "container_build"
  <2>1. c = [i \in 1..N |-> "container_build_stage"]
    BY <1>3 DEF Children
  <2> HIDE DEF c
  <2>2. c \in Seq({"container_build_stage"})
    <3>1. N \in Nat
      BY LifeCycleAssumption
    <3>2. c \in [1..N -> {"container_build_stage"}]
      BY <2>1
    <3> QED
      BY <3>1, <3>2, SeqDef
  <2>3. n \in 1..Len(c)
    BY <2>2, LenProperties DEF c
  <2>4. c[n] = "container_build_stage"
    BY <2>2, <2>3, ElementOfSeq
  <2> QED
    BY <1>3, <2>4 DEF c, Depth, Phases
<1>4. CASE phase \notin {"application", "container_build"}
  <2>1. c = <<>>
    BY <1>4 DEF Children
  <2> QED
    BY <1>1, <2>1
<1> QED
  BY <1>2, <1>3, <1>4

\* A phase begins with the begin hooks of the plugins,
LEMMA FrameIs ==
  ASSUME order \in Seq(Plugins), NEW id \in Nat, NEW phase \in Phases
  PROVE  /\ Frame(id, phase) \in FrameType
         /\ Frame(id, phase).id = id /\ Frame(id, phase).phase = phase
         /\ Frame(id, phase).mode = "begin" /\ Frame(id, phase).error = 0
         /\ Frame(id, phase).todo = Hooks(phase, "begin")
<1>1. Hooks(phase, "begin") \in SUBSET Nat
  BY HooksIn
<1> QED
  BY <1>1 DEF Frame, FrameType

\* and ends with the complete hooks.
LEMMA EndingIs ==
  ASSUME order \in Seq(Plugins), NEW f \in FrameType, NEW e \in Nat
  PROVE  /\ Ending(f, e) \in FrameType
         /\ Ending(f, e).id = f.id /\ Ending(f, e).phase = f.phase
         /\ Ending(f, e).mode = "complete" /\ Ending(f, e).error = e
         /\ Ending(f, e).todo = Hooks(f.phase, "complete")
<1>1. Hooks(f.phase, "complete") \in SUBSET Nat
  BY HooksIn
<1> QED
  BY <1>1 DEF Ending, FrameType

\* Nothing of it changes when a plugin has been called but what is left to call,
LEMMA CalledIs ==
  ASSUME NEW f \in FrameType, NEW i
  PROVE  LET g == [f EXCEPT !.todo = @ \ {i}] IN
         /\ g \in FrameType
         /\ g.id = f.id /\ g.phase = f.phase /\ g.mode = f.mode /\ g.error = f.error
         /\ g.todo = f.todo \ {i}
BY DEF FrameType

\* when its body starts,
LEMMA StartedIs ==
  ASSUME NEW f \in FrameType
  PROVE  LET g == [f EXCEPT !.mode = "body"] IN
         /\ g \in FrameType
         /\ g.id = f.id /\ g.phase = f.phase /\ g.mode = "body" /\ g.error = f.error
         /\ g.todo = f.todo
BY DEF FrameType

\* or when it has entered a phase.
LEMMA EnteredIs ==
  ASSUME NEW f \in FrameType
  PROVE  LET g == [f EXCEPT !.next = @ + 1] IN
         /\ g \in FrameType
         /\ g.id = f.id /\ g.phase = f.phase /\ g.mode = f.mode /\ g.error = f.error
         /\ g.todo = f.todo
BY DEF FrameType

\* The innermost phase is left, with an exception or not.
LEMMA LeaveIs ==
  ASSUME Types, frames # <<>>, NEW e \in Nat, Leave(e)
  PROVE  LET m == Len(frames) - 1 IN
         /\ frames' \in Seq(FrameType) /\ Len(frames') = m /\ m \in Nat
         /\ \A k \in 1..m : k # m \/ e = 0 => frames'[k] = frames[k]
         /\ e = 0 \/ m = 0 => broken' = broken
         /\ e # 0 /\ m # 0 => /\ frames'[m] = Ending(frames[m], e)
                              /\ broken' = broken \cup {frames[m].id}
<1> DEFINE m == Len(frames) - 1
           outer == Front(frames)
<1>1. frames \in Seq(FrameType) /\ order \in Seq(Plugins)
  BY DEF Types
<1>2. /\ outer \in Seq(FrameType) /\ Len(outer) = m
      /\ \A k \in 1..m : outer[k] = frames[k]
  BY <1>1, FrontIs
<1>3. m \in Nat
  BY <1>2, LenProperties
<1>4. outer = <<>> => m = 0
  BY <1>2, EmptySeq
<1>5. outer # <<>> => m # 0
  BY <1>2, EmptySeq
<1>6. CASE e = 0 \/ outer = <<>>
  <2>1. frames' = outer /\ broken' = broken
    BY <1>6 DEF Leave
  <2> QED
    BY <1>2, <1>3, <1>4, <1>6, <2>1
<1>7. CASE ~(e = 0 \/ outer = <<>>)
  <2>1. m \in 1..Len(outer)
    BY <1>2, <1>3, <1>5, <1>7
  <2>2. outer[m] \in FrameType /\ outer[m] = frames[m] /\ Last(outer) = outer[m]
    BY <1>2, <2>1, ElementOfSeq DEF Last
  <2>3. Ending(outer[m], e) \in FrameType
    BY <1>1, <2>2, EndingIs
  <2>4. frames' = [outer EXCEPT ![m] = Ending(outer[m], e)] /\ broken' = broken \cup {outer[m].id}
    BY <1>2, <1>7, <2>2 DEF Leave
  <2> HIDE DEF outer
  <2>5. /\ frames' \in Seq(FrameType) /\ Len(frames') = Len(outer)
        /\ \A k \in 1..Len(outer) : frames'[k] = IF k = m THEN Ending(outer[m], e) ELSE outer[k]
    BY <1>2, <2>1, <2>3, <2>4, ExceptSeq
  <2> QED
    BY <1>2, <1>3, <1>7, <2>1, <2>2, <2>4, <2>5
<1> QED
  BY <1>6, <1>7

-----------------------------------------------------------------------------
(* How the stack changes. *)

\* A step of the innermost phase keeps the stack what it is.
LEMMA StackTop ==
  ASSUME Types, StackInv, frames # <<>>, NEW g \in FrameType, frames' = WithTop(g),
         g.id = Top.id, g.phase = Top.phase, g.error = raised',
         g.mode # "body" => g.todo \subseteq Hooks(g.phase, g.mode),
         raised' # 0 => g.mode = "complete",
         UNCHANGED <<phases, order>>,
         broken' = IF raised' = 0 THEN broken ELSE broken \cup {Top.id},
         raised # 0 => raised' # 0
  PROVE  StackInv'
<1> DEFINE n == Len(frames)
<1>1. /\ Len(frames') = n /\ frames'[n] = g
      /\ \A k \in 1..n : k # n => frames'[k] = frames[k]
  BY TopChanges
<1>2. n \in Nat \ {0} /\ n \in 1..n /\ Top = frames[n]
  BY TopIs
<1>3. \A k \in 1..n : frames'[k].id = frames[k].id /\ frames'[k].phase = frames[k].phase
  BY <1>1, <1>2
<1>4. \A k \in 1..n : k # n => frames[k].id # g.id
  BY <1>2 DEF StackInv, FrameType
<1>5. ASSUME NEW k \in 1..n
      PROVE  LET f == frames'[k] IN
             /\ f.id \in 1..Len(phases') /\ f.phase = phases'[f.id] /\ Depth(f.phase) = k
             /\ f.mode # "body" => k = n /\ f.todo \subseteq Hooks(f.phase, f.mode)
             /\ f.error = IF k = n THEN raised' ELSE 0
             /\ k = n /\ raised' # 0 => f.mode = "complete"
             /\ f.id \in broken' <=> k = n /\ raised' # 0
  <2>1. CASE k = n
    <3>1. raised' = 0 => g.id \notin broken
      BY <1>2 DEF StackInv
    <3>2. g.id \in broken' <=> raised' # 0
      BY <3>1
    <3>3. g.id \in 1..Len(phases) /\ g.phase = phases[g.id] /\ Depth(g.phase) = n
      BY <1>2 DEF StackInv
    <3> QED
      BY <1>1, <2>1, <3>2, <3>3
  <2>2. CASE k # n
    <3>1. frames'[k] = frames[k] /\ frames[k].id # Top.id
      BY <1>1, <1>4, <2>2
    <3>2. frames[k].id \notin broken'
      BY <2>2, <3>1 DEF StackInv
    <3> QED
      BY <2>2, <3>1, <3>2 DEF StackInv
  <2> QED
    BY <2>1, <2>2
<1>6. \A k, l \in 1..n : k < l => frames'[k].id < frames'[l].id
  BY <1>3 DEF StackInv
<1>7. \A phase, hook : Hooks(phase, hook)' = Hooks(phase, hook)
  BY DEF Hooks
<1> QED
  BY <1>1, <1>5, <1>6, <1>7 DEF StackInv

\* So does leaving it.
LEMMA StackLeave ==
  ASSUME Types, StackInv, frames # <<>>, raised' \in Nat, Leave(raised'),
         UNCHANGED <<phases, order>>, raised # 0 => raised' # 0
  PROVE  StackInv'
<1> DEFINE n == Len(frames)
           m == n - 1
<1>1. /\ Len(frames') = m /\ m \in Nat
      /\ \A k \in 1..m : k # m \/ raised' = 0 => frames'[k] = frames[k]
      /\ raised' = 0 \/ m = 0 => broken' = broken
      /\ raised' # 0 /\ m # 0 => /\ frames'[m] = Ending(frames[m], raised')
                                 /\ broken' = broken \cup {frames[m].id}
  BY LeaveIs
<1>2. n \in Nat \ {0} /\ \A k \in 1..n : frames[k] \in FrameType
  BY TopIs
<1>3. \A k \in 1..m : k \in 1..n /\ k # n
  BY <1>2
<1>4. ASSUME NEW k \in 1..m, k # m PROVE frames[k].id # frames[m].id
  <2>1. m \in 1..n /\ k \in 1..n /\ k < m
    BY <1>1, <1>2, <1>4
  <2>2. frames[k].id < frames[m].id
    BY <2>1 DEF StackInv
  <2>3. frames[k].id \in Nat /\ frames[m].id \in Nat
    BY <1>2, <2>1 DEF FrameType
  <2> QED
    BY <2>2, <2>3
<1>5. ASSUME raised' # 0, m # 0
      PROVE  /\ frames'[m].id = frames[m].id /\ frames'[m].phase = frames[m].phase
             /\ frames'[m].mode = "complete" /\ frames'[m].error = raised'
             /\ frames'[m].todo = Hooks(frames[m].phase, "complete")
  <2>1. frames[m] \in FrameType /\ order \in Seq(Plugins)
    BY <1>1, <1>2, <1>5 DEF Types
  <2>2. PICK e \in Nat : e = raised'
    OBVIOUS
  <2>3. PICK f \in FrameType : f = frames[m]
    BY <2>1
  <2>4. frames'[m] = Ending(f, e)
    BY <1>1, <1>5, <2>2, <2>3
  <2>5. /\ Ending(f, e).id = f.id /\ Ending(f, e).phase = f.phase
        /\ Ending(f, e).mode = "complete" /\ Ending(f, e).error = e
        /\ Ending(f, e).todo = Hooks(f.phase, "complete")
    BY <2>1, EndingIs
  <2> QED
    BY <2>2, <2>3, <2>4, <2>5
<1> HIDE DEF m
<1>6. \A k \in 1..m : frames'[k].id = frames[k].id /\ frames'[k].phase = frames[k].phase
  BY <1>1, <1>5
<1>7. ASSUME NEW k \in 1..m
      PROVE  LET f == frames'[k] IN
             /\ f.id \in 1..Len(phases') /\ f.phase = phases'[f.id] /\ Depth(f.phase) = k
             /\ f.mode # "body" => k = m /\ f.todo \subseteq Hooks(f.phase, f.mode)
             /\ f.error = IF k = m THEN raised' ELSE 0
             /\ k = m /\ raised' # 0 => f.mode = "complete"
             /\ f.id \in broken' <=> k = m /\ raised' # 0
  <2>1. /\ frames[k].id \in 1..Len(phases) /\ frames[k].phase = phases[frames[k].id]
        /\ Depth(frames[k].phase) = k
        /\ frames[k].mode = "body" /\ frames[k].error = 0 /\ frames[k].id \notin broken
    BY <1>3 DEF StackInv
  <2>2. CASE raised' = 0
    BY <1>1, <2>1, <2>2
  <2>3. CASE raised' # 0 /\ k = m
    <3>1. m # 0
      BY <1>1, <2>3
    <3> QED
      BY <1>1, <1>5, <2>1, <2>3, <3>1
  <2>4. CASE raised' # 0 /\ k # m
    <3>1. m # 0 /\ frames'[k] = frames[k]
      BY <1>1, <2>4
    <3> QED
      BY <1>1, <1>4, <2>1, <2>4, <3>1
  <2> QED
    BY <2>2, <2>3, <2>4
<1>8. \A k, l \in 1..m : k < l => frames'[k].id < frames'[l].id
  BY <1>3, <1>6 DEF StackInv
<1>9. \A phase, hook : Hooks(phase, hook)' = Hooks(phase, hook)
  BY DEF Hooks
<1> QED
  BY <1>1, <1>7, <1>8, <1>9 DEF StackInv

-----------------------------------------------------------------------------
(* Steps that leave the spans alone. *)

\* A frame goes on being of the same phase, and only forwards.
GoesOn(k) ==
  /\ k \in 1..Len(frames)
  /\ frames'[k].id = frames[k].id /\ frames'[k].phase = frames[k].phase
  /\ frames[k].mode = "complete" => frames'[k].mode = "complete"
  /\ frames'[k].mode = "begin" => frames[k].mode = "begin" /\ frames'[k].todo \subseteq frames[k].todo

IsNew(k) == frames'[k].id \in Nat /\ frames'[k].id > Len(phases)

\* Phases are only added, exceptions only raised, and in bodies that run.
Past ==
  /\ UNCHANGED order
  /\ Len(phases) <= Len(phases') /\ Len(phases') \in Nat
  /\ \A f \in 1..Len(phases) : phases'[f] = phases[f]
  /\ raised <= raised' /\ raised' \in Nat
  /\ interrupted => interrupted'
  /\ broken \subseteq broken'
  /\ \A f \in broken' \ broken :
       \E k \in 1..Len(frames) : frames[k].id = f /\ frames[k].mode # "complete"
  /\ \A k \in 1..Len(frames') : GoesOn(k) \/ IsNew(k)

\* A step of the history that leaves the spans alone.
Quiet == Past /\ UNCHANGED <<spans, context>>

\* The spans still tell how their phases went,
LEMMA SpansKept ==
  ASSUME Types, SpanInv, Quiet
  PROVE  SpanInv'
<1>1. Len(phases) \in Nat /\ raised \in Nat
  BY LenProperties DEF Types
<1>2. spans' = spans /\ order' = order
  BY DEF Quiet, Past
<1>3. \A f : Awaits(f, "opentelemetry")' <=> Awaits(f, "opentelemetry")
  BY <1>2 DEF Awaits
<1>4. Loaded("opentelemetry")' <=> Loaded("opentelemetry")
  BY <1>2 DEF Loaded
<1>5. ASSUME NEW s \in 1..Len(spans)
      PROVE  LET p == spans[s] IN
             /\ p.frame \in 1..Len(phases') /\ p.phase = phases'[p.frame]
             /\ p.phase # "buildx_setup_buildkit" /\ Loaded("opentelemetry")
             /\ p.parent < s /\ p.errors \subseteq 1..raised'
             /\ p.state # "open" => (p.state = "error" <=> p.frame \in broken')
             /\ \A k \in 1..Len(frames') :
                  /\ frames'[k].id = p.frame /\ p.state # "open" => frames'[k].mode = "complete"
                  /\ frames'[k].mode = "begin" /\ Awaits(frames'[k], "opentelemetry")
                       => p.frame < frames'[k].id
  <2> DEFINE p == spans[s]
  <2>1. /\ p.frame \in 1..Len(phases) /\ p.phase = phases[p.frame]
        /\ p.phase # "buildx_setup_buildkit" /\ Loaded("opentelemetry")
        /\ p.parent < s /\ p.errors \subseteq 1..raised
        /\ p.state # "open" => (p.state = "error" <=> p.frame \in broken)
    BY DEF SpanInv
  <2>2. \A k \in 1..Len(frames) :
          /\ frames[k].id = p.frame /\ p.state # "open" => frames[k].mode = "complete"
          /\ frames[k].mode = "begin" /\ Awaits(frames[k], "opentelemetry")
               => p.frame < frames[k].id
    BY DEF SpanInv
  <2> HIDE DEF p
  <2>3. p.frame \in 1..Len(phases') /\ p.phase = phases'[p.frame]
    BY <1>1, <2>1 DEF Quiet, Past
  <2>4. p.errors \subseteq 1..raised'
    BY <1>1, <2>1 DEF Quiet, Past
  <2>5. p.state # "open" => (p.state = "error" <=> p.frame \in broken')
    <3>1. p.state # "open" /\ p.frame \in broken' => p.frame \in broken
      BY <2>2 DEF Quiet, Past
    <3> QED
      BY <2>1, <3>1 DEF Quiet, Past
  <2>6. ASSUME NEW k \in 1..Len(frames')
        PROVE  /\ frames'[k].id = p.frame /\ p.state # "open" => frames'[k].mode = "complete"
               /\ frames'[k].mode = "begin" /\ Awaits(frames'[k], "opentelemetry")
                    => p.frame < frames'[k].id
    <3>1. CASE GoesOn(k)
      BY <2>2, <3>1 DEF GoesOn, Awaits
    <3>2. CASE IsNew(k)
      <4>1. PICK id \in Nat : id = frames'[k].id /\ id > Len(phases)
        BY <3>2 DEF IsNew
      <4>2. p.frame < id /\ p.frame # id
        BY <1>1, <2>1, <4>1
      <4> QED
        BY <4>1, <4>2
    <3> QED
      BY <3>1, <3>2 DEF Quiet, Past
  <2> QED
    BY <2>1, <2>3, <2>4, <2>5, <2>6 DEF p
<1>6. /\ \A s, t \in 1..Len(spans) : s < t => spans[s].frame < spans[t].frame
      /\ \A s, t \in 1..Len(spans) : s # t => spans[s].errors \cap spans[t].errors = {}
  BY DEF SpanInv
<1> QED
  BY <1>2, <1>3, <1>4, <1>5, <1>6 DEF SpanInv

\* and those that are open go on being of phases that will end them.
LEMMA ContextKept ==
  ASSUME Types, ContextInv, Quiet,
         \A k \in 1..Len(frames') : IsNew(k) =>
           \A i \in 1..Len(context) : spans[context[i]].phase # frames'[k].phase,
         ~interrupted' /\ ~Lost' =>
           \A k \in 1..Len(frames), i \in 1..Len(context) : spans[context[i]].frame = frames[k].id =>
             /\ k \in 1..Len(frames') /\ GoesOn(k)
             /\ frames'[k].mode = "complete" => Awaits(frames'[k], "opentelemetry")
  PROVE  ContextInv'
<1>1. spans' = spans /\ context' = context /\ order' = order
  BY DEF Quiet, Past
<1>2. \A f : Awaits(f, "opentelemetry")' <=> Awaits(f, "opentelemetry")
  BY <1>1 DEF Awaits
<1>3. ASSUME NEW i \in 1..Len(context), NEW k \in 1..Len(frames'),
             spans[context[i]].phase = frames'[k].phase
      PROVE  spans[context[i]].frame = frames'[k].id
  <2>1. GoesOn(k)
    BY <1>3 DEF Quiet, Past
  <2> QED
    BY <1>3, <2>1 DEF GoesOn, ContextInv
<1>4. ~interrupted' /\ ~Lost' => ~interrupted /\ ~Lost
  <2>1. Lost => Lost'
    <3>1. raised \in Nat /\ raised' \in Nat /\ raised <= raised'
      BY DEF Types, Quiet, Past
    <3>2. raised > 0 => raised' > 0
      BY <3>1
    <3> QED
      BY <1>1, <3>2 DEF Lost
  <2> QED
    BY <2>1 DEF Quiet, Past
<1>5. ASSUME ~interrupted', ~Lost', NEW i \in 1..Len(context)
      PROVE  \E k \in 1..Len(frames') :
               /\ frames'[k].id = spans[context[i]].frame
               /\ frames'[k].mode = "complete" => Awaits(frames'[k], "opentelemetry")
  <2>1. PICK k \in 1..Len(frames) : frames[k].id = spans[context[i]].frame
    BY <1>4, <1>5 DEF ContextInv
  <2>2. /\ k \in 1..Len(frames') /\ GoesOn(k)
        /\ frames'[k].mode = "complete" => Awaits(frames'[k], "opentelemetry")
    BY <1>5, <2>1
  <2>3. frames'[k].id = spans[context[i]].frame
    BY <2>1, <2>2 DEF GoesOn
  <2> QED
    BY <2>2, <2>3
<1>6. /\ \A i \in 1..Len(context) :
           /\ context[i] \in 1..Len(spans)
           /\ spans[context[i]].parent = IF i = 1 THEN 0 ELSE context[i - 1]
      /\ \A i, j \in 1..Len(context) : i < j => context[i] < context[j]
      /\ \A s \in 1..Len(spans) :
           spans[s].state = "open" <=> \E i \in 1..Len(context) : context[i] = s
  BY DEF ContextInv
<1> QED
  BY <1>1, <1>2, <1>3, <1>5, <1>6 DEF ContextInv

\* Awaiting is a matter of what is left to call.
LEMMA AwaitsIs ==
  ASSUME NEW f, NEW phase, NEW hook, f.todo = Hooks(phase, hook),
         NEW plugin, Loaded(plugin), Implements(plugin, phase, hook)
  PROVE  Awaits(f, plugin)
BY DEF Awaits, Loaded, Hooks

\* A step of the innermost phase is part of the history of the run,
LEMMA TopPast ==
  ASSUME Types, StackInv, frames # <<>>, NEW g \in FrameType, frames' = WithTop(g),
         g.id = Top.id, g.phase = Top.phase,
         Top.mode = "complete" => g.mode = "complete",
         g.mode = "begin" => Top.mode = "begin" /\ g.todo \subseteq Top.todo,
         UNCHANGED <<order, phases, interrupted>>,
         raised' \in Nat, raised <= raised',
         broken' = broken \/ (broken' = broken \cup {Top.id} /\ Top.mode # "complete")
  PROVE  /\ Past
         /\ \A k \in 1..Len(frames) : GoesOn(k) /\ ~IsNew(k)
<1> DEFINE n == Len(frames)
<1>1. /\ Len(frames') = n /\ frames'[n] = g
      /\ \A k \in 1..n : k # n => frames'[k] = frames[k]
  BY TopChanges
<1>2. n \in Nat \ {0} /\ n \in 1..n /\ Top = frames[n]
  BY TopIs
<1>3. ASSUME NEW k \in 1..n PROVE GoesOn(k) /\ ~IsNew(k)
  <2>1. GoesOn(k)
    BY <1>1, <1>2 DEF GoesOn
  <2>2. frames[k].id \in 1..Len(phases) /\ Len(phases) \in Nat
    BY LenProperties DEF StackInv, Types
  <2> QED
    BY <2>1, <2>2 DEF GoesOn, IsNew
<1>4. Past
  <2>1. Len(phases) \in Nat
    BY LenProperties DEF Types
  <2>2. \A f \in broken' \ broken : \E k \in 1..n : frames[k].id = f /\ frames[k].mode # "complete"
    BY <1>2
  <2> QED
    BY <1>1, <1>3, <2>1, <2>2 DEF Past
<1> QED
  BY <1>3, <1>4

\* and so is leaving it, with an exception or not.
LEMMA LeavePast ==
  ASSUME Types, StackInv, frames # <<>>,
         raised' \in Nat, Leave(raised'), raised <= raised',
         UNCHANGED <<order, phases, interrupted>>
  PROVE  /\ Past /\ Len(frames') = Len(frames) - 1 /\ Len(frames') \in Nat
         /\ \A k \in 1..Len(frames') :
              /\ GoesOn(k) /\ ~IsNew(k)
              /\ frames'[k].mode = "complete" =>
                   raised' # 0 /\ frames'[k].todo = Hooks(frames[k].phase, "complete")
<1> DEFINE n == Len(frames)
           m == n - 1
<1>0. PICK e \in Nat : e = raised'
  OBVIOUS
<1>1. /\ Len(frames') = m /\ m \in Nat
      /\ \A k \in 1..m : k # m \/ e = 0 => frames'[k] = frames[k]
      /\ e = 0 \/ m = 0 => broken' = broken
      /\ e # 0 /\ m # 0 => /\ frames'[m] = Ending(frames[m], e)
                           /\ broken' = broken \cup {frames[m].id}
  BY <1>0, LeaveIs
<1>2. n \in Nat \ {0} /\ Top = frames[n] /\ \A k \in 1..n : frames[k] \in FrameType
  BY TopIs
<1>3. \A k \in 1..m : k \in 1..n /\ k # n /\ frames[k].mode = "body"
  BY <1>2 DEF StackInv
<1>4. ASSUME e # 0, m # 0
      PROVE  /\ frames'[m].id = frames[m].id /\ frames'[m].phase = frames[m].phase
             /\ frames'[m].mode = "complete"
             /\ frames'[m].todo = Hooks(frames[m].phase, "complete")
  <2>1. order \in Seq(Plugins)
    BY DEF Types
  <2>2. PICK f \in FrameType : f = frames[m]
    <3>1. m \in 1..m
      BY <1>1, <1>4
    <3> QED
      BY <1>2, <1>3, <3>1
  <2>3. /\ Ending(f, e).id = f.id /\ Ending(f, e).phase = f.phase
        /\ Ending(f, e).mode = "complete"
        /\ Ending(f, e).todo = Hooks(f.phase, "complete")
    BY <2>1, EndingIs
  <2> QED
    BY <1>1, <1>4, <2>2, <2>3
<1> HIDE DEF m
<1>5. ASSUME NEW k \in 1..m PROVE GoesOn(k) /\ ~IsNew(k)
  <2>1. CASE k = m /\ e # 0
    <3>1. m # 0
      BY <1>1, <2>1
    <3>2. GoesOn(k)
      BY <1>3, <1>4, <2>1, <3>1 DEF GoesOn
    <3>3. frames[k].id \in 1..Len(phases) /\ Len(phases) \in Nat
      BY <1>3, LenProperties DEF StackInv, Types
    <3> QED
      BY <3>2, <3>3 DEF GoesOn, IsNew
  <2>2. CASE k # m \/ e = 0
    <3>1. frames'[k] = frames[k]
      BY <1>1, <2>2
    <3>2. GoesOn(k)
      BY <1>3, <3>1 DEF GoesOn
    <3>3. frames[k].id \in 1..Len(phases) /\ Len(phases) \in Nat
      BY <1>3, LenProperties DEF StackInv, Types
    <3> QED
      BY <3>2, <3>3 DEF GoesOn, IsNew
  <2> QED
    BY <2>1, <2>2
<1>6. Past
  <2>1. Len(phases) \in Nat
    BY LenProperties DEF Types
  <2>2. \A f \in broken' \ broken : \E k \in 1..n : frames[k].id = f /\ frames[k].mode # "complete"
    <3>1. CASE e = 0 \/ m = 0
      BY <1>1, <3>1
    <3>2. CASE e # 0 /\ m # 0
      <4>1. m \in 1..m
        BY <1>1, <3>2
      <4> QED
        BY <1>1, <1>3, <3>2, <4>1
    <3> QED
      BY <3>1, <3>2
  <2>3. broken \subseteq broken'
    BY <1>1
  <2> QED
    BY <1>1, <1>5, <2>1, <2>2, <2>3 DEF Past
<1>7. ASSUME NEW k \in 1..m, frames'[k].mode = "complete"
      PROVE  raised' # 0 /\ frames'[k].todo = Hooks(frames[k].phase, "complete")
  <2>1. CASE k = m /\ e # 0
    <3>1. m # 0
      BY <1>1, <2>1
    <3> QED
      BY <1>0, <1>4, <2>1, <3>1
  <2>2. CASE k # m \/ e = 0
    BY <1>1, <1>3, <1>7, <2>2
  <2> QED
    BY <2>1, <2>2
<1> QED
  BY <1>1, <1>5, <1>6, <1>7 DEF m

\* A step of the innermost phase keeps what is known of spans, if it has yet to
\* end its own.
LEMMA TopStep ==
  ASSUME Types, StackInv, SpanInv, ContextInv, frames # <<>>,
         NEW g \in FrameType, frames' = WithTop(g),
         g.id = Top.id, g.phase = Top.phase,
         Top.mode = "complete" => g.mode = "complete",
         g.mode = "begin" => Top.mode = "begin" /\ g.todo \subseteq Top.todo,
         UNCHANGED <<spans, context, order, phases, interrupted>>,
         raised' \in Nat, raised <= raised',
         broken' = broken \/ (broken' = broken \cup {Top.id} /\ Top.mode # "complete"),
         g.mode = "complete" /\ Loaded("opentelemetry") /\ g.phase # "buildx_setup_buildkit"
           => Awaits(g, "opentelemetry") \/ (Top.mode = "complete" /\ ~Awaits(Top, "opentelemetry"))
  PROVE  SpanInv' /\ ContextInv'
<1> DEFINE n == Len(frames)
<1>1. /\ Len(frames') = n /\ frames'[n] = g
      /\ \A k \in 1..n : k # n => frames'[k] = frames[k]
  BY TopChanges
<1>2. n \in Nat \ {0} /\ n \in 1..n /\ Top = frames[n]
  BY TopIs
<1>3. \A k \in 1..n : GoesOn(k) /\ ~IsNew(k)
  BY TopPast
<1>4. Quiet
  BY TopPast DEF Quiet
<1>5. ASSUME ~interrupted', ~Lost', NEW k \in 1..n, NEW i \in 1..Len(context),
             spans[context[i]].frame = frames[k].id
      PROVE  frames'[k].mode = "complete" => Awaits(frames'[k], "opentelemetry")
  <2>1. ~interrupted /\ ~Lost
    <3>1. raised > 0 => raised' > 0
      BY DEF Types
    <3> QED
      BY <1>5, <3>1 DEF Lost
  <2>2. PICK l \in 1..n : /\ frames[l].id = spans[context[i]].frame
                          /\ frames[l].mode = "complete" => Awaits(frames[l], "opentelemetry")
    BY <2>1 DEF ContextInv
  <2>3. l = k
    <3>1. ~(l < k) /\ ~(k < l)
      <4>1. frames[l].id \in Nat /\ frames[k].id \in Nat /\ frames[l].id = frames[k].id
        BY <1>5, <2>2, TopIs DEF FrameType
      <4> QED
        BY <4>1 DEF StackInv
    <3> QED
      BY <1>2, <3>1
  <2>4. CASE k # n
    BY <1>1, <2>2, <2>3, <2>4
  <2>5. CASE k = n
    <3>1. spans[context[i]].phase # "buildx_setup_buildkit" /\ Loaded("opentelemetry")
          /\ spans[context[i]].phase = phases[spans[context[i]].frame]
      BY DEF ContextInv, SpanInv
    <3>2. g.phase # "buildx_setup_buildkit"
      BY <1>2, <1>5, <2>5, <3>1 DEF StackInv
    <3> QED
      BY <1>1, <1>2, <2>2, <2>3, <2>5, <3>1, <3>2
  <2> QED
    BY <2>4, <2>5
<1>6. SpanInv'
  BY <1>4, SpansKept
<1>7. ContextInv'
  BY <1>1, <1>3, <1>4, <1>5, ContextKept
<1> QED
  BY <1>6, <1>7

\* So does leaving it, if it has ended its own.
LEMMA LeaveStep ==
  ASSUME Types, StackInv, SpanInv, ContextInv, frames # <<>>,
         raised' \in Nat, Leave(raised'), raised <= raised',
         UNCHANGED <<spans, context, order, phases, interrupted>>,
         ~interrupted' /\ ~Lost' =>
           \A i \in 1..Len(context) : spans[context[i]].frame # Top.id
  PROVE  SpanInv' /\ ContextInv'
<1> DEFINE n == Len(frames)
           m == Len(frames')
<1>1. /\ Quiet /\ m = n - 1 /\ m \in Nat
      /\ \A k \in 1..m :
           /\ GoesOn(k) /\ ~IsNew(k)
           /\ frames'[k].mode = "complete" => frames'[k].todo = Hooks(frames[k].phase, "complete")
  BY LeavePast DEF Quiet
<1>2. n \in Nat \ {0} /\ Top = frames[n]
  BY TopIs
<1>3. ASSUME ~interrupted', ~Lost', NEW k \in 1..n, NEW i \in 1..Len(context),
             spans[context[i]].frame = frames[k].id
      PROVE  /\ k \in 1..m
             /\ frames'[k].mode = "complete" => Awaits(frames'[k], "opentelemetry")
  <2>1. k \in 1..m
    <3>1. k # n
      BY <1>2, <1>3
    <3> QED
      BY <1>1, <1>2, <3>1
  <2>2. spans[context[i]].phase # "buildx_setup_buildkit" /\ Loaded("opentelemetry")
        /\ spans[context[i]].phase = phases[spans[context[i]].frame]
    BY DEF ContextInv, SpanInv
  <2>3. frames[k].phase # "buildx_setup_buildkit"
    BY <1>3, <2>2 DEF StackInv
  <2>4. Implements("opentelemetry", frames[k].phase, "complete")
    BY <2>3 DEF Implements
  <2>5. PICK f : f = frames'[k]
    OBVIOUS
  <2>6. f.mode = "complete" => Awaits(f, "opentelemetry")
    BY <1>1, <2>1, <2>2, <2>4, <2>5, AwaitsIs
  <2> QED
    BY <2>1, <2>5, <2>6
<1>4. SpanInv'
  BY <1>1, SpansKept
<1>5. ContextInv'
  BY <1>1, <1>3, ContextKept
<1> QED
  BY <1>4, <1>5

-----------------------------------------------------------------------------
(* Steps in which Slack tells of nothing. *)

\* They keep what is known of the announcements, if no project is left untold.
LEMMA AnnounceKept ==
  ASSUME Types, StackInv, AnnounceInv, Past, UNCHANGED <<announced, phases>>,
         raised' = 0 /\ ~interrupted' /\ Loaded("slack") =>
           \A k \in 1..Len(frames) :
             frames[k].phase = "project_deployment" /\ frames[k].id \notin announced =>
               /\ k \in 1..Len(frames') /\ GoesOn(k)
               /\ frames'[k].mode = "complete" => Awaits(frames'[k], "slack")
  PROVE  AnnounceInv'
<1>1. order' = order
  BY DEF Past
<1>2. \A f : Awaits(f, "slack")' <=> Awaits(f, "slack")
  BY <1>1 DEF Awaits
<1>3. Loaded("slack")' <=> Loaded("slack")
  BY <1>1 DEF Loaded
<1>4. announced \cap broken' = {}
  <2> SUFFICES ASSUME NEW f \in announced, f \in broken' PROVE FALSE
    OBVIOUS
  <2>1. f \notin broken
    BY DEF AnnounceInv
  <2>2. PICK k \in 1..Len(frames) : frames[k].id = f /\ frames[k].mode # "complete"
    BY <2>1 DEF Past
  <2> QED
    BY <2>2 DEF AnnounceInv
<1>5. ASSUME NEW k \in 1..Len(frames'), frames'[k].id \in announced
      PROVE  frames'[k].mode = "complete"
  <2>1. GoesOn(k)
    <3>1. ~IsNew(k)
      <4>1. announced \subseteq 1..Len(phases) /\ Len(phases) \in Nat
        BY LenProperties DEF Types
      <4>2. PICK f : f = frames'[k].id /\ f \in announced
        BY <1>5
      <4>3. ~(f > Len(phases))
        BY <4>1, <4>2
      <4> QED
        BY <4>2, <4>3 DEF IsNew
    <3> QED
      BY <3>1 DEF Past
  <2> QED
    BY <1>5, <2>1 DEF GoesOn, AnnounceInv
<1>6. ASSUME Loaded("slack"), raised' = 0, ~interrupted',
             NEW f \in 1..Len(phases), phases[f] = "project_deployment", f \notin announced
      PROVE  \E k \in 1..Len(frames') :
               /\ frames'[k].id = f
               /\ frames'[k].mode = "complete" => Awaits(frames'[k], "slack")
  <2>1. raised = 0 /\ ~interrupted
    BY <1>6 DEF Past, Types
  <2>2. PICK k \in 1..Len(frames) : frames[k].id = f
    BY <1>6, <2>1 DEF AnnounceInv
  <2>3. frames[k].phase = "project_deployment"
    BY <1>6, <2>2 DEF StackInv
  <2>4. /\ k \in 1..Len(frames') /\ GoesOn(k)
        /\ frames'[k].mode = "complete" => Awaits(frames'[k], "slack")
    BY <1>6, <2>2, <2>3
  <2> QED
    BY <2>2, <2>4 DEF GoesOn
<1>7. Loaded("slack") => \A f \in 1..Len(phases) :
        phases[f] = "project_deployment" /\ f < Len(phases) => f \in announced
  BY DEF AnnounceInv
<1> QED
  BY <1>2, <1>3, <1>4, <1>5, <1>6, <1>7 DEF AnnounceInv

\* The innermost phase may go on if Slack still has its turn,
LEMMA TopAnnounce ==
  ASSUME Types, StackInv, AnnounceInv, frames # <<>>, NEW g \in FrameType, frames' = WithTop(g),
         Past, \A k \in 1..Len(frames) : GoesOn(k), UNCHANGED <<announced, phases>>,
         g.mode = "complete" /\ Loaded("slack") /\ Top.phase = "project_deployment" /\ raised' = 0
           => Awaits(g, "slack") \/ (Top.mode = "complete" /\ ~Awaits(Top, "slack"))
  PROVE  AnnounceInv'
<1> DEFINE n == Len(frames)
<1>1. /\ Len(frames') = n /\ frames'[n] = g
      /\ \A k \in 1..n : k # n => frames'[k] = frames[k]
  BY TopChanges
<1>2. n \in Nat \ {0} /\ n \in 1..n /\ Top = frames[n]
  BY TopIs
<1>3. ASSUME raised' = 0, ~interrupted', Loaded("slack"), NEW k \in 1..n,
             frames[k].phase = "project_deployment", frames[k].id \notin announced,
             frames'[k].mode = "complete"
      PROVE  Awaits(frames'[k], "slack")
  <2>1. raised = 0 /\ ~interrupted
    BY <1>3 DEF Past, Types
  <2>2. frames[k].id \in 1..Len(phases) /\ phases[frames[k].id] = "project_deployment"
    BY <1>3 DEF StackInv
  <2>3. PICK l \in 1..n : /\ frames[l].id = frames[k].id
                          /\ frames[l].mode = "complete" => Awaits(frames[l], "slack")
    BY <1>3, <2>1, <2>2 DEF AnnounceInv
  <2>4. l = k
    <3>1. ~(l < k) /\ ~(k < l)
      <4>1. frames[l].id \in Nat /\ frames[k].id \in Nat /\ frames[l].id = frames[k].id
        BY <2>3, TopIs DEF FrameType
      <4> QED
        BY <4>1 DEF StackInv
    <3> QED
      BY <1>2, <3>1
  <2>5. CASE k # n
    BY <1>1, <1>3, <2>3, <2>4, <2>5
  <2>6. CASE k = n
    BY <1>1, <1>2, <1>3, <2>3, <2>4, <2>6
  <2> QED
    BY <2>5, <2>6
<1> QED
  BY <1>1, <1>3, AnnounceKept

\* and be left if it is no project, or Slack has told of it, or cannot.
LEMMA LeaveAnnounce ==
  ASSUME Types, StackInv, AnnounceInv, frames # <<>>,
         Past, Len(frames') = Len(frames) - 1, UNCHANGED <<announced, phases>>,
         \A k \in 1..Len(frames') : GoesOn(k) /\ (frames'[k].mode = "complete" => raised' # 0),
         raised' = 0 => Top.mode = "complete" /\ ~Awaits(Top, "slack")
  PROVE  AnnounceInv'
<1> DEFINE n == Len(frames)
<1>1. n \in Nat \ {0} /\ n \in 1..n /\ Top = frames[n]
  BY TopIs
<1>2. ASSUME raised' = 0, ~interrupted', Loaded("slack"), NEW k \in 1..n,
             frames[k].phase = "project_deployment", frames[k].id \notin announced
      PROVE  /\ k \in 1..Len(frames') /\ GoesOn(k)
             /\ frames'[k].mode = "complete" => Awaits(frames'[k], "slack")
  <2>1. raised = 0 /\ ~interrupted
    BY <1>2 DEF Past, Types
  <2>2. frames[k].id \in 1..Len(phases) /\ phases[frames[k].id] = "project_deployment"
    BY <1>2 DEF StackInv
  <2>3. PICK l \in 1..n : /\ frames[l].id = frames[k].id
                          /\ frames[l].mode = "complete" => Awaits(frames[l], "slack")
    BY <1>2, <2>1, <2>2 DEF AnnounceInv
  <2>4. l = k
    <3>1. ~(l < k) /\ ~(k < l)
      <4>1. frames[l].id \in Nat /\ frames[k].id \in Nat /\ frames[l].id = frames[k].id
        BY <2>3, TopIs DEF FrameType
      <4> QED
        BY <4>1 DEF StackInv
    <3> QED
      BY <1>1, <3>1
  <2>5. k # n
    BY <1>1, <1>2, <2>3, <2>4
  <2>6. k \in 1..Len(frames')
    BY <1>1, <2>5
  <2> QED
    BY <1>2, <2>6
<1> QED
  BY <1>2, AnnounceKept

-----------------------------------------------------------------------------
(* The steps. *)

\* A plugin returns: the hook goes on.
LEMMA CalledFrames ==
  ASSUME Types, StackInv, frames # <<>>, Top.mode # "body", NEW i, Called(i),
         UNCHANGED <<order, phases, interrupted, raised, broken>>
  PROVE  /\ frames' \in Seq(FrameType) /\ StackInv' /\ Past
         /\ \A k \in 1..Len(frames) : GoesOn(k) /\ ~IsNew(k)
         /\ \E g \in FrameType :
              /\ frames' = WithTop(g) /\ g.id = Top.id /\ g.phase = Top.phase /\ g.mode = Top.mode
              /\ g.todo = Top.todo \ {i}
<1>1. Top \in FrameType /\ Top = frames[Len(frames)] /\ Len(frames) \in 1..Len(frames)
  BY TopIs
<1>2. PICK g \in FrameType :
        /\ frames' = WithTop(g) /\ g.id = Top.id /\ g.phase = Top.phase /\ g.mode = Top.mode
        /\ g.todo = Top.todo \ {i} /\ g.error = Top.error
  <2>1. PICK f \in FrameType : f = Top
    BY <1>1
  <2> DEFINE g == [f EXCEPT !.todo = @ \ {i}]
  <2>2. /\ g \in FrameType
        /\ g.id = f.id /\ g.phase = f.phase /\ g.mode = f.mode /\ g.error = f.error
        /\ g.todo = f.todo \ {i}
    BY CalledIs
  <2>3. frames' = WithTop(g)
    BY <2>1 DEF Called
  <2> HIDE DEF g
  <2> QED
    BY <2>1, <2>2, <2>3
<1>3. /\ Top.error = raised /\ (raised # 0 => Top.mode = "complete" /\ Top.id \in broken)
      /\ (Top.mode # "body" => Top.todo \subseteq Hooks(Top.phase, Top.mode))
  BY <1>1 DEF StackInv
<1>4. raised' \in Nat /\ raised <= raised'
  BY DEF Types
<1>5. StackInv'
  <2>1. broken' = IF raised' = 0 THEN broken ELSE broken \cup {Top.id}
    BY <1>3
  <2> QED
    BY <1>2, <1>3, <2>1, StackTop
<1>6. Past /\ \A k \in 1..Len(frames) : GoesOn(k) /\ ~IsNew(k)
  <2>1. g.mode = "begin" => Top.mode = "begin" /\ g.todo \subseteq Top.todo
    BY <1>2
  <2> QED
    BY <1>2, <1>4, <2>1, TopPast
<1>7. frames' \in Seq(FrameType)
  BY <1>2, TopChanges
<1> QED
  BY <1>2, <1>5, <1>6, <1>7

\* A plugin raises, having left no span open that it should not.
LEMMA PluginRaisesStep ==
  ASSUME Inv, frames # <<>>, PluginRaises,
         UNCHANGED <<command, order, spans, context, announced, phases, interrupted>>,
         ~interrupted' /\ ~Lost' =>
           \A i \in 1..Len(context) : spans[context[i]].frame # Top.id
  PROVE  Inv'
<1> USE DEF Inv
<1>1. raised' \in Nat /\ raised' # 0 /\ raised <= raised' /\ Leave(raised')
  BY DEF PluginRaises, Types
<1>2. StackInv'
  BY <1>1, StackLeave
<1>3. SpanInv' /\ ContextInv'
  BY <1>1, LeaveStep
<1>4. /\ Past /\ Len(frames') = Len(frames) - 1
      /\ \A k \in 1..Len(frames') : GoesOn(k)
  BY <1>1, LeavePast
<1>5. AnnounceInv'
  BY <1>1, <1>4, LeaveAnnounce
<1>6. Types'
  <2>1. frames' \in Seq(FrameType)
    <3>1. PICK e \in Nat : e = raised'
      BY <1>1
    <3> QED
      BY <1>1, <3>1, LeaveIs
  <2>2. broken' \subseteq 1..Len(phases)
    <3> SUFFICES ASSUME NEW f \in broken' \ broken PROVE f \in 1..Len(phases)
      BY DEF Types
    <3>1. PICK k \in 1..Len(frames) : frames[k].id = f
      BY <1>4 DEF Past
    <3> QED
      BY <3>1 DEF StackInv
  <2> QED
    BY <1>1, <2>1, <2>2 DEF Types
<1> QED
  BY <1>2, <1>3, <1>5, <1>6

\* The complete hooks are through.
LEMMA PhaseEndsStep == ASSUME Inv, PhaseEnds PROVE Inv'
<1> USE DEF Inv
<1>1. frames # <<>> /\ Top.mode = "complete" /\ Top.todo = {} /\ Leave(Top.error)
      /\ UNCHANGED <<command, order, spans, context, announced, raised, phases, interrupted>>
  BY DEF PhaseEnds
<1>2. Top \in FrameType /\ Top = frames[Len(frames)] /\ Len(frames) \in 1..Len(frames)
  BY <1>1, TopIs
<1>3. Leave(raised') /\ raised' \in Nat /\ raised <= raised' /\ raised' = raised
  <2>1. Top.error = raised
    BY <1>2 DEF StackInv
  <2> QED
    BY <1>1, <2>1 DEF Types
<1>4. StackInv'
  BY <1>1, <1>3, StackLeave
<1>5. \A plugin : ~Awaits(Top, plugin)
  BY <1>1 DEF Awaits
<1>6. ASSUME ~interrupted', ~Lost', NEW i \in 1..Len(context), spans[context[i]].frame = Top.id
      PROVE  FALSE
  <2>1. ~interrupted /\ ~Lost
    BY <1>1, <1>6 DEF Lost
  <2>2. PICK l \in 1..Len(frames) :
          /\ frames[l].id = Top.id
          /\ frames[l].mode = "complete" => Awaits(frames[l], "opentelemetry")
    BY <1>6, <2>1 DEF ContextInv
  <2>3. l = Len(frames)
    <3>1. ~(l < Len(frames))
      <4>1. frames[l].id \in Nat /\ frames[Len(frames)].id \in Nat
            /\ frames[l].id = frames[Len(frames)].id
        BY <1>1, <1>2, <2>2, TopIs DEF FrameType
      <4> QED
        BY <1>2, <4>1 DEF StackInv
    <3> QED
      BY <1>1, <3>1, TopIs
  <2> QED
    BY <1>1, <1>2, <1>5, <2>2, <2>3
<1>7. SpanInv' /\ ContextInv'
  BY <1>1, <1>3, <1>6, LeaveStep
<1>8. /\ Past /\ Len(frames') = Len(frames) - 1
      /\ \A k \in 1..Len(frames') : GoesOn(k) /\ (frames'[k].mode = "complete" => raised' # 0)
  BY <1>1, <1>3, LeavePast
<1>9. AnnounceInv'
  BY <1>1, <1>5, <1>8, LeaveAnnounce
<1>10. Types'
  <2>1. frames' \in Seq(FrameType)
    <3>1. PICK e \in Nat : e = raised'
      BY <1>3
    <3> QED
      BY <1>1, <1>3, <3>1, LeaveIs
  <2>2. broken' \subseteq 1..Len(phases)
    <3> SUFFICES ASSUME NEW f \in broken' \ broken PROVE f \in 1..Len(phases)
      BY DEF Types
    <3>1. PICK k \in 1..Len(frames) : frames[k].id = f
      BY <1>8 DEF Past
    <3> QED
      BY <3>1 DEF StackInv
  <2> QED
    BY <1>1, <1>3, <2>1, <2>2 DEF Types
<1> QED
  BY <1>4, <1>7, <1>9, <1>10

\* binfmt is called only where the trace has no span.
LEMMA BinfmtBeginsStep == ASSUME Inv, BinfmtBegins PROVE Inv'
<1> USE DEF Inv
<1>1. PICK i \in DOMAIN order : /\ Calls(i, "binfmt", "begin")
                                /\ \/ Called(i) /\ UNCHANGED <<raised, broken>>
                                   \/ PluginRaises
  BY DEF BinfmtBegins
<1>2. /\ frames # <<>> /\ Top.mode = "begin" /\ i \in Top.todo /\ order[i] = "binfmt"
      /\ UNCHANGED <<command, order, spans, context, announced, phases, interrupted>>
  BY <1>1 DEF BinfmtBegins, Calls
<1>3. Top \in FrameType /\ Top = frames[Len(frames)] /\ Len(frames) \in 1..Len(frames)
  BY <1>2, TopIs
<1>4. CASE Called(i) /\ UNCHANGED <<raised, broken>>
  <2>1. PICK g \in FrameType :
          /\ frames' = WithTop(g) /\ g.id = Top.id /\ g.phase = Top.phase /\ g.mode = Top.mode
          /\ g.todo = Top.todo \ {i}
    BY <1>2, <1>4, CalledFrames
  <2>2. /\ frames' \in Seq(FrameType) /\ StackInv' /\ Past
        /\ \A k \in 1..Len(frames) : GoesOn(k)
    BY <1>2, <1>4, CalledFrames
  <2>3. raised' \in Nat /\ raised <= raised'
    BY <1>4 DEF Types
  <2>4. SpanInv' /\ ContextInv'
    BY <1>2, <1>4, <2>1, <2>3, TopStep
  <2>5. AnnounceInv'
    BY <1>2, <2>1, <2>2, TopAnnounce
  <2>6. Types'
    BY <1>2, <1>4, <2>2 DEF Types
  <2> QED
    BY <2>2, <2>4, <2>5, <2>6
<1>5. CASE PluginRaises
  <2>1. Top.phase = "buildx_setup_buildkit" /\ Top.phase = phases[Top.id]
    <3>1. i \in Hooks(Top.phase, "begin") /\ Top.phase = phases[Top.id]
      BY <1>2, <1>3 DEF StackInv
    <3> QED
      BY <1>2, <3>1 DEF Hooks, Implements
  <2>2. ASSUME NEW j \in 1..Len(context) PROVE spans[context[j]].frame # Top.id
    <3>1. PICK s \in 1..Len(spans) : s = context[j]
      BY DEF ContextInv
    <3>2. spans[s].phase = phases[spans[s].frame] /\ spans[s].phase # "buildx_setup_buildkit"
      BY DEF SpanInv
    <3> QED
      BY <2>1, <3>1, <3>2
  <2> QED
    BY <1>2, <1>5, <2>2, PluginRaisesStep
<1> QED
  BY <1>1, <1>4, <1>5

\* The body starts, or ends.
LEMMA BodyStartsStep == ASSUME Inv, BodyStarts PROVE Inv'
<1> USE DEF Inv
<1>1. /\ frames # <<>> /\ Top.mode = "begin"
      /\ frames' = WithTop([Top EXCEPT !.mode = "body"])
      /\ UNCHANGED <<command, order, spans, context, announced, raised, phases, broken, interrupted>>
  BY DEF BodyStarts, hidden
<1>2. Top \in FrameType /\ Top = frames[Len(frames)] /\ Len(frames) \in 1..Len(frames)
  BY <1>1, TopIs
<1>3. PICK g \in FrameType : /\ frames' = WithTop(g) /\ g.id = Top.id /\ g.phase = Top.phase
                             /\ g.mode = "body" /\ g.error = Top.error
  BY <1>1, <1>2, StartedIs
<1>4. Top.error = raised /\ raised = 0
  BY <1>1, <1>2 DEF StackInv
<1>5. raised' \in Nat /\ raised <= raised' /\ raised' = 0
  BY <1>1, <1>4
<1>6. StackInv'
  BY <1>1, <1>3, <1>4, <1>5, StackTop
<1>7. Past /\ \A k \in 1..Len(frames) : GoesOn(k)
  BY <1>1, <1>3, <1>5, TopPast
<1>8. SpanInv' /\ ContextInv'
  BY <1>1, <1>3, <1>5, TopStep
<1>9. AnnounceInv'
  BY <1>1, <1>3, <1>7, TopAnnounce
<1>10. Types'
  BY <1>1, <1>3, TopChanges DEF Types
<1> QED
  BY <1>6, <1>8, <1>9, <1>10

\* Whether it returns or raises, its complete hooks are next.
LEMMA EndingStep ==
  ASSUME Inv, frames # <<>>, Top.mode = "body", raised' \in Nat, frames' = WithTop(Ending(Top, raised')),
         raised <= raised',
         broken' = IF raised' = 0 THEN broken ELSE broken \cup {Top.id},
         UNCHANGED <<command, order, spans, context, announced, phases, interrupted>>
  PROVE  Inv'
<1> USE DEF Inv
<1>1. Top \in FrameType /\ Top = frames[Len(frames)] /\ Len(frames) \in 1..Len(frames)
  BY TopIs
<1>2. PICK g \in FrameType : /\ frames' = WithTop(g) /\ g.id = Top.id /\ g.phase = Top.phase
                             /\ g.mode = "complete" /\ g.error = raised'
                             /\ g.todo = Hooks(g.phase, "complete")
  <2>1. PICK e \in Nat : e = raised'
    OBVIOUS
  <2>2. PICK f \in FrameType : f = Top
    BY <1>1
  <2>3. /\ Ending(f, e) \in FrameType
        /\ Ending(f, e).id = f.id /\ Ending(f, e).phase = f.phase
        /\ Ending(f, e).mode = "complete" /\ Ending(f, e).error = e
        /\ Ending(f, e).todo = Hooks(f.phase, "complete")
    BY EndingIs DEF Types
  <2> QED
    BY <2>1, <2>2, <2>3
<1>3. raised # 0 => raised' # 0
  BY DEF Types
<1>4. StackInv'
  BY <1>2, <1>3, StackTop
<1>5. broken' = broken \/ (broken' = broken \cup {Top.id} /\ Top.mode # "complete")
  OBVIOUS
<1>6. Past /\ \A k \in 1..Len(frames) : GoesOn(k)
  BY <1>2, <1>5, TopPast
<1>7. Loaded("opentelemetry") /\ g.phase # "buildx_setup_buildkit" => Awaits(g, "opentelemetry")
  <2>1. g.phase # "buildx_setup_buildkit" => Implements("opentelemetry", g.phase, "complete")
    BY DEF Implements
  <2> QED
    BY <1>2, <2>1, AwaitsIs
<1>8. SpanInv' /\ ContextInv'
  <2>1. /\ Top.mode = "complete" => g.mode = "complete"
        /\ g.mode = "begin" => Top.mode = "begin" /\ g.todo \subseteq Top.todo
        /\ UNCHANGED <<spans, context, order, phases, interrupted>>
        /\ g.mode = "complete" /\ Loaded("opentelemetry") /\ g.phase # "buildx_setup_buildkit"
             => Awaits(g, "opentelemetry") \/ (Top.mode = "complete" /\ ~Awaits(Top, "opentelemetry"))
    BY <1>2, <1>7
  <2> QED
    BY <1>2, <1>5, <2>1, TopStep
<1>9. Loaded("slack") /\ Top.phase = "project_deployment" => Awaits(g, "slack")
  <2>1. Implements("slack", "project_deployment", "complete")
    BY DEF Implements
  <2> QED
    BY <1>2, <2>1, AwaitsIs
<1>10. AnnounceInv'
  <2>1. g.mode = "complete" /\ Loaded("slack") /\ Top.phase = "project_deployment" /\ raised' = 0
          => Awaits(g, "slack") \/ (Top.mode = "complete" /\ ~Awaits(Top, "slack"))
    BY <1>9
  <2>2. frames # <<>> /\ UNCHANGED <<announced, phases>> /\ g \in FrameType /\ frames' = WithTop(g)
    BY <1>2
  <2> QED
    BY ONLY Types, StackInv, AnnounceInv, <1>6, <2>1, <2>2, TopAnnounce
<1>11. Types'
  <2>1. frames' \in Seq(FrameType)
    BY <1>2, TopChanges
  <2>2. broken' \subseteq 1..Len(phases)
    BY <1>1 DEF StackInv, Types
  <2> QED
    BY <2>1, <2>2 DEF Types
<1> QED
  BY <1>4, <1>8, <1>10, <1>11

\* The body returns.
LEMMA BodyReturnsStep == ASSUME Inv, BodyReturns PROVE Inv'
<1>1. /\ frames # <<>> /\ Top.mode = "body" /\ frames' = WithTop(Ending(Top, 0))
      /\ UNCHANGED <<command, order, spans, context, announced, raised, phases, broken, interrupted>>
  BY DEF BodyReturns, hidden
<1>2. raised = 0
  BY <1>1, TopIs DEF Inv, StackInv
<1> QED
  BY <1>1, <1>2, EndingStep

\* A command of the body fails.
LEMMA BodyRaisesStep == ASSUME Inv, BodyRaises PROVE Inv'
<1>1. /\ frames # <<>> /\ Top.mode = "body"
      /\ raised' = raised + 1 /\ frames' = WithTop(Ending(Top, raised + 1))
      /\ broken' = broken \cup {Top.id}
      /\ UNCHANGED <<command, order, spans, context, announced, phases, interrupted>>
  BY DEF BodyRaises
<1>2. raised' \in Nat /\ raised' # 0 /\ raised <= raised'
  BY <1>1 DEF Inv, Types
<1>3. frames' = WithTop(Ending(Top, raised'))
  BY <1>1
<1> QED
  BY <1>1, <1>2, <1>3, EndingStep

\* An interrupt ends everything as it is.
LEMMA InterruptStep == ASSUME Inv, Interrupt PROVE Inv'
<1> USE DEF Inv
<1>1. /\ frames' = <<>> /\ interrupted' = TRUE
      /\ UNCHANGED <<command, order, spans, context, announced, raised, phases, broken>>
  BY DEF Interrupt
<1>2. <<>> \in Seq(FrameType) /\ Len(<<>>) = 0
  BY EmptySeq
<1>3. Past
  <2>1. Len(phases) \in Nat /\ raised \in Nat /\ raised <= raised
    BY LenProperties DEF Types
  <2> QED
    BY <1>1, <1>2, <2>1 DEF Past
<1>4. Types'
  BY <1>1, <1>2 DEF Types
<1>5. StackInv'
  BY <1>1, <1>2 DEF StackInv
<1>6. SpanInv'
  BY <1>1, <1>3, SpansKept DEF Quiet
<1>7. ContextInv'
  <2>1. \A k \in 1..Len(frames') : FALSE
    BY <1>1, <1>2
  <2> QED
    BY <1>1, <1>3, <2>1, ContextKept DEF Quiet
<1>8. AnnounceInv'
  BY <1>1, <1>3, AnnounceKept
<1> QED
  BY <1>4, <1>5, <1>6, <1>7, <1>8

\* Slack tells of a project whose deployment did not raise, or cannot and raises.
LEMMA SlackCompletesStep == ASSUME Inv, SlackCompletes PROVE Inv'
<1> USE DEF Inv
<1> DEFINE n == Len(frames)
<1>1. PICK i \in DOMAIN order :
        /\ Calls(i, "slack", "complete")
        /\ \/ /\ announced' = IF Top.error = 0 THEN announced \cup {Top.id} ELSE announced
              /\ Called(i) /\ UNCHANGED <<raised, broken>>
           \/ Top.error = 0 /\ PluginRaises /\ UNCHANGED announced
  BY DEF SlackCompletes
<1>2. /\ frames # <<>> /\ Top.mode = "complete" /\ i \in Top.todo /\ order[i] = "slack"
      /\ \A j \in Top.todo : j <= i
      /\ UNCHANGED <<command, order, spans, context, phases, interrupted>>
  BY <1>1 DEF SlackCompletes, Calls
<1>3. Top \in FrameType /\ Top = frames[n] /\ n \in 1..n
  BY <1>2, TopIs
<1>4. Top.error = raised /\ Top.id \in 1..Len(phases)
      /\ (raised = 0 => Top.id \notin broken) /\ Top.todo \subseteq Hooks(Top.phase, "complete")
  BY <1>2, <1>3 DEF StackInv
<1>5. CASE /\ announced' = IF Top.error = 0 THEN announced \cup {Top.id} ELSE announced
           /\ Called(i) /\ UNCHANGED <<raised, broken>>
  <2>1. PICK g \in FrameType :
          /\ frames' = WithTop(g) /\ g.id = Top.id /\ g.phase = Top.phase /\ g.mode = Top.mode
          /\ g.todo = Top.todo \ {i}
    BY <1>2, <1>5, CalledFrames
  <2>2. /\ frames' \in Seq(FrameType) /\ StackInv' /\ Past
        /\ \A k \in 1..n : GoesOn(k)
    BY <1>2, <1>5, CalledFrames
  <2>3. raised' \in Nat /\ raised <= raised'
    BY <1>5 DEF Types
  <2>4. SpanInv' /\ ContextInv'
    <3>1. Awaits(Top, "opentelemetry") => Awaits(g, "opentelemetry")
      BY <1>2, <2>1 DEF Awaits
    <3>2. /\ Top.mode = "complete" => g.mode = "complete"
          /\ g.mode = "begin" => Top.mode = "begin" /\ g.todo \subseteq Top.todo
          /\ g.mode = "complete" /\ Loaded("opentelemetry") /\ g.phase # "buildx_setup_buildkit"
               => Awaits(g, "opentelemetry") \/ (Top.mode = "complete" /\ ~Awaits(Top, "opentelemetry"))
      BY <1>2, <2>1, <3>1
    <3> QED
      BY <1>2, <1>5, <2>1, <2>3, <3>2, TopStep
  <2>5. Types'
    <3>1. announced' \subseteq 1..Len(phases)
      BY <1>4, <1>5 DEF Types
    <3> QED
      BY <1>2, <1>5, <2>2, <3>1 DEF Types
  <2>6. CASE raised # 0
    <3>1. UNCHANGED <<announced, phases>> /\ raised' # 0
      BY <1>2, <1>4, <1>5, <2>6
    <3>2. AnnounceInv'
      BY <1>2, <2>1, <2>2, <3>1, TopAnnounce
    <3> QED
      BY <2>2, <2>4, <2>5, <3>2
  <2>7. CASE raised = 0
    <3>1. announced' = announced \cup {Top.id} /\ UNCHANGED <<phases, raised, broken, order, interrupted>>
      BY <1>2, <1>4, <1>5, <2>7
    <3>2. /\ Len(frames') = n /\ frames'[n] = g
          /\ \A k \in 1..n : k # n => frames'[k] = frames[k]
      BY <1>2, <2>1, TopChanges
    <3>3. \A f : Awaits(f, "slack")' <=> Awaits(f, "slack")
      BY <3>1 DEF Awaits
    <3>4. Loaded("slack")' <=> Loaded("slack")
      BY <3>1 DEF Loaded
    <3>5. announced' \cap broken' = {}
      BY <1>4, <2>7, <3>1 DEF AnnounceInv
    <3>6. ASSUME NEW k \in 1..n, frames'[k].id \in announced' PROVE frames'[k].mode = "complete"
      <4>1. CASE k = n
        BY <1>2, <2>1, <3>2, <4>1
      <4>2. CASE k # n
        <5>1. frames[k].id # Top.id
          <6>1. frames[k].id < frames[n].id /\ frames[k].id \in Nat /\ frames[n].id \in Nat
            <7>1. k < n /\ k \in 1..n /\ n \in 1..n
              BY <1>2, <4>2, TopIs
            <7>2. frames[k] \in FrameType /\ frames[n] \in FrameType
              BY <1>2, <7>1, TopIs
            <7> QED
              BY <7>1, <7>2 DEF StackInv, FrameType
          <6> QED
            BY <1>3, <6>1
        <5>2. frames[k].id \in announced /\ frames'[k] = frames[k]
          BY <3>1, <3>2, <3>6, <4>2, <5>1
        <5> QED
          BY <5>2 DEF AnnounceInv
      <4> QED
        BY <4>1, <4>2
    <3>7. Loaded("slack") => \A f \in 1..Len(phases) :
            phases[f] = "project_deployment" /\ f < Len(phases) => f \in announced'
      BY <3>1 DEF AnnounceInv
    <3>8. ASSUME Loaded("slack"), ~interrupted,
                 NEW f \in 1..Len(phases), phases[f] = "project_deployment", f \notin announced'
          PROVE  \E k \in 1..n : /\ frames'[k].id = f
                                 /\ frames'[k].mode = "complete" => Awaits(frames'[k], "slack")
      <4>1. f \notin announced /\ f # Top.id
        BY <3>1, <3>8
      <4>2. PICK k \in 1..n : /\ frames[k].id = f
                              /\ frames[k].mode = "complete" => Awaits(frames[k], "slack")
        BY <2>7, <3>8, <4>1 DEF AnnounceInv
      <4>3. k # n
        BY <1>3, <4>1, <4>2
      <4>4. frames'[k] = frames[k]
        BY <3>2, <4>3
      <4> QED
        BY <4>2, <4>4
    <3>9. AnnounceInv'
      BY <3>1, <3>2, <3>3, <3>4, <3>5, <3>6, <3>7, <3>8 DEF AnnounceInv
    <3> QED
      BY <2>2, <2>4, <2>5, <3>9
  <2> QED
    BY <2>6, <2>7
<1>6. CASE PluginRaises /\ UNCHANGED announced
  <2>1. ASSUME ~interrupted', ~Lost', NEW j \in 1..Len(context), spans[context[j]].frame = Top.id
        PROVE  FALSE
    <3>1. raised' > 0 /\ order' = order
      BY <1>2, <1>6 DEF PluginRaises, Types
    <3>2. \A a, b \in DOMAIN order : a < b => ~(order[a] = "opentelemetry" /\ order[b] = "slack")
      BY <2>1, <3>1 DEF Lost
    <3>3. ~interrupted /\ ~Lost
      BY <1>2, <2>1, <3>2 DEF Lost
    <3>4. PICK l \in 1..n : /\ frames[l].id = Top.id
                            /\ frames[l].mode = "complete" => Awaits(frames[l], "opentelemetry")
      BY <2>1, <3>3 DEF ContextInv
    <3>5. l = n
      <4>1. ~(l < n)
        <5>1. frames[l].id \in Nat /\ frames[l].id = frames[n].id
          BY <1>2, <1>3, <3>4, TopIs DEF FrameType
        <5> QED
          BY <1>3, <5>1 DEF StackInv
      <4> QED
        BY <1>2, <4>1, TopIs
    <3>6. PICK h \in Top.todo : order[h] = "opentelemetry"
      BY <1>2, <1>3, <3>4, <3>5 DEF Awaits
    <3>7. h \in DOMAIN order /\ h \in Nat /\ i \in Nat
      <4>1. order \in Seq(Plugins)
        BY DEF Types
      <4> QED
        BY <1>2, <1>4, <3>6, <4>1, HooksIn
    <3>8. h < i
      BY <1>2, <3>6, <3>7
    <3> QED
      BY <1>2, <3>2, <3>6, <3>7, <3>8
  <2> QED
    BY <1>2, <1>6, <2>1, PluginRaisesStep
<1> QED
  BY <1>1, <1>5, <1>6

\* The body enters a phase: whatever went before it in the run has been told.
LEMMA BodyEntersStep == ASSUME Inv, BodyEnters PROVE Inv'
<1> USE DEF Inv
<1> DEFINE n == Len(frames)
           phase == Children(Top.phase)[Top.next]
           id == Len(phases) + 1
           new == Frame(id, phase)
<1>1. /\ frames # <<>> /\ Top.mode = "body" /\ Top.next <= Len(Children(Top.phase))
      /\ frames' = Append(WithTop([Top EXCEPT !.next = @ + 1]), Frame(id, phase))
      /\ phases' = Append(phases, phase)
      /\ UNCHANGED <<command, order, spans, context, announced, raised, broken, interrupted>>
  BY DEF BodyEnters
<1>2. /\ n \in Nat \ {0} /\ n \in 1..n /\ Top = frames[n] /\ Top \in FrameType
      /\ \A k \in 1..n : frames[k] \in FrameType
  BY <1>1, TopIs
<1>3. /\ raised = 0 /\ ~interrupted /\ Depth(Top.phase) = n /\ Top.id \in 1..Len(phases)
      /\ Top.error = 0 /\ Top.id \notin broken
  BY <1>1, <1>2 DEF StackInv, Types
<1>4. phase \in Phases /\ Depth(phase) = n + 1 /\ Top.phase # "project_deployment"
  <2>1. Top.phase \in Phases /\ Top.next \in Nat \ {0}
    BY <1>2 DEF FrameType
  <2> QED
    BY <1>1, <1>3, <2>1, ChildrenAreDeeper
<1>5. PICK g \in FrameType : /\ g = [Top EXCEPT !.next = @ + 1]
                             /\ g.id = Top.id /\ g.phase = Top.phase /\ g.mode = "body"
                             /\ g.error = 0
  <2>1. PICK f \in FrameType : f = Top
    BY <1>2
  <2> QED
    BY <1>1, <1>3, <2>1, EnteredIs
<1>6. /\ new \in FrameType /\ new.id = id /\ new.phase = phase
      /\ new.mode = "begin" /\ new.error = 0 /\ new.todo = Hooks(phase, "begin")
  <2>1. id \in Nat /\ order \in Seq(Plugins)
    BY LenProperties DEF Types
  <2> HIDE DEF id, phase
  <2> QED
    BY <1>4, <2>1, FrameIs
<1>7. /\ phases' \in Seq(Phases) /\ Len(phases') = id /\ phases'[id] = phase
      /\ \A f \in 1..Len(phases) : phases'[f] = phases[f]
      /\ Len(phases) \in Nat
  BY <1>1, <1>4, AppendProperties, LenProperties DEF Types
<1> HIDE DEF new, phase
<1>8. /\ frames' \in Seq(FrameType) /\ Len(frames') = n + 1 /\ frames'[n + 1] = new
      /\ frames'[n] = g
      /\ \A k \in 1..n : k # n => frames'[k] = frames[k]
  <2> DEFINE t == WithTop(g)
  <2>1. t = [frames EXCEPT ![n] = g] /\ frames \in Seq(FrameType)
    BY DEF WithTop, Types
  <2>2. /\ t \in Seq(FrameType) /\ Len(t) = n
        /\ \A k \in 1..n : t[k] = IF k = n THEN g ELSE frames[k]
    BY <1>2, <2>1, ExceptSeq
  <2>3. frames' = Append(t, new)
    BY <1>1, <1>5 DEF new, phase
  <2> HIDE DEF t
  <2>4. /\ frames' \in Seq(FrameType) /\ Len(frames') = n + 1 /\ frames'[n + 1] = new
        /\ \A k \in 1..n : frames'[k] = t[k]
    BY <1>6, <2>2, <2>3, AppendProperties
  <2> QED
    BY <1>2, <2>2, <2>4
<1> HIDE DEF id
<1>9. id = Len(phases) + 1
  BY DEF id
<1>10. ASSUME NEW k \in 1..n
       PROVE  /\ frames'[k].id = frames[k].id /\ frames'[k].phase = frames[k].phase
              /\ frames'[k].mode = "body" /\ frames'[k].error = 0
              /\ frames[k].mode = "body" /\ frames[k].id \in 1..Len(phases)
              /\ frames[k].id \notin broken /\ k # n + 1
  <2>1. CASE k = n
    <3>1. frames'[k] = g /\ frames[k] = Top /\ k # n + 1
      BY <1>2, <1>8, <2>1
    <3> QED
      BY <1>1, <1>3, <1>5, <3>1
  <2>2. CASE k # n
    BY <1>2, <1>8, <2>2 DEF StackInv
  <2> QED
    BY <2>1, <2>2
<1>11. \A k \in 1..n + 1 : k \in 1..n \/ k = n + 1
  BY <1>2
<1>12. StackInv'
  <2>1. ASSUME NEW k \in 1..n
        PROVE  LET f == frames'[k] IN
               /\ f.id \in 1..Len(phases') /\ f.phase = phases'[f.id] /\ Depth(f.phase) = k
               /\ f.mode = "body" /\ f.error = 0 /\ f.id \notin broken'
    <3>1. /\ frames[k].id \in 1..Len(phases) /\ frames[k].phase = phases[frames[k].id]
          /\ Depth(frames[k].phase) = k
      BY DEF StackInv
    <3>2. 1..Len(phases) \subseteq 1..Len(phases')
      BY <1>7, <1>9
    <3>3. PICK f \in 1..Len(phases) : f = frames[k].id
      BY <3>1
    <3>4. phases'[f] = phases[f] /\ f \in 1..Len(phases')
      BY <1>7, <3>2
    <3>5. frames'[k].phase = phases'[frames'[k].id] /\ frames'[k].id \in 1..Len(phases')
      BY <1>10, <3>1, <3>3, <3>4
    <3> QED
      BY <1>1, <1>10, <3>1, <3>5
  <2>2. /\ new.id \in 1..Len(phases') /\ new.phase = phases'[new.id] /\ Depth(new.phase) = n + 1
        /\ new.todo \subseteq Hooks(new.phase, new.mode)
        /\ new.id \notin broken'
    BY <1>1, <1>4, <1>6, <1>7, <1>9 DEF Types
  <2>3. \A p, h : Hooks(p, h)' = Hooks(p, h)
    BY <1>1 DEF Hooks
  <2>4. raised' = 0
    BY <1>1, <1>3
  <2>5. ASSUME NEW k \in 1..n + 1, NEW l \in 1..n + 1, k < l
        PROVE  frames'[k].id < frames'[l].id
    <3>1. k \in 1..n
      BY <1>2, <2>5
    <3>2. CASE l \in 1..n
      BY <1>10, <2>5, <3>1, <3>2 DEF StackInv
    <3>3. CASE l = n + 1
      <4>1. PICK a \in 1..Len(phases) : a = frames'[k].id
        BY <1>10, <3>1
      <4> QED
        BY <1>6, <1>7, <1>8, <1>9, <3>3, <4>1
    <3> QED
      BY <1>11, <3>2, <3>3
  <2>6. ASSUME NEW k \in 1..n + 1
        PROVE  LET f == frames'[k] IN
               /\ f.id \in 1..Len(phases') /\ f.phase = phases'[f.id] /\ Depth(f.phase) = k
               /\ f.mode # "body" => k = n + 1 /\ f.todo \subseteq Hooks(f.phase, f.mode)
               /\ f.error = 0 /\ f.id \notin broken'
    <3>1. CASE k \in 1..n
      BY <2>1, <3>1
    <3>2. CASE k = n + 1
      BY <1>6, <1>8, <2>2, <3>2
    <3> QED
      BY <1>11, <3>1, <3>2
  <2> QED
    BY <1>8, <2>3, <2>4, <2>5, <2>6 DEF StackInv
<1>13. \A k \in 1..n : GoesOn(k) /\ ~IsNew(k)
  <2> SUFFICES ASSUME NEW k \in 1..n PROVE GoesOn(k) /\ ~IsNew(k)
    OBVIOUS
  <2>1. GoesOn(k)
    BY <1>10 DEF GoesOn
  <2>2. PICK a \in 1..Len(phases) : a = frames'[k].id
    BY <1>10
  <2>3. ~(a > Len(phases))
    BY <1>7, <2>2
  <2> QED
    BY <2>1, <2>2, <2>3 DEF IsNew
<1>14. IsNew(n + 1)
  BY <1>6, <1>7, <1>8, <1>9 DEF IsNew
<1>15. Quiet
  <2>1. raised \in Nat /\ raised <= raised
    BY DEF Types
  <2> QED
    <3>1. \A k \in 1..Len(frames') : GoesOn(k) \/ IsNew(k)
      BY <1>8, <1>11, <1>13, <1>14
    <3>2. Len(phases) <= Len(phases') /\ Len(phases') \in Nat
      BY <1>7, <1>9
    <3> QED
      BY <1>1, <1>7, <2>1, <3>1, <3>2 DEF Quiet, Past
<1>16. SpanInv'
  BY <1>15, SpansKept
<1>17. ContextInv'
  <2>1. ~Lost
    BY <1>3 DEF Lost
  <2>2. ASSUME NEW k \in 1..Len(frames'), IsNew(k), NEW i \in 1..Len(context)
        PROVE  spans[context[i]].phase # frames'[k].phase
    <3>1. k = n + 1
      BY <1>8, <1>11, <1>13, <2>2
    <3>2. PICK l \in 1..n : frames[l].id = spans[context[i]].frame
      BY <1>3, <2>1 DEF ContextInv
    <3>3. spans[context[i]].phase = frames[l].phase
      <4>1. PICK s \in 1..Len(spans) : s = context[i]
        BY DEF ContextInv
      <4>2. spans[s].phase = phases[spans[s].frame]
        BY DEF SpanInv
      <4>3. frames[l].phase = phases[frames[l].id]
        BY DEF StackInv
      <4> QED
        BY <3>2, <4>1, <4>2, <4>3
    <3>4. Depth(frames[l].phase) = l /\ l # n + 1
      BY <1>10 DEF StackInv
    <3> QED
      BY <1>4, <1>6, <1>8, <3>1, <3>3, <3>4
  <2>3. \A k \in 1..n : k \in 1..Len(frames') /\ GoesOn(k) /\ frames'[k].mode # "complete"
    BY <1>2, <1>8, <1>10, <1>13
  <2> QED
    BY <1>15, <2>2, <2>3, ContextKept
<1>18. ASSUME Loaded("slack"), NEW f \in 1..Len(phases), phases[f] = "project_deployment"
       PROVE  f \in announced
  <2> SUFFICES ASSUME f \notin announced PROVE FALSE
    OBVIOUS
  <2>1. PICK k \in 1..n : frames[k].id = f
    BY <1>3, <1>18 DEF AnnounceInv
  <2>2. frames[k].phase = "project_deployment" /\ Depth(frames[k].phase) = k
    BY <1>18, <2>1 DEF StackInv
  <2>3. k = 2 /\ k # n
    BY <1>2, <1>4, <2>2 DEF Depth
  <2>4. PICK m \in Nat : m = n
    BY <1>2
  <2>5. m + 1 <= 3
    BY <1>4, <2>4 DEF Depth
  <2>6. 2 \in 1..m /\ m # 2
    BY <2>3, <2>4
  <2> QED
    BY <2>5, <2>6
<1>19. AnnounceInv'
  <2>1. Loaded("slack")' <=> Loaded("slack")
    BY <1>1 DEF Loaded
  <2>2. announced' \cap broken' = {}
    BY <1>1 DEF AnnounceInv
  <2>3. ASSUME NEW k \in 1..n + 1, frames'[k].id \in announced' PROVE FALSE
    <3>1. CASE k \in 1..n
      BY <1>1, <1>10, <2>3, <3>1 DEF AnnounceInv
    <3>2. CASE k = n + 1
      BY <1>1, <1>6, <1>7, <1>8, <1>9, <2>3, <3>2 DEF Types
    <3> QED
      BY <1>11, <3>1, <3>2
  <2>4. ASSUME Loaded("slack"), NEW f \in 1..Len(phases'), phases'[f] = "project_deployment",
               f # id
        PROVE  f \in announced'
    <3>1. f \in 1..Len(phases)
      BY <1>7, <1>9, <2>4
    <3>2. phases[f] = "project_deployment"
      BY <1>7, <2>4, <3>1
    <3> QED
      BY <1>1, <1>18, <2>4, <3>1, <3>2
  <2>5. \A f \in 1..Len(phases') : f < Len(phases') => f # id
    BY <1>7, <1>9
  <2>6. n + 1 \in 1..Len(frames') /\ frames'[n + 1].id = id /\ frames'[n + 1].mode = "begin"
    BY <1>2, <1>6, <1>8
  <2> QED
    BY <1>8, <2>1, <2>2, <2>3, <2>4, <2>5, <2>6 DEF AnnounceInv
<1>20. Types'
  <2>1. 1..Len(phases) \subseteq 1..Len(phases')
    BY <1>7, <1>9
  <2> QED
    BY <1>1, <1>3, <1>7, <1>8, <2>1 DEF Types
<1> QED
  BY <1>12, <1>16, <1>17, <1>19, <1>20

\* A phase that has ended a hook of the OpenTelemetry plugin does not await it again.
LEMMA CalledOnce ==
  ASSUME Types, NEW i \in DOMAIN order, NEW f, NEW g, g.todo = f.todo \ {i},
         f.todo \subseteq DOMAIN order
  PROVE  ~Awaits(g, order[i])
<1>1. \A j \in DOMAIN order : order[i] = order[j] => i = j
  BY DEF Types
<1> QED
  BY <1>1 DEF Awaits

\* A span is begun for the innermost phase, which had none.
LEMMA OtelBeginsStep == ASSUME Inv, OtelBegins PROVE Inv'
<1> USE DEF Inv
<1> DEFINE n == Len(frames)
           new == Len(spans) + 1
           m == Len(context)
           parent == IF context = <<>> THEN 0 ELSE Last(context)
<1>1. PICK i \in DOMAIN order : Calls(i, "opentelemetry", "begin") /\ Called(i)
  BY DEF OtelBegins
<1>2. /\ frames # <<>> /\ Top.mode = "begin" /\ i \in Top.todo /\ order[i] = "opentelemetry"
      /\ UNCHANGED <<command, order, announced, raised, phases, broken, interrupted>>
  BY <1>1 DEF OtelBegins, Calls, hidden
<1>3. Top \in FrameType /\ Top = frames[n] /\ n \in 1..n
  BY <1>2, TopIs
<1>4. PICK rec \in SpanType : /\ rec.frame = Top.id /\ rec.phase = Top.phase /\ rec.state = "open"
                              /\ rec.parent = parent /\ rec.errors = {}
                              /\ spans' = Append(spans, rec) /\ context' = Append(context, new)
  <2>1. PICK f \in FrameType : f = Top
    BY <1>3
  <2>2. parent \in Nat
    <3>1. context \in Seq(Nat)
      BY DEF Types
    <3> QED
      BY <3>1, FrontIs
  <2> HIDE DEF parent
  <2> DEFINE r == [frame |-> f.id, phase |-> f.phase, state |-> "open",
                   parent |-> parent, errors |-> {}]
  <2>3. spans' = Append(spans, r) /\ context' = Append(context, new)
    BY <2>1 DEF OtelBegins, SpanBegin, parent
  <2>4. r \in SpanType
    BY <2>2 DEF SpanType, FrameType
  <2> QED
    BY <2>1, <2>3, <2>4
<1>5. PICK g \in FrameType :
        /\ frames' = WithTop(g) /\ g.id = Top.id /\ g.phase = Top.phase /\ g.mode = Top.mode
        /\ g.todo = Top.todo \ {i}
  BY <1>1, <1>2, CalledFrames
<1>6. /\ frames' \in Seq(FrameType) /\ StackInv' /\ Past
      /\ \A k \in 1..n : GoesOn(k)
  BY <1>1, <1>2, CalledFrames
<1>7. /\ spans' \in Seq(SpanType) /\ Len(spans') = new /\ spans'[new] = rec
      /\ \A s \in 1..Len(spans) : spans'[s] = spans[s]
      /\ Len(spans) \in Nat
  BY <1>4, AppendProperties, LenProperties DEF Types
<1>8. /\ context' \in Seq(Nat) /\ Len(context') = m + 1 /\ context'[m + 1] = new
      /\ \A j \in 1..m : context'[j] = context[j]
      /\ m \in Nat
  <2>1. new \in Nat
    BY <1>7
  <2> HIDE DEF new
  <2> QED
    BY <1>4, <2>1, AppendProperties, LenProperties DEF Types
<1>9. new = Len(spans) + 1 /\ parent = IF m = 0 THEN 0 ELSE context[m]
  <2>1. context = <<>> <=> m = 0
    BY EmptySeq DEF Types
  <2> QED
    BY <2>1 DEF Last
<1> HIDE DEF new, parent
<1>10. /\ Len(frames') = n /\ frames'[n] = g
       /\ \A k \in 1..n : k # n => frames'[k] = frames[k]
  BY <1>2, <1>5, TopChanges
<1>11. /\ raised = 0 /\ ~interrupted /\ ~Lost
       /\ Top.id \in 1..Len(phases) /\ Top.phase = phases[Top.id] /\ Depth(Top.phase) = n
       /\ Top.todo \subseteq Hooks(Top.phase, "begin")
  <2>1. raised = 0 /\ ~interrupted
    BY <1>2, <1>3 DEF StackInv, Types
  <2>2. ~Lost
    BY <2>1 DEF Lost
  <2> QED
    BY <1>2, <1>3, <2>1, <2>2 DEF StackInv
<1>12. Top.phase # "buildx_setup_buildkit" /\ Loaded("opentelemetry")
  BY <1>2, <1>11 DEF Hooks, Implements, Loaded
<1>13. \A s \in 1..Len(spans) : spans[s].frame < Top.id
  <2>1. Awaits(Top, "opentelemetry")
    BY <1>2 DEF Awaits
  <2> QED
    BY <1>2, <1>3, <2>1 DEF SpanInv
<1>14. \A f : Awaits(f, "opentelemetry")' <=> Awaits(f, "opentelemetry")
  BY <1>2 DEF Awaits
<1>15. ~Awaits(g, "opentelemetry")
  <2>1. Top.todo \subseteq DOMAIN order
    BY <1>11, HooksIn DEF Types
  <2>2. ~Awaits(g, order[i])
    BY <1>5, <2>1, CalledOnce
  <2> QED
    BY <1>2, <2>2
<1>16. \A k \in 1..n : /\ frames'[k].id = frames[k].id /\ frames'[k].phase = frames[k].phase
                       /\ frames'[k].mode # "complete"
                       /\ frames'[k].mode = "begin" => k = n
  <2> SUFFICES ASSUME NEW k \in 1..n
               PROVE  /\ frames'[k].id = frames[k].id /\ frames'[k].phase = frames[k].phase
                      /\ frames'[k].mode # "complete"
                      /\ frames'[k].mode = "begin" => k = n
    OBVIOUS
  <2>1. CASE k = n
    BY <1>2, <1>3, <1>5, <1>10, <2>1
  <2>2. CASE k # n
    BY <1>10, <2>2 DEF StackInv
  <2> QED
    BY <2>1, <2>2
<1>17. \A s \in 1..new : s \in 1..Len(spans) \/ s = new
  BY <1>7, <1>9
<1>18. \A j \in 1..m + 1 : j \in 1..m \/ j = m + 1
  BY <1>8
<1>19. SpanInv'
  <2>1. ASSUME NEW s \in 1..new
        PROVE  LET p == spans'[s] IN
               /\ p.frame \in 1..Len(phases) /\ p.phase = phases[p.frame]
               /\ p.phase # "buildx_setup_buildkit" /\ Loaded("opentelemetry")
               /\ p.parent < s /\ p.errors \subseteq 1..raised
               /\ p.state # "open" => (p.state = "error" <=> p.frame \in broken)
               /\ \A k \in 1..n :
                    /\ frames'[k].id = p.frame /\ p.state # "open" => frames'[k].mode = "complete"
                    /\ frames'[k].mode = "begin" /\ Awaits(frames'[k], "opentelemetry")
                         => p.frame < frames'[k].id
    <3>1. CASE s \in 1..Len(spans)
      <4>1. spans'[s] = spans[s]
        BY <1>7, <3>1
      <4>2. \A k \in 1..n :
              /\ frames[k].id = spans[s].frame /\ spans[s].state # "open" => frames[k].mode = "complete"
        BY <3>1 DEF SpanInv
      <4>3. ASSUME NEW k \in 1..n, frames'[k].id = spans[s].frame, spans[s].state # "open"
            PROVE  frames'[k].mode = "complete"
        <5>1. frames[k].mode = "complete"
          BY <1>16, <4>2, <4>3
        <5> QED
          BY <1>6, <5>1 DEF GoesOn
      <4>4. \A k \in 1..n : frames'[k].mode = "begin" => spans[s].frame < frames'[k].id
        BY <1>3, <1>13, <1>16, <3>1
      <4>5. /\ spans[s].frame \in 1..Len(phases) /\ spans[s].phase = phases[spans[s].frame]
            /\ spans[s].phase # "buildx_setup_buildkit"
            /\ spans[s].parent < s /\ spans[s].errors \subseteq 1..raised
            /\ spans[s].state # "open" => (spans[s].state = "error" <=> spans[s].frame \in broken)
        BY <3>1 DEF SpanInv
      <4> QED
        BY <1>12, <4>1, <4>3, <4>4, <4>5
    <3>2. CASE s = new
      <4>1. rec.parent < new
        <5>1. CASE m = 0
          BY <1>4, <1>7, <1>9, <5>1
        <5>2. CASE m # 0
          <6>1. m \in 1..m
            BY <1>8, <5>2
          <6>2. context[m] \in 1..Len(spans)
            BY <6>1 DEF ContextInv
          <6> QED
            BY <1>4, <1>7, <1>9, <5>2, <6>2
        <5> QED
          BY <5>1, <5>2
      <4>2. \A k \in 1..n : ~(frames'[k].mode = "begin" /\ Awaits(frames'[k], "opentelemetry"))
        BY <1>10, <1>15, <1>16
      <4> QED
        BY <1>4, <1>7, <1>11, <1>12, <3>2, <4>1, <4>2
    <3> QED
      BY <1>17, <3>1, <3>2
  <2>2. ASSUME NEW s \in 1..new, NEW t \in 1..new, s < t PROVE spans'[s].frame < spans'[t].frame
    <3>1. s \in 1..Len(spans)
      BY <1>7, <1>9, <2>2
    <3>2. CASE t \in 1..Len(spans)
      BY <1>7, <2>2, <3>1, <3>2 DEF SpanInv
    <3>3. CASE t = new
      BY <1>4, <1>7, <1>13, <3>1, <3>3
    <3> QED
      BY <1>17, <3>2, <3>3
  <2>3. ASSUME NEW s \in 1..new, NEW t \in 1..new, s # t
        PROVE  spans'[s].errors \cap spans'[t].errors = {}
    <3>1. CASE s = new \/ t = new
      BY <1>4, <1>7, <3>1
    <3>2. CASE s # new /\ t # new
      <4>1. s \in 1..Len(spans) /\ t \in 1..Len(spans)
        BY <1>17, <3>2
      <4> QED
        BY <1>7, <2>3, <4>1 DEF SpanInv
    <3> QED
      BY <3>1, <3>2
  <2>4. Loaded("opentelemetry")' <=> Loaded("opentelemetry")
    BY <1>2 DEF Loaded
  <2> QED
    BY <1>2, <1>7, <1>10, <1>14, <2>1, <2>2, <2>3, <2>4 DEF SpanInv
<1>20. ContextInv'
  <2>1. ASSUME NEW j \in 1..m
        PROVE  /\ context[j] \in 1..Len(spans) /\ context'[j] = context[j]
               /\ spans'[context'[j]] = spans[context[j]]
               /\ spans[context[j]].parent = IF j = 1 THEN 0 ELSE context[j - 1]
    BY <1>7, <1>8 DEF ContextInv
  <2>2. ASSUME NEW j \in 1..m + 1
        PROVE  /\ context'[j] \in 1..new
               /\ spans'[context'[j]].parent = IF j = 1 THEN 0 ELSE context'[j - 1]
    <3>1. CASE j \in 1..m
      <4>1. j # 1 => j - 1 \in 1..m /\ context'[j - 1] = context[j - 1]
        BY <1>8, <3>1
      <4>2. context'[j] \in 1..new
        BY <1>7, <1>9, <2>1, <3>1
      <4> QED
        BY <2>1, <3>1, <4>1, <4>2
    <3>2. CASE j = m + 1
      <4>1. spans'[context'[j]].parent = IF m = 0 THEN 0 ELSE context[m]
        BY <1>4, <1>7, <1>8, <1>9, <3>2
      <4>2. (j = 1 <=> m = 0) /\ j - 1 = m /\ (m # 0 => m \in 1..m)
        BY <1>8, <3>2
      <4>3. new \in 1..new
        BY <1>7, <1>9
      <4> QED
        BY <1>8, <3>2, <4>1, <4>2, <4>3
    <3> QED
      BY <1>18, <3>1, <3>2
  <2>3. ASSUME NEW j \in 1..m + 1, NEW l \in 1..m + 1, j < l PROVE context'[j] < context'[l]
    <3>1. j \in 1..m
      BY <1>8, <2>3
    <3>2. CASE l \in 1..m
      BY <2>1, <2>3, <3>1, <3>2 DEF ContextInv
    <3>3. CASE l = m + 1
      <4>1. context[j] \in 1..Len(spans) /\ context'[j] = context[j]
        BY <2>1, <3>1
      <4> QED
        BY <1>7, <1>8, <1>9, <3>3, <4>1
    <3> QED
      BY <1>18, <3>2, <3>3
  <2>4. ASSUME NEW s \in 1..new
        PROVE  spans'[s].state = "open" <=> \E j \in 1..m + 1 : context'[j] = s
    <3>1. CASE s \in 1..Len(spans)
      <4>1. s # new
        BY <1>7, <1>9, <3>1
      <4>2. spans[s].state = "open" <=> \E j \in 1..m : context[j] = s
        BY <3>1 DEF ContextInv
      <4>3. 1..m \subseteq 1..m + 1
        BY <1>8
      <4>4. \A j \in 1..m + 1 : context'[j] = s => j \in 1..m
        BY <1>8, <1>18, <4>1
      <4> QED
        BY <1>7, <1>8, <3>1, <4>2, <4>3, <4>4
    <3>2. CASE s = new
      <4>1. m + 1 \in 1..m + 1
        BY <1>8
      <4> QED
        BY <1>4, <1>7, <1>8, <3>2, <4>1
    <3> QED
      BY <1>17, <3>1, <3>2
  <2>5. spans'[context'[m + 1]] = rec
    BY <1>7, <1>8
  <2>6. ASSUME NEW j \in 1..m + 1, NEW k \in 1..n, spans'[context'[j]].phase = frames'[k].phase
        PROVE  spans'[context'[j]].frame = frames'[k].id
    <3>1. CASE j \in 1..m
      BY <1>16, <2>1, <2>6, <3>1 DEF ContextInv
    <3>2. CASE j = m + 1
      <4>1. frames[k].phase = Top.phase
        BY <1>4, <1>16, <2>5, <2>6, <3>2
      <4>2. k = n
        BY <1>11, <4>1 DEF StackInv
      <4> QED
        BY <1>3, <1>4, <1>16, <2>5, <3>2, <4>2
    <3> QED
      BY <1>18, <3>1, <3>2
  <2>7. ASSUME NEW j \in 1..m + 1
        PROVE  \E k \in 1..n : frames'[k].id = spans'[context'[j]].frame /\ frames'[k].mode # "complete"
    <3>1. CASE j \in 1..m
      <4>1. PICK k \in 1..n : frames[k].id = spans[context[j]].frame
        BY <1>11, <3>1 DEF ContextInv
      <4> QED
        BY <1>16, <2>1, <3>1, <4>1
    <3>2. CASE j = m + 1
      BY <1>3, <1>4, <1>16, <2>5, <3>2
    <3> QED
      BY <1>18, <3>1, <3>2
  <2>8. /\ Len(context') = m + 1 /\ Len(spans') = new /\ Len(frames') = n
    BY <1>7, <1>8, <1>10
  <2>9. \A j \in 1..m + 1 : \E k \in 1..n :
          /\ frames'[k].id = spans'[context'[j]].frame
          /\ frames'[k].mode = "complete" => Awaits(frames'[k], "opentelemetry")
    BY <2>7
  <2> QED
    BY <1>14, <2>2, <2>3, <2>4, <2>6, <2>8, <2>9 DEF ContextInv
<1>21. AnnounceInv'
  <2>1. g.mode # "complete"
    BY <1>2, <1>5
  <2> QED
    BY <1>2, <1>5, <1>6, <2>1, TopAnnounce
<1>22. Types'
  BY <1>2, <1>6, <1>7, <1>8, <1>11 DEF Types
<1> QED
  BY <1>6, <1>19, <1>20, <1>21, <1>22

\* The current span learns of the exception, and is ended if it is of this phase.
LEMMA SpanEndIs ==
  ASSUME Inv, frames # <<>>, Top.mode = "complete", SpanEnd, context # <<>>
  PROVE  LET m == Len(context)
             s == context[m]
             match == spans[s].phase = Top.phase
         IN
         /\ m \in 1..m /\ s \in 1..Len(spans) /\ spans[s].state = "open"
         /\ spans' \in Seq(SpanType) /\ Len(spans') = Len(spans)
         /\ \A t \in 1..Len(spans) :
              /\ spans'[t].frame = spans[t].frame /\ spans'[t].phase = spans[t].phase
              /\ spans'[t].parent = spans[t].parent
              /\ t # s => spans'[t] = spans[t]
         /\ spans'[s].state = IF ~match THEN "open" ELSE IF raised = 0 THEN "ok" ELSE "error"
         /\ spans[s].errors \subseteq spans'[s].errors /\ spans'[s].errors \subseteq 1..raised
         /\ \A e \in spans'[s].errors \ spans[s].errors : ~Known(e)
         /\ context' \in Seq(Nat) /\ Len(context') = IF match THEN m - 1 ELSE m
         /\ \A j \in 1..Len(context') : j \in 1..m /\ context'[j] = context[j]
<1> USE DEF Inv
<1> DEFINE n == Len(frames)
           m == Len(context)
           s == context[m]
           e == Top.error
           errors == spans[s].errors \cup (IF e = 0 \/ Known(e) THEN {} ELSE {e})
           match == spans[s].phase = Top.phase
           state == IF ~match THEN "open" ELSE IF e = 0 THEN "ok" ELSE "error"
<1>1. m \in Nat \ {0} /\ m \in 1..m /\ context \in Seq(Nat)
  <2>1. context \in Seq(Nat)
    BY DEF Types
  <2> QED
    BY <2>1, EmptySeq
<1>2. s \in 1..Len(spans) /\ spans[s].state = "open" /\ Last(context) = s
  BY <1>1 DEF ContextInv, Last
<1>3. e = raised /\ raised \in Nat
  BY TopIs DEF StackInv, Types
<1>4. spans \in Seq(SpanType) /\ spans[s] \in SpanType
  BY <1>2, ElementOfSeq DEF Types
<1>5. /\ spans' = [spans EXCEPT ![s].errors = errors, ![s].state = state]
      /\ context' = IF match THEN Front(context) ELSE context
  BY <1>2 DEF SpanEnd
<1>6. /\ errors \subseteq 1..raised /\ spans[s].errors \subseteq errors
      /\ \A x \in errors \ spans[s].errors : ~Known(x)
  <2>1. spans[s].errors \subseteq 1..raised
    BY <1>2 DEF SpanInv
  <2>2. raised # 0 => raised \in 1..raised
    BY <1>3
  <2> QED
    BY <1>3, <2>1, <2>2
<1>7. state = IF ~match THEN "open" ELSE IF raised = 0 THEN "ok" ELSE "error"
  BY <1>3
<1>8. state \in {"open", "ok", "error"}
  OBVIOUS
<1>9. PICK q \in SpanType :
        /\ q = [spans[s] EXCEPT !.errors = errors, !.state = state]
        /\ q.frame = spans[s].frame /\ q.phase = spans[s].phase /\ q.parent = spans[s].parent
        /\ q.errors = errors /\ q.state = state
  <2>1. errors \in SUBSET Nat
    BY <1>3, <1>6
  <2> HIDE DEF errors, state
  <2>2. PICK p \in SpanType : p = spans[s]
    BY <1>4
  <2>3. PICK x \in SUBSET Nat, y \in {"open", "ok", "error"} : x = errors /\ y = state
    BY <1>8, <2>1
  <2> DEFINE r == [p EXCEPT !.errors = x, !.state = y]
  <2>4. /\ r \in SpanType /\ r.frame = p.frame /\ r.phase = p.phase /\ r.parent = p.parent
        /\ r.errors = x /\ r.state = y
    BY ONLY p \in SpanType, x \in SUBSET Nat, y \in {"open", "ok", "error"} DEF SpanType
  <2>5. r = [spans[s] EXCEPT !.errors = errors, !.state = state]
    BY <2>2, <2>3
  <2> HIDE DEF r
  <2> QED
    BY <2>2, <2>3, <2>4, <2>5
<1>10. /\ context' \in Seq(Nat) /\ Len(context') = IF match THEN m - 1 ELSE m
       /\ \A j \in 1..Len(context') : j \in 1..m /\ context'[j] = context[j]
  <2> HIDE DEF match
  <2>1. CASE match
    <3>1. /\ Front(context) \in Seq(Nat) /\ Len(Front(context)) = m - 1
          /\ \A k \in 1..m - 1 : Front(context)[k] = context[k]
      BY <1>1, FrontIs
    <3> QED
      BY <1>1, <1>5, <2>1, <3>1
  <2>2. CASE ~match
    BY <1>1, <1>5, <2>2
  <2> QED
    BY <2>1, <2>2
<1> HIDE DEF errors, state
<1>11. spans' = [spans EXCEPT ![s] = q]
  BY <1>2, <1>4, <1>5, <1>9
<1> HIDE DEF s
<1>12. /\ spans' \in Seq(SpanType) /\ Len(spans') = Len(spans)
       /\ \A t \in 1..Len(spans) : spans'[t] = IF t = s THEN q ELSE spans[t]
  BY <1>2, <1>4, <1>11, ExceptSeq
<1>13. \A t \in 1..Len(spans) :
         /\ spans'[t].frame = spans[t].frame /\ spans'[t].phase = spans[t].phase
         /\ spans'[t].parent = spans[t].parent
         /\ t # s => spans'[t] = spans[t]
  BY <1>9, <1>12
<1>14. /\ spans'[s].state = IF ~match THEN "open" ELSE IF raised = 0 THEN "ok" ELSE "error"
       /\ spans[s].errors \subseteq spans'[s].errors /\ spans'[s].errors \subseteq 1..raised
       /\ \A x \in spans'[s].errors \ spans[s].errors : ~Known(x)
  <2>1. spans'[s] = q
    BY <1>2, <1>12
  <2> QED
    BY <1>6, <1>7, <1>9, <2>1
<1> QED
  BY <1>1, <1>2, <1>10, <1>12, <1>13, <1>14 DEF s

\* The span of the innermost phase, if it has one, is ended as its body did.
LEMMA OtelCompletesStep == ASSUME Inv, OtelCompletes PROVE Inv'
<1> USE DEF Inv
<1> DEFINE n == Len(frames)
           m == Len(context)
<1>1. PICK i \in DOMAIN order : Calls(i, "opentelemetry", "complete") /\ Called(i)
  BY DEF OtelCompletes
<1>2. /\ frames # <<>> /\ Top.mode = "complete" /\ i \in Top.todo /\ order[i] = "opentelemetry"
      /\ SpanEnd
      /\ UNCHANGED <<command, order, announced, raised, phases, broken, interrupted>>
  BY <1>1 DEF OtelCompletes, Calls, hidden
<1>3. Top \in FrameType /\ Top = frames[n] /\ n \in 1..n /\ n \in Nat
  BY <1>2, TopIs
<1>4. PICK g \in FrameType :
        /\ frames' = WithTop(g) /\ g.id = Top.id /\ g.phase = Top.phase /\ g.mode = Top.mode
        /\ g.todo = Top.todo \ {i}
  BY <1>1, <1>2, CalledFrames
<1>5. /\ frames' \in Seq(FrameType) /\ StackInv' /\ Past
      /\ \A k \in 1..n : GoesOn(k) /\ ~IsNew(k)
  BY <1>1, <1>2, CalledFrames
<1>6. /\ Len(frames') = n /\ frames'[n] = g
      /\ \A k \in 1..n : k # n => frames'[k] = frames[k]
  BY <1>2, <1>4, TopChanges
<1>7. AnnounceInv'
  <2>1. Awaits(Top, "slack") => Awaits(g, "slack")
    BY <1>2, <1>4 DEF Awaits
  <2> QED
    BY <1>2, <1>4, <1>5, <2>1, TopAnnounce
<1>8. CASE context = <<>>
  <2>1. UNCHANGED <<spans, context>>
    BY <1>2, <1>8 DEF SpanEnd
  <2>2. Quiet
    BY <1>5, <2>1 DEF Quiet
  <2>3. SpanInv'
    BY <2>2, SpansKept
  <2>4. ContextInv'
    <3>1. \A j \in 1..Len(context) : FALSE
      BY <1>8, EmptySeq
    <3> QED
      BY <2>2, <3>1, ContextKept
  <2>5. Types'
    BY <1>2, <1>5, <2>1 DEF Types
  <2> QED
    BY <1>5, <1>7, <2>3, <2>4, <2>5
<1>9. CASE context # <<>>
  <2> DEFINE s == context[m]
             match == spans[s].phase = Top.phase
             mm == Len(context')
  <2>1. /\ m \in 1..m /\ s \in 1..Len(spans) /\ spans[s].state = "open"
        /\ spans' \in Seq(SpanType) /\ Len(spans') = Len(spans)
        /\ \A t \in 1..Len(spans) :
             /\ spans'[t].frame = spans[t].frame /\ spans'[t].phase = spans[t].phase
             /\ spans'[t].parent = spans[t].parent
             /\ t # s => spans'[t] = spans[t]
        /\ spans'[s].state = IF ~match THEN "open" ELSE IF raised = 0 THEN "ok" ELSE "error"
        /\ spans[s].errors \subseteq spans'[s].errors /\ spans'[s].errors \subseteq 1..raised
        /\ \A e \in spans'[s].errors \ spans[s].errors : ~Known(e)
        /\ context' \in Seq(Nat) /\ mm = IF match THEN m - 1 ELSE m
        /\ \A j \in 1..mm : j \in 1..m /\ context'[j] = context[j]
    BY <1>2, <1>9, SpanEndIs
  <2> HIDE DEF mm
  <2>2. m \in Nat /\ mm \in Nat
    BY <2>1, LenProperties DEF Types, mm
  <2>3. /\ Top.id \in 1..Len(phases) /\ Top.phase = phases[Top.id]
        /\ (raised # 0 <=> Top.id \in broken)
    BY <1>3 DEF StackInv
  <2>4. match => spans[s].frame = Top.id
    <3>1. spans[context[m]].phase = frames[n].phase => spans[context[m]].frame = frames[n].id
      <4>1. m \in 1..m
        BY <2>1
      <4> QED
        BY <1>3, <4>1 DEF ContextInv
    <3> QED
      BY <1>3, <3>1
  <2>5. \A k \in 1..n : /\ frames'[k].id = frames[k].id /\ frames'[k].phase = frames[k].phase
                        /\ frames'[k].mode # "begin"
                        /\ k = n => frames'[k].mode = "complete"
    <3> SUFFICES ASSUME NEW k \in 1..n
                 PROVE  /\ frames'[k].id = frames[k].id /\ frames'[k].phase = frames[k].phase
                        /\ frames'[k].mode # "begin"
                        /\ k = n => frames'[k].mode = "complete"
      OBVIOUS
    <3>1. CASE k = n
      BY <1>2, <1>3, <1>4, <1>6, <3>1
    <3>2. CASE k # n
      BY <1>6, <3>2 DEF StackInv
    <3> QED
      BY <3>1, <3>2
  <2>6. \A k \in 1..n : k # n => frames[k].id # Top.id
    <3> SUFFICES ASSUME NEW k \in 1..n, k # n PROVE frames[k].id # Top.id
      OBVIOUS
    <3>1. frames[k].id < frames[n].id
      <4>1. k < n
        BY <1>3
      <4> QED
        BY <1>3, <4>1 DEF StackInv
    <3>2. frames[k].id \in Nat /\ frames[n].id \in Nat
      BY <1>2, <1>3, TopIs DEF FrameType
    <3> QED
      BY <1>3, <3>1, <3>2
  <2>7. \A f : Awaits(f, "opentelemetry")' <=> Awaits(f, "opentelemetry")
    BY <1>2 DEF Awaits
  <2>8. Loaded("opentelemetry")' <=> Loaded("opentelemetry")
    BY <1>2 DEF Loaded
  <2> HIDE DEF s
  <2>9. SpanInv'
    <3>1. ASSUME NEW t \in 1..Len(spans)
          PROVE  LET p == spans'[t] IN
                 /\ p.frame \in 1..Len(phases) /\ p.phase = phases[p.frame]
                 /\ p.phase # "buildx_setup_buildkit" /\ Loaded("opentelemetry")
                 /\ p.parent < t /\ p.errors \subseteq 1..raised
                 /\ p.state # "open" => (p.state = "error" <=> p.frame \in broken)
                 /\ \A k \in 1..n :
                      frames'[k].id = p.frame /\ p.state # "open" => frames'[k].mode = "complete"
      <4>1. /\ spans[t].frame \in 1..Len(phases) /\ spans[t].phase = phases[spans[t].frame]
            /\ spans[t].phase # "buildx_setup_buildkit" /\ Loaded("opentelemetry")
            /\ spans[t].parent < t /\ spans[t].errors \subseteq 1..raised
            /\ spans[t].state # "open" => (spans[t].state = "error" <=> spans[t].frame \in broken)
            /\ \A k \in 1..n :
                 frames[k].id = spans[t].frame /\ spans[t].state # "open" => frames[k].mode = "complete"
        BY DEF SpanInv
      <4>2. CASE t # s
        <5>1. spans'[t] = spans[t]
          BY <2>1, <4>2
        <5>2. \A k \in 1..n :
                frames'[k].id = spans[t].frame /\ spans[t].state # "open" => frames'[k].mode = "complete"
          BY <1>5, <2>5, <4>1 DEF GoesOn
        <5> QED
          BY <4>1, <5>1, <5>2
      <4>3. CASE t = s
        <5>1. /\ spans'[t].frame = spans[t].frame /\ spans'[t].phase = spans[t].phase
              /\ spans'[t].parent = spans[t].parent /\ spans'[t].errors \subseteq 1..raised
          BY <2>1, <4>3
        <5>2. ASSUME spans'[t].state # "open"
              PROVE  /\ spans'[t].state = "error" <=> spans'[t].frame \in broken
                     /\ \A k \in 1..n : frames'[k].id = spans'[t].frame => frames'[k].mode = "complete"
          <6>1. match /\ spans'[t].frame = Top.id
            BY <2>1, <2>4, <4>3, <5>1, <5>2
          <6>2. spans'[t].state = "error" <=> raised # 0
            BY <2>1, <4>3, <6>1
          <6> QED
            BY <2>3, <2>5, <2>6, <6>1, <6>2
        <5> QED
          BY <4>1, <5>1, <5>2
      <4> QED
        BY <4>2, <4>3
    <3>2. \A t, u \in 1..Len(spans) : t < u => spans'[t].frame < spans'[u].frame
      BY <2>1 DEF SpanInv
    <3>3. ASSUME NEW t \in 1..Len(spans), NEW u \in 1..Len(spans), t # u
          PROVE  spans'[t].errors \cap spans'[u].errors = {}
      <4>1. \A a, b \in 1..Len(spans) : a # b => spans[a].errors \cap spans[b].errors = {}
        BY DEF SpanInv
      <4>2. \A a \in 1..Len(spans) : \A e \in spans[a].errors : Known(e)
        BY DEF Known
      <4>3. ASSUME NEW a \in 1..Len(spans), a # s
            PROVE  spans'[a].errors \cap spans'[s].errors = {}
        <5>1. spans'[a] = spans[a]
          BY <2>1, <4>3
        <5>2. spans[a].errors \cap spans[s].errors = {}
          BY <2>1, <4>1, <4>3
        <5> QED
          BY <2>1, <4>2, <5>1, <5>2
      <4>4. CASE t = s
        <5>1. spans'[u].errors \cap spans'[s].errors = {}
          BY <3>3, <4>3, <4>4
        <5> QED
          BY <4>4, <5>1
      <4>5. CASE u = s
        BY <3>3, <4>3, <4>5
      <4>6. CASE t # s /\ u # s
        BY <2>1, <3>3, <4>1, <4>6
      <4> QED
        BY <4>4, <4>5, <4>6
    <3>4. ASSUME NEW t \in 1..Len(spans), NEW k \in 1..n
          PROVE  /\ frames'[k].id = spans'[t].frame /\ spans'[t].state # "open"
                      => frames'[k].mode = "complete"
                 /\ frames'[k].mode = "begin" /\ Awaits(frames'[k], "opentelemetry")
                      => spans'[t].frame < frames'[k].id
      BY <2>5, <3>1
    <3>5. Len(frames') = n /\ Len(spans') = Len(spans)
      BY <1>6, <2>1
    <3> QED
      BY <1>2, <2>7, <2>8, <3>1, <3>2, <3>3, <3>4, <3>5 DEF SpanInv
  <2>10. ContextInv'
    <3>1. ASSUME NEW j \in 1..mm
          PROVE  /\ j \in 1..m /\ context'[j] = context[j] /\ context[j] \in 1..Len(spans)
                 /\ spans'[context'[j]].frame = spans[context[j]].frame
                 /\ spans'[context'[j]].phase = spans[context[j]].phase
                 /\ spans'[context'[j]].parent = IF j = 1 THEN 0 ELSE context'[j - 1]
      <4>1. j \in 1..m /\ context'[j] = context[j]
        BY <2>1
      <4>2. /\ context[j] \in 1..Len(spans)
            /\ spans[context[j]].parent = IF j = 1 THEN 0 ELSE context[j - 1]
        BY <4>1 DEF ContextInv
      <4>3. j # 1 => j - 1 \in 1..mm
        BY <2>2
      <4> QED
        BY <2>1, <4>1, <4>2, <4>3
    <3>2. \A j, l \in 1..mm : j < l => context'[j] < context'[l]
      BY <3>1 DEF ContextInv
    <3>3. ASSUME NEW t \in 1..Len(spans)
          PROVE  spans'[t].state = "open" <=> \E j \in 1..mm : context'[j] = t
      <4>1. spans[t].state = "open" <=> \E j \in 1..m : context[j] = t
        BY DEF ContextInv
      <4>2. CASE ~match
        <5>1. mm = m /\ spans'[t].state = spans[t].state
          BY <2>1, <4>2
        <5> QED
          BY <3>1, <4>1, <5>1
      <4>3. CASE match /\ t = s
        <5>1. spans'[t].state # "open"
          BY <2>1, <4>3
        <5>2. ASSUME NEW j \in 1..mm, context'[j] = t PROVE FALSE
          <6>1. mm = m - 1
            BY <2>1, <4>3
          <6>2. j < m /\ j \in 1..m
            BY <2>2, <6>1
          <6>3. context[j] < context[m] /\ context[j] \in 1..Len(spans) /\ context[m] \in 1..Len(spans)
            BY <2>1, <6>2 DEF ContextInv
          <6>4. context[j] = context[m]
            BY <3>1, <4>3, <5>2 DEF s
          <6>5. Len(spans) \in Nat
            BY LenProperties DEF Types
          <6> QED
            BY <6>3, <6>4, <6>5
        <5> QED
          BY <5>1, <5>2
      <4>4. CASE match /\ t # s
        <5>1. mm = m - 1 /\ spans'[t] = spans[t]
          BY <2>1, <4>4
        <5>2. \A j \in 1..m : context[j] = t => j \in 1..mm
          BY <2>2, <4>4, <5>1 DEF s
        <5> QED
          BY <3>1, <4>1, <5>1, <5>2
      <4> QED
        BY <4>2, <4>3, <4>4
    <3>4. ASSUME NEW j \in 1..mm, NEW k \in 1..n, spans'[context'[j]].phase = frames'[k].phase
          PROVE  spans'[context'[j]].frame = frames'[k].id
      BY <2>5, <3>1, <3>4 DEF ContextInv
    <3>5. ASSUME ~interrupted, ~Lost, NEW j \in 1..mm, spans[context[j]].frame = Top.id PROVE FALSE
      <4>1. j \in 1..m /\ context[j] \in 1..Len(spans) /\ s \in 1..Len(spans)
        BY <2>1, <3>1
      <4>2. j < m => spans[context[j]].frame < spans[s].frame
        <5>1. j < m => context[j] < s
          BY <2>1, <4>1 DEF ContextInv, s
        <5> QED
          BY <4>1, <5>1 DEF SpanInv
      <4>3. CASE match
        <5>1. j < m
          BY <2>1, <2>2, <4>3
        <5> QED
          BY <2>3, <2>4, <3>5, <4>2, <4>3, <5>1
      <4>4. CASE ~match
        <5>1. spans[context[j]].phase = Top.phase
          BY <2>3, <3>5, <4>1 DEF SpanInv
        <5>2. j < m
          <6>1. j # m
            BY <4>4, <5>1 DEF s
          <6> QED
            BY <2>2, <4>1, <6>1
        <5>3. PICK l \in 1..n : frames[l].id = spans[s].frame
          BY <2>1, <3>5 DEF ContextInv, s
        <5>4. frames[n].id < frames[l].id
          BY <1>3, <3>5, <4>2, <5>2, <5>3
        <5>5. l # n /\ l < n
          <6>1. frames[n].id \in Nat
            BY <1>3 DEF FrameType
          <6>2. l # n
            BY <5>4, <6>1
          <6> QED
            BY <1>3, <6>2
        <5>6. frames[l].id < frames[n].id /\ frames[l].id \in Nat /\ frames[n].id \in Nat
          BY <1>2, <1>3, <5>5, TopIs DEF StackInv, FrameType
        <5> QED
          BY <5>4, <5>6
      <4> QED
        BY <4>3, <4>4
    <3>6. ASSUME ~interrupted, ~Lost, NEW j \in 1..mm
          PROVE  \E k \in 1..n :
                   /\ frames'[k].id = spans'[context'[j]].frame
                   /\ frames'[k].mode = "complete" => Awaits(frames'[k], "opentelemetry")
      <4>1. PICK k \in 1..n :
              /\ frames[k].id = spans[context[j]].frame
              /\ frames[k].mode = "complete" => Awaits(frames[k], "opentelemetry")
        BY <3>1, <3>6 DEF ContextInv
      <4>2. k # n
        BY <1>3, <3>5, <3>6, <4>1
      <4> QED
        BY <1>6, <3>1, <4>1, <4>2
    <3>7. interrupted' = interrupted /\ (Lost' <=> Lost)
      BY <1>2 DEF Lost
    <3>8. Len(context') = mm /\ Len(frames') = n /\ Len(spans') = Len(spans)
      BY <1>6, <2>1 DEF mm
    <3>9. \A j \in 1..mm :
            /\ context'[j] \in 1..Len(spans)
            /\ spans'[context'[j]].parent = IF j = 1 THEN 0 ELSE context'[j - 1]
      BY <3>1
    <3> QED
      BY ONLY <2>7, <3>2, <3>3, <3>4, <3>6, <3>7, <3>8, <3>9 DEF ContextInv
  <2>11. Types'
    BY <1>2, <1>5, <2>1 DEF Types
  <2> QED
    BY <1>5, <1>7, <2>9, <2>10, <2>11
<1> QED
  BY <1>8, <1>9

-----------------------------------------------------------------------------
(* The invariant, and what follows from it. *)

LEMMA InitInv == ASSUME Init PROVE Inv
<1> DEFINE f == Frame(1, "application")
<1>1. /\ command \in Commands
      /\ order \in UNION {[1..k -> Plugins] : k \in 0..3}
      /\ \A i, j \in DOMAIN order : order[i] = order[j] => i = j
      /\ frames = <<f>> /\ spans = <<>> /\ context = <<>> /\ announced = {} /\ raised = 0
      /\ phases = <<"application">> /\ broken = {} /\ interrupted = FALSE
  BY DEF Init
<1>2. order \in Seq(Plugins)
  <2>1. PICK k \in 0..3 : order \in [1..k -> Plugins]
    BY <1>1
  <2> QED
    BY <2>1, SeqDef
<1>3. /\ f \in FrameType /\ f.id = 1 /\ f.phase = "application" /\ f.mode = "begin" /\ f.error = 0
      /\ f.todo = Hooks("application", "begin")
  <2>1. "application" \in Phases /\ 1 \in Nat
    BY DEF Phases
  <2> QED
    BY <1>2, <2>1, FrameIs
<1> HIDE DEF f
<1>4. Len(frames) = 1 /\ frames[1] = f /\ frames \in Seq(FrameType)
  BY <1>1, <1>3
<1>5. Len(phases) = 1 /\ phases[1] = "application" /\ phases \in Seq(Phases)
  BY <1>1 DEF Phases
<1>6. spans \in Seq(SpanType) /\ Len(spans) = 0 /\ context \in Seq(Nat) /\ Len(context) = 0
  BY <1>1, EmptySeq
<1>7. Types
  BY <1>1, <1>2, <1>4, <1>5, <1>6 DEF Types
<1>8. StackInv
  BY <1>1, <1>3, <1>4, <1>5 DEF StackInv, Depth
<1>9. SpanInv /\ ContextInv
  BY <1>6 DEF SpanInv, ContextInv
<1>10. AnnounceInv
  BY <1>1, <1>5 DEF AnnounceInv
<1> QED
  BY <1>7, <1>8, <1>9, <1>10 DEF Inv

\* A step that changes nothing keeps it.
LEMMA StutterInv == ASSUME Inv, UNCHANGED vars PROVE Inv'
<1>1. UNCHANGED <<command, order, frames, spans, context, announced, raised, phases, broken, interrupted>>
  BY DEF vars, hidden
<1>2. Types' /\ StackInv'
  BY <1>1 DEF Inv, Types, StackInv, Hooks
<1>3. Past
  <2>1. Len(phases) \in Nat /\ raised \in Nat /\ raised <= raised
    BY LenProperties DEF Inv, Types
  <2>2. \A k \in 1..Len(frames) : GoesOn(k)
    BY <1>1 DEF GoesOn
  <2> QED
    BY <1>1, <2>1, <2>2 DEF Past
<1>4. SpanInv'
  BY <1>1, <1>3, SpansKept DEF Quiet, Inv
<1>5. ContextInv'
  <2>1. \A f : Awaits(f, "opentelemetry")' <=> Awaits(f, "opentelemetry")
    BY <1>1 DEF Awaits
  <2>2. Lost' <=> Lost
    BY <1>1 DEF Lost
  <2> QED
    BY <1>1, <2>1, <2>2 DEF Inv, ContextInv
<1>6. AnnounceInv'
  <2>1. \A f : Awaits(f, "slack")' <=> Awaits(f, "slack")
    BY <1>1 DEF Awaits
  <2>2. Loaded("slack")' <=> Loaded("slack")
    BY <1>1 DEF Loaded
  <2> QED
    BY <1>1, <2>1, <2>2 DEF Inv, AnnounceInv
<1> QED
  BY <1>2, <1>4, <1>5, <1>6 DEF Inv

\* So does every step.
LEMMA StepInv == ASSUME Inv, [Next]_vars PROVE Inv'
<1>1. CASE OtelBegins
  BY <1>1, OtelBeginsStep
<1>2. CASE OtelCompletes
  BY <1>2, OtelCompletesStep
<1>3. CASE SlackCompletes
  BY <1>3, SlackCompletesStep
<1>4. CASE BinfmtBegins
  BY <1>4, BinfmtBeginsStep
<1>5. CASE BodyStarts
  BY <1>5, BodyStartsStep
<1>6. CASE BodyEnters
  BY <1>6, BodyEntersStep
<1>7. CASE BodyReturns
  BY <1>7, BodyReturnsStep
<1>8. CASE BodyRaises
  BY <1>8, BodyRaisesStep
<1>9. CASE PhaseEnds
  BY <1>9, PhaseEndsStep
<1>10. CASE Interrupt
  BY <1>10, InterruptStep
<1>11. CASE Over \/ UNCHANGED vars
  BY <1>11, StutterInv DEF Over
<1> QED
  BY <1>1, <1>2, <1>3, <1>4, <1>5, <1>6, <1>7, <1>8, <1>9, <1>10, <1>11 DEF Next

\* The stack of phases, the spans, the context stack and the announcements fit each
\* other in every state of a run, with whatever plugins and whatever raises.
THEOREM LifeCycleInvariant == Spec => []Inv
<1>1. Init => Inv
  BY InitInv
<1>2. Inv /\ [Next]_vars => Inv'
  BY StepInv
<1> QED
  BY <1>1, <1>2, PTL DEF Spec

\* The variables of a run of devops.py keep the types they are used at.
THEOREM TypesCorrect == Spec => []TypeOK
<1>1. Inv => TypeOK
  <2> SUFFICES ASSUME Inv PROVE TypeOK
    OBVIOUS
  <2> USE DEF Inv
  <2>1. Len(frames) \in Nat /\ raised \in Nat
    BY LenProperties DEF Types
  <2>2. ASSUME NEW i \in 1..Len(frames)
        PROVE  /\ frames[i].mode \in {"begin", "body", "complete"}
               /\ frames[i].id \in 1..Len(phases) /\ frames[i].phase = phases[frames[i].id]
               /\ frames[i].error \in 0..raised
    <3>1. frames[i] \in FrameType
      BY <2>2, ElementOfSeq DEF Types
    <3> QED
      BY <2>1, <3>1 DEF StackInv, FrameType
  <2>3. ASSUME NEW s \in 1..Len(spans)
        PROVE  /\ spans[s].state \in {"open", "ok", "error"}
               /\ spans[s].parent \in 0..(s - 1)
               /\ spans[s].errors \subseteq 1..raised
    <3>1. spans[s] \in SpanType
      BY <2>3, ElementOfSeq DEF Types
    <3>2. spans[s].parent < s /\ spans[s].errors \subseteq 1..raised
      BY DEF SpanInv
    <3> QED
      BY <3>1, <3>2 DEF SpanType
  <2> QED
    BY <2>2, <2>3 DEF TypeOK, Types, ContextInv
<1> QED
  BY <1>1, LifeCycleInvariant, PTL

\* The OpenTelemetry plugin ends a span only after those begun inside it, and its
\* context stack holds exactly the spans that are open.
THEOREM SpansNestHolds == Spec => []SpansNest
<1>1. Inv => SpansNest
  <2> SUFFICES ASSUME Inv PROVE SpansNest
    OBVIOUS
  <2> USE DEF Inv
  <2>1. \A s \in 1..Len(spans) :
          spans[s].state = "open" <=> \E i \in 1..Len(context) : context[i] = s
    BY DEF ContextInv
  <2>2. ASSUME NEW s \in 1..Len(spans), spans[s].parent # 0, spans[s].state = "open"
        PROVE  spans[spans[s].parent].state = "open"
    <3>1. PICK i \in 1..Len(context) : context[i] = s
      BY <2>1, <2>2
    <3>2. spans[s].parent = context[i - 1] /\ i # 1
      BY <2>2, <3>1 DEF ContextInv
    <3>3. i - 1 \in 1..Len(context)
      <4>1. Len(context) \in Nat
        BY LenProperties DEF Types
      <4> QED
        BY <3>2, <4>1
    <3>4. context[i - 1] \in 1..Len(spans)
      BY <3>3 DEF ContextInv
    <3> QED
      BY <2>1, <3>2, <3>3, <3>4
  <2> QED
    BY <2>1, <2>2 DEF SpansNest
<1> QED
  BY <1>1, LifeCycleInvariant, PTL

\* A span is marked as its phase went, nothing but an interrupt or Slack raising
\* before the OpenTelemetry plugin leaves one open, and an exception is in one span.
THEOREM SpansTellHolds == Spec => []SpansTell
<1>1. Inv => SpansTell
  <2> SUFFICES ASSUME Inv PROVE SpansTell
    OBVIOUS
  <2> USE DEF Inv
  <2>1. ASSUME frames = <<>>, NEW s \in 1..Len(spans), spans[s].state = "open", ~interrupted
        PROVE  Lost
    <3>1. PICK i \in 1..Len(context) : context[i] = s
      BY <2>1 DEF ContextInv
    <3>2. \A k \in 1..Len(frames) : FALSE
      BY <2>1, EmptySeq
    <3> QED
      BY <2>1, <3>2 DEF ContextInv
  <2>2. Lost => \E i, j \in 1..Len(order) :
                  i < j /\ order[i] = "opentelemetry" /\ order[j] = "slack" /\ raised > 0
    <3>1. DOMAIN order = 1..Len(order)
      BY LenProperties DEF Types
    <3> QED
      BY <3>1 DEF Lost
  <2> QED
    BY <2>1, <2>2 DEF SpansTell, SpanInv
<1> QED
  BY <1>1, LifeCycleInvariant, PTL

\* Slack tells only of projects whose deployment did not raise, and of each before
\* the next one is begun.
THEOREM AnnouncedMeansDeployedHolds == Spec => []AnnouncedMeansDeployed
<1>1. Inv => AnnouncedMeansDeployed
  <2> SUFFICES ASSUME Inv PROVE AnnouncedMeansDeployed
    OBVIOUS
  <2>1. DOMAIN order = 1..Len(order)
    BY LenProperties DEF Inv, Types
  <2> QED
    BY <2>1 DEF Inv, AnnouncedMeansDeployed, AnnounceInv, Loaded
<1> QED
  BY <1>1, LifeCycleInvariant, PTL
=============================================================================
