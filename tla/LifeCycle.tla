------------------------------ MODULE LifeCycle ------------------------------
(***************************************************************************)
(* One run of a `devops` command as its plugins see it: the command is a   *)
(* tree of phases, each a context manager that calls the begin hooks of    *)
(* the plugins, runs its body and calls their complete hooks.  Plugins and *)
(* bodies may raise.  The OpenTelemetry plugin makes a span of each phase, *)
(* Slack announces deployed projects, binfmt prepares the builder.         *)
(***************************************************************************)
EXTENDS Naturals, Sequences, SequencesExt

CONSTANTS
  N,        \* how many stages a build and how many projects a deployment has
  Faults    \* the kinds of failure that may strike

FaultKinds == {"body",       \* the work of a phase raises
               "plugin",     \* a plugin raises
               "interrupt"}  \* SIGINT: an exception that is no Exception

ASSUME LifeCycleAssumption == N \in Nat /\ Faults \subseteq FaultKinds

Plugins == {"opentelemetry", "slack", "binfmt"}
Commands == {"create_images", "deploy_application", "deploy_service"}

VARIABLES
  command,   \* the command that runs
  order,     \* the plugins loaded, in the order they were registered
  frames,    \* the phases being run, the innermost last
  spans,     \* the spans of the OpenTelemetry plugin
  context,   \* its context stack: the spans begun and not ended
  announced, \* the phases Slack has told of
  raised,    \* how many exceptions have been raised
  phases,    \* history: the phases entered so far
  broken,    \* history: those whose body has raised
  interrupted

hidden == <<phases, broken, interrupted>>
vars == <<command, order, frames, spans, context, announced, raised, hidden>>

\* The phases that a phase's body goes through.
Children(phase) ==
  CASE phase = "application" ->
         (CASE command = "create_images" ->
                 <<"git_submodule_update", "buildx_setup_buildkit", "container_build">>
            [] command = "deploy_application" -> [i \in 1..N |-> "project_deployment"]
            [] command = "deploy_service" -> <<"service_deployment">>)
    [] phase = "container_build" -> [i \in 1..N |-> "container_build_stage"]
    [] OTHER -> <<>>

\* The hooks that the plugins implement.
Implements(plugin, phase, hook) ==
  \/ plugin = "opentelemetry" /\ phase # "buildx_setup_buildkit"
  \/ plugin = "slack" /\ phase = "project_deployment" /\ hook = "complete"
  \/ plugin = "binfmt" /\ phase = "buildx_setup_buildkit" /\ hook = "begin"

\* The plugins that a hook calls, by their places in the order of registration.
Hooks(phase, hook) == {i \in DOMAIN order : Implements(order[i], phase, hook)}

Top == frames[Len(frames)]
Frame(id, phase) ==
  [id |-> id, phase |-> phase, mode |-> "begin", next |-> 1,
   todo |-> Hooks(phase, "begin"), error |-> 0]
WithTop(f) == [frames EXCEPT ![Len(frames)] = f]

Init ==
  /\ command \in Commands
  /\ order \in UNION {[1..n -> Plugins] : n \in 0..3}
  /\ \A i, j \in DOMAIN order : order[i] = order[j] => i = j
  /\ frames = <<Frame(1, "application")>>
  /\ spans = <<>> /\ context = <<>> /\ announced = {}
  /\ raised = 0
  /\ phases = <<"application">> /\ broken = {} /\ interrupted = FALSE
-----------------------------------------------------------------------------
(* Faulty variants of definitions here and below, one plausible bug each: they *)
(* show that the properties notice it, and are not part of the specification.  *)

\* The complete hooks are not told of the exception.
MutForgetsError(f, e) ==
  [f EXCEPT !.mode = "complete", !.todo = Hooks(f.phase, "complete"), !.error = 0]

\* A new span is made current first, and becomes its own parent.
MutOwnParent ==
  /\ spans' = Append(spans, [frame |-> Top.id, phase |-> Top.phase, state |-> "open",
                             parent |-> Len(spans) + 1, errors |-> {}])
  /\ context' = Append(context, Len(spans) + 1)

\* Whatever span was begun last is ended.
MutEndsAnySpan ==
  IF context = <<>> THEN UNCHANGED <<spans, context>>
  ELSE /\ spans' = [spans EXCEPT ![Len(spans)].state = IF Top.error = 0 THEN "ok" ELSE "error"]
       /\ context' = Front(context)

\* An exception is recorded in every span it goes through.
MutRecordsAgain ==
  LET s == Last(context)
      e == Top.error
      match == spans[s].phase = Top.phase
  IN  /\ context # <<>>
      /\ spans' = [spans EXCEPT ![s].errors = @ \cup ({e} \ {0}),
                                ![s].state = IF match THEN (IF e = 0 THEN "ok" ELSE "error") ELSE @]
      /\ context' = IF match THEN Front(context) ELSE context

\* Slack does not look at the exception.
MutAnnouncesFailures ==
  /\ frames # <<>> /\ Top.mode = "complete"
  /\ \E i \in Top.todo :
       /\ order[i] = "slack" /\ \A j \in Top.todo : j <= i
       /\ frames' = WithTop([Top EXCEPT !.todo = @ \ {i}])
  /\ announced' = announced \cup {Top.id}
  /\ UNCHANGED <<command, order, spans, context, raised, hidden>>

-----------------------------------------------------------------------------
\* A body ends, with exception e or without (0): the complete hooks are next.
Ending(f, e) ==
  [f EXCEPT !.mode = "complete", !.todo = Hooks(f.phase, "complete"), !.error = e]

\* The innermost phase is left; an exception goes on in the body around it.
Leave(e) ==
  LET outer == Front(frames) IN
  IF e = 0 \/ outer = <<>>
    THEN frames' = outer /\ UNCHANGED broken
    ELSE /\ frames' = [outer EXCEPT ![Len(outer)] = Ending(@, e)]
         /\ broken' = broken \cup {Last(outer).id}

\* _span_begin: a span under the current one, which it replaces as such.
SpanBegin ==
  /\ spans' = Append(spans, [frame |-> Top.id, phase |-> Top.phase, state |-> "open",
                             parent |-> IF context = <<>> THEN 0 ELSE Last(context),
                             errors |-> {}])
  /\ context' = Append(context, Len(spans) + 1)

\* _handle_exception: an exception not seen before is recorded in the current
\* span.  _span_end: that span is ended only if it is of the phase that ends.
Known(e) == \E s \in 1..Len(spans) : e \in spans[s].errors

SpanEnd ==
  IF context = <<>> THEN UNCHANGED <<spans, context>>
  ELSE LET s == Last(context)
           e == Top.error
           errors == spans[s].errors \cup (IF e = 0 \/ Known(e) THEN {} ELSE {e})
           match == spans[s].phase = Top.phase
           state == IF ~match THEN "open" ELSE IF e = 0 THEN "ok" ELSE "error"
       IN  /\ spans' = [spans EXCEPT ![s].errors = errors, ![s].state = state]
           /\ context' = IF match THEN Front(context) ELSE context

-----------------------------------------------------------------------------
\* A hook calls the plugin registered last of those still to call.
Calls(i, plugin, mode) ==
  /\ frames # <<>> /\ Top.mode = mode
  /\ i \in Top.todo /\ order[i] = plugin /\ \A j \in Top.todo : j <= i
Called(i) == frames' = WithTop([Top EXCEPT !.todo = @ \ {i}])

\* A plugin raises: the plugins after it are not called and the phase is left.
PluginRaises ==
  /\ "plugin" \in Faults
  /\ raised' = raised + 1
  /\ Leave(raised + 1)

OtelBegins ==
  /\ \E i \in DOMAIN order : Calls(i, "opentelemetry", "begin") /\ Called(i)
  /\ SpanBegin
  /\ UNCHANGED <<command, order, announced, raised, hidden>>

OtelCompletes ==
  /\ \E i \in DOMAIN order : Calls(i, "opentelemetry", "complete") /\ Called(i)
  /\ SpanEnd
  /\ UNCHANGED <<command, order, announced, raised, hidden>>

\* Slack posts a message for a project that was deployed; when it cannot, the
\* error is not only logged.
SlackCompletes ==
  /\ \E i \in DOMAIN order :
       /\ Calls(i, "slack", "complete")
       /\ \/ /\ announced' = IF Top.error = 0 THEN announced \cup {Top.id} ELSE announced
             /\ Called(i) /\ UNCHANGED <<raised, broken>>
          \/ Top.error = 0 /\ PluginRaises /\ UNCHANGED announced
  /\ UNCHANGED <<command, order, spans, context, phases, interrupted>>

\* binfmt installs the platforms.
BinfmtBegins ==
  /\ \E i \in DOMAIN order :
       /\ Calls(i, "binfmt", "begin")
       /\ \/ Called(i) /\ UNCHANGED <<raised, broken>>
          \/ PluginRaises
  /\ UNCHANGED <<command, order, spans, context, announced, phases, interrupted>>

\* The begin hooks are through, the body starts.
BodyStarts ==
  /\ frames # <<>> /\ Top.mode = "begin" /\ Top.todo = {}
  /\ frames' = WithTop([Top EXCEPT !.mode = "body"])
  /\ UNCHANGED <<command, order, spans, context, announced, raised, hidden>>

\* The body enters the next phase in it.
BodyEnters ==
  LET phase == Children(Top.phase)[Top.next]
      id == Len(phases) + 1
  IN
  /\ frames # <<>> /\ Top.mode = "body" /\ Top.next <= Len(Children(Top.phase))
  /\ frames' = Append(WithTop([Top EXCEPT !.next = @ + 1]), Frame(id, phase))
  /\ phases' = Append(phases, phase)
  /\ UNCHANGED <<command, order, spans, context, announced, raised, broken, interrupted>>

BodyReturns ==
  /\ frames # <<>> /\ Top.mode = "body" /\ Top.next > Len(Children(Top.phase))
  /\ frames' = WithTop(Ending(Top, 0))
  /\ UNCHANGED <<command, order, spans, context, announced, raised, hidden>>

\* A command of the body fails: helm, docker, git, a request.
BodyRaises ==
  /\ "body" \in Faults
  /\ frames # <<>> /\ Top.mode = "body"
  /\ raised' = raised + 1
  /\ frames' = WithTop(Ending(Top, raised + 1))
  /\ broken' = broken \cup {Top.id}
  /\ UNCHANGED <<command, order, spans, context, announced, phases, interrupted>>

\* The complete hooks are through: the exception, if any, is raised again.
PhaseEnds ==
  /\ frames # <<>> /\ Top.mode = "complete" /\ Top.todo = {}
  /\ Leave(Top.error)
  /\ UNCHANGED <<command, order, spans, context, announced, raised, phases, interrupted>>

\* KeyboardInterrupt passes every `except Exception`.
Interrupt ==
  /\ "interrupt" \in Faults
  /\ frames # <<>>
  /\ frames' = <<>> /\ interrupted' = TRUE
  /\ UNCHANGED <<command, order, spans, context, announced, raised, phases, broken>>

Over == frames = <<>> /\ UNCHANGED vars

Next ==
  \/ OtelBegins \/ OtelCompletes \/ SlackCompletes \/ BinfmtBegins
  \/ BodyStarts \/ BodyEnters \/ BodyReturns \/ BodyRaises \/ PhaseEnds
  \/ Interrupt \/ Over

Spec == Init /\ [][Next]_vars
-----------------------------------------------------------------------------
(* Properties *)

\* The values the variables take.
TypeOK ==
  /\ command \in Commands
  /\ \A i \in 1..Len(frames) :
       /\ frames[i].mode \in {"begin", "body", "complete"}
       /\ frames[i].id \in 1..Len(phases) /\ frames[i].phase = phases[frames[i].id]
       /\ frames[i].error \in 0..raised
  /\ \A s \in 1..Len(spans) :
       /\ spans[s].state \in {"open", "ok", "error"}
       /\ spans[s].parent \in 0..(s - 1)
       /\ spans[s].errors \subseteq 1..raised
  /\ \A i \in 1..Len(context) : context[i] \in 1..Len(spans)
  /\ announced \subseteq 1..Len(phases) /\ broken \subseteq 1..Len(phases)

\* A span ends only after the spans begun inside it, whatever raises; and the
\* spans that are open are those of the context stack.
SpansNest ==
  /\ \A s \in 1..Len(spans) :
       spans[s].parent # 0 /\ spans[spans[s].parent].state # "open" => spans[s].state # "open"
  /\ \A s \in 1..Len(spans) :
       spans[s].state = "open" <=> \E i \in 1..Len(context) : context[i] = s

\* A span tells how its phase went: it is ok only if the body did not raise,
\* in error only if it did, and when the run is over it is left open only by an
\* interrupt, or by Slack raising before the turn of the OpenTelemetry plugin.
\* An exception is recorded once, in the innermost span that was open when it
\* was raised, not again in every span it goes through.
SpansTell ==
  /\ \A s \in 1..Len(spans) : spans[s].state # "open" =>
       (spans[s].state = "error" <=> spans[s].frame \in broken)
  /\ frames = <<>> /\ (\E s \in 1..Len(spans) : spans[s].state = "open")
       => \/ interrupted
          \/ \E i, j \in 1..Len(order) :
               i < j /\ order[i] = "opentelemetry" /\ order[j] = "slack" /\ raised > 0
  /\ \A s, t \in 1..Len(spans) : s # t => spans[s].errors \cap spans[t].errors = {}

\* Slack tells only of projects whose deployment did not raise, and of each
\* before the next one is begun.
AnnouncedMeansDeployed ==
  /\ announced \cap broken = {}
  /\ (\E i \in 1..Len(order) : order[i] = "slack") =>
       \A f \in 1..Len(phases) :
         phases[f] = "project_deployment" /\ f < Len(phases) => f \in announced
=============================================================================
