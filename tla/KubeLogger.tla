------------------------------ MODULE KubeLogger ------------------------------
(***************************************************************************)
(* The collection of pod logs during one create_application_deployment:    *)
(* the main thread, which runs helm and then wants the logs, the           *)
(* KubeLoggerThread, which keeps a `kubectl logs --follow` running, and    *)
(* those kubectl processes, which all write to the same temporary file.    *)
(***************************************************************************)
EXTENDS Naturals, Sequences

CONSTANTS
  MaxStarts,   \* bound: how many kubectl processes are started
  Containers,  \* the containers of the release; one that restarts counts as another
  MaxLines,    \* bound: how many lines each of them prints
  TailLines,   \* the last lines kubectl begins with: 10, as it is given a
               \* --selector and no --tail
  Faults       \* the kinds of failure that may strike

FaultKinds == {"hook",    \* a plugin raises from project_deployment_begin
               "helm",    \* helm returns an error
               "raise",   \* upgrade_chart raises
               "spawn",   \* Popen raises: no kubectl, no process to be had
               "exit"}    \* kubectl ends by itself: no pod yet, connection lost

ASSUME KubeLoggerAssumption ==
  /\ MaxStarts \in Nat \ {0}
  /\ MaxLines \in Nat
  /\ TailLines \in Nat
  /\ Faults \subseteq FaultKinds

VARIABLES
  main,      \* where the main thread is
  failed,    \* helm has returned an error
  report,    \* the lines of the log that the main thread has shown
  thread,    \* where the logger thread is
  stopEvent, \* _stop_event is set
  kubectl,   \* the kubectl processes started so far: running, exited, reaped
  child,     \* the one that `subprocess` stands for, 0 for None
  printed,   \* how many lines each container has printed
  copied,    \* copied[k]: how far kubectl k has come in each container it follows
  log,       \* the log file: whose line, the how manieth, and written by which kubectl
  onDisk     \* the log file exists

mainVars == <<main, failed, report>>
threadVars == <<thread, kubectl, child>>
fileVars == <<printed, copied, log>>
vars == <<mainVars, stopEvent, threadVars, fileVars, onDisk>>

Lines == [of : Containers, line : Nat, by : Nat]
Nowhere == [x \in {} |-> 0]   \* of a kubectl that has not connected
Places == UNION {[D -> Nat] : D \in SUBSET Containers}

Init ==
  /\ main = "begin" /\ failed = FALSE /\ report = <<>>
  /\ thread = "new" /\ stopEvent = FALSE
  /\ kubectl = <<>> /\ child = 0
  /\ printed = [x \in Containers |-> 0] /\ copied = <<>> /\ log = <<>>
  /\ onDisk = TRUE
-----------------------------------------------------------------------------
(* Faulty variants of the steps below, one plausible bug each: they show that *)
(* the properties notice it, and are not part of the specification.           *)

\* stop() does not wait for the thread.
MutNoJoin ==
  /\ main = "join"
  /\ main' = IF failed THEN "read" ELSE "return"
  /\ UNCHANGED <<failed, report, stopEvent, threadVars, fileVars, onDisk>>

\* The thread forgets a kubectl that still runs.
MutForgets ==
  /\ thread = "poll"
  /\ child' = 0 /\ thread' = "spawn"
  /\ UNCHANGED <<mainVars, stopEvent, kubectl, fileVars, onDisk>>

\* The thread does not look whether its kubectl has ended.
MutNoPoll ==
  /\ thread = "poll"
  /\ thread' = IF child = 0 THEN "spawn" ELSE "wait"
  /\ UNCHANGED <<mainVars, stopEvent, kubectl, child, fileVars, onDisk>>

\* The thread waits for its kubectl without killing it first.
MutNoKill ==
  /\ thread = "wait" /\ stopEvent
  /\ thread' = "reap"
  /\ UNCHANGED <<mainVars, stopEvent, kubectl, child, fileVars, onDisk>>
-----------------------------------------------------------------------------
(* The main thread *)

\* The begin hooks have run and the thread is started; a hook that raises
\* leaves the deployment before that.
Begin ==
  /\ main = "begin"
  /\ \/ main' = "upgrade" /\ thread' = "poll"
     \/ "hook" \in Faults /\ main' = "raised" /\ UNCHANGED thread
  /\ UNCHANGED <<failed, report, stopEvent, kubectl, child, fileVars, onDisk>>

\* Helm has returned; the events of the namespace are looked up next, which
\* may fail but never raises.  When upgrade_chart raises, stop is not called.
Upgrade ==
  /\ main = "upgrade"
  /\ \/ main' = "stop" /\ (failed' = FALSE \/ ("helm" \in Faults /\ failed' = TRUE))
     \/ "raise" \in Faults /\ main' = "raised" /\ UNCHANGED failed
  /\ UNCHANGED <<report, stopEvent, threadVars, fileVars, onDisk>>

\* stop(): set the event, wait for the thread, close the file.
Stop ==
  /\ main = "stop"
  /\ stopEvent' = TRUE /\ main' = "join"
  /\ UNCHANGED <<failed, report, threadVars, fileVars, onDisk>>

Join ==
  /\ main = "join" /\ thread = "ended"
  /\ main' = IF failed THEN "read" ELSE "return"
  /\ UNCHANGED <<failed, report, stopEvent, threadVars, fileVars, onDisk>>

\* After a failure the log is shown line by line, then DeploymentFailed raised.
ReadLog ==
  /\ main = "read"
  /\ IF Len(report) < Len(log)
       THEN report' = Append(report, log[Len(report) + 1]) /\ UNCHANGED main
       ELSE main' = "raised" /\ UNCHANGED report
  /\ UNCHANGED <<failed, stopEvent, threadVars, fileVars, onDisk>>

\* __del__: the thread object goes when the function returns, or when the
\* exception that holds its frame has ended the interpreter, which waits for
\* the thread if it runs.
Del ==
  /\ \/ main = "return"
     \/ main = "raised" /\ thread \in {"new", "ended"}
  /\ main' = "over" /\ onDisk' = FALSE
  /\ UNCHANGED <<failed, report, stopEvent, threadVars, fileVars>>
-----------------------------------------------------------------------------
(* The logger thread *)

\* wait(0): a kubectl that has ended is reaped, one that runs is kept.
Poll ==
  /\ thread = "poll"
  /\ IF child # 0 /\ kubectl[child] = "running"
       THEN thread' = "wait" /\ UNCHANGED <<kubectl, child>>
       ELSE /\ thread' = "spawn" /\ child' = 0
            /\ kubectl' = IF child = 0 THEN kubectl ELSE [kubectl EXCEPT ![child] = "reaped"]
  /\ UNCHANGED <<mainVars, stopEvent, fileVars, onDisk>>

\* Popen; when it raises the thread ends.
Spawn ==
  /\ thread = "spawn"
  /\ \/ /\ Len(kubectl) < MaxStarts
        /\ kubectl' = Append(kubectl, "running")
        /\ copied' = Append(copied, Nowhere)
        /\ child' = Len(kubectl) + 1
        /\ thread' = "wait"
     \/ /\ "spawn" \in Faults
        /\ thread' = "ended"
        /\ UNCHANGED <<kubectl, copied, child>>
  /\ UNCHANGED <<mainVars, stopEvent, printed, log, onDisk>>

\* _stop_event.wait(TIMEOUT) has timed out.
WaitTimesOut ==
  /\ thread = "wait" /\ ~stopEvent
  /\ thread' = "poll"
  /\ UNCHANGED <<mainVars, stopEvent, kubectl, child, fileVars, onDisk>>

\* The event is set: the kubectl is killed, and then waited for.
KillChild ==
  /\ thread = "wait" /\ stopEvent
  /\ kubectl' = [kubectl EXCEPT ![child] = "exited"]
  /\ thread' = "reap"
  /\ UNCHANGED <<mainVars, stopEvent, child, fileVars, onDisk>>

Reap ==
  /\ thread = "reap"
  /\ kubectl[child] = "exited"
  /\ kubectl' = [kubectl EXCEPT ![child] = "reaped"]
  /\ thread' = "ended"
  /\ UNCHANGED <<mainVars, stopEvent, child, fileVars, onDisk>>
-----------------------------------------------------------------------------
(* kubectl and the pods *)

\* `kubectl logs --selector --all-containers --follow` looks for the containers
\* there are, once, and begins TailLines before the end of each; what was
\* printed before is not shown.  It skips a log it cannot read
\* (--ignore-errors), and ends if there is no container yet: Exit.
Connect(k) ==
  /\ kubectl[k] = "running" /\ copied[k] = Nowhere
  /\ \E found \in SUBSET Containers :
       copied' = [copied EXCEPT ![k] =
                    [x \in found |-> IF printed[x] > TailLines THEN printed[x] - TailLines ELSE 0]]
  /\ UNCHANGED <<mainVars, stopEvent, threadVars, printed, log, onDisk>>

\* It follows all of them at once, and writes line by line.
Copy(k, x) ==
  /\ kubectl[k] = "running"
  /\ x \in DOMAIN copied[k] /\ copied[k][x] < printed[x]
  /\ copied' = [copied EXCEPT ![k][x] = @ + 1]
  /\ log' = Append(log, [of |-> x, line |-> copied[k][x] + 1, by |-> k])
  /\ UNCHANGED <<mainVars, stopEvent, threadVars, printed, onDisk>>

\* (The last kubectl of the bound does not exit.)
Exit(c) ==
  /\ "exit" \in Faults
  /\ kubectl[c] = "running" /\ c < MaxStarts
  /\ kubectl' = [kubectl EXCEPT ![c] = "exited"]
  /\ UNCHANGED <<mainVars, stopEvent, thread, child, fileVars, onDisk>>

PodPrints(x) ==
  /\ printed[x] < MaxLines
  /\ printed' = [printed EXCEPT ![x] = @ + 1]
  /\ UNCHANGED <<mainVars, stopEvent, threadVars, copied, log, onDisk>>
-----------------------------------------------------------------------------
MainStep == Begin \/ Upgrade \/ Stop \/ Join \/ ReadLog \/ Del
ThreadStep == Poll \/ Spawn \/ WaitTimesOut \/ KillChild \/ Reap

Over == main = "over" /\ UNCHANGED vars

Next ==
  \/ MainStep \/ ThreadStep
  \/ \E c \in DOMAIN kubectl : Connect(c) \/ Exit(c) \/ \E x \in Containers : Copy(c, x)
  \/ \E x \in Containers : PodPrints(x)
  \/ Over

\* Both threads run when they can: helm ends by its --timeout, and the wait for
\* the event by its own.  Nothing is assumed of kubectl or the pods.
Spec == Init /\ [][Next]_vars
FairSpec == Spec /\ WF_vars(MainStep) /\ WF_vars(ThreadStep)
-----------------------------------------------------------------------------
(* Properties *)

\* The values the variables take.
TypeOK ==
  /\ main \in {"begin", "upgrade", "stop", "join", "read", "return", "raised", "over"}
  /\ failed \in BOOLEAN /\ stopEvent \in BOOLEAN /\ onDisk \in BOOLEAN
  /\ thread \in {"new", "poll", "spawn", "wait", "reap", "ended"}
  /\ kubectl \in Seq({"running", "exited", "reaped"})
  /\ child \in 0..Len(kubectl)
  /\ printed \in [Containers -> Nat]
  /\ copied \in Seq(Places) /\ Len(copied) = Len(kubectl)
  /\ log \in Seq(Lines) /\ report \in Seq(Lines)

\* The thread never loses a kubectl: every one it started, but the one it still
\* holds, has ended and been waited for.  There is at most one at a time.
OneKubectl == \A c \in DOMAIN kubectl : kubectl[c] # "reaped" => c = child

\* Once stop has returned, no kubectl is left that could write to the log, and
\* none follows: neither running nor a zombie.
NoKubectlAfterStop ==
  stopEvent /\ main # "join" => \A c \in DOMAIN kubectl : kubectl[c] = "reaped"

\* Two kubectl never write to the log at the same time: what one has written
\* comes before all that a later one writes.  The lines of a container are in
\* order, but that a restarted kubectl may repeat its last TailLines.  (Lines
\* may be missing: those before the last TailLines when a kubectl connects.)
LogInOrder ==
  \A i, j \in 1..Len(log) :
    i < j =>
      /\ log[i].by <= log[j].by
      /\ log[i].of = log[j].of =>
           IF log[i].by = log[j].by THEN log[i].line < log[j].line
                                    ELSE log[i].line < log[j].line + TailLines

\* What is shown after a failed upgrade is the whole log: nothing is written to
\* it after it has been read.
ReportIsFinal == failed /\ main \in {"raised", "over"} => report = log

\* stop returns: the thread notices the event and ends, whatever it is doing.
StopReturns == main = "join" ~> main # "join"

\* A kubectl that has ended by itself is replaced while helm is running, unless
\* no process can be started.
KubectlIsReplaced ==
  (\E c \in DOMAIN kubectl : kubectl[c] = "exited")
    ~> \/ \E c \in DOMAIN kubectl : kubectl[c] = "running"
       \/ stopEvent
       \/ thread = "ended"

\* The log file does not stay behind.
NoGarbage == <>~onDisk
=============================================================================
