--------------------------- MODULE KubeLoggerProofs ---------------------------
(* Theorems about KubeLogger for any number of kubectl processes, containers *)
(* and lines.                                                                *)
EXTENDS KubeLogger, SequenceTheorems, TLAPS

\* What the main thread knows of the logger thread and of the kubectl that the
\* logger thread holds.
ThreadsInv ==
  /\ thread = "new" => kubectl = <<>>
  /\ thread = "spawn" => child = 0
  /\ thread \in {"wait", "reap"} => child # 0
  /\ thread = "ended" => \A c \in DOMAIN kubectl : kubectl[c] = "reaped"
  /\ stopEvent => main \in {"join", "read", "return", "raised", "over"}
  /\ stopEvent /\ main # "join" => thread = "ended"
  /\ main \in {"join", "read", "return"} => stopEvent
  /\ main = "begin" => thread = "new"

\* What has been shown is the beginning of the log, and once all of it has been
\* shown after a failure, no kubectl is left to add to it.
ReportInv ==
  /\ main \notin {"read", "raised", "over"} => report = <<>>
  /\ Len(report) <= Len(log)
  /\ \A i \in 1..Len(report) : report[i] = log[i]
  /\ failed => main \notin {"begin", "upgrade"}
  /\ failed /\ main \notin {"stop"} => stopEvent
  /\ failed => main # "return"
  /\ failed /\ main \in {"raised", "over"} => Len(report) = Len(log)

LoggerInv == TypeOK /\ OneKubectl /\ ThreadsInv /\ ReportInv

States == {"running", "exited", "reaped"}

\* A sequence changed at one place, and a sequence made longer by one.
LEMMA Updated ==
  ASSUME NEW S, NEW s \in Seq(S), NEW e \in S
  PROVE  /\ DOMAIN s = 1..Len(s) /\ Len(s) \in Nat
         /\ \A c \in 1..Len(s) :
              /\ s[c] \in S
              /\ [s EXCEPT ![c] = e] \in Seq(S)
              /\ Len([s EXCEPT ![c] = e]) = Len(s)
              /\ DOMAIN [s EXCEPT ![c] = e] = 1..Len(s)
              /\ \A d \in 1..Len(s) : [s EXCEPT ![c] = e][d] = IF d = c THEN e ELSE s[d]
  BY ExceptSeq, LenProperties, ElementOfSeq

\* A log with one more line.
LEMMA Longer ==
  ASSUME NEW S, NEW s \in Seq(S), NEW e \in S
  PROVE  /\ DOMAIN s = 1..Len(s) /\ Len(s) \in Nat
         /\ Append(s, e) \in Seq(S) /\ Len(Append(s, e)) = Len(s) + 1
         /\ DOMAIN Append(s, e) = 1..(Len(s) + 1)
         /\ \A d \in 1..(Len(s) + 1) : Append(s, e)[d] = IF d = Len(s) + 1 THEN e ELSE s[d]
<1>1. Append(s, e) \in Seq(S) /\ Len(s) \in Nat /\ Len(Append(s, e)) = Len(s) + 1
  BY AppendProperties, LenProperties
<1>2. DOMAIN s = 1..Len(s) /\ DOMAIN Append(s, e) = 1..(Len(s) + 1)
  BY <1>1, LenProperties
<1>3. \A d \in 1..(Len(s) + 1) : Append(s, e)[d] = IF d = Len(s) + 1 THEN e ELSE s[d]
  BY <1>1, AppendProperties
<1> QED
  BY <1>1, <1>2, <1>3

\* How far a kubectl has come in the containers it follows.
LEMMA PlacesAre ==
  /\ Nowhere \in Places /\ DOMAIN Nowhere = {}
  /\ \A pl \in Places : /\ DOMAIN pl \subseteq Containers
                        /\ \A x \in DOMAIN pl : pl[x] \in Nat
                        /\ \A x \in DOMAIN pl, n \in Nat : [pl EXCEPT ![x] = n] \in Places
<1>1. Nowhere \in [{} -> Nat] /\ {} \in SUBSET Containers /\ DOMAIN Nowhere = {}
  BY DEF Nowhere
<1>2. Nowhere \in Places
  BY <1>1 DEF Places
<1>3. ASSUME NEW pl \in Places
      PROVE  /\ DOMAIN pl \subseteq Containers
             /\ \A x \in DOMAIN pl : pl[x] \in Nat
             /\ \A x \in DOMAIN pl, n \in Nat : [pl EXCEPT ![x] = n] \in Places
  <2>1. PICK D \in SUBSET Containers : pl \in [D -> Nat]
    BY <1>3 DEF Places
  <2>2. \A x \in DOMAIN pl, n \in Nat : [pl EXCEPT ![x] = n] \in [D -> Nat]
    BY <2>1
  <2> QED
    BY <2>1, <2>2 DEF Places
<1> QED
  BY <1>1, <1>2, <1>3

\* Any place that is left to be printed can be where a kubectl begins.
LEMMA AnyPlace ==
  ASSUME NEW D \in SUBSET Containers, NEW f \in [D -> Nat]
  PROVE  f \in Places
BY DEF Places

\* No kubectl is lost or left running, and a failed upgrade's report is the
\* whole log, for any number of restarts.
THEOREM LoggerInvariant == Spec => []LoggerInv
<1>1. Init => LoggerInv
  <2> SUFFICES ASSUME Init PROVE LoggerInv
    OBVIOUS
  <2>1. DOMAIN kubectl = {} /\ kubectl = <<>>
    BY DEF Init
  <2>2. TypeOK
    <3>1. /\ <<>> \in Seq({"running", "exited", "reaped"}) /\ <<>> \in Seq(Places)
          /\ <<>> \in Seq(Lines) /\ Len(<<>>) = 0
      BY EmptySeq
    <3>2. kubectl \in Seq({"running", "exited", "reaped"}) /\ copied \in Seq(Places)
      BY <3>1 DEF Init
    <3>3. log \in Seq(Lines) /\ report \in Seq(Lines) /\ printed \in [Containers -> Nat]
      BY <3>1 DEF Init
    <3>4. Len(copied) = Len(kubectl) /\ child \in 0..Len(kubectl)
      BY <3>1 DEF Init
    <3> QED
      BY <3>2, <3>3, <3>4 DEF Init, TypeOK
  <2>3. OneKubectl /\ ThreadsInv
    BY <2>1 DEF Init, OneKubectl, ThreadsInv
  <2>4. ReportInv
    <3>1. Len(report) = 0 /\ Len(log) = 0
      BY EmptySeq DEF Init
    <3> QED
      BY <3>1 DEF Init, ReportInv
  <2> QED
    BY <2>2, <2>3, <2>4 DEF LoggerInv
<1>2. LoggerInv /\ [Next]_vars => LoggerInv'
  <2> SUFFICES ASSUME LoggerInv, [Next]_vars PROVE LoggerInv'
    OBVIOUS
  <2>a. /\ DOMAIN kubectl = 1..Len(kubectl) /\ Len(kubectl) \in Nat
        /\ \A c \in DOMAIN kubectl : kubectl[c] \in States
    BY Updated, ElementOfSeq, LenProperties DEF LoggerInv, TypeOK, States
  <2> USE DEF LoggerInv
  <2>0. CASE UNCHANGED vars
    BY <2>0 DEF vars, mainVars, threadVars, fileVars, TypeOK, OneKubectl, ThreadsInv, ReportInv
  <2>1. CASE Begin
    BY <2>1 DEF Begin, fileVars, TypeOK, OneKubectl, ThreadsInv, ReportInv
  <2>2. CASE Upgrade
    <3>1. /\ main = "upgrade" /\ main' \in {"stop", "raised"} /\ failed' \in BOOLEAN
          /\ failed' => main' = "stop"
          /\ UNCHANGED <<report, stopEvent, threadVars, fileVars, onDisk>>
      <4>1. CASE main' = "stop" /\ failed' = FALSE
        BY <2>2, <4>1 DEF Upgrade
      <4>2. CASE main' = "stop" /\ failed' = TRUE
        BY <2>2, <4>2 DEF Upgrade
      <4>3. CASE main' = "raised" /\ UNCHANGED failed
        BY <2>2, <4>3 DEF Upgrade, TypeOK, ReportInv
      <4> QED
        BY <2>2, <4>1, <4>2, <4>3 DEF Upgrade
    <3>2. TypeOK' /\ OneKubectl'
      BY <3>1 DEF threadVars, fileVars, TypeOK, OneKubectl
    <3>3. ThreadsInv' /\ ReportInv'
      BY <3>1 DEF threadVars, fileVars, ThreadsInv, ReportInv
    <3> QED
      BY <3>2, <3>3
  <2>3. CASE Stop
    BY <2>3 DEF Stop, threadVars, fileVars, TypeOK, OneKubectl, ThreadsInv, ReportInv
  <2>4. CASE Join
    BY <2>4 DEF Join, threadVars, fileVars, TypeOK, OneKubectl, ThreadsInv, ReportInv
  <2>5. CASE ReadLog
    <3>1. OneKubectl' /\ ThreadsInv'
      BY <2>5 DEF ReadLog, threadVars, fileVars, OneKubectl, ThreadsInv
    <3>2. CASE Len(report) < Len(log)
      <4>1. Len(report) + 1 \in 1..Len(log) /\ log[Len(report) + 1] \in Lines
        BY <3>2, LenProperties, ElementOfSeq DEF TypeOK
      <4>2. report' = Append(report, log[Len(report) + 1]) /\ UNCHANGED <<main, log>>
        BY <2>5, <3>2 DEF ReadLog, fileVars
      <4>3. /\ report' \in Seq(Lines) /\ Len(report') = Len(report) + 1
            /\ \A d \in 1..(Len(report) + 1) :
                 report'[d] = IF d = Len(report) + 1 THEN log[Len(report) + 1] ELSE report[d]
        <5> DEFINE line == log[Len(report) + 1]
        <5>1. report \in Seq(Lines) /\ line \in Lines /\ report' = Append(report, line)
          BY <4>1, <4>2 DEF TypeOK
        <5> HIDE DEF line
        <5>2. /\ report' \in Seq(Lines) /\ Len(report') = Len(report) + 1
              /\ \A d \in 1..(Len(report) + 1) :
                   report'[d] = IF d = Len(report) + 1 THEN line ELSE report[d]
          BY ONLY <5>1, Longer
        <5> QED
          BY ONLY <5>2 DEF line
      <4>4. TypeOK'
        BY <2>5, <4>2, <4>3 DEF ReadLog, threadVars, fileVars, TypeOK
      <4>5. Len(report) \in Nat /\ Len(log) \in Nat
        BY LenProperties DEF TypeOK
      <4>6. ReportInv'
        BY <2>5, <3>2, <4>2, <4>3, <4>5 DEF ReadLog, ReportInv
      <4> QED
        BY <3>1, <4>4, <4>6
    <3>3. CASE ~(Len(report) < Len(log))
      <4>1. main' = "raised" /\ report' = report /\ Len(report) \in Nat /\ Len(log) \in Nat
        BY <2>5, <3>3, LenProperties DEF ReadLog, TypeOK
      <4>2. TypeOK' /\ ReportInv'
        BY <2>5, <3>3, <4>1 DEF ReadLog, threadVars, fileVars, TypeOK, ThreadsInv, ReportInv
      <4> QED
        BY <3>1, <4>2
    <3> QED
      BY <3>2, <3>3
  <2>6. CASE Del
    BY <2>6 DEF Del, threadVars, fileVars, TypeOK, OneKubectl, ThreadsInv, ReportInv
  <2>7. CASE Poll
    <3>1. CASE (child # 0 /\ kubectl[child] = "running") \/ child = 0
      BY <2>7, <3>1 DEF Poll, mainVars, fileVars, TypeOK, OneKubectl, ThreadsInv, ReportInv
    <3>2. CASE child # 0 /\ kubectl[child] # "running"
      <4>1. child \in 1..Len(kubectl)
        BY <3>2, <2>a DEF TypeOK
      <4>2. kubectl' = [kubectl EXCEPT ![child] = "reaped"] /\ child' = 0 /\ thread' = "spawn"
        BY <2>7, <3>2 DEF Poll
      <4>3. /\ kubectl' \in Seq(States) /\ Len(kubectl') = Len(kubectl)
            /\ DOMAIN kubectl' = 1..Len(kubectl)
            /\ \A d \in 1..Len(kubectl) : kubectl'[d] = IF d = child THEN "reaped" ELSE kubectl[d]
        BY <4>1, <4>2, Updated DEF TypeOK, States
      <4>4. TypeOK'
        BY <2>7, <2>a, <4>2, <4>3 DEF Poll, mainVars, fileVars, TypeOK, States
      <4>5. OneKubectl' /\ ThreadsInv' /\ ReportInv'
        BY <2>7, <2>a, <4>1, <4>2, <4>3 DEF Poll, mainVars, fileVars, OneKubectl, ThreadsInv, ReportInv
      <4> QED
        BY <4>4, <4>5
    <3> QED
      BY <3>1, <3>2
  <2>8. CASE Spawn
    <3>1. CASE UNCHANGED <<kubectl, copied, child>> /\ thread' = "ended"
      BY <2>8, <3>1 DEF Spawn, mainVars, TypeOK, OneKubectl, ThreadsInv, ReportInv
    <3>2. CASE /\ kubectl' = Append(kubectl, "running") /\ copied' = Append(copied, Nowhere)
               /\ child' = Len(kubectl) + 1 /\ thread' = "wait"
      <4>1. /\ kubectl' \in Seq(States) /\ Len(kubectl') = Len(kubectl) + 1
            /\ DOMAIN kubectl' = 1..(Len(kubectl) + 1)
            /\ \A d \in 1..Len(kubectl) : kubectl'[d] = kubectl[d]
        BY <3>2, <2>a, Longer DEF TypeOK, States
      <4>2. copied' \in Seq(Places) /\ Len(copied') = Len(copied) + 1
        BY <3>2, Longer, PlacesAre DEF TypeOK
      <4>3. TypeOK'
        BY <2>8, <2>a, <3>2, <4>1, <4>2 DEF Spawn, mainVars, TypeOK, States
      <4>4. OneKubectl' /\ ThreadsInv' /\ ReportInv'
        BY <2>8, <2>a, <3>2, <4>1 DEF Spawn, mainVars, OneKubectl, ThreadsInv, ReportInv
      <4> QED
        BY <4>3, <4>4
    <3> QED
      BY <2>8, <3>1, <3>2 DEF Spawn
  <2>9. CASE WaitTimesOut
    BY <2>9 DEF WaitTimesOut, mainVars, fileVars, TypeOK, OneKubectl, ThreadsInv, ReportInv
  <2>10. CASE KillChild
    <3>1. child \in 1..Len(kubectl)
      BY <2>10, <2>a DEF KillChild, TypeOK, ThreadsInv
    <3>2. /\ kubectl' \in Seq(States) /\ Len(kubectl') = Len(kubectl)
          /\ DOMAIN kubectl' = 1..Len(kubectl)
          /\ \A d \in 1..Len(kubectl) : kubectl'[d] = IF d = child THEN "exited" ELSE kubectl[d]
      BY <2>10, <3>1, Updated DEF KillChild, TypeOK, States
    <3>3. TypeOK'
      BY <2>10, <2>a, <3>2 DEF KillChild, mainVars, fileVars, TypeOK, States
    <3>4. OneKubectl' /\ ThreadsInv' /\ ReportInv'
      BY <2>10, <2>a, <3>1, <3>2 DEF KillChild, mainVars, fileVars, OneKubectl, ThreadsInv, ReportInv
    <3> QED
      BY <3>3, <3>4
  <2>11. CASE Reap
    <3>1. child \in 1..Len(kubectl)
      BY <2>11, <2>a DEF Reap, TypeOK, ThreadsInv
    <3>2. /\ kubectl' \in Seq(States) /\ Len(kubectl') = Len(kubectl)
          /\ DOMAIN kubectl' = 1..Len(kubectl)
          /\ \A d \in 1..Len(kubectl) : kubectl'[d] = IF d = child THEN "reaped" ELSE kubectl[d]
      BY <2>11, <3>1, Updated DEF Reap, TypeOK, States
    <3>3. TypeOK'
      BY <2>11, <2>a, <3>2 DEF Reap, mainVars, fileVars, TypeOK, States
    <3>4. OneKubectl' /\ ThreadsInv' /\ ReportInv'
      BY <2>11, <2>a, <3>1, <3>2 DEF Reap, mainVars, fileVars, OneKubectl, ThreadsInv, ReportInv
    <3> QED
      BY <3>3, <3>4
  <2>12. ASSUME NEW c \in DOMAIN kubectl, NEW x \in Containers, Copy(c, x) PROVE LoggerInv'
    <3>1. c \in 1..Len(copied) /\ copied[c] \in Places
      BY <2>a, ElementOfSeq DEF TypeOK
    <3>2. PICK place \in Places : copied' = [copied EXCEPT ![c] = place]
      <4>1. /\ copied' = [copied EXCEPT ![c] = [copied[c] EXCEPT ![x] = copied[c][x] + 1]]
            /\ x \in DOMAIN copied[c]
        BY <2>12 DEF Copy
      <4>2. copied[c][x] + 1 \in Nat
        BY <3>1, <4>1, PlacesAre
      <4>3. [copied[c] EXCEPT ![x] = copied[c][x] + 1] \in Places
        BY <3>1, <4>1, <4>2, PlacesAre
      <4> QED
        BY <4>1, <4>3
    <3>3. copied' \in Seq(Places) /\ Len(copied') = Len(copied)
      BY <3>1, <3>2, Updated DEF TypeOK
    <3>4. PICK line \in Lines : log' = Append(log, line)
      <4>1. x \in DOMAIN copied[c] /\ log' = Append(log, [of |-> x, line |-> copied[c][x] + 1, by |-> c])
        BY <2>12 DEF Copy
      <4>2. copied[c][x] + 1 \in Nat /\ c \in Nat
        BY <2>a, <3>1, <4>1, PlacesAre
      <4> QED
        BY <4>1, <4>2 DEF Lines
    <3>5. /\ Len(log) \in Nat /\ log' \in Seq(Lines) /\ Len(log') = Len(log) + 1
          /\ \A i \in 1..Len(log) : log'[i] = log[i]
      BY <3>4, Longer DEF TypeOK
    <3>6. kubectl[c] # "reaped" /\ thread # "ended"
      BY <2>12 DEF Copy, ThreadsInv
    <3>7. ~(failed /\ main \in {"raised", "over"})
      BY <3>6 DEF ReportInv, ThreadsInv
    <3>8. TypeOK' /\ OneKubectl' /\ ThreadsInv'
      BY <2>12, <3>3, <3>5 DEF Copy, mainVars, threadVars, TypeOK, OneKubectl, ThreadsInv
    <3>9. Len(report) \in Nat
      BY LenProperties DEF TypeOK
    <3>10. ReportInv'
      BY <2>12, <3>5, <3>7, <3>9 DEF Copy, mainVars, threadVars, ReportInv
    <3> QED
      BY <3>8, <3>10
  <2>16. ASSUME NEW c \in DOMAIN kubectl, Connect(c) PROVE LoggerInv'
    <3>1. c \in 1..Len(copied)
      BY <2>a DEF TypeOK
    <3>2. PICK place \in Places : copied' = [copied EXCEPT ![c] = place]
      <4>1. PICK found \in SUBSET Containers :
              copied' = [copied EXCEPT ![c] =
                 [x \in found |-> IF printed[x] > TailLines THEN printed[x] - TailLines ELSE 0]]
        BY <2>16 DEF Connect
      <4> DEFINE place == [x \in found |-> IF printed[x] > TailLines THEN printed[x] - TailLines ELSE 0]
      <4>2. \A x \in found : printed[x] \in Nat /\ TailLines \in Nat
        BY KubeLoggerAssumption DEF TypeOK
      <4>3. place \in [found -> Nat]
        BY <4>2
      <4> QED
        BY <4>1, <4>3, AnyPlace
    <3>3. copied' \in Seq(Places) /\ Len(copied') = Len(copied)
      BY <3>1, <3>2, Updated DEF TypeOK
    <3>4. TypeOK' /\ OneKubectl' /\ ThreadsInv' /\ ReportInv'
      BY <2>16, <3>3 DEF Connect, mainVars, threadVars, TypeOK, OneKubectl, ThreadsInv, ReportInv
    <3> QED
      BY <3>4
  <2>13. ASSUME NEW c \in DOMAIN kubectl, Exit(c) PROVE LoggerInv'
    <3>1. /\ kubectl' \in Seq(States) /\ Len(kubectl') = Len(kubectl)
          /\ DOMAIN kubectl' = 1..Len(kubectl)
          /\ \A d \in 1..Len(kubectl) : kubectl'[d] = IF d = c THEN "exited" ELSE kubectl[d]
      BY <2>13, <2>a, Updated DEF Exit, TypeOK, States
    <3>2. kubectl[c] # "reaped" /\ kubectl # <<>>
      BY <2>13 DEF Exit
    <3>3. TypeOK'
      BY <2>13, <2>a, <3>1 DEF Exit, mainVars, fileVars, TypeOK, States
    <3>4. OneKubectl' /\ ThreadsInv' /\ ReportInv'
      BY <2>13, <2>a, <3>1, <3>2 DEF Exit, mainVars, fileVars, OneKubectl, ThreadsInv, ReportInv
    <3> QED
      BY <3>3, <3>4
  <2>14. ASSUME NEW x \in Containers, PodPrints(x) PROVE LoggerInv'
    <3>1. printed' \in [Containers -> Nat]
      BY <2>14 DEF PodPrints, TypeOK
    <3> QED
      BY <2>14, <3>1 DEF PodPrints, mainVars, threadVars, TypeOK, OneKubectl, ThreadsInv, ReportInv
  <2>15. CASE Over
    BY <2>15 DEF Over, vars, mainVars, threadVars, fileVars, TypeOK, OneKubectl, ThreadsInv, ReportInv
  <2> QED
    BY <2>0, <2>1, <2>2, <2>3, <2>4, <2>5, <2>6, <2>7, <2>8, <2>9, <2>10, <2>11, <2>12,
       <2>13, <2>14, <2>15, <2>16 DEF Next, MainStep, ThreadStep
<1> QED
  BY <1>1, <1>2, PTL DEF Spec

\* The logger thread holds the only kubectl there may be.
THEOREM OneKubectlHolds == Spec => []OneKubectl
<1>1. LoggerInv => OneKubectl
  BY DEF LoggerInv
<1> QED
  BY <1>1, LoggerInvariant, PTL

\* No kubectl is left once stop has returned.
THEOREM NoKubectlAfterStopHolds == Spec => []NoKubectlAfterStop
<1>1. LoggerInv => NoKubectlAfterStop
  BY DEF LoggerInv, ThreadsInv, NoKubectlAfterStop
<1> QED
  BY <1>1, LoggerInvariant, PTL

\* The report of a failed upgrade is the whole log.
THEOREM ReportIsFinalHolds == Spec => []ReportIsFinal
<1>1. LoggerInv => ReportIsFinal
  <2> SUFFICES ASSUME LoggerInv, failed, main \in {"raised", "over"} PROVE report = log
    BY DEF ReportIsFinal
  <2>1. /\ report \in Seq(Lines) /\ log \in Seq(Lines) /\ Len(report) = Len(log)
        /\ \A i \in 1..Len(report) : report[i] = log[i]
    BY DEF LoggerInv, TypeOK, ReportInv
  <2> QED
    BY <2>1, SeqEqual
<1> QED
  BY <1>1, LoggerInvariant, PTL

\* What a line of the log owes to the kubectl that wrote it and to the one that
\* may write the next: the former has printed no more than there was, the latter
\* began at most TailLines back.
LineInv(l) ==
  /\ l.of \in Containers /\ l.line \in Nat /\ l.line <= printed[l.of]
  /\ l.by \in 1..Len(kubectl)
  /\ \A k \in DOMAIN kubectl :
       kubectl[k] = "running" =>
         /\ l.by = k => l.of \in DOMAIN copied[k] /\ l.line <= copied[k][l.of]
         /\ l.of \in DOMAIN copied[k] => l.line <= copied[k][l.of] + TailLines

OrderInv ==
  /\ LogInOrder
  /\ child # 0 => child = Len(kubectl)
  /\ \A i \in 1..Len(log) : LineInv(log[i])

\* A line that is on the log stays what it is when nothing is written and no
\* kubectl moves on or begins to run.
LEMMA OrderKept ==
  ASSUME LoggerInv, OrderInv, UNCHANGED <<printed, copied, log>>,
         Len(kubectl') = Len(kubectl), child' \in {0, child},
         \A k \in DOMAIN kubectl' :
           kubectl'[k] = "running" => k \in DOMAIN kubectl /\ kubectl[k] = "running"
  PROVE  OrderInv'
<1>1. LogInOrder'
  BY DEF OrderInv, LogInOrder
<1>2. ASSUME NEW i \in 1..Len(log') PROVE LineInv(log[i])'
  <2>1. LineInv(log[i]) /\ log'[i] = log[i]
    BY <1>2 DEF OrderInv
  <2> QED
    BY <2>1 DEF LineInv
<1> QED
  BY <1>1, <1>2 DEF OrderInv

\* The steps that write no line and start no kubectl are such steps.
LEMMA QuietSteps ==
  ASSUME LoggerInv, Next,
         ~Spawn, ~(\E k \in DOMAIN kubectl : Connect(k)), ~(\E x \in Containers : PodPrints(x)),
         ~(\E k \in DOMAIN kubectl, x \in Containers : Copy(k, x))
  PROVE  /\ UNCHANGED <<printed, copied, log>> /\ child' \in {0, child}
         /\ Len(kubectl') = Len(kubectl)
         /\ \A k \in DOMAIN kubectl' :
              kubectl'[k] = "running" => k \in DOMAIN kubectl /\ kubectl[k] = "running"
<1>0. /\ DOMAIN kubectl = 1..Len(kubectl) /\ Len(kubectl) \in Nat /\ kubectl \in Seq(States)
      /\ child \in 0..Len(kubectl)
  BY LenProperties DEF LoggerInv, TypeOK, States
<1>1. UNCHANGED <<printed, copied, log>>
  BY DEF Next, MainStep, ThreadStep, Begin, Upgrade, Stop, Join, ReadLog, Del, Poll,
     WaitTimesOut, KillChild, Reap, Exit, Over, vars, fileVars
<1>2. CASE UNCHANGED <<kubectl, child>>
  BY <1>1, <1>2
<1>3. ASSUME NEW c \in DOMAIN kubectl, NEW e \in {"exited", "reaped"},
             kubectl' = [kubectl EXCEPT ![c] = e], child' \in {0, child}
      PROVE  /\ Len(kubectl') = Len(kubectl) /\ child' \in {0, child}
             /\ \A k \in DOMAIN kubectl' :
                  kubectl'[k] = "running" => k \in DOMAIN kubectl /\ kubectl[k] = "running"
  <2>1. /\ Len(kubectl') = Len(kubectl) /\ DOMAIN kubectl' = 1..Len(kubectl)
        /\ \A d \in 1..Len(kubectl) : kubectl'[d] = IF d = c THEN e ELSE kubectl[d]
    BY <1>0, <1>3, Updated DEF States
  <2> QED
    BY <1>0, <1>3, <2>1
<1>4. CASE Poll
  <2>1. CASE child # 0 /\ kubectl[child] # "running"
    BY <1>0, <1>1, <1>3, <1>4, <2>1 DEF Poll
  <2> QED
    BY <1>1, <1>2, <1>4, <2>1 DEF Poll
<1>5. CASE KillChild
  BY <1>0, <1>1, <1>3, <1>5 DEF KillChild, LoggerInv, ThreadsInv
<1>6. CASE Reap
  BY <1>0, <1>1, <1>3, <1>6 DEF Reap, LoggerInv, ThreadsInv
<1>7. ASSUME NEW c \in DOMAIN kubectl, Exit(c)
      PROVE kubectl' = [kubectl EXCEPT ![c] = "exited"] /\ child' = child
  BY <1>7 DEF Exit
<1>8. CASE MainStep \/ WaitTimesOut \/ Over
  BY <1>1, <1>2, <1>8 DEF MainStep, Begin, Upgrade, Stop, Join, ReadLog, Del, WaitTimesOut,
     Over, vars, threadVars
<1> QED
  BY <1>1, <1>3, <1>4, <1>5, <1>6, <1>7, <1>8 DEF Next, ThreadStep

\* A kubectl that starts follows nothing yet, and has written no line.
LEMMA OrderSpawn ==
  ASSUME LoggerInv, OrderInv, Spawn
  PROVE  OrderInv'
<1>0. /\ DOMAIN kubectl = 1..Len(kubectl) /\ Len(kubectl) \in Nat /\ kubectl \in Seq(States)
      /\ Len(copied) = Len(kubectl) /\ copied \in Seq(Places) /\ log \in Seq(Lines)
  BY LenProperties DEF LoggerInv, TypeOK, States
<1>1. UNCHANGED <<printed, log>>
  BY DEF Spawn
<1>2. CASE UNCHANGED <<kubectl, copied, child>>
  BY <1>0, <1>1, <1>2, OrderKept
<1>3. CASE kubectl' = Append(kubectl, "running") /\ copied' = Append(copied, Nowhere)
           /\ child' = Len(kubectl) + 1
  <2>1. /\ Len(kubectl') = Len(kubectl) + 1 /\ DOMAIN kubectl' = 1..(Len(kubectl) + 1)
        /\ \A d \in 1..(Len(kubectl) + 1) :
             kubectl'[d] = IF d = Len(kubectl) + 1 THEN "running" ELSE kubectl[d]
    BY <1>0, <1>3, Longer DEF States
  <2>2. \A d \in 1..(Len(kubectl) + 1) :
          copied'[d] = IF d = Len(kubectl) + 1 THEN Nowhere ELSE copied[d]
    BY <1>0, <1>3, Longer, PlacesAre
  <2>3. LogInOrder'
    BY <1>1 DEF OrderInv, LogInOrder
  <2>4. ASSUME NEW i \in 1..Len(log') PROVE LineInv(log[i])'
    <3>1. LineInv(log[i]) /\ log'[i] = log[i]
      BY <1>1, <2>4 DEF OrderInv
    <3>2. ASSUME NEW k \in DOMAIN kubectl', kubectl'[k] = "running"
          PROVE  /\ log'[i].by = k => log'[i].of \in DOMAIN copied'[k]
                                      /\ log'[i].line <= copied'[k][log'[i].of]
                 /\ log'[i].of \in DOMAIN copied'[k] =>
                      log'[i].line <= copied'[k][log'[i].of] + TailLines
      <4>1. CASE k = Len(kubectl) + 1
        <5>1. copied'[k] = Nowhere /\ log'[i].by # k
          BY <1>0, <2>2, <3>1, <4>1 DEF LineInv
        <5> QED
          BY <5>1, PlacesAre
      <4>2. CASE k \in 1..Len(kubectl)
        <5>1. kubectl[k] = "running" /\ copied'[k] = copied[k]
          BY <1>0, <2>1, <2>2, <3>2, <4>2
        <5> QED
          BY <1>0, <3>1, <4>2, <5>1 DEF LineInv
      <4> QED
        BY <1>0, <2>1, <3>2, <4>1, <4>2
    <3>3. log'[i].by \in 1..Len(kubectl')
      BY <1>0, <2>1, <3>1 DEF LineInv
    <3> QED
      BY <1>1, <3>1, <3>2, <3>3 DEF LineInv
  <2> QED
    BY <1>3, <2>1, <2>3, <2>4 DEF OrderInv
<1> QED
  BY <1>2, <1>3 DEF Spawn

\* A kubectl that connects has written no line, and begins TailLines back from
\* what has been printed.
LEMMA OrderConnect ==
  ASSUME LoggerInv, OrderInv, NEW c \in DOMAIN kubectl, Connect(c)
  PROVE  OrderInv'
<1>0. /\ DOMAIN kubectl = 1..Len(kubectl) /\ Len(kubectl) \in Nat
      /\ Len(copied) = Len(kubectl) /\ copied \in Seq(Places)
  BY LenProperties DEF LoggerInv, TypeOK
<1>1. UNCHANGED <<printed, log, kubectl, child>> /\ copied[c] = Nowhere
  BY DEF Connect, threadVars
<1>2. PICK found \in SUBSET Containers :
        copied' = [copied EXCEPT ![c] =
           [x \in found |-> IF printed[x] > TailLines THEN printed[x] - TailLines ELSE 0]]
  BY DEF Connect
<1> DEFINE place == [x \in found |-> IF printed[x] > TailLines THEN printed[x] - TailLines ELSE 0]
<1>3. \A x \in Containers : printed[x] \in Nat /\ TailLines \in Nat
  BY KubeLoggerAssumption DEF LoggerInv, TypeOK
<1>4. place \in Places
  <2>1. place \in [found -> Nat]
    BY <1>3
  <2> QED
    BY <2>1, AnyPlace
<1>5. DOMAIN place = found /\ \A x \in found : place[x] + TailLines >= printed[x] /\ place[x] \in Nat
  BY <1>3
<1>6. copied' = [copied EXCEPT ![c] = place]
  BY <1>2
<1> HIDE DEF place
<1>7. \A d \in 1..Len(kubectl) : copied'[d] = IF d = c THEN place ELSE copied[d]
  BY <1>0, <1>4, <1>6, Updated
<1>8. LogInOrder'
  BY <1>1 DEF OrderInv, LogInOrder
<1>9. ASSUME NEW i \in 1..Len(log') PROVE LineInv(log[i])'
  <2>1. LineInv(log[i]) /\ log'[i] = log[i]
    BY <1>1, <1>9 DEF OrderInv
  <2>2. kubectl[c] = "running" /\ DOMAIN copied[c] = {}
    BY <1>1, PlacesAre DEF Connect
  <2>3. log[i].by # c
    BY <2>1, <2>2 DEF LineInv
  <2>4. log[i].of \in found => log[i].line <= place[log[i].of] + TailLines
    BY <1>3, <1>5, <2>1 DEF LineInv
  <2> QED
    BY <1>0, <1>1, <1>5, <1>7, <2>1, <2>3, <2>4 DEF LineInv
<1> QED
  BY <1>1, <1>8, <1>9 DEF OrderInv

\* What is no further than a place, or TailLines beyond it, is no further than
\* a later place.
LEMMA Further ==
  ASSUME NEW l \in Nat, NEW p \in Nat, NEW q \in Nat, NEW t \in Nat
  PROVE  /\ l <= p /\ p <= q => l <= q
         /\ l <= p + t /\ p <= q => l <= q + t
         /\ l <= p + t /\ q = p + 1 => l < q + t
OBVIOUS

\* A line is written by the only kubectl that runs, which is the last one, and
\* is the next one of its container.
LEMMA OrderCopy ==
  ASSUME LoggerInv, OrderInv, NEW c \in DOMAIN kubectl, NEW x \in Containers, Copy(c, x)
  PROVE  OrderInv'
<1>0. /\ DOMAIN kubectl = 1..Len(kubectl) /\ Len(kubectl) \in Nat
      /\ Len(copied) = Len(kubectl) /\ copied \in Seq(Places) /\ c \in 1..Len(copied)
      /\ log \in Seq(Lines) /\ Len(log) \in Nat /\ copied[c] \in Places
  BY LenProperties, ElementOfSeq DEF LoggerInv, TypeOK
<1>1. /\ UNCHANGED <<printed, kubectl, child>> /\ kubectl[c] = "running"
      /\ x \in DOMAIN copied[c] /\ copied[c][x] < printed[x]
  BY DEF Copy, threadVars
<1>2. /\ copied[c][x] \in Nat /\ printed[x] \in Nat /\ TailLines \in Nat
      /\ \A y \in DOMAIN copied[c] : copied[c][y] \in Nat
  BY <1>0, <1>1, PlacesAre, KubeLoggerAssumption DEF LoggerInv, TypeOK
<1>3. PICK n \in Nat : n = copied[c][x] + 1
  BY <1>2
<1>4. PICK new \in Lines : new = [of |-> x, line |-> n, by |-> c]
  <2>1. c \in Nat
    BY <1>0
  <2>2. [of |-> x, line |-> n, by |-> c] \in Lines
    BY <2>1 DEF Lines
  <2> QED
    BY <2>2
<1>5. log' = Append(log, new) /\ copied' = [copied EXCEPT ![c] = [copied[c] EXCEPT ![x] = n]]
  BY <1>3, <1>4 DEF Copy
<1>6. [copied[c] EXCEPT ![x] = n] \in Places
  BY <1>0, <1>1, PlacesAre
<1>7. \A d \in 1..Len(kubectl) :
        copied'[d] = IF d = c THEN [copied[c] EXCEPT ![x] = n] ELSE copied[d]
  <2>1. PICK place \in Places : place = [copied[c] EXCEPT ![x] = n]
    BY <1>6
  <2>2. \A d \in 1..Len(kubectl) : copied'[d] = IF d = c THEN place ELSE copied[d]
    BY <1>0, <1>5, <2>1, Updated
  <2> QED
    BY <2>1, <2>2
<1>8. /\ Len(log') = Len(log) + 1
      /\ \A i \in 1..(Len(log) + 1) : log'[i] = IF i = Len(log) + 1 THEN new ELSE log[i]
  BY ONLY <1>0, <1>5, Longer
<1>9. c = child /\ c = Len(kubectl) /\ \A k \in DOMAIN kubectl : kubectl[k] = "running" => k = c
  BY <1>0, <1>1 DEF LoggerInv, OneKubectl, OrderInv
<1>10. ASSUME NEW i \in 1..Len(log)
       PROVE  /\ log[i].by <= c
              /\ log[i].of = x /\ log[i].by = c => log[i].line < n
              /\ log[i].of = x => log[i].line < n + TailLines
  <2>1. LineInv(log[i])
    BY DEF OrderInv
  <2>2. /\ log[i].by \in 1..c /\ log[i].line \in Nat
        /\ log[i].of = x /\ log[i].by = c => log[i].line <= copied[c][x]
        /\ log[i].of = x => log[i].line <= copied[c][x] + TailLines
    BY <1>0, <1>1, <1>9, <2>1 DEF LineInv
  <2>3. log[i].by <= c
    BY <1>0, <2>2
  <2>4. log[i].of = x /\ log[i].by = c => log[i].line < n
    BY <1>2, <1>3, <2>2
  <2>5. log[i].of = x => log[i].line < n + TailLines
    <3> DEFINE l == log[i].line
               q == copied[c][x]
    <3>1. /\ l \in Nat /\ q \in Nat /\ n \in Nat /\ TailLines \in Nat /\ n = q + 1
          /\ log[i].of = x => l <= q + TailLines
      BY <1>2, <1>3, <2>2
    <3> HIDE DEF l, q
    <3>2. l <= q + TailLines => l < n + TailLines
      BY ONLY <3>1, Further
    <3> QED
      BY ONLY <3>1, <3>2 DEF l
  <2> QED
    BY <2>3, <2>4, <2>5
<1>11. LogInOrder'
  <2> SUFFICES ASSUME NEW i \in 1..Len(log'), NEW j \in 1..Len(log'), i < j
               PROVE  /\ log'[i].by <= log'[j].by
                      /\ log'[i].of = log'[j].of =>
                           IF log'[i].by = log'[j].by THEN log'[i].line < log'[j].line
                                                      ELSE log'[i].line < log'[j].line + TailLines
    BY DEF LogInOrder
  <2>1. i \in 1..Len(log) /\ log'[i] = log[i]
    BY <1>0, <1>8
  <2>2. CASE j \in 1..Len(log)
    BY <1>8, <2>1, <2>2 DEF OrderInv, LogInOrder
  <2>3. CASE j = Len(log) + 1
    <3>1. log'[j].of = x /\ log'[j].line = n /\ log'[j].by = c
      BY <1>4, <1>8, <2>3
    <3>2. /\ log[i].by <= c
          /\ log[i].of = x /\ log[i].by = c => log[i].line < n
          /\ log[i].of = x => log[i].line < n + TailLines
      BY ONLY <1>10, <2>1
    <3> QED
      BY ONLY <2>1, <3>1, <3>2
  <2> QED
    BY <1>0, <1>8, <2>2, <2>3
<1>12. ASSUME NEW i \in 1..Len(log') PROVE LineInv(log[i])'
  <2>1. CASE i \in 1..Len(log)
    <3>1. LineInv(log[i]) /\ log'[i] = log[i]
      BY <1>8, <2>1 DEF OrderInv
    <3>2. \A y \in DOMAIN copied[c] :
            /\ y \in DOMAIN copied'[c] /\ copied'[c][y] \in Nat /\ copied[c][y] <= copied'[c][y]
      <4>1. copied'[c] = [copied[c] EXCEPT ![x] = n]
        BY <1>0, <1>7
      <4>2. ASSUME NEW y \in DOMAIN copied[c]
            PROVE  y \in DOMAIN copied'[c] /\ copied'[c][y] = IF y = x THEN n ELSE copied[c][y]
        BY <4>1
      <4>3. n >= copied[c][x]
        BY <1>2, <1>3
      <4> QED
        BY <1>2, <4>2, <4>3
    <3>3. DOMAIN copied'[c] = DOMAIN copied[c]
      BY <1>0, <1>7
    <3>4. /\ log[i].by = c => log[i].of \in DOMAIN copied'[c]
                              /\ log[i].line <= copied'[c][log[i].of]
          /\ log[i].of \in DOMAIN copied'[c] => log[i].line <= copied'[c][log[i].of] + TailLines
      <4>1. /\ log[i].line \in Nat
            /\ log[i].by = c => log[i].of \in DOMAIN copied[c]
                               /\ log[i].line <= copied[c][log[i].of]
            /\ log[i].of \in DOMAIN copied[c] => log[i].line <= copied[c][log[i].of] + TailLines
        BY <1>1, <3>1 DEF LineInv
      <4>2. log[i].of \in DOMAIN copied[c] =>
              /\ copied[c][log[i].of] \in Nat /\ copied'[c][log[i].of] \in Nat
              /\ copied[c][log[i].of] <= copied'[c][log[i].of]
        BY <1>2, <3>2
      <4>3. CASE log[i].of \in DOMAIN copied[c]
        <5> DEFINE l == log[i].line
                   p == copied[c][log[i].of]
                   q == copied'[c][log[i].of]
        <5>1. /\ l \in Nat /\ p \in Nat /\ q \in Nat /\ TailLines \in Nat
              /\ p <= q /\ l <= p + TailLines /\ (log[i].by = c => l <= p)
          BY <4>1, <4>2, <4>3, KubeLoggerAssumption
        <5> HIDE DEF l, p, q
        <5>2. (l <= p => l <= q) /\ l <= q + TailLines
          BY ONLY <5>1, Further
        <5>3. (log[i].by = c => l <= q) /\ l <= q + TailLines
          BY ONLY <5>1, <5>2
        <5> QED
          BY ONLY <3>3, <4>3, <5>3 DEF l, q
      <4>4. CASE log[i].of \notin DOMAIN copied[c]
        BY ONLY <3>3, <4>1, <4>4
      <4> QED
        BY <4>3, <4>4
    <3> QED
      BY <1>1, <1>9, <3>1, <3>4 DEF LineInv
  <2>2. CASE i = Len(log) + 1
    <3>1. log'[i] = new /\ new.of = x /\ new.line = n /\ new.by = c
      BY <1>4, <1>8, <2>2
    <3>2. x \in DOMAIN copied'[c] /\ copied'[c][x] = n
      BY <1>0, <1>1, <1>7
    <3>3. n <= printed[x]
      BY <1>1, <1>2, <1>3
    <3> QED
      BY <1>0, <1>1, <1>2, <1>9, <3>1, <3>2, <3>3 DEF LineInv
  <2> QED
    BY <1>0, <1>8, <2>1, <2>2
<1> QED
  BY <1>1, <1>11, <1>12 DEF OrderInv

\* A container that prints changes no line.
LEMMA OrderPrint ==
  ASSUME LoggerInv, OrderInv, NEW x \in Containers, PodPrints(x)
  PROVE  OrderInv'
<1>1. /\ UNCHANGED <<kubectl, copied, child, log>> /\ printed \in [Containers -> Nat]
      /\ printed' = [printed EXCEPT ![x] = @ + 1]
  BY DEF PodPrints, threadVars, LoggerInv, TypeOK
<1>2. LogInOrder'
  BY <1>1 DEF OrderInv, LogInOrder
<1>3. ASSUME NEW i \in 1..Len(log') PROVE LineInv(log[i])'
  <2>1. LineInv(log[i]) /\ log'[i] = log[i]
    BY <1>1, <1>3 DEF OrderInv
  <2>2. \A y \in Containers : printed[y] \in Nat /\ printed'[y] \in Nat /\ printed[y] <= printed'[y]
    BY <1>1
  <2> QED
    BY <1>1, <2>1, <2>2 DEF LineInv
<1> QED
  BY <1>1, <1>2, <1>3 DEF OrderInv

\* What kubectls write to the log one after another is never mixed, and a
\* container's lines are in order but for TailLines that may be repeated.
THEOREM LogInOrderHolds == Spec => []LogInOrder
<1>1. Init => OrderInv
  <2> SUFFICES ASSUME Init PROVE OrderInv
    OBVIOUS
  <2>1. Len(log) = 0 /\ child = 0
    BY EmptySeq DEF Init
  <2> QED
    BY <2>1 DEF OrderInv, LogInOrder
<1>2. LoggerInv /\ OrderInv /\ [Next]_vars => OrderInv'
  <2> SUFFICES ASSUME LoggerInv, OrderInv, [Next]_vars PROVE OrderInv'
    OBVIOUS
  <2>1. CASE UNCHANGED vars
    <3>1. UNCHANGED <<printed, copied, log, kubectl, child>>
      BY <2>1 DEF vars, threadVars, fileVars
    <3> QED
      BY <3>1, OrderKept
  <2>2. CASE Next
    BY <2>2, QuietSteps, OrderKept, OrderSpawn, OrderConnect, OrderCopy, OrderPrint
  <2> QED
    BY <2>1, <2>2
<1>3. OrderInv => LogInOrder
  BY DEF OrderInv
<1> QED
  BY <1>1, <1>2, <1>3, LoggerInvariant, PTL DEF Spec
=============================================================================
