------------------------------- MODULE Rollout -------------------------------
(***************************************************************************)
(* What `devops deploy_application` promises, without the cluster calls it *)
(* makes: every deploying process upgrades the projects in the order       *)
(* dependencies first, main project last (devops 116, 126), stops at the   *)
(* first project it cannot upgrade, and reports success only when it has   *)
(* upgraded all of them.  Deploy.tla implements this specification.        *)
(***************************************************************************)
EXTENDS Naturals

CONSTANTS Deployers,   \* the processes that run `devops deploy_application`
          N,           \* number of projects: 1..N-1 dependencies, N the main one
          None         \* no image is served

Projects == 1..N

VARIABLES live,    \* live[p]: the process whose image project p serves
          done,    \* done[j]: the projects process j has upgraded
          phase    \* phase[j]: how far process j is

vars == <<live, done, phase>>

Init == /\ live = [p \in Projects |-> None]
        /\ done = [j \in Deployers |-> {}]
        /\ phase = [j \in Deployers |-> "idle"]

Begin(j) == /\ phase[j] = "idle"
            /\ phase' = [phase EXCEPT ![j] = "running"]
            /\ UNCHANGED <<live, done>>

\* The next project in order gets j's image.  The process goes on, or stops
\* here, or, after the last project only, has succeeded.
Upgrade(j, p) ==
  /\ phase[j] = "running"
  /\ done[j] = 1..(p - 1)
  /\ live' = [live EXCEPT ![p] = j]
  /\ done' = [done EXCEPT ![j] = @ \cup {p}]
  /\ \E s \in {"running", "stopped", "succeeded"} :
        /\ s = "running" => p < N
        /\ s = "succeeded" => p = N
        /\ phase' = [phase EXCEPT ![j] = s]

Stop(j) == /\ phase[j] = "running"
           /\ phase' = [phase EXCEPT ![j] = "stopped"]
           /\ UNCHANGED <<live, done>>

\* Somebody removes the namespace: projects stop being served.
Remove(p) == /\ live' = [live EXCEPT ![p] = None]
             /\ UNCHANGED <<done, phase>>

Next == \/ \E j \in Deployers : Begin(j) \/ Stop(j)
        \/ \E j \in Deployers, p \in Projects : Upgrade(j, p)
        \/ \E p \in Projects : Remove(p)

Spec == Init /\ [][Next]_vars
=============================================================================
