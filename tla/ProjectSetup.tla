----------------------------- MODULE ProjectSetup -----------------------------
(***************************************************************************)
(* The construction of the main Project and of the projects it depends on: *)
(* their hosts, releases and secrets.  Deploy takes for granted that each  *)
(* project has a release and secrets of its own; here is how far that is   *)
(* so.                                                                     *)
(***************************************************************************)
EXTENDS Naming

CONSTANTS
  Slugs, Tracks,  \* values of ENVIRONMENT_SLUG, and of the track
  Names,          \* names of projects
  Services,       \* names of services: mysql, postgresql, rabbitmq
  Hosts,          \* values of ENVIRONMENT_URL, with no labels if it is empty
  MaxDependencies

ASSUME ProjectSetupAssumption ==
  /\ Slugs \cup Tracks \cup Names \subseteq Seq(Char) /\ <<>> \notin Names
  /\ Hosts \subseteq [label : Seq(Char), domain : Seq(Char), labels : Nat]
  /\ Services \subseteq Seq(Char)
  /\ \A s \in Services : s # <<>> /\ Len(s) <= 10 /\ SafeName(<<"-">> \o s) = <<"-">> \o s
  /\ \A h \in Hosts : h.labels = 0 => h.label = <<>> /\ h.domain = <<>>
  /\ MaxDependencies \in Nat

VARIABLES
  slug, track, main,  \* the environment, and the name of the main project
  host,               \* ENVIRONMENT_URL, then the host of the main project
  dependencies,       \* the names left of DEPENDS_ON_PROJECTS
  pc,                 \* "host", "dependencies", "done", "raised"
  projects            \* the projects constructed so far: name and host

vars == <<slug, track, main, host, dependencies, pc, projects>>

Init ==
  /\ slug \in Slugs /\ track \in Tracks /\ main \in Names
  /\ host \in Hosts
  /\ dependencies \in UNION {[1..n -> Names] : n \in 0..MaxDependencies}
  /\ pc = "host" /\ projects = <<>>
-----------------------------------------------------------------------------
\* Faulty variant: a host is made without looking at the length it then has.
MutAddDependency ==
  /\ pc = "dependencies" /\ dependencies # <<>>
  /\ ~LooksLikeProduction(host)
  /\ projects' = Append(projects, [name |-> Head(dependencies),
                                   host |-> DependencyHost(Head(dependencies), host)])
  /\ dependencies' = Tail(dependencies)
  /\ UNCHANGED <<slug, track, main, host, pc>>

\* Faulty variant: the main project comes before those it depends on.
MutComplete ==
  /\ pc = "dependencies" /\ dependencies = <<>>
  /\ pc' = "done"
  /\ projects' = <<[name |-> main, host |-> host]>> \o projects
  /\ UNCHANGED <<slug, track, main, host, dependencies>>

\* The host of the main project is limited first.
LimitHost ==
  /\ pc = "host"
  /\ \/ host.labels = 0 /\ pc' = "dependencies" /\ UNCHANGED host
     \/ host.labels > 0 /\ CannotLimit(host) /\ pc' = "raised" /\ UNCHANGED host
     \/ host.labels > 0 /\ ~CannotLimit(host) /\ pc' = "dependencies" /\ host' = Limited(host)
  /\ UNCHANGED <<slug, track, main, dependencies, projects>>

\* The next dependency's host is made of the main one's, and limited itself.
AddDependency ==
  /\ pc = "dependencies" /\ dependencies # <<>>
  /\ LET h == DependencyHost(Head(dependencies), host)
     IN IF LooksLikeProduction(host) \/ CannotLimit(h)
        THEN pc' = "raised" /\ UNCHANGED <<projects, dependencies>>
        ELSE /\ projects' = Append(projects, [name |-> Head(dependencies), host |-> Limited(h)])
             /\ dependencies' = Tail(dependencies)
             /\ UNCHANGED pc
  /\ UNCHANGED <<slug, track, main, host>>

\* The main project is deployed last.
Complete ==
  /\ pc = "dependencies" /\ dependencies = <<>>
  /\ pc' = "done"
  /\ projects' = Append(projects, [name |-> main, host |-> host])
  /\ UNCHANGED <<slug, track, main, host, dependencies>>

Next == LimitHost \/ AddDependency \/ Complete
Spec == Init /\ [][Next]_vars
-----------------------------------------------------------------------------
Release(i) == DeployName(slug, track, projects[i].name)
Secrets(i) == <<SecretName(slug, track, projects[i].name),
                FileSecretName(slug, track, projects[i].name)>>

TypeOK ==
  /\ slug \in Slugs /\ track \in Tracks /\ main \in Names
  /\ host \in [label : Seq(Char), domain : Seq(Char), labels : Nat]
  /\ dependencies \in Seq(Names)
  /\ pc \in {"host", "dependencies", "done", "raised"}
  /\ projects \in Seq([name : Names, host : [label : Seq(Char), domain : Seq(Char),
                                              labels : Nat]])
  /\ pc = "done" => projects # <<>> /\ projects[Len(projects)].name = main

\* Helm takes the name of every release, whatever the lengths of environment,
\* track and project, and making it never raises.
ReleasesFit ==
  \A i \in DOMAIN projects :
    LET room == HelmNameLength - Len(TrackedName(slug, track))
    IN /\ Len(Release(i)) <= HelmNameLength
       /\ ~CannotTruncate(Dashed(projects[i].name), room)
       /\ ~CannotTruncate(Dashed(projects[i].name \o FileEnd), room)

\* An application finds its service: the host it is told is the one of the
\* service's release, however environment and track had to be cut.
ServicesAreFound ==
  \A s \in Services : ServiceHost(slug, track, s) = ServiceRelease(slug, track, s)

\* The host of every project fits a certificate, and its first label DNS, also
\* when it was made by extending a host that had just the length.
HostsFit ==
  \A i \in DOMAIN projects :
    /\ HostLength(projects[i].host) <= CNLength
    /\ Len(projects[i].host.label) <= 63

\* The characters left for a name on track t, with its dash, and whether it has to
\* be cut.
RoomOn(t) == HelmNameLength - Len(TrackedName(slug, t))
UncutOn(t, name) == Len(Dashed(name)) <= RoomOn(t)

\* s ends with e.
Ends(s, e) == Len(s) >= Len(e) /\ SubSeq(s, Len(s) - Len(e) + 1, Len(s)) = e

\* A name that just need not be cut looks like another that was.
LooksCut(m, n) ==
  /\ Len(Dashed(m)) = RoomOn(track) /\ ~UncutOn(track, n)
  /\ Ends(SafeName(Dashed(m)), SafeName(HashOf(Dashed(n), 2)))

\* Why two names may make the same release: Kubernetes does not accept what they
\* differ in; or one of them was cut, they begin alike as far as the room goes,
\* and the two digits of the hash are no help.
MayShare(m, n) ==
  LET Kept(s) == SafeName(Cut(Dashed(s), RoomOn(track) - 3))
  IN \/ SafeName(m) = SafeName(n)
     \/ /\ Kept(m) = Kept(n)
        /\ \/ /\ ~UncutOn(track, m) /\ ~UncutOn(track, n)
              /\ SafeName(HashOf(Dashed(m), 2)) = SafeName(HashOf(Dashed(n), 2))
           \/ LooksCut(m, n) \/ LooksCut(n, m)

\* Projects of a deployment share a release or a secret for no other reason, and
\* never if their names differ in the first nine characters, however long
\* environment and track are; the secret of files is that of the name with
\* "-file", which another project may have for its name.
ReleasesDiffer ==
  \A i, j \in DOMAIN projects :
    LET m == projects[i].name  n == projects[j].name
    IN /\ Release(i) = Release(j) \/ Secrets(i)[1] = Secrets(j)[1] =>
            MayShare(m, n) /\ SafeName(Cut(m, 9)) = SafeName(Cut(n, 9))
       /\ Secrets(i)[2] = Secrets(j)[2] => MayShare(m \o FileEnd, n \o FileEnd)
       /\ Secrets(i)[2] = Secrets(j)[1] => MayShare(m \o FileEnd, n)

\* A project has the same release on two tracks only if what is kept of the tracks
\* is the same, or is not equally long and the name is cut on one of them.
TracksDiffer ==
  \A i \in DOMAIN projects, t \in Tracks :
    LET m == projects[i].name
        Kept(u) == SafeName(Cut(Dashed(u), TrackLength))
    IN DeployName(slug, t, m) = Release(i) =>
         \/ Kept(t) = Kept(track)
         \/ /\ Len(Kept(t)) # Len(Kept(track))
            /\ ~UncutOn(t, m) \/ ~UncutOn(track, m)

\* The digits that tell the host of a dependency from others: seven of its name,
\* or, when the host is cut once more, two of the whole label.
Digits(name) ==
  LET h == DependencyHost(name, host)
  IN IF Len(h.label) <= LabelRoom(host) THEN HashOf(name, 7) ELSE HashOf(h.label, 2)

IsDependency(i) == pc # "done" \/ i < Len(projects)

\* Two dependencies share a host only if these digits are the same, and one shares
\* it with the main project only if the main host takes all the room there is and
\* ends with them.
HostsDiffer ==
  \A i, j \in DOMAIN projects :
    IsDependency(i) /\ projects[i].host = projects[j].host =>
      LET d == Digits(projects[i].name)
      IN IF IsDependency(j)
         THEN d = Digits(projects[j].name)
         ELSE Len(host.label) = LabelRoom(host) /\ Ends(host.label, d)

\* Two projects have releases, secrets and hosts of their own, and a project has a
\* release of its own on each track, but for the reasons named here.
NamesDiffer == ReleasesDiffer /\ TracksDiffer /\ HostsDiffer
=============================================================================
