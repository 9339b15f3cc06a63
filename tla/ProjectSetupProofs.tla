-------------------------- MODULE ProjectSetupProofs --------------------------
(***************************************************************************)
(* Releases and hosts fit, and projects share releases, secrets and hosts  *)
(* for no other reason than those named, for environments, tracks,         *)
(* projects and hosts of any length, and whatever the hash function        *)
(* returns.                                                                *)
(***************************************************************************)
EXTENDS ProjectSetup, SequenceTheorems, TLAPS

\* Nothing is assumed of the characters a hash adds.
IsString(s) == \E T : s \in Seq(T)

-----------------------------------------------------------------------------
(* Lengths of strings. *)

\* A string has a length.
LEMMA StringLength ==
  ASSUME NEW s, IsString(s)
  PROVE  Len(s) \in Nat /\ DOMAIN s = 1..Len(s)
BY LenProperties DEF IsString

\* So have two, one after the other.
LEMMA Joined ==
  ASSUME NEW s, NEW t, IsString(s), IsString(t)
  PROVE  IsString(s \o t) /\ Len(s \o t) = Len(s) + Len(t)
<1>1. PICK S : s \in Seq(S)
  BY DEF IsString
<1>2. PICK T : t \in Seq(T)
  BY DEF IsString
<1>3. s \in Seq(S \cup T) /\ t \in Seq(S \cup T)
  <2>1. S \subseteq S \cup T /\ T \subseteq S \cup T
    OBVIOUS
  <2> QED
    BY <1>1, <1>2, <2>1, SeqMonotonic
<1> QED
  BY <1>3, ConcatProperties DEF IsString

\* A cut string is no longer than the cut,
LEMMA CutLength ==
  ASSUME NEW s, IsString(s), NEW n \in Nat
  PROVE  /\ IsString(Cut(s, n))
         /\ Len(Cut(s, n)) \in 0..n
<1>1. PICK S : s \in Seq(S)
  BY DEF IsString
<1> DEFINE k == IF Len(s) <= n THEN Len(s) ELSE n
<1>2. k \in Nat /\ \A i \in 1..k : s[i] \in S
  BY <1>1, LenProperties, ElementOfSeq
<1> HIDE DEF k
<1>3. SubSeq(s, 1, k) \in Seq(S) /\ Len(SubSeq(s, 1, k)) = k
  BY <1>2, SubSeqProperties
<1>4. k \in 0..n
  BY <1>1, LenProperties DEF k
<1> QED
  BY <1>3, <1>4 DEF Cut, IsString, k

\* and a hash as long as asked for, with its dash.
LEMMA HashLength ==
  ASSUME NEW s, NEW n \in Nat
  PROVE  IsString(HashOf(s, n)) /\ Len(HashOf(s, n)) = n + 1
<1> DEFINE T == {Digest(s)[i] : i \in 1..n}
<1>1. SubSeq(Digest(s), 1, n) \in Seq(T) /\ Len(SubSeq(Digest(s), 1, n)) = n
  <2>1. \A i \in 1..n : Digest(s)[i] \in T
    OBVIOUS
  <2> HIDE DEF T
  <2> QED
    BY <2>1, SubSeqProperties
<1>2. <<"-">> \in Seq({"-"}) /\ Len(<<"-">>) = 1
  OBVIOUS
<1>3. IsString(SubSeq(Digest(s), 1, n)) /\ IsString(<<"-">>)
  BY <1>1, <1>2 DEF IsString
<1> QED
  BY <1>1, <1>2, <1>3, Joined DEF HashOf

\* truncate_with_hash returns no more than it may if it may return four
\* characters: one, the separator, two digits.
LEMMA TruncatedFits ==
  ASSUME NEW s, IsString(s), NEW max \in Int
  PROVE  /\ IsString(Truncated(s, max))
         /\ max >= 4 => Len(Truncated(s, max)) <= max
<1>1. CASE Len(s) <= max
  BY <1>1 DEF Truncated
<1>2. CASE ~(Len(s) <= max)
  <2> DEFINE k == IF max - 3 >= 1 THEN max - 3 ELSE 1
  <2>1. k \in Nat /\ (max >= 4 => k + 3 = max)
    OBVIOUS
  <2>2. Truncated(s, max) = Cut(s, k) \o HashOf(s, 2)
    BY <1>2 DEF Truncated
  <2> HIDE DEF k
  <2>3. IsString(Cut(s, k)) /\ Len(Cut(s, k)) \in 0..k
    BY <2>1, CutLength
  <2>4. IsString(HashOf(s, 2)) /\ Len(HashOf(s, 2)) = 3
    <3>1. IsString(HashOf(s, 2)) /\ Len(HashOf(s, 2)) = 2 + 1
      BY HashLength
    <3> QED
      BY <3>1
  <2>5. IsString(Truncated(s, max)) /\ Len(Truncated(s, max)) = Len(Cut(s, k)) + 3
    BY <2>2, <2>3, <2>4, Joined
  <2> QED
    BY <2>1, <2>3, <2>5
<1> QED
  BY <1>1, <1>2

\* A string with its dash, if it has any characters, is a string.
LEMMA DashedString ==
  ASSUME NEW s, IsString(s)
  PROVE  IsString(Dashed(s))
<1>1. IsString(<<"-">>)
  <2>1. <<"-">> \in Seq({"-"})
    OBVIOUS
  <2> QED
    BY <2>1 DEF IsString
<1> QED
  BY <1>1, Joined DEF Dashed

\* Environment and track leave a postfix at least 13 characters.
LEMMA TrackedNameFits ==
  ASSUME NEW e, NEW t, IsString(e), IsString(t)
  PROVE  /\ IsString(TrackedName(e, t))
         /\ Len(TrackedName(e, t)) \in 0..40
<1>1. IsString(Dashed(t))
  BY DashedString
<1>2. IsString(Cut(e, 30)) /\ IsString(Cut(Dashed(t), 10))
  BY <1>1, CutLength
<1>3. /\ IsString(TrackedName(e, t))
      /\ Len(TrackedName(e, t)) = Len(Cut(e, 30)) + Len(Cut(Dashed(t), 10))
  BY <1>2, Joined DEF TrackedName, EnvSlugLength, TrackLength
<1>4. Len(Cut(e, 30)) \in 0..30 /\ Len(Cut(Dashed(t), 10)) \in 0..10
  BY <1>1, CutLength
<1>5. \A a \in 0..30, b \in 0..10 : a + b \in 0..40
  OBVIOUS
<1>6. Len(Cut(e, 30)) + Len(Cut(Dashed(t), 10)) \in 0..40
  BY <1>4, <1>5
<1> QED
  BY <1>3, <1>6

\* get_deploy_name never raises, and Helm takes what it returns.
LEMMA DeployNameFits ==
  ASSUME NEW e, NEW t, NEW postfix, IsString(e), IsString(t), IsString(postfix)
  PROVE  /\ ~CannotTruncate(Dashed(postfix), HelmNameLength - Len(TrackedName(e, t)))
         /\ Len(DeployName(e, t, postfix)) <= HelmNameLength
<1> DEFINE room == HelmNameLength - Len(TrackedName(e, t))
           cut == Truncated(Dashed(postfix), room)
           whole == TrackedName(e, t) \o cut
<1>1. room \in Int /\ room >= 4 /\ Len(TrackedName(e, t)) + room = 53
  <2>1. Len(TrackedName(e, t)) \in 0..40
    BY TrackedNameFits
  <2> DEFINE n == Len(TrackedName(e, t))
  <2>2. n \in 0..40 /\ room = 53 - n
    BY <2>1 DEF HelmNameLength
  <2> HIDE DEF n, room
  <2>3. room \in Int /\ room >= 4 /\ n + room = 53
    BY <2>2
  <2> QED
    BY <2>3 DEF n
<1>2. IsString(cut) /\ Len(cut) <= room
  <2>1. IsString(Dashed(postfix))
    BY DashedString
  <2> HIDE DEF room
  <2> QED
    BY <1>1, <2>1, TruncatedFits
<1>3. IsString(whole) /\ Len(whole) = Len(TrackedName(e, t)) + Len(cut)
  <2> HIDE DEF cut
  <2> QED
    BY <1>2, TrackedNameFits, Joined
<1>4. Len(whole) <= 53
  <2>1. Len(cut) \in Nat /\ Len(TrackedName(e, t)) \in Nat
    BY <1>2, StringLength, TrackedNameFits
  <2> HIDE DEF cut, room, whole
  <2> QED
    BY <1>1, <1>2, <1>3, <2>1
<1>5. Len(SafeName(whole)) = Len(whole)
  <2> HIDE DEF whole
  <2>1. Len(whole) \in Nat /\ DOMAIN whole = 1..Len(whole)
    BY <1>3, StringLength
  <2> DEFINE T == {Safe[whole[i]] : i \in 1..Len(whole)}
  <2>2. SafeName(whole) \in [1..Len(whole) -> T]
    BY <2>1 DEF SafeName
  <2>3. SafeName(whole) \in Seq(T)
    BY <2>1, <2>2, SeqDef
  <2>4. DOMAIN SafeName(whole) = 1..Len(SafeName(whole)) /\ Len(SafeName(whole)) \in Nat
    <3> HIDE DEF T
    <3> QED
      BY <2>3, LenProperties
  <2> QED
    BY <2>1, <2>2, <2>4
<1> QED
  BY <1>2, <1>4, <1>5 DEF DeployName, CannotTruncate, HelmNameLength

-----------------------------------------------------------------------------
(* Names of services. *)

\* Any four strings are strings over the same characters,
LEMMA SameCharacters ==
  ASSUME NEW a, NEW b, NEW c, NEW d,
         IsString(a), IsString(b), IsString(c), IsString(d)
  PROVE  \E T : a \in Seq(T) /\ b \in Seq(T) /\ c \in Seq(T) /\ d \in Seq(T)
<1>1. PICK A : a \in Seq(A)
  BY DEF IsString
<1>2. PICK B : b \in Seq(B)
  BY DEF IsString
<1>3. PICK C : c \in Seq(C)
  BY DEF IsString
<1>4. PICK D : d \in Seq(D)
  BY DEF IsString
<1> DEFINE T == A \cup B \cup C \cup D
<1>5. A \subseteq T /\ B \subseteq T /\ C \subseteq T /\ D \subseteq T
  OBVIOUS
<1> HIDE DEF T
<1>6. a \in Seq(T) /\ b \in Seq(T) /\ c \in Seq(T) /\ d \in Seq(T)
  BY <1>1, <1>2, <1>3, <1>4, <1>5, SeqMonotonic
<1> QED
  BY <1>6

\* so what two have in common at the front can be dropped,
LEMMA SameFront ==
  ASSUME NEW a, NEW b, NEW c, IsString(a), IsString(b), IsString(c), a \o b = a \o c
  PROVE  b = c
<1>1. PICK T : a \in Seq(T) /\ b \in Seq(T) /\ c \in Seq(T)
  BY SameCharacters
<1>2. \A s, t, v \in Seq(T) : s \o t = s \o v => t = v
  BY ConcatSimplifications, Zenon
<1> QED
  BY <1>1, <1>2

\* and strings that are equal end alike, and are equal before that.
LEMMA SameEnd ==
  ASSUME NEW a, NEW b, NEW c, NEW d,
         IsString(a), IsString(b), IsString(c), IsString(d),
         a \o b = c \o d, Len(b) = Len(d)
  PROVE  a = c /\ b = d
<1>1. PICK T : a \in Seq(T) /\ b \in Seq(T) /\ c \in Seq(T) /\ d \in Seq(T)
  BY SameCharacters
<1>2. /\ Len(a \o b) = Len(a) + Len(b)
      /\ \A i \in 1..Len(a) + Len(b) : (a \o b)[i] = IF i <= Len(a) THEN a[i] ELSE b[i - Len(a)]
  BY <1>1, ConcatProperties
<1>3. /\ Len(c \o d) = Len(c) + Len(d)
      /\ \A i \in 1..Len(c) + Len(d) : (c \o d)[i] = IF i <= Len(c) THEN c[i] ELSE d[i - Len(c)]
  BY <1>1, ConcatProperties
<1>4. Len(a) \in Nat /\ Len(b) \in Nat /\ Len(c) \in Nat /\ Len(d) \in Nat
  BY StringLength
<1>5. Len(a) = Len(c)
  BY <1>2, <1>3, <1>4
<1>6. ASSUME NEW i \in 1..Len(a) PROVE a[i] = c[i]
  <2>1. i \in 1..Len(a) + Len(b) /\ i \in 1..Len(c) + Len(d) /\ i <= Len(a) /\ i <= Len(c)
    BY <1>4, <1>5
  <2> QED
    BY <1>2, <1>3, <2>1
<1>7. a = c
  BY <1>1, <1>5, <1>6, SeqEqual
<1> QED
  BY <1>7, SameFront

\* kubernetes_safe_name keeps the length,
LEMMA SafeNameString ==
  ASSUME NEW s, IsString(s)
  PROVE  /\ IsString(SafeName(s)) /\ Len(SafeName(s)) = Len(s)
         /\ \A i \in 1..Len(s) : SafeName(s)[i] = Safe[s[i]]
<1>1. Len(s) \in Nat /\ DOMAIN s = 1..Len(s)
  BY StringLength
<1> DEFINE T == {Safe[s[i]] : i \in 1..Len(s)}
<1>2. SafeName(s) = [i \in 1..Len(s) |-> Safe[s[i]]]
  BY <1>1 DEF SafeName
<1>3. SafeName(s) \in [1..Len(s) -> T]
  BY <1>1, <1>2
<1> HIDE DEF T
<1>4. SafeName(s) \in Seq(T)
  BY <1>1, <1>3, SeqDef
<1>5. DOMAIN SafeName(s) = 1..Len(SafeName(s)) /\ Len(SafeName(s)) \in Nat
  BY <1>4, LenProperties
<1>6. DOMAIN SafeName(s) = 1..Len(s)
  BY <1>2
<1>7. IsString(SafeName(s))
  BY <1>4 DEF IsString
<1> QED
  BY <1>1, <1>2, <1>5, <1>6, <1>7

\* and goes character by character.
LEMMA SafeNameConcat ==
  ASSUME NEW s, NEW t, IsString(s), IsString(t)
  PROVE  SafeName(s \o t) = SafeName(s) \o SafeName(t)
<1> DEFINE a == SafeName(s)
           b == SafeName(t)
           w == SafeName(s \o t)
<1>1. /\ IsString(a) /\ Len(a) = Len(s) /\ \A i \in 1..Len(s) : a[i] = Safe[s[i]]
      /\ IsString(b) /\ Len(b) = Len(t) /\ \A i \in 1..Len(t) : b[i] = Safe[t[i]]
  BY SafeNameString
<1>2. IsString(s \o t) /\ Len(s \o t) = Len(s) + Len(t)
  BY Joined
<1>3. \A i \in 1..Len(s) + Len(t) : (s \o t)[i] = IF i <= Len(s) THEN s[i] ELSE t[i - Len(s)]
  <2>1. PICK T : s \in Seq(T) /\ t \in Seq(T)
    BY SameCharacters
  <2> QED
    BY <2>1, ConcatProperties
<1>4. IsString(w) /\ Len(w) = Len(s) + Len(t)
  BY <1>2, SafeNameString
<1>5. \A i \in 1..Len(s) + Len(t) : w[i] = Safe[(s \o t)[i]]
  BY <1>2, SafeNameString
<1> HIDE DEF a, b, w
<1>6. IsString(a \o b) /\ Len(a \o b) = Len(s) + Len(t)
  BY <1>1, Joined
<1>7. \A i \in 1..Len(s) + Len(t) : (a \o b)[i] = IF i <= Len(s) THEN a[i] ELSE b[i - Len(s)]
  <2>1. PICK T : a \in Seq(T) /\ b \in Seq(T)
    BY <1>1, SameCharacters
  <2>2. \A i \in 1..Len(a) + Len(b) : (a \o b)[i] = IF i <= Len(a) THEN a[i] ELSE b[i - Len(a)]
    BY <2>1, ConcatProperties
  <2> QED
    BY <1>1, <2>2, Zenon
<1>8. Len(s) \in Nat /\ Len(t) \in Nat
  BY StringLength
<1>9. ASSUME NEW i \in 1..Len(s) + Len(t) PROVE w[i] = (a \o b)[i]
  <2>1. CASE i <= Len(s)
    <3>1. i \in 1..Len(s)
      BY <1>8, <2>1
    <3> QED
      BY <1>1, <1>3, <1>5, <1>7, <2>1, <3>1
  <2>2. CASE ~(i <= Len(s))
    <3>1. i - Len(s) \in 1..Len(t)
      BY <1>8, <2>2
    <3> QED
      BY <1>1, <1>3, <1>5, <1>7, <2>2, <3>1
  <2> QED
    BY <2>1, <2>2
<1>10. PICK T : w \in Seq(T) /\ a \o b \in Seq(T)
  BY <1>4, <1>6, SameCharacters
<1>11. w = a \o b
  BY <1>4, <1>6, <1>9, <1>10, SeqEqual
<1> QED
  BY <1>11 DEF a, b, w

\* Cutting brings no new characters,
LEMMA CutOfChar ==
  ASSUME NEW s \in Seq(Char), NEW n \in Nat
  PROVE  Cut(s, n) \in Seq(Char)
<1> DEFINE k == IF Len(s) <= n THEN Len(s) ELSE n
<1>1. k \in Nat /\ \A i \in 1..k : s[i] \in Char
  BY LenProperties, ElementOfSeq
<1> HIDE DEF k
<1>2. SubSeq(s, 1, k) \in Seq(Char)
  BY <1>1, SubSeqProperties
<1> QED
  BY <1>2 DEF Cut, k

\* nor does joining environment and track.
LEMMA TrackedNameOfChar ==
  ASSUME NEW e \in Seq(Char), NEW t \in Seq(Char)
  PROVE  TrackedName(e, t) \in Seq(Char)
<1>1. <<"-">> \in Seq(Char)
  BY NamingAssumption
<1>2. Dashed(t) \in Seq(Char)
  BY <1>1, ConcatProperties DEF Dashed
<1>3. Cut(e, 30) \in Seq(Char) /\ Cut(Dashed(t), 10) \in Seq(Char)
  BY <1>2, CutOfChar
<1> QED
  BY <1>3, ConcatProperties DEF TrackedName, EnvSlugLength, TrackLength

-----------------------------------------------------------------------------
(* The construction of projects. *)

IsHost(h) ==
  /\ h = [label |-> h.label, domain |-> h.domain, labels |-> h.labels]
  /\ IsString(h.label) /\ IsString(h.domain)

HostFits(h) == HostLength(h) <= CNLength /\ Len(h.label) <= 63

\* A host that limit_url_length returns fits.
LEMMA LimitedFits ==
  ASSUME NEW h, IsHost(h), ~CannotLimit(h)
  PROVE  IsHost(Limited(h)) /\ HostFits(Limited(h))
<1> DEFINE room == LabelRoom(h)
           label == Truncated(h.label, room)
<1>1. Len(h.domain) \in Nat
  BY StringLength DEF IsHost
<1>2. room \in Int /\ room + Len(h.domain) = 63
  BY <1>1 DEF LabelRoom, CNLength
<1>3. IsString(label)
  <2> HIDE DEF room
  <2> QED
    BY <1>2, TruncatedFits DEF IsHost
<1>4. Len(label) \in Nat
  <2> HIDE DEF label
  <2> QED
    BY <1>3, StringLength
<1>5. Len(label) <= room
  BY <1>2, <1>4 DEF CannotLimit, CannotTruncate
<1>6. Limited(h) = [label |-> label, domain |-> h.domain, labels |-> h.labels]
  BY DEF Limited, WithLabel
<1> HIDE DEF room, label
<1> QED
  BY <1>1, <1>2, <1>3, <1>4, <1>5, <1>6 DEF IsHost, HostFits, HostLength, CNLength

\* The host of a dependency is a host, if that of the project is one.
LEMMA DependencyHostIsHost ==
  ASSUME NEW h, NEW name, IsHost(h)
  PROVE  IsHost(DependencyHost(name, h))
<1>1. IsString(Cut(h.label, 55)) /\ IsString(HashOf(name, 7))
  BY CutLength, HashLength DEF IsHost
<1>2. IsString(Cut(h.label, 55) \o HashOf(name, 7))
  BY <1>1, Joined
<1>3. DependencyHost(name, h) = [label |-> Cut(h.label, 55) \o HashOf(name, 7),
                                 domain |-> h.domain, labels |-> h.labels]
  BY DEF DependencyHost, WithLabel
<1> QED
  BY <1>2, <1>3 DEF IsHost

\* The inductive invariant: every host made so far fits, and the main one once
\* it has been limited.
Inv ==
  /\ slug \in Slugs /\ track \in Tracks /\ main \in Names
  /\ IsHost(host)
  /\ pc = "host" => host \in Hosts
  /\ pc # "host" => pc = "raised" \/ HostFits(host)
  /\ dependencies \in Seq(Names)
  /\ \E T : projects \in Seq(T)
  /\ \A i \in DOMAIN projects : projects[i].name \in Names /\ HostFits(projects[i].host)

\* At first no project has been made.
LEMMA InitInv == Init => Inv
<1> SUFFICES ASSUME Init PROVE Inv
  OBVIOUS
<1>1. host \in [label : Seq(Char), domain : Seq(Char), labels : Nat]
  BY ProjectSetupAssumption DEF Init
<1>2. IsHost(host)
  BY <1>1 DEF IsHost, IsString
<1>3. dependencies \in Seq(Names)
  <2>1. PICK n \in 0..MaxDependencies : dependencies \in [1..n -> Names]
    BY DEF Init
  <2>2. n \in Nat
    BY ProjectSetupAssumption
  <2> QED
    BY <2>1, <2>2, SeqDef
<1>4. projects = <<>> /\ projects \in Seq({}) /\ DOMAIN projects = {}
  BY DEF Init
<1> QED
  BY <1>2, <1>3, <1>4 DEF Init, Inv

\* Adding a project to the list leaves those on it.
LEMMA AppendProject ==
  ASSUME Inv, NEW e, e.name \in Names, HostFits(e.host), projects' = Append(projects, e)
  PROVE  /\ \E T : projects' \in Seq(T)
         /\ \A i \in DOMAIN projects' : projects'[i].name \in Names /\ HostFits(projects'[i].host)
<1>1. PICK T : projects \in Seq(T)
  BY DEF Inv
<1>2. T \subseteq T \cup {e}
  OBVIOUS
<1>3. projects \in Seq(T \cup {e})
  BY <1>1, <1>2, SeqMonotonic
<1>4. projects' \in Seq(T \cup {e})
  BY <1>3
<1>5. /\ DOMAIN projects' = DOMAIN projects \cup {Len(projects) + 1}
      /\ \A i \in DOMAIN projects : projects'[i] = projects[i]
      /\ projects'[Len(projects) + 1] = e
  BY <1>3, LenProperties
<1> QED
  BY <1>4, <1>5 DEF Inv

\* Every host that is made fits.
LEMMA StepInv == Inv /\ [Next]_vars => Inv'
<1> SUFFICES ASSUME Inv, [Next]_vars PROVE Inv'
  OBVIOUS
<1>1. CASE LimitHost
  <2>1. CASE host.labels = 0 /\ UNCHANGED host
    <3>1. HostFits(host)
      <4>1. host.label = <<>> /\ host.domain = <<>>
        BY <1>1, <2>1, ProjectSetupAssumption DEF LimitHost, Inv
      <4> QED
        BY <4>1 DEF HostFits, HostLength, CNLength
    <3> QED
      BY <1>1, <2>1, <3>1 DEF LimitHost, Inv
  <2>2. CASE pc' = "raised" /\ UNCHANGED host
    BY <1>1, <2>2 DEF LimitHost, Inv
  <2>3. CASE ~CannotLimit(host) /\ host' = Limited(host)
    <3>1. IsHost(host') /\ HostFits(host')
      BY <2>3, LimitedFits DEF Inv
    <3> QED
      BY <1>1, <3>1 DEF LimitHost, Inv
  <2> QED
    BY <1>1, <2>1, <2>2, <2>3 DEF LimitHost
<1>2. CASE AddDependency
  <2> DEFINE h == DependencyHost(Head(dependencies), host)
  <2>1. CASE pc' = "raised" /\ UNCHANGED <<projects, dependencies>>
    BY <1>2, <2>1 DEF AddDependency, Inv
  <2>2. CASE /\ ~CannotLimit(h)
             /\ projects' = Append(projects, [name |-> Head(dependencies), host |-> Limited(h)])
             /\ dependencies' = Tail(dependencies) /\ UNCHANGED pc
    <3>1. HostFits(Limited(h))
      BY <2>2, DependencyHostIsHost, LimitedFits DEF Inv
    <3>2. Head(dependencies) \in Names /\ Tail(dependencies) \in Seq(Names)
      BY <1>2, HeadTailProperties DEF AddDependency, Inv
    <3> DEFINE e == [name |-> Head(dependencies), host |-> Limited(h)]
    <3>3. e.name \in Names /\ HostFits(e.host) /\ projects' = Append(projects, e)
      BY <2>2, <3>1, <3>2
    <3> HIDE DEF e
    <3>4. /\ \E T : projects' \in Seq(T)
          /\ \A i \in DOMAIN projects' : projects'[i].name \in Names /\ HostFits(projects'[i].host)
      BY <3>3, AppendProject
    <3> QED
      BY <1>2, <2>2, <3>2, <3>4 DEF AddDependency, Inv
  <2> QED
    BY <1>2, <2>1, <2>2 DEF AddDependency
<1>3. CASE Complete
  <2> DEFINE e == [name |-> main, host |-> host]
  <2>1. e.name \in Names /\ HostFits(e.host) /\ projects' = Append(projects, e)
    BY <1>3 DEF Complete, Inv
  <2> HIDE DEF e
  <2>2. /\ \E T : projects' \in Seq(T)
        /\ \A i \in DOMAIN projects' : projects'[i].name \in Names /\ HostFits(projects'[i].host)
    BY <2>1, AppendProject
  <2> QED
    BY <1>3, <2>2 DEF Complete, Inv
<1>4. CASE UNCHANGED vars
  BY <1>4 DEF vars, Inv
<1> QED
  BY <1>1, <1>2, <1>3, <1>4 DEF Next

\* The inductive invariant of the construction of projects.
THEOREM ProjectSetupInvariant == Spec => []Inv
BY InitInv, StepInv, PTL DEF Spec

\* Helm takes the name of every release, and making the names never raises
\* (get_deploy_name).
THEOREM ReleasesFitHolds == Spec => []ReleasesFit
<1>1. Inv => ReleasesFit
  <2> SUFFICES ASSUME Inv, NEW i \in DOMAIN projects
               PROVE  /\ Len(Release(i)) <= HelmNameLength
                      /\ ~CannotTruncate(Dashed(projects[i].name), HelmNameLength - Len(TrackedName(slug, track)))
                      /\ ~CannotTruncate(Dashed(projects[i].name \o FileEnd), HelmNameLength - Len(TrackedName(slug, track)))
    BY DEF ReleasesFit
  <2>1. IsString(slug) /\ IsString(track) /\ IsString(projects[i].name)
    <3>1. slug \in Seq(Char) /\ track \in Seq(Char) /\ projects[i].name \in Seq(Char)
      BY ProjectSetupAssumption DEF Inv
    <3> QED
      BY <3>1 DEF IsString
  <2>2. IsString(FileEnd)
    <3>1. FileEnd \in Seq({"-", "f", "i", "l", "e"})
      BY DEF FileEnd
    <3> QED
      BY <3>1 DEF IsString
  <2>3. IsString(projects[i].name \o FileEnd)
    BY <2>1, <2>2, Joined
  <2> QED
    BY <2>1, <2>3, DeployNameFits DEF Release
<1> QED
  BY <1>1, ProjectSetupInvariant, PTL

\* Every host fits a certificate and its first label DNS (limit_url_length,
\* get_dependency_project_url).
THEOREM HostsFitHolds == Spec => []HostsFit
<1>1. Inv => HostsFit
  BY DEF Inv, HostsFit, HostFits
<1> QED
  BY <1>1, ProjectSetupInvariant, PTL

\* An application finds its service: whatever was cut of environment and track,
\* what is added for the service is not (get_base_database_url, deploy_service).
THEOREM ServicesAreFoundHolds == Spec => []ServicesAreFound
<1>1. Inv => ServicesAreFound
  <2> SUFFICES ASSUME Inv, NEW s \in Services
               PROVE  ServiceHost(slug, track, s) = ServiceRelease(slug, track, s)
    BY DEF ServicesAreFound
  <2> DEFINE T == TrackedName(slug, track)
             room == HelmNameLength - Len(T)
  <2>1. slug \in Seq(Char) /\ track \in Seq(Char) /\ s \in Seq(Char)
    BY ProjectSetupAssumption DEF Inv
  <2>2. T \in Seq(Char)
    BY <2>1, TrackedNameOfChar
  <2>3. room \in Int /\ room >= 13
    <3>1. Len(T) \in 0..40
      BY <2>1, TrackedNameFits DEF IsString
    <3> DEFINE n == Len(T)
    <3>2. n \in 0..40 /\ room = 53 - n
      BY <3>1 DEF HelmNameLength
    <3> HIDE DEF n, room
    <3> QED
      BY <3>2
  <2>4. Dashed(s) \in Seq(Char) /\ Len(Dashed(s)) <= 11 /\ SafeName(Dashed(s)) = Dashed(s)
    <3>1. s # <<>> /\ Len(s) <= 10 /\ SafeName(<<"-">> \o s) = <<"-">> \o s
      BY ProjectSetupAssumption
    <3>2. <<"-">> \in Seq(Char) /\ Len(<<"-">>) = 1
      BY NamingAssumption
    <3>3. <<"-">> \o s \in Seq(Char) /\ Len(<<"-">> \o s) = 1 + Len(s)
      BY <2>1, <3>2, ConcatProperties
    <3>4. Len(s) \in Nat
      BY <2>1, LenProperties
    <3> QED
      BY <3>1, <3>3, <3>4 DEF Dashed
  <2>5. Truncated(Dashed(s), room) = Dashed(s)
    <3>1. Len(Dashed(s)) \in Nat
      BY <2>4, LenProperties
    <3> HIDE DEF room
    <3>2. Len(Dashed(s)) <= room
      BY <2>3, <2>4, <3>1
    <3> QED
      BY <3>2 DEF Truncated
  <2>6. Truncated(Dashed(<<>>), room) = <<>>
    <3> HIDE DEF room
    <3> QED
      BY <2>3 DEF Truncated, Dashed
  <2> HIDE DEF T
  <2>7. DeployName(slug, track, <<>>) = SafeName(T)
    <3>1. T \o <<>> = T
      BY <2>2, ConcatEmptySeq
    <3> QED
      BY <2>6, <3>1 DEF DeployName, T
  <2>8. DeployName(slug, track, s) = SafeName(T) \o Dashed(s)
    <3>1. SafeName(T \o Dashed(s)) = SafeName(T) \o SafeName(Dashed(s))
      BY <2>2, <2>4, SafeNameConcat DEF IsString
    <3> QED
      BY <2>4, <2>5, <3>1 DEF DeployName, T
  <2> QED
    BY <2>7, <2>8 DEF ServiceHost, ServiceRelease
<1> QED
  BY <1>1, ProjectSetupInvariant, PTL

-----------------------------------------------------------------------------
(* Names that differ. *)

\* Strings of one length with the same characters are the same.
LEMMA SameString ==
  ASSUME NEW a, NEW b, IsString(a), IsString(b), Len(a) = Len(b),
         \A i \in 1..Len(a) : a[i] = b[i]
  PROVE  a = b
<1>1. PICK T : a \in Seq(T) /\ b \in Seq(T)
  BY SameCharacters
<1> QED
  BY <1>1, SeqEqual

\* What is left of a string that is cut,
LEMMA CutIs ==
  ASSUME NEW s, IsString(s), NEW n \in Nat
  PROVE  /\ IsString(Cut(s, n))
         /\ Len(Cut(s, n)) = IF Len(s) <= n THEN Len(s) ELSE n
         /\ \A i \in 1..Len(Cut(s, n)) : Cut(s, n)[i] = s[i]
<1>1. PICK S : s \in Seq(S)
  BY DEF IsString
<1> DEFINE k == IF Len(s) <= n THEN Len(s) ELSE n
<1>2. k \in Nat /\ \A i \in 1..k : s[i] \in S
  BY <1>1, LenProperties, ElementOfSeq
<1> HIDE DEF k
<1>3. /\ SubSeq(s, 1, k) \in Seq(S) /\ Len(SubSeq(s, 1, k)) = k
      /\ \A i \in 1..k : SubSeq(s, 1, k)[i] = s[i]
  BY <1>2, SubSeqProperties
<1>4. Cut(s, n) = SubSeq(s, 1, k)
  BY DEF Cut, k
<1>5. k = IF Len(s) <= n THEN Len(s) ELSE n
  BY DEF k
<1> QED
  BY <1>3, <1>4, <1>5 DEF IsString

\* which may be made safe before or after,
LEMMA SafeCut ==
  ASSUME NEW s, IsString(s), NEW n \in Nat
  PROVE  SafeName(Cut(s, n)) = Cut(SafeName(s), n)
<1> DEFINE c == Cut(s, n)
           w == SafeName(s)
<1>1. /\ IsString(c) /\ Len(c) = (IF Len(s) <= n THEN Len(s) ELSE n)
      /\ \A i \in 1..Len(c) : c[i] = s[i]
  BY CutIs
<1>2. IsString(w) /\ Len(w) = Len(s) /\ \A i \in 1..Len(s) : w[i] = Safe[s[i]]
  BY SafeNameString
<1> HIDE DEF c, w
<1>3. IsString(SafeName(c)) /\ Len(SafeName(c)) = Len(c)
      /\ \A i \in 1..Len(c) : SafeName(c)[i] = Safe[c[i]]
  BY <1>1, SafeNameString
<1>4. /\ IsString(Cut(w, n)) /\ Len(Cut(w, n)) = (IF Len(w) <= n THEN Len(w) ELSE n)
      /\ \A i \in 1..Len(Cut(w, n)) : Cut(w, n)[i] = w[i]
  BY <1>2, CutIs
<1>5. Len(Cut(w, n)) = Len(c)
  BY <1>1, <1>2, <1>4
<1>6. Len(s) \in Nat
  BY StringLength
<1>7. \A i \in 1..Len(c) : i \in 1..Len(s)
  BY <1>1, <1>6
<1>8. \A i \in 1..Len(c) : SafeName(c)[i] = Cut(w, n)[i]
  BY <1>1, <1>2, <1>3, <1>4, <1>5, <1>7
<1>9. SafeName(c) = Cut(w, n)
  BY <1>3, <1>4, <1>5, <1>8, SameString
<1> QED
  BY <1>9 DEF c, w

\* cut once more,
LEMMA CutTwice ==
  ASSUME NEW s, IsString(s), NEW n \in Nat, NEW m \in Nat, n <= m
  PROVE  Cut(Cut(s, m), n) = Cut(s, n)
<1> DEFINE c == Cut(s, m)
<1>1. /\ IsString(c) /\ Len(c) = (IF Len(s) <= m THEN Len(s) ELSE m)
      /\ \A i \in 1..Len(c) : c[i] = s[i]
  BY CutIs
<1> HIDE DEF c
<1>2. /\ IsString(Cut(c, n)) /\ Len(Cut(c, n)) = (IF Len(c) <= n THEN Len(c) ELSE n)
      /\ \A i \in 1..Len(Cut(c, n)) : Cut(c, n)[i] = c[i]
  BY <1>1, CutIs
<1>3. /\ IsString(Cut(s, n)) /\ Len(Cut(s, n)) = (IF Len(s) <= n THEN Len(s) ELSE n)
      /\ \A i \in 1..Len(Cut(s, n)) : Cut(s, n)[i] = s[i]
  BY CutIs
<1>4. Len(s) \in Nat
  BY StringLength
<1>5. Len(Cut(c, n)) = Len(Cut(s, n))
  BY <1>1, <1>2, <1>3, <1>4
<1>6. \A i \in 1..Len(Cut(c, n)) : i \in 1..Len(c)
  BY <1>1, <1>2, <1>4
<1>7. \A i \in 1..Len(Cut(c, n)) : Cut(c, n)[i] = Cut(s, n)[i]
  BY <1>1, <1>2, <1>3, <1>5, <1>6
<1>8. Cut(c, n) = Cut(s, n)
  BY <1>2, <1>3, <1>5, <1>7, SameString
<1> QED
  BY <1>8 DEF c

\* or after a dash was put before it.
LEMMA CutDashed ==
  ASSUME NEW d, NEW s, IsString(d), Len(d) = 1, IsString(s), NEW n \in Nat
  PROVE  Cut(d \o s, n + 1) = d \o Cut(s, n)
<1> DEFINE w == d \o s
           c == Cut(s, n)
<1>1. /\ IsString(c) /\ Len(c) = (IF Len(s) <= n THEN Len(s) ELSE n)
      /\ \A i \in 1..Len(c) : c[i] = s[i]
  BY CutIs
<1>2. /\ IsString(w) /\ Len(w) = 1 + Len(s)
      /\ \A i \in 1..1 + Len(s) : w[i] = IF i <= 1 THEN d[i] ELSE s[i - 1]
  <2>1. PICK T : d \in Seq(T) /\ s \in Seq(T)
    BY SameCharacters
  <2>2. /\ Len(d \o s) = Len(d) + Len(s)
        /\ \A i \in 1..Len(d) + Len(s) : (d \o s)[i] = IF i <= Len(d) THEN d[i] ELSE s[i - Len(d)]
    BY <2>1, ConcatProperties
  <2> QED
    BY <2>2, Joined
<1> HIDE DEF c
<1>3. /\ IsString(d \o c) /\ Len(d \o c) = 1 + Len(c)
      /\ \A i \in 1..1 + Len(c) : (d \o c)[i] = IF i <= 1 THEN d[i] ELSE c[i - 1]
  <2>1. PICK T : d \in Seq(T) /\ c \in Seq(T)
    BY <1>1, SameCharacters
  <2>2. /\ Len(d \o c) = Len(d) + Len(c)
        /\ \A i \in 1..Len(d) + Len(c) : (d \o c)[i] = IF i <= Len(d) THEN d[i] ELSE c[i - Len(d)]
    BY <2>1, ConcatProperties
  <2> QED
    BY <1>1, <2>2, Joined
<1> HIDE DEF w
<1>4. /\ IsString(Cut(w, n + 1)) /\ Len(Cut(w, n + 1)) = (IF Len(w) <= n + 1 THEN Len(w) ELSE n + 1)
      /\ \A i \in 1..Len(Cut(w, n + 1)) : Cut(w, n + 1)[i] = w[i]
  <2>1. n + 1 \in Nat
    OBVIOUS
  <2> QED
    BY <1>2, <2>1, CutIs
<1>5. Len(s) \in Nat
  BY StringLength
<1>6. Len(Cut(w, n + 1)) = 1 + Len(c) /\ Len(c) \in Nat /\ Len(c) <= Len(s)
  BY <1>1, <1>2, <1>4, <1>5
<1>7. ASSUME NEW i \in 1..1 + Len(c) PROVE Cut(w, n + 1)[i] = (d \o c)[i]
  <2>1. Cut(w, n + 1)[i] = w[i] /\ i \in 1..1 + Len(s)
    BY <1>4, <1>5, <1>6
  <2>2. CASE i <= 1
    BY <1>2, <1>3, <2>1, <2>2
  <2>3. CASE ~(i <= 1)
    <3>1. i - 1 \in 1..Len(c)
      BY <1>6, <2>3
    <3> QED
      BY <1>1, <1>2, <1>3, <2>1, <2>3, <3>1
  <2> QED
    BY <2>2, <2>3
<1>8. Cut(w, n + 1) = d \o c
  BY <1>3, <1>4, <1>6, <1>7, SameString
<1> QED
  BY <1>8 DEF c, w

\* What is added at the end of a string is its end.
LEMMA EndsSo ==
  ASSUME NEW a, NEW e, IsString(a), IsString(e)
  PROVE  Ends(a \o e, e)
<1>1. PICK T : a \in Seq(T) /\ e \in Seq(T)
  BY SameCharacters
<1> DEFINE w == a \o e
           m == Len(a) + 1
           n == Len(a) + Len(e)
<1>2. Len(a) \in Nat /\ Len(e) \in Nat
  BY StringLength
<1>3. /\ w \in Seq(T) /\ Len(w) = n
      /\ \A i \in 1..n : w[i] = IF i <= Len(a) THEN a[i] ELSE e[i - Len(a)]
  BY <1>1, ConcatProperties
<1>4. /\ m \in 1..n + 1 /\ n \in m - 1..Len(w) /\ m \in Int /\ n \in Int /\ n - m + 1 = Len(e)
  BY <1>2, <1>3
<1>5. m - 1 + Len(e) = n /\ m - 1 = Len(a) /\ Len(w) >= Len(e) /\ Len(w) - Len(e) + 1 = m
  BY <1>2, <1>3
<1> HIDE DEF w, m, n
<1>6. \A i \in m..n : i \in 1..Len(w)
  BY <1>2, <1>4, <1>5
<1>7. \A i \in m..n : w[i] \in T
  BY <1>3, <1>6, ElementOfSeq
<1>8. /\ SubSeq(w, m, n) \in Seq(T) /\ Len(SubSeq(w, m, n)) = IF m <= n THEN n - m + 1 ELSE 0
      /\ \A i \in 1..n - m + 1 : SubSeq(w, m, n)[i] = w[m + i - 1]
  BY <1>4, <1>7, SubSeqProperties
<1>9. Len(SubSeq(w, m, n)) = Len(e)
  BY <1>2, <1>4, <1>8
<1>10. ASSUME NEW i \in 1..Len(e) PROVE SubSeq(w, m, n)[i] = e[i]
  <2>1. /\ m + i - 1 \in 1..n /\ ~(m + i - 1 <= Len(a)) /\ (m + i - 1) - Len(a) = i
    BY <1>2, <1>4, <1>5
  <2>2. SubSeq(w, m, n)[i] = w[m + i - 1]
    BY <1>4, <1>8
  <2>3. w[m + i - 1] = e[(m + i - 1) - Len(a)]
    BY <1>3, <2>1
  <2> QED
    BY <2>1, <2>2, <2>3
<1>11. SubSeq(w, m, n) = e
  BY <1>1, <1>8, <1>9, <1>10, SeqEqual
<1>12. SubSeq(w, Len(w) - Len(e) + 1, Len(w)) = e
  BY <1>3, <1>5, <1>11
<1> QED
  BY <1>5, <1>12 DEF Ends, w

\* The room for a name, whatever environment and track.
LEMMA RoomOf ==
  ASSUME NEW e, NEW t, IsString(e), IsString(t)
  PROVE  HelmNameLength - Len(TrackedName(e, t)) \in 13..53
<1> DEFINE n == Len(TrackedName(e, t))
<1>1. n \in 0..40
  BY TrackedNameFits
<1> HIDE DEF n
<1>2. 53 - n \in 13..53
  BY <1>1
<1> QED
  BY <1>2 DEF n, HelmNameLength

\* What is left of it when a hash is added.
LEMMA RoomNumbers ==
  ASSUME NEW r \in 13..53
  PROVE  /\ r \in Int /\ r - 3 \in Nat /\ r - 3 + 3 = r /\ r - 3 >= 10
         /\ (IF r - 3 >= 1 THEN r - 3 ELSE 1) = r - 3
OBVIOUS

\* A release is named for environment and track, and for what is left of the name.
LEMMA NameParts ==
  ASSUME NEW e, NEW t, NEW p, IsString(e), IsString(t), IsString(p)
  PROVE  LET end == Truncated(Dashed(p), HelmNameLength - Len(TrackedName(e, t)))
         IN /\ IsString(SafeName(TrackedName(e, t))) /\ IsString(SafeName(end))
            /\ DeployName(e, t, p) = SafeName(TrackedName(e, t)) \o SafeName(end)
<1> DEFINE room == HelmNameLength - Len(TrackedName(e, t))
<1>1. IsString(TrackedName(e, t)) /\ IsString(Dashed(p))
  BY TrackedNameFits, DashedString
<1>2. room \in Int
  <2>1. room \in 13..53
    BY RoomOf
  <2> QED
    BY <2>1, RoomNumbers
<1> HIDE DEF room
<1>3. IsString(Truncated(Dashed(p), room))
  BY <1>1, <1>2, TruncatedFits
<1>4. /\ IsString(SafeName(TrackedName(e, t))) /\ IsString(SafeName(Truncated(Dashed(p), room)))
      /\ SafeName(TrackedName(e, t) \o Truncated(Dashed(p), room))
           = SafeName(TrackedName(e, t)) \o SafeName(Truncated(Dashed(p), room))
  BY <1>1, <1>3, SafeNameString, SafeNameConcat
<1> QED
  BY <1>4 DEF DeployName, room

\* So a release is a string,
LEMMA DeployNameString ==
  ASSUME NEW e, NEW t, NEW p, IsString(e), IsString(t), IsString(p)
  PROVE  IsString(DeployName(e, t, p))
<1> DEFINE end == Truncated(Dashed(p), HelmNameLength - Len(TrackedName(e, t)))
<1>1. /\ IsString(SafeName(TrackedName(e, t))) /\ IsString(SafeName(end))
      /\ DeployName(e, t, p) = SafeName(TrackedName(e, t)) \o SafeName(end)
  BY NameParts
<1> HIDE DEF end
<1> QED
  BY <1>1, Joined

\* and names of which the same is left make releases of tracks the same only if
\* what is kept of the tracks is.
LEMMA TracksApart ==
  ASSUME NEW e, NEW t, NEW u, NEW p, IsString(e), IsString(t), IsString(u), IsString(p),
         Truncated(Dashed(p), HelmNameLength - Len(TrackedName(e, t)))
           = Truncated(Dashed(p), HelmNameLength - Len(TrackedName(e, u))),
         DeployName(e, t, p) = DeployName(e, u, p)
  PROVE  SafeName(Cut(Dashed(t), TrackLength)) = SafeName(Cut(Dashed(u), TrackLength))
<1> DEFINE E == Cut(e, EnvSlugLength)
           A == Cut(Dashed(t), TrackLength)
           B == Cut(Dashed(u), TrackLength)
           end == SafeName(Truncated(Dashed(p), HelmNameLength - Len(TrackedName(e, t))))
<1>1. IsString(E) /\ IsString(A) /\ IsString(B)
  BY DashedString, CutLength DEF EnvSlugLength, TrackLength
<1>2. IsString(SafeName(E)) /\ IsString(SafeName(A)) /\ IsString(SafeName(B))
  BY <1>1, SafeNameString
<1>3. /\ SafeName(TrackedName(e, t)) = SafeName(E) \o SafeName(A)
      /\ SafeName(TrackedName(e, u)) = SafeName(E) \o SafeName(B)
  BY <1>1, SafeNameConcat DEF TrackedName
<1>4. /\ IsString(SafeName(TrackedName(e, t))) /\ IsString(SafeName(TrackedName(e, u)))
      /\ IsString(end)
      /\ DeployName(e, t, p) = SafeName(TrackedName(e, t)) \o end
      /\ DeployName(e, u, p) = SafeName(TrackedName(e, u)) \o end
  BY NameParts
<1> HIDE DEF end
<1>5. SafeName(TrackedName(e, t)) \o end = SafeName(TrackedName(e, u)) \o end
  BY <1>4
<1>6. SafeName(TrackedName(e, t)) = SafeName(TrackedName(e, u))
  BY ONLY <1>4, <1>5, SameEnd
<1> QED
  BY <1>2, <1>3, <1>6, SameFront

\* A project shares its release with another track only if what is kept of the
\* tracks is the same, or has another length while the name is cut.
LEMMA TracksShared ==
  ASSUME NEW t, NEW p, IsString(slug), IsString(track), IsString(t), IsString(p),
         DeployName(slug, t, p) = DeployName(slug, track, p)
  PROVE  \/ SafeName(Cut(Dashed(t), TrackLength)) = SafeName(Cut(Dashed(track), TrackLength))
         \/ /\ Len(SafeName(Cut(Dashed(t), TrackLength)))
                 # Len(SafeName(Cut(Dashed(track), TrackLength)))
            /\ ~UncutOn(t, p) \/ ~UncutOn(track, p)
<1>1. CASE UncutOn(t, p) /\ UncutOn(track, p)
  <2>1. /\ Truncated(Dashed(p), HelmNameLength - Len(TrackedName(slug, t))) = Dashed(p)
        /\ Truncated(Dashed(p), HelmNameLength - Len(TrackedName(slug, track))) = Dashed(p)
    BY <1>1 DEF UncutOn, RoomOn, Truncated
  <2> QED
    BY <2>1, TracksApart
<1>2. CASE Len(SafeName(Cut(Dashed(t), TrackLength)))
             = Len(SafeName(Cut(Dashed(track), TrackLength)))
  <2> DEFINE E == Cut(slug, EnvSlugLength)
             A == Cut(Dashed(t), TrackLength)
             B == Cut(Dashed(track), TrackLength)
  <2>1. IsString(E) /\ IsString(A) /\ IsString(B)
    BY DashedString, CutLength DEF EnvSlugLength, TrackLength
  <2>2. Len(A) = Len(B)
    BY <1>2, <2>1, SafeNameString
  <2>3. Len(TrackedName(slug, t)) = Len(TrackedName(slug, track))
    BY <2>1, <2>2, Joined DEF TrackedName
  <2> QED
    BY <2>3, TracksApart
<1> QED
  BY <1>1, <1>2

-----------------------------------------------------------------------------
(* Projects that share a release. *)

\* What is left of a name that is cut, and the end of the release.
Kept(p) == SafeName(Cut(Dashed(p), RoomOn(track) - 3))
HashEnd(p) == SafeName(HashOf(Dashed(p), 2))

\* They are strings, and the end has three characters.
LEMMA KeptString ==
  ASSUME NEW p, IsString(slug), IsString(track), IsString(p)
  PROVE  /\ IsString(Kept(p)) /\ IsString(HashEnd(p)) /\ Len(HashEnd(p)) = 3
         /\ IsString(Dashed(p)) /\ IsString(SafeName(Dashed(p)))
         /\ Len(SafeName(Dashed(p))) = Len(Dashed(p))
<1> DEFINE k == RoomOn(track) - 3
<1>1. k \in Nat
  <2>1. RoomOn(track) \in 13..53
    BY RoomOf DEF RoomOn
  <2> QED
    BY <2>1, RoomNumbers
<1> HIDE DEF k
<1>2. IsString(Dashed(p))
  BY DashedString
<1>3. IsString(Cut(Dashed(p), k))
  BY <1>1, <1>2, CutLength
<1>4. IsString(HashOf(Dashed(p), 2)) /\ Len(HashOf(Dashed(p), 2)) = 2 + 1
  BY HashLength
<1> QED
  BY <1>2, <1>3, <1>4, SafeNameString DEF Kept, HashEnd, k

\* How a release ends, of a name that is not cut and of one that is.
LEMMA EndOfName ==
  ASSUME NEW p, IsString(slug), IsString(track), IsString(p)
  PROVE  LET end == SafeName(Truncated(Dashed(p), RoomOn(track)))
         IN end = IF UncutOn(track, p) THEN SafeName(Dashed(p)) ELSE Kept(p) \o HashEnd(p)
<1>1. RoomOn(track) \in 13..53
  BY RoomOf DEF RoomOn
<1>2. CASE UncutOn(track, p)
  BY <1>2 DEF UncutOn, Truncated
<1>3. CASE ~UncutOn(track, p)
  <2> DEFINE k == RoomOn(track) - 3
  <2>1. Truncated(Dashed(p), RoomOn(track)) = Cut(Dashed(p), k) \o HashOf(Dashed(p), 2)
    <3>1. (IF RoomOn(track) - 3 >= 1 THEN RoomOn(track) - 3 ELSE 1) = k
      BY <1>1, RoomNumbers
    <3> QED
      BY <1>3, <3>1 DEF UncutOn, Truncated
  <2>2. k \in Nat
    BY <1>1, RoomNumbers
  <2>3. IsString(Cut(Dashed(p), k))
    <3> HIDE DEF k
    <3> QED
      BY <2>2, DashedString, CutLength
  <2>4. IsString(HashOf(Dashed(p), 2))
    BY HashLength
  <2>5. SafeName(Cut(Dashed(p), k) \o HashOf(Dashed(p), 2))
          = SafeName(Cut(Dashed(p), k)) \o SafeName(HashOf(Dashed(p), 2))
    BY <2>3, <2>4, SafeNameConcat
  <2> QED
    BY <1>3, <2>1, <2>5 DEF Kept, HashEnd
<1> QED
  BY <1>2, <1>3

\* A name that is not cut may look like one that is.
LEMMA OneCut ==
  ASSUME NEW p, NEW q, IsString(slug), IsString(track), IsString(p), IsString(q),
         UncutOn(track, p), ~UncutOn(track, q),
         SafeName(Dashed(p)) = Kept(q) \o HashEnd(q)
  PROVE  Kept(p) = Kept(q) /\ LooksCut(p, q)
<1> DEFINE w == SafeName(Dashed(p))
           k == RoomOn(track) - 3
<1>1. RoomOn(track) \in 13..53 /\ k \in Nat /\ k + 3 = RoomOn(track)
  <2>1. RoomOn(track) \in 13..53
    BY RoomOf DEF RoomOn
  <2> QED
    BY <2>1, RoomNumbers
<1>2. /\ IsString(w) /\ Len(w) = Len(Dashed(p)) /\ IsString(Dashed(p)) /\ IsString(Dashed(q))
      /\ IsString(Kept(q)) /\ IsString(HashEnd(q)) /\ Len(HashEnd(q)) = 3
  BY KeptString
<1>3. Kept(q) = SafeName(Cut(Dashed(q), k)) /\ Kept(p) = SafeName(Cut(Dashed(p), k))
  BY DEF Kept
<1> HIDE DEF k
<1>4. Len(Kept(q)) = k
  <2>1. Len(Dashed(q)) \in Nat /\ ~(Len(Dashed(q)) <= RoomOn(track))
    BY <1>2, StringLength DEF UncutOn
  <2>2. /\ IsString(Cut(Dashed(q), k))
        /\ Len(Cut(Dashed(q), k)) = IF Len(Dashed(q)) <= k THEN Len(Dashed(q)) ELSE k
    BY <1>1, <1>2, CutIs
  <2>3. Len(Kept(q)) = Len(Cut(Dashed(q), k))
    BY <1>3, <2>2, SafeNameString
  <2> QED
    BY <1>1, <2>1, <2>2, <2>3
<1>5. Len(w) = k + 3
  <2>1. Len(Kept(q) \o HashEnd(q)) = Len(Kept(q)) + Len(HashEnd(q))
    BY <1>2, Joined
  <2> QED
    BY <1>2, <1>4, <2>1
<1>6. Kept(p) = Cut(w, k)
  BY <1>1, <1>2, <1>3, SafeCut
<1> DEFINE x == Kept(q)
           y == HashEnd(q)
<1>7. IsString(x) /\ IsString(y) /\ w = x \o y /\ Len(x) = k
  BY <1>2, <1>4
<1> HIDE DEF w, x, y
<1>8. Cut(w, k) = x
  <2>1. PICK T : x \in Seq(T) /\ y \in Seq(T)
    BY <1>7, SameCharacters
  <2>2. \A i \in 1..Len(x) + Len(y) : (x \o y)[i] = IF i <= Len(x) THEN x[i] ELSE y[i - Len(x)]
    BY <2>1, ConcatProperties
  <2>3. /\ IsString(Cut(w, k)) /\ Len(Cut(w, k)) = (IF Len(w) <= k THEN Len(w) ELSE k)
        /\ \A i \in 1..Len(Cut(w, k)) : Cut(w, k)[i] = w[i]
    BY <1>1, <1>2, CutIs
  <2>4. Len(Cut(w, k)) = k
    BY <1>1, <1>5, <2>3
  <2>5. Len(y) \in Nat
    BY <1>7, StringLength
  <2>6. ASSUME NEW i \in 1..k PROVE Cut(w, k)[i] = x[i]
    <3>1. i \in 1..Len(x) + Len(y) /\ i <= Len(x)
      BY <1>1, <1>7, <2>5
    <3>2. (x \o y)[i] = x[i]
      BY <2>2, <3>1
    <3> QED
      BY <1>7, <2>3, <2>4, <3>2
  <2> QED
    BY <1>7, <2>3, <2>4, <2>6, SameString
<1>9. Ends(w, y)
  BY <1>7, EndsSo
<1> QED
  BY <1>1, <1>2, <1>5, <1>6, <1>8, <1>9 DEF LooksCut, w, x, y, HashEnd

\* Names that make the same release are safe as one, or one was cut.
LEMMA Shared ==
  ASSUME NEW p, NEW q, IsString(slug), IsString(track), IsString(p), IsString(q),
         p # <<>>, q # <<>>, DeployName(slug, track, p) = DeployName(slug, track, q)
  PROVE  MayShare(p, q)
<1> DEFINE T == SafeName(TrackedName(slug, track))
           x == SafeName(Truncated(Dashed(p), RoomOn(track)))
           y == SafeName(Truncated(Dashed(q), RoomOn(track)))
<1>1. /\ IsString(T) /\ IsString(x) /\ IsString(y)
      /\ DeployName(slug, track, p) = T \o x /\ DeployName(slug, track, q) = T \o y
  BY NameParts DEF RoomOn
<1>2. x = y
  <2> HIDE DEF T, x, y
  <2>1. T \o x = T \o y
    BY <1>1
  <2> QED
    BY ONLY <1>1, <2>1, SameFront
<1>3. /\ x = IF UncutOn(track, p) THEN SafeName(Dashed(p)) ELSE Kept(p) \o HashEnd(p)
      /\ y = IF UncutOn(track, q) THEN SafeName(Dashed(q)) ELSE Kept(q) \o HashEnd(q)
  BY EndOfName
<1> HIDE DEF T, x, y
<1>4. CASE UncutOn(track, p) /\ UncutOn(track, q)
  <2>1. IsString(<<"-">>)
    <3>1. <<"-">> \in Seq({"-"})
      OBVIOUS
    <3> QED
      BY <3>1 DEF IsString
  <2>2. /\ SafeName(Dashed(p)) = SafeName(<<"-">>) \o SafeName(p)
        /\ SafeName(Dashed(q)) = SafeName(<<"-">>) \o SafeName(q)
    BY <2>1, SafeNameConcat DEF Dashed
  <2>3. IsString(SafeName(<<"-">>)) /\ IsString(SafeName(p)) /\ IsString(SafeName(q))
    BY <2>1, SafeNameString
  <2>4. SafeName(Dashed(p)) = SafeName(Dashed(q))
    BY <1>2, <1>3, <1>4
  <2>5. SafeName(p) = SafeName(q)
    BY <2>2, <2>3, <2>4, SameFront
  <2> QED
    BY <2>5 DEF MayShare
<1>5. CASE ~UncutOn(track, p) /\ ~UncutOn(track, q)
  <2>1. Kept(p) \o HashEnd(p) = Kept(q) \o HashEnd(q)
    BY <1>2, <1>3, <1>5
  <2>2. /\ IsString(Kept(p)) /\ IsString(HashEnd(p)) /\ Len(HashEnd(p)) = 3
        /\ IsString(Kept(q)) /\ IsString(HashEnd(q)) /\ Len(HashEnd(q)) = 3
    BY KeptString
  <2>3. Kept(p) = Kept(q) /\ HashEnd(p) = HashEnd(q)
    BY ONLY <2>1, <2>2, SameEnd
  <2> QED
    BY <1>5, <2>3 DEF MayShare, Kept, HashEnd
<1>6. CASE UncutOn(track, p) /\ ~UncutOn(track, q)
  <2>1. SafeName(Dashed(p)) = Kept(q) \o HashEnd(q)
    BY <1>2, <1>3, <1>6
  <2>2. Kept(p) = Kept(q) /\ LooksCut(p, q)
    BY <1>6, <2>1, OneCut
  <2> QED
    BY <2>2 DEF MayShare, Kept
<1>7. CASE ~UncutOn(track, p) /\ UncutOn(track, q)
  <2>1. SafeName(Dashed(q)) = Kept(p) \o HashEnd(p)
    BY <1>2, <1>3, <1>7
  <2>2. Kept(q) = Kept(p) /\ LooksCut(q, p)
    BY <1>7, <2>1, OneCut
  <2> QED
    BY <2>2 DEF MayShare, Kept
<1> QED
  BY <1>4, <1>5, <1>6, <1>7

\* In any case they begin with the same nine characters.
LEMMA SharedBegin ==
  ASSUME NEW p, NEW q, IsString(slug), IsString(track), IsString(p), IsString(q),
         p # <<>>, q # <<>>, MayShare(p, q)
  PROVE  SafeName(Cut(p, 9)) = SafeName(Cut(q, 9))
<1>1. IsString(SafeName(p)) /\ IsString(SafeName(q)) /\ 9 \in Nat
  BY SafeNameString
<1>2. SafeName(Cut(p, 9)) = Cut(SafeName(p), 9) /\ SafeName(Cut(q, 9)) = Cut(SafeName(q), 9)
  BY <1>1, SafeCut
<1>3. CASE SafeName(p) = SafeName(q)
  BY <1>2, <1>3
<1>4. CASE Kept(p) = Kept(q)
  <2> DEFINE k == RoomOn(track) - 3
             d == SafeName(<<"-">>)
  <2>1. k \in Nat /\ k >= 10
    <3>1. RoomOn(track) \in 13..53
      BY RoomOf DEF RoomOn
    <3> QED
      BY <3>1, RoomNumbers
  <2>2. Kept(p) = SafeName(Cut(Dashed(p), k)) /\ Kept(q) = SafeName(Cut(Dashed(q), k))
    BY DEF Kept
  <2> HIDE DEF k
  <2>3. IsString(<<"-">>) /\ Len(<<"-">>) = 1
    <3>1. <<"-">> \in Seq({"-"}) /\ Len(<<"-">>) = 1
      OBVIOUS
    <3> QED
      BY <3>1 DEF IsString
  <2>4. IsString(d) /\ Len(d) = 1
    BY <2>3, SafeNameString
  <2>5. /\ IsString(Dashed(p)) /\ SafeName(Dashed(p)) = d \o SafeName(p)
        /\ IsString(Dashed(q)) /\ SafeName(Dashed(q)) = d \o SafeName(q)
    BY <2>3, DashedString, SafeNameConcat DEF Dashed
  <2>6. /\ Kept(p) = Cut(SafeName(Dashed(p)), k) /\ IsString(SafeName(Dashed(p)))
        /\ Kept(q) = Cut(SafeName(Dashed(q)), k) /\ IsString(SafeName(Dashed(q)))
    BY <2>1, <2>2, <2>5, SafeCut, SafeNameString
  <2> HIDE DEF d
  <2>7. Cut(d \o SafeName(p), 10) = Cut(d \o SafeName(q), 10)
    <3>1. 10 \in Nat
      OBVIOUS
    <3>2. /\ Cut(Kept(p), 10) = Cut(SafeName(Dashed(p)), 10)
          /\ Cut(Kept(q), 10) = Cut(SafeName(Dashed(q)), 10)
      BY <2>1, <2>6, <3>1, CutTwice
    <3> QED
      BY <1>4, <2>5, <3>2
  <2>8. /\ Cut(d \o SafeName(p), 9 + 1) = d \o Cut(SafeName(p), 9)
        /\ Cut(d \o SafeName(q), 9 + 1) = d \o Cut(SafeName(q), 9)
    BY <1>1, <2>4, CutDashed
  <2>9. IsString(Cut(SafeName(p), 9)) /\ IsString(Cut(SafeName(q), 9))
    BY <1>1, CutIs
  <2>10. 9 + 1 = 10
    OBVIOUS
  <2>11. d \o Cut(SafeName(p), 9) = d \o Cut(SafeName(q), 9)
    BY <2>7, <2>8, <2>10
  <2>12. Cut(SafeName(p), 9) = Cut(SafeName(q), 9)
    BY ONLY <2>4, <2>9, <2>11, SameFront
  <2> QED
    BY <1>2, <2>12
<1> QED
  BY <1>3, <1>4 DEF MayShare, Kept

\* "-file" may be added to any name.
LEMMA WithFileEnd ==
  ASSUME NEW p, IsString(p)
  PROVE  IsString(p \o FileEnd) /\ p \o FileEnd # <<>>
<1>1. FileEnd \in Seq({"-", "f", "i", "l", "e"}) /\ Len(FileEnd) = 5
  BY DEF FileEnd
<1>2. IsString(FileEnd)
  BY <1>1 DEF IsString
<1>3. IsString(p \o FileEnd) /\ Len(p \o FileEnd) = Len(p) + 5
  BY <1>1, <1>2, Joined
<1>4. Len(p) \in Nat /\ Len(<<>>) = 0
  BY StringLength
<1> QED
  BY <1>3, <1>4

\* Secrets are shared only with the release.
LEMMA SecretsShared ==
  ASSUME NEW p, NEW q, IsString(slug), IsString(track), IsString(p), IsString(q),
         p # <<>>, q # <<>>, SecretName(slug, track, p) = SecretName(slug, track, q)
  PROVE  MayShare(p, q)
<1>1. SecretEnd \in Seq({"-", "s", "e", "c", "r", "t"})
  BY DEF SecretEnd
<1>2. IsString(SecretEnd)
  BY <1>1 DEF IsString
<1>3. IsString(DeployName(slug, track, p)) /\ IsString(DeployName(slug, track, q))
  BY DeployNameString
<1>4. DeployName(slug, track, p) \o SecretEnd = DeployName(slug, track, q) \o SecretEnd
  BY DEF SecretName
<1>5. DeployName(slug, track, p) = DeployName(slug, track, q)
  BY ONLY <1>2, <1>3, <1>4, SameEnd
<1> QED
  BY <1>5, Shared

-----------------------------------------------------------------------------
(* Projects that share a host. *)

\* The host of a dependency, before it is limited.
HostOf(i) == DependencyHost(projects[i].name, host)

\* The inductive invariant about hosts: the main project comes last, with its own
\* host, and those before it have the limited hosts that were made of it.
HostInv ==
  /\ pc = "host" => projects = <<>>
  /\ pc = "done" => projects # <<>> /\ projects[Len(projects)].host = host
  /\ \A i \in DOMAIN projects : IsDependency(i) =>
       ~CannotLimit(HostOf(i)) /\ projects[i].host = Limited(HostOf(i))

\* What a longer list of projects has at each place.
LEMMA ListGrows ==
  ASSUME Inv, NEW e, projects' = Append(projects, e)
  PROVE  /\ Len(projects) \in Nat /\ Len(projects') = Len(projects) + 1
         /\ DOMAIN projects = 1..Len(projects) /\ DOMAIN projects' = 1..Len(projects) + 1
         /\ \A i \in DOMAIN projects : projects'[i] = projects[i]
         /\ projects'[Len(projects) + 1] = e /\ projects' # <<>>
<1>1. PICK T : projects \in Seq(T)
  BY DEF Inv
<1>2. T \subseteq T \cup {e}
  OBVIOUS
<1>3. projects \in Seq(T \cup {e})
  BY <1>1, <1>2, SeqMonotonic
<1>4. projects' \in Seq(T \cup {e})
  BY <1>3
<1>5. /\ Len(projects) \in Nat /\ Len(projects') = Len(projects) + 1
      /\ DOMAIN projects = 1..Len(projects) /\ DOMAIN projects' = 1..Len(projects')
      /\ \A i \in 1..Len(projects) : projects'[i] = projects[i]
      /\ projects'[Len(projects) + 1] = e
  BY <1>3, <1>4, LenProperties, AppendProperties
<1>6. projects' # <<>>
  BY <1>5
<1> QED
  BY <1>5, <1>6

\* Each host is made when the main one has been limited for good.
LEMMA StepHostInv == Inv /\ HostInv /\ [Next]_vars => HostInv'
<1> SUFFICES ASSUME Inv, HostInv, [Next]_vars PROVE HostInv'
  OBVIOUS
<1>1. CASE LimitHost
  <2>1. projects = <<>> /\ projects' = projects /\ pc' \in {"dependencies", "raised"}
    BY <1>1 DEF LimitHost, HostInv
  <2>2. DOMAIN projects' = {}
    BY <2>1
  <2> QED
    BY <2>1, <2>2 DEF HostInv
<1>2. CASE AddDependency
  <2> DEFINE h == DependencyHost(Head(dependencies), host)
             e == [name |-> Head(dependencies), host |-> Limited(h)]
  <2>1. pc = "dependencies" /\ host' = host
    BY <1>2 DEF AddDependency
  <2>2. CASE pc' = "raised" /\ UNCHANGED <<projects, dependencies>>
    BY <2>1, <2>2 DEF HostInv, IsDependency, HostOf
  <2>3. CASE /\ ~CannotLimit(h) /\ projects' = Append(projects, e)
             /\ dependencies' = Tail(dependencies) /\ UNCHANGED pc
    <3>1. e.name = Head(dependencies) /\ e.host = Limited(DependencyHost(e.name, host))
          /\ ~CannotLimit(DependencyHost(e.name, host))
      BY <2>3
    <3> HIDE DEF e, h
    <3>2. /\ Len(projects) \in Nat
          /\ DOMAIN projects = 1..Len(projects) /\ DOMAIN projects' = 1..Len(projects) + 1
          /\ \A i \in DOMAIN projects : projects'[i] = projects[i]
          /\ projects'[Len(projects) + 1] = e
      BY <2>3, ListGrows
    <3>3. ASSUME NEW i \in DOMAIN projects'
          PROVE  /\ ~CannotLimit(DependencyHost(projects'[i].name, host))
                 /\ projects'[i].host = Limited(DependencyHost(projects'[i].name, host))
      <4>1. CASE i \in DOMAIN projects
        BY <2>1, <3>2, <4>1 DEF HostInv, IsDependency, HostOf
      <4>2. CASE i = Len(projects) + 1
        BY <3>1, <3>2, <4>2
      <4> QED
        BY <3>2, <4>1, <4>2
    <3> QED
      BY <2>1, <2>3, <3>3 DEF HostInv, IsDependency, HostOf
  <2> QED
    BY <1>2, <2>2, <2>3 DEF AddDependency
<1>3. CASE Complete
  <2> DEFINE e == [name |-> main, host |-> host]
  <2>1. /\ pc = "dependencies" /\ pc' = "done" /\ host' = host
        /\ projects' = Append(projects, e) /\ e.host = host
    BY <1>3 DEF Complete
  <2> HIDE DEF e
  <2>2. /\ Len(projects) \in Nat /\ Len(projects') = Len(projects) + 1
        /\ DOMAIN projects = 1..Len(projects) /\ DOMAIN projects' = 1..Len(projects) + 1
        /\ \A i \in DOMAIN projects : projects'[i] = projects[i]
        /\ projects'[Len(projects) + 1] = e /\ projects' # <<>>
    BY <2>1, ListGrows
  <2>3. ASSUME NEW i \in DOMAIN projects', i < Len(projects')
        PROVE  /\ ~CannotLimit(DependencyHost(projects'[i].name, host))
               /\ projects'[i].host = Limited(DependencyHost(projects'[i].name, host))
    <3>1. i \in DOMAIN projects
      BY <2>2, <2>3
    <3> QED
      BY <2>1, <2>2, <3>1 DEF HostInv, IsDependency, HostOf
  <2> QED
    BY <2>1, <2>2, <2>3 DEF HostInv, IsDependency, HostOf
<1>4. CASE UNCHANGED vars
  BY <1>4 DEF vars, HostInv, IsDependency, HostOf
<1> QED
  BY <1>1, <1>2, <1>3, <1>4 DEF Next

\* The label of a dependency's host: the beginning of the main one's, and a hash.
LEMMA DependencyLabel ==
  ASSUME NEW name, IsHost(host)
  PROVE  LET h == DependencyHost(name, host)
             begin == Cut(host.label, 55)
         IN /\ h.label = begin \o HashOf(name, 7) /\ LabelRoom(h) = LabelRoom(host)
            /\ IsString(begin) /\ IsString(HashOf(name, 7)) /\ IsString(h.label)
            /\ Len(HashOf(name, 7)) = 8 /\ Len(h.label) = Len(begin) + 8
            /\ Len(begin) = IF Len(host.label) <= 55 THEN Len(host.label) ELSE 55
<1>1. 55 \in Nat /\ 7 + 1 = 8
  OBVIOUS
<1>2. IsString(HashOf(name, 7)) /\ Len(HashOf(name, 7)) = 8
  BY <1>1, HashLength
<1>3. /\ IsString(Cut(host.label, 55))
      /\ Len(Cut(host.label, 55)) = IF Len(host.label) <= 55 THEN Len(host.label) ELSE 55
  BY <1>1, CutIs DEF IsHost
<1>4. /\ IsString(Cut(host.label, 55) \o HashOf(name, 7))
      /\ Len(Cut(host.label, 55) \o HashOf(name, 7)) = Len(Cut(host.label, 55)) + 8
  <2> DEFINE a == Cut(host.label, 55)
             b == HashOf(name, 7)
  <2>1. IsString(a) /\ IsString(b) /\ Len(b) = 8
    BY <1>2, <1>3
  <2> HIDE DEF a, b
  <2>2. IsString(a \o b) /\ Len(a \o b) = Len(a) + 8
    BY <2>1, Joined
  <2> QED
    BY <2>2 DEF a, b
<1>5. /\ DependencyHost(name, host).label = Cut(host.label, 55) \o HashOf(name, 7)
      /\ LabelRoom(DependencyHost(name, host)) = LabelRoom(host)
  BY DEF DependencyHost, WithLabel, LabelRoom
<1> QED
  BY <1>2, <1>3, <1>4, <1>5

\* Room for a label is never more than a first label may have.
LEMMA LabelRoomIs ==
  ASSUME IsHost(host)
  PROVE  LabelRoom(host) \in Int /\ LabelRoom(host) <= 63
<1> DEFINE n == Len(host.domain)
<1>1. n \in Nat
  BY StringLength DEF IsHost
<1>2. LabelRoom(host) = 64 - n - 1
  BY DEF LabelRoom, CNLength
<1> HIDE DEF n
<1> QED
  BY <1>1, <1>2

\* A label that was cut takes all the room, and ends with two digits of its hash.
LEMMA CutLabel ==
  ASSUME NEW s, IsString(s), NEW max \in Int, ~(Len(s) <= max), ~CannotTruncate(s, max)
  PROVE  \E c : /\ IsString(c) /\ Truncated(s, max) = c \o HashOf(s, 2)
                /\ Len(Truncated(s, max)) = max
<1> DEFINE k == IF max - 3 >= 1 THEN max - 3 ELSE 1
           c == Cut(s, k)
           d == HashOf(s, 2)
<1>1. k \in Nat /\ (max - 3 >= 1 => k = max - 3) /\ (~(max - 3 >= 1) => k = 1)
  OBVIOUS
<1>2. Truncated(s, max) = c \o d
  BY DEF Truncated
<1> HIDE DEF k
<1>3. /\ IsString(c) /\ Len(c) = IF Len(s) <= k THEN Len(s) ELSE k
  BY <1>1, CutIs
<1>4. IsString(d) /\ Len(d) = 3
  <2>1. IsString(HashOf(s, 2)) /\ Len(HashOf(s, 2)) = 2 + 1
    BY HashLength
  <2> QED
    BY <2>1
<1> HIDE DEF c, d
<1>5. Len(Truncated(s, max)) = Len(c) + 3
  BY <1>2, <1>3, <1>4, Joined
<1>6. Len(Truncated(s, max)) <= max
  BY <1>3, <1>5, StringLength DEF CannotTruncate
<1>7. Len(s) \in Nat
  BY StringLength
<1>8. Len(Truncated(s, max)) = max
  BY <1>1, <1>3, <1>5, <1>6, <1>7
<1> QED
  BY <1>2, <1>3, <1>8 DEF d

\* Dependencies with the same host have the same digits.
LEMMA DependenciesShare ==
  ASSUME NEW m, NEW n, IsHost(host),
         ~CannotLimit(DependencyHost(m, host)), ~CannotLimit(DependencyHost(n, host)),
         Limited(DependencyHost(m, host)) = Limited(DependencyHost(n, host))
  PROVE  Digits(m) = Digits(n)
<1> DEFINE g == DependencyHost(m, host)
           h == DependencyHost(n, host)
           begin == Cut(host.label, 55)
           R == LabelRoom(host)
<1>1. /\ g.label = begin \o HashOf(m, 7) /\ LabelRoom(g) = R
      /\ IsString(begin) /\ IsString(HashOf(m, 7)) /\ IsString(g.label)
      /\ Len(g.label) = Len(begin) + 8
      /\ h.label = begin \o HashOf(n, 7) /\ LabelRoom(h) = R
      /\ IsString(HashOf(n, 7)) /\ IsString(h.label)
      /\ Len(h.label) = Len(begin) + 8
  BY DependencyLabel
<1>2. R \in Int
  BY LabelRoomIs
<1>3. Truncated(g.label, R) = Truncated(h.label, R)
  BY <1>1 DEF Limited, WithLabel
<1>4. ~CannotTruncate(g.label, R) /\ ~CannotTruncate(h.label, R)
  BY <1>1 DEF CannotLimit
<1>5. /\ Digits(m) = IF Len(g.label) <= R THEN HashOf(m, 7) ELSE HashOf(g.label, 2)
      /\ Digits(n) = IF Len(h.label) <= R THEN HashOf(n, 7) ELSE HashOf(h.label, 2)
  BY DEF Digits
<1> HIDE DEF g, h, begin, R
<1>6. CASE Len(g.label) <= R
  <2>1. begin \o HashOf(m, 7) = begin \o HashOf(n, 7)
    BY <1>1, <1>3, <1>6 DEF Truncated
  <2>2. HashOf(m, 7) = HashOf(n, 7)
    BY <1>1, <2>1, SameFront
  <2> QED
    BY <1>1, <1>5, <1>6, <2>2
<1>7. CASE ~(Len(g.label) <= R)
  <2>1. ~(Len(h.label) <= R)
    BY <1>1, <1>7
  <2>2. PICK c : IsString(c) /\ Truncated(g.label, R) = c \o HashOf(g.label, 2)
    BY <1>1, <1>2, <1>4, <1>7, CutLabel
  <2>3. PICK d : IsString(d) /\ Truncated(h.label, R) = d \o HashOf(h.label, 2)
    BY <1>1, <1>2, <1>4, <2>1, CutLabel
  <2>4. /\ IsString(HashOf(g.label, 2)) /\ Len(HashOf(g.label, 2)) = 2 + 1
        /\ IsString(HashOf(h.label, 2)) /\ Len(HashOf(h.label, 2)) = 2 + 1
    BY HashLength
  <2>5. c \o HashOf(g.label, 2) = d \o HashOf(h.label, 2)
    BY <1>3, <2>2, <2>3
  <2>6. HashOf(g.label, 2) = HashOf(h.label, 2)
    BY ONLY <2>2, <2>3, <2>4, <2>5, SameEnd
  <2> QED
    BY <1>5, <1>7, <2>1, <2>6
<1> QED
  BY <1>6, <1>7

\* A dependency has the host of the main project only if that takes all the room.
LEMMA MainShares ==
  ASSUME NEW m, IsHost(host), ~CannotLimit(DependencyHost(m, host)),
         Limited(DependencyHost(m, host)) = host
  PROVE  Len(host.label) = LabelRoom(host) /\ Ends(host.label, Digits(m))
<1> DEFINE h == DependencyHost(m, host)
           begin == Cut(host.label, 55)
           R == LabelRoom(host)
           label == host.label
<1>1. /\ h.label = begin \o HashOf(m, 7) /\ LabelRoom(h) = R
      /\ IsString(begin) /\ IsString(HashOf(m, 7)) /\ IsString(h.label)
      /\ Len(h.label) = Len(begin) + 8
      /\ Len(begin) = IF Len(label) <= 55 THEN Len(label) ELSE 55
  BY DependencyLabel
<1>2. R \in Int /\ R <= 63 /\ IsString(label) /\ Len(label) \in Nat
  BY LabelRoomIs, StringLength DEF IsHost
<1>3. label = Truncated(h.label, R)
  BY <1>1 DEF Limited, WithLabel
<1>4. ~CannotTruncate(h.label, R)
  BY <1>1 DEF CannotLimit
<1>5. Digits(m) = IF Len(h.label) <= R THEN HashOf(m, 7) ELSE HashOf(h.label, 2)
  BY DEF Digits
<1> HIDE DEF h, begin, R, label
<1>6. CASE Len(h.label) <= R
  <2>1. label = begin \o HashOf(m, 7)
    BY <1>1, <1>3, <1>6 DEF Truncated
  <2>2. Len(label) = Len(begin) + 8
    BY <1>1, <2>1
  <2>3. Len(label) = R
    BY <1>1, <1>2, <1>6, <2>2
  <2>4. Ends(label, HashOf(m, 7))
    BY <1>1, <2>1, EndsSo
  <2> QED
    BY <1>5, <1>6, <2>3, <2>4 DEF label, R
<1>7. CASE ~(Len(h.label) <= R)
  <2>1. PICK c : /\ IsString(c) /\ Truncated(h.label, R) = c \o HashOf(h.label, 2)
                 /\ Len(Truncated(h.label, R)) = R
    <3>1. IsString(h.label) /\ R \in Int
      BY <1>1, <1>2
    <3> QED
      BY ONLY <1>4, <1>7, <3>1, CutLabel
  <2>2. IsString(HashOf(h.label, 2))
    BY HashLength
  <2>3. Ends(label, HashOf(h.label, 2))
    BY <1>3, <2>1, <2>2, EndsSo
  <2> QED
    BY <1>3, <1>5, <1>7, <2>1, <2>3 DEF label, R
<1> QED
  BY <1>6, <1>7

\* Hosts are shared for no other reason.
LEMMA HostsApart == Inv /\ HostInv => HostsDiffer
<1> SUFFICES ASSUME Inv, HostInv, NEW i \in DOMAIN projects, NEW j \in DOMAIN projects,
                    IsDependency(i), projects[i].host = projects[j].host
             PROVE  LET d == Digits(projects[i].name)
                    IN IF IsDependency(j)
                       THEN d = Digits(projects[j].name)
                       ELSE Len(host.label) = LabelRoom(host) /\ Ends(host.label, d)
  BY DEF HostsDiffer
<1>1. IsHost(host)
  BY DEF Inv
<1>2. ~CannotLimit(HostOf(i)) /\ projects[i].host = Limited(HostOf(i))
  BY DEF HostInv
<1>3. CASE IsDependency(j)
  <2>1. ~CannotLimit(HostOf(j)) /\ projects[j].host = Limited(HostOf(j))
    BY <1>3 DEF HostInv
  <2>2. Digits(projects[i].name) = Digits(projects[j].name)
    BY <1>1, <1>2, <2>1, DependenciesShare DEF HostOf
  <2> QED
    BY <1>3, <2>2
<1>4. CASE ~IsDependency(j)
  <2>1. pc = "done" /\ j = Len(projects)
    <3>1. PICK T : projects \in Seq(T)
      BY DEF Inv
    <3>2. j \in 1..Len(projects) /\ Len(projects) \in Nat
      BY <3>1, LenProperties
    <3> QED
      BY <1>4, <3>2 DEF IsDependency
  <2>2. projects[j].host = host
    BY <2>1 DEF HostInv
  <2>3. Limited(DependencyHost(projects[i].name, host)) = host
    BY <1>2, <2>2 DEF HostOf
  <2> QED
    BY <1>1, <1>2, <1>4, <2>3, MainShares DEF HostOf
<1> QED
  BY <1>3, <1>4

\* Projects share a release, a secret or a host, and a project its release with
\* itself on another track, only as NamesDiffer allows (get_deploy_name,
\* get_secret_name, get_dependency_project_url).
THEOREM NamesDifferHolds == Spec => []NamesDiffer
<1>1. Init => HostInv
  <2> SUFFICES ASSUME Init PROVE HostInv
    OBVIOUS
  <2>1. projects = <<>> /\ DOMAIN projects = {} /\ pc = "host"
    BY DEF Init
  <2> QED
    BY <2>1 DEF HostInv
<1>2. Inv /\ HostInv => NamesDiffer
  <2> SUFFICES ASSUME Inv, HostInv PROVE NamesDiffer
    OBVIOUS
  <2>1. IsString(slug) /\ IsString(track)
    <3>1. slug \in Seq(Char) /\ track \in Seq(Char)
      BY ProjectSetupAssumption DEF Inv
    <3> QED
      BY <3>1 DEF IsString
  <2>2. \A i \in DOMAIN projects : IsString(projects[i].name) /\ projects[i].name # <<>>
    <3>1. \A i \in DOMAIN projects : projects[i].name \in Seq(Char) /\ projects[i].name # <<>>
      BY ProjectSetupAssumption DEF Inv
    <3> QED
      BY <3>1 DEF IsString
  <2>3. \A t \in Tracks : IsString(t)
    <3>1. \A t \in Tracks : t \in Seq(Char)
      BY ProjectSetupAssumption
    <3> QED
      BY <3>1 DEF IsString
  <2>4. TracksDiffer
    BY <2>1, <2>2, <2>3, TracksShared DEF TracksDiffer, Release
  <2>5. ReleasesDiffer
    <3> SUFFICES ASSUME NEW i \in DOMAIN projects, NEW j \in DOMAIN projects
                 PROVE  LET m == projects[i].name  n == projects[j].name
                        IN /\ Release(i) = Release(j) \/ Secrets(i)[1] = Secrets(j)[1] =>
                                MayShare(m, n) /\ SafeName(Cut(m, 9)) = SafeName(Cut(n, 9))
                           /\ Secrets(i)[2] = Secrets(j)[2] =>
                                MayShare(m \o FileEnd, n \o FileEnd)
                           /\ Secrets(i)[2] = Secrets(j)[1] => MayShare(m \o FileEnd, n)
      BY DEF ReleasesDiffer
    <3> DEFINE m == projects[i].name
               n == projects[j].name
    <3>1. /\ Secrets(i)[1] = SecretName(slug, track, m)
          /\ Secrets(i)[2] = SecretName(slug, track, m \o FileEnd)
          /\ Secrets(j)[1] = SecretName(slug, track, n)
          /\ Secrets(j)[2] = SecretName(slug, track, n \o FileEnd)
      BY DEF Secrets, FileSecretName
    <3>2. Release(i) = DeployName(slug, track, m) /\ Release(j) = DeployName(slug, track, n)
      BY DEF Release
    <3>3. IsString(m) /\ m # <<>> /\ IsString(n) /\ n # <<>>
      BY <2>2
    <3> HIDE DEF m, n
    <3>4. /\ IsString(m \o FileEnd) /\ m \o FileEnd # <<>>
          /\ IsString(n \o FileEnd) /\ n \o FileEnd # <<>>
      BY <3>3, WithFileEnd
    <3>5. Release(i) = Release(j) \/ Secrets(i)[1] = Secrets(j)[1] => MayShare(m, n)
      BY <2>1, <3>1, <3>2, <3>3, Shared, SecretsShared
    <3>6. MayShare(m, n) => SafeName(Cut(m, 9)) = SafeName(Cut(n, 9))
      BY <2>1, <3>3, SharedBegin
    <3>7. Secrets(i)[2] = Secrets(j)[2] => MayShare(m \o FileEnd, n \o FileEnd)
      BY <2>1, <3>1, <3>4, SecretsShared
    <3>8. Secrets(i)[2] = Secrets(j)[1] => MayShare(m \o FileEnd, n)
      BY <2>1, <3>1, <3>3, <3>4, SecretsShared
    <3> QED
      BY <3>5, <3>6, <3>7, <3>8 DEF m, n
  <2> QED
    BY <2>4, <2>5, HostsApart DEF NamesDiffer
<1>3. Inv /\ HostInv /\ [Next]_vars => HostInv'
  BY StepHostInv
<1> QED
  BY <1>1, <1>2, <1>3, ProjectSetupInvariant, PTL DEF Spec

-----------------------------------------------------------------------------
(* The types, for a hash function that writes hexadecimal digits. *)

\* What hashlib promises: 64 characters, whatever is hashed.
HexDigest == \A s \in Seq(Char) : Digest(s) \in Seq(Char) /\ Len(Digest(s)) = 64

\* The beginning of a digest is made of characters.
LEMMA HashOfChar ==
  ASSUME HexDigest, NEW s \in Seq(Char), NEW n \in 1..64
  PROVE  HashOf(s, n) \in Seq(Char)
<1>1. Digest(s) \in Seq(Char) /\ Len(Digest(s)) = 64
  BY DEF HexDigest
<1>2. \A i \in 1..n : i \in 1..Len(Digest(s))
  BY <1>1
<1>3. \A i \in 1..n : Digest(s)[i] \in Char
  <2> DEFINE d == Digest(s)
  <2>1. d \in Seq(Char) /\ \A i \in 1..n : i \in 1..Len(d)
    BY <1>1, <1>2
  <2> HIDE DEF d
  <2>2. \A i \in 1..n : d[i] \in Char
    BY <2>1, ElementOfSeq
  <2> QED
    BY <2>2 DEF d
<1>4. SubSeq(Digest(s), 1, n) \in Seq(Char)
  BY <1>3, SubSeqProperties
<1>5. <<"-">> \in Seq(Char)
  BY NamingAssumption
<1> QED
  BY <1>4, <1>5, ConcatProperties DEF HashOf

\* Nothing else is written in the place of what is cut.
LEMMA TruncatedOfChar ==
  ASSUME HexDigest, NEW s \in Seq(Char), NEW max \in Int
  PROVE  Truncated(s, max) \in Seq(Char)
<1> DEFINE k == IF max - 3 >= 1 THEN max - 3 ELSE 1
<1>1. k \in Nat
  OBVIOUS
<1>2. Truncated(s, max) = IF Len(s) <= max THEN s ELSE Cut(s, k) \o HashOf(s, 2)
  BY DEF Truncated
<1> HIDE DEF k
<1>3. Cut(s, k) \in Seq(Char) /\ HashOf(s, 2) \in Seq(Char)
  <2>1. 2 \in 1..64
    OBVIOUS
  <2> QED
    BY <1>1, <2>1, CutOfChar, HashOfChar
<1>4. Cut(s, k) \o HashOf(s, 2) \in Seq(Char)
  BY <1>3, ConcatProperties
<1> QED
  BY <1>2, <1>4

HostType == [label : Seq(Char), domain : Seq(Char), labels : Nat]

\* Hosts are made of hosts.
LEMMA HostTypes ==
  ASSUME HexDigest, NEW h \in HostType, NEW name \in Seq(Char)
  PROVE  Limited(h) \in HostType /\ DependencyHost(name, h) \in HostType
<1>1. /\ h.label \in Seq(Char) /\ h.domain \in Seq(Char) /\ h.labels \in Nat
  BY DEF HostType
<1>2. LabelRoom(h) \in Int
  <2>1. Len(h.domain) \in Nat
    BY <1>1, LenProperties
  <2> QED
    BY <2>1 DEF LabelRoom, CNLength
<1>3. Truncated(h.label, LabelRoom(h)) \in Seq(Char)
  BY <1>1, <1>2, TruncatedOfChar
<1>4. Cut(h.label, 55) \in Seq(Char) /\ HashOf(name, 7) \in Seq(Char)
  <2>1. 7 \in 1..64 /\ 55 \in Nat
    OBVIOUS
  <2> QED
    BY <1>1, <2>1, CutOfChar, HashOfChar
<1>5. Cut(h.label, 55) \o HashOf(name, 7) \in Seq(Char)
  BY <1>4, ConcatProperties
<1> QED
  BY <1>1, <1>3, <1>5 DEF Limited, DependencyHost, WithLabel, HostType

ProjectType == [name : Names, host : HostType]

\* The next project on the list, whichever step adds it.
LEMMA AppendTypes ==
  ASSUME projects \in Seq(ProjectType), NEW n \in Names, NEW h \in HostType,
         projects' = Append(projects, [name |-> n, host |-> h])
  PROVE  /\ projects' \in Seq(ProjectType)
         /\ projects' # <<>> /\ projects'[Len(projects')].name = n
<1> DEFINE e == [name |-> n, host |-> h]
<1>1. e \in ProjectType /\ e.name = n /\ projects' = Append(projects, e)
  BY DEF ProjectType
<1> HIDE DEF e
<1>2. projects' \in Seq(ProjectType) /\ Len(projects') = Len(projects) + 1
      /\ projects'[Len(projects) + 1] = e
  BY <1>1, AppendProperties
<1>3. Len(projects) \in Nat /\ Len(<<>>) = 0
  BY LenProperties
<1> QED
  BY <1>1, <1>2, <1>3

\* Each step keeps the types.
LEMMA StepTypes == HexDigest /\ TypeOK /\ [Next]_vars => TypeOK'
<1> SUFFICES ASSUME HexDigest, TypeOK, [Next]_vars PROVE TypeOK'
  OBVIOUS
<1>1. /\ host \in HostType /\ projects \in Seq(ProjectType) /\ dependencies \in Seq(Names)
      /\ slug \in Slugs /\ track \in Tracks /\ main \in Names
  BY DEF TypeOK, HostType, ProjectType
<1>2. CASE LimitHost
  <2>1. host' \in HostType
    <3>1. Limited(host) \in HostType
      <4>1. \E s : s \in Seq(Char)
        BY <1>1, ProjectSetupAssumption
      <4> QED
        BY <1>1, <4>1, HostTypes
    <3> QED
      BY <1>1, <1>2, <3>1 DEF LimitHost
  <2>2. pc' \in {"dependencies", "raised"} /\ UNCHANGED <<slug, track, main, dependencies, projects>>
    BY <1>2 DEF LimitHost
  <2> QED
    BY <1>1, <2>1, <2>2 DEF TypeOK, HostType, ProjectType
<1>3. CASE AddDependency
  <2> DEFINE h == DependencyHost(Head(dependencies), host)
  <2>1. Head(dependencies) \in Names /\ Tail(dependencies) \in Seq(Names)
    BY <1>1, <1>3, HeadTailProperties DEF AddDependency
  <2>2. Head(dependencies) \in Seq(Char)
    BY <2>1, ProjectSetupAssumption
  <2>3. h \in HostType
    BY <1>1, <2>2, HostTypes
  <2>4. Limited(h) \in HostType
    BY <2>2, <2>3, HostTypes
  <2>5. CASE pc' = "raised" /\ UNCHANGED <<projects, dependencies>>
    BY <1>1, <1>3, <2>5 DEF AddDependency, TypeOK, HostType, ProjectType
  <2>6. CASE /\ projects' = Append(projects, [name |-> Head(dependencies), host |-> Limited(h)])
             /\ dependencies' = Tail(dependencies) /\ UNCHANGED pc
    <3>1. projects' \in Seq(ProjectType)
      BY <1>1, <2>1, <2>4, <2>6, AppendTypes
    <3>2. pc' = "dependencies" /\ UNCHANGED <<slug, track, main, host>>
      BY <1>3, <2>6 DEF AddDependency
    <3> QED
      BY <1>1, <2>1, <2>6, <3>1, <3>2 DEF TypeOK, HostType, ProjectType
  <2> QED
    BY <1>3, <2>5, <2>6 DEF AddDependency
<1>4. CASE Complete
  <2>1. /\ projects' \in Seq(ProjectType)
        /\ projects' # <<>> /\ projects'[Len(projects')].name = main
    BY <1>1, <1>4, AppendTypes DEF Complete
  <2>2. pc' = "done" /\ UNCHANGED <<slug, track, main, host, dependencies>>
    BY <1>4 DEF Complete
  <2> QED
    BY <1>1, <2>1, <2>2 DEF TypeOK, HostType, ProjectType
<1>5. CASE UNCHANGED vars
  BY <1>5 DEF vars, TypeOK
<1> QED
  BY <1>2, <1>3, <1>4, <1>5 DEF Next

\* Hosts stay hosts, names names, and the project that was asked for comes last:
\* what is cut and hashed on the way is a string again (Project.__init__,
\* get_dependency_project_url).
THEOREM TypesCorrect == ASSUME HexDigest PROVE Spec => []TypeOK
<1>1. Init => TypeOK
  <2> SUFFICES ASSUME Init PROVE TypeOK
    OBVIOUS
  <2>1. dependencies \in Seq(Names)
    BY InitInv DEF Inv
  <2>2. host \in [label : Seq(Char), domain : Seq(Char), labels : Nat]
    BY ProjectSetupAssumption DEF Init
  <2> QED
    BY <2>1, <2>2 DEF Init, TypeOK
<1>2. TypeOK /\ [Next]_vars => TypeOK'
  BY StepTypes
<1> QED
  BY <1>1, <1>2, PTL DEF Spec
=============================================================================
