---------------------------- MODULE SecretsProofs -----------------------------
(***************************************************************************)
(* For any number of projects, any names and any writes to Vault: the two  *)
(* secrets of a project fit together, the files of a project are also      *)
(* those of the projects after it, each variable has the strongest of its  *)
(* sources, and each file is the one its variable names at the time.       *)
(***************************************************************************)
EXTENDS Secrets, TLAPS

\* Values that come from Vault.
FromVault(d) == \A x \in DOMAIN d : d[x].from \in {"main", "tf"}

\* The inductive invariant.  The values at hand are Vault's, so none of them is
\* taken for a mounted file; the file secret of the project at hand and of those
\* before it has no file that the environment has not.
Inv ==
  /\ p \in Projects
  /\ fileSecret \in [Projects -> {fileSecret[q] : q \in Projects}]
  /\ secret \in [Projects -> {secret[q] : q \in Projects}]
  /\ file \in [Files -> {file[f] : f \in Files}]
  /\ FromVault(read)
  /\ pc = "done" => p = N
  /\ pc = "secret" => DOMAIN fileSecret[p] = FilesSet
  /\ \A q \in Finished : DOMAIN fileSecret[q] \subseteq FilesSet
  /\ FilesAnnounced
  /\ FilesAccumulate

-----------------------------------------------------------------------------
(* The operators that put secrets together. *)

\* dict.update has the names of both dicts, and the second one's values win.
LEMMA UpdatedDef ==
  ASSUME NEW f, NEW g
  PROVE  /\ DOMAIN Updated(f, g) = DOMAIN f \cup DOMAIN g
         /\ \A x \in DOMAIN g : Updated(f, g)[x] = g[x]
         /\ \A x \in DOMAIN f \ DOMAIN g : Updated(f, g)[x] = f[x]
BY DEF Updated

\* The names of what is put together.
LEMMA UpdatedDomain == \A f, g : DOMAIN Updated(f, g) = DOMAIN f \cup DOMAIN g
BY DEF Updated

\* A value no dict has is not in what is put together from them.
LEMMA UpdatedLacks ==
  ASSUME NEW f, NEW g, NEW v,
         \A x \in DOMAIN f : f[x] # v, \A x \in DOMAIN g : g[x] # v
  PROVE  \A x \in DOMAIN Updated(f, g) : Updated(f, g)[x] # v
<1> SUFFICES ASSUME NEW x \in DOMAIN Updated(f, g) PROVE Updated(f, g)[x] # v
  OBVIOUS
<1>1. CASE x \in DOMAIN g
  BY <1>1 DEF Updated
<1>2. CASE x \in DOMAIN f /\ x \notin DOMAIN g
  BY <1>2 DEF Updated
<1> QED
  BY <1>1, <1>2 DEF Updated

\* Neither putting together nor leaving out makes a value that is not Vault's.
LEMMA UpdatedFromVault ==
  ASSUME NEW f, NEW g, FromVault(f), FromVault(g)
  PROVE  FromVault(Updated(f, g))
<1> SUFFICES ASSUME NEW x \in DOMAIN Updated(f, g)
             PROVE  Updated(f, g)[x].from \in {"main", "tf"}
  BY DEF FromVault
<1>1. CASE x \in DOMAIN g
  <2>1. Updated(f, g)[x] = g[x]
    BY <1>1 DEF Updated
  <2> QED
    BY <1>1, <2>1 DEF FromVault
<1>2. CASE x \in DOMAIN f /\ x \notin DOMAIN g
  <2>1. Updated(f, g)[x] = f[x]
    BY <1>2 DEF Updated
  <2> QED
    BY <1>2, <2>1 DEF FromVault
<1> QED
  BY <1>1, <1>2 DEF Updated

\* What is taken out leaves values of Vault.
LEMMA WithoutFromVault ==
  ASSUME NEW f, NEW S, FromVault(f)
  PROVE  FromVault(Without(f, S))
<1> SUFFICES ASSUME NEW x \in DOMAIN Without(f, S)
             PROVE  Without(f, S)[x].from \in {"main", "tf"}
  BY DEF FromVault
<1>1. x \in DOMAIN f /\ Without(f, S)[x] = f[x]
  BY DEF Without
<1> QED
  BY <1>1 DEF FromVault

\* A value is told from others by its source.
LEMMA ValueFrom == /\ \A source, n : Value(source, n).from = source
                   /\ Mount.from = "mount"
BY DEF Value, Mount

\* What a path of Vault answers has Vault as its source.
LEMMA AnswerFromVault ==
  ASSUME NEW t \in Paths
  PROVE  FromVault(Answer(t))
<1> SUFFICES ASSUME NEW x \in DOMAIN Answer(t) PROVE Answer(t)[x].from \in {"main", "tf"}
  BY DEF FromVault
<1>1. Answer(t)[x] = Value(t, vault[t][x])
  BY DEF Answer
<1> QED
  BY <1>1, ValueFrom DEF Paths

\* No variable of a project's environment is a mounted file.
LEMMA SecretDataIsEnv ==
  ASSUME NEW q \in Projects
  PROVE  \A x \in DOMAIN SecretData(q) : SecretData(q)[x] # Mount
<1> DEFINE ofProject == Const({Var(k) : k \in own[q]}, Value("env", q))
           ofAll == Const({Var(k) : k \in general}, Value("env", 0))
           urls == Const({Url(r) : r \in Projects \ {N}}, Value("url", 0))
           both == Updated(ofAll, ofProject)
           all == Updated(both, urls)
<1>1. Value("env", q) # Mount /\ Value("env", 0) # Mount /\ Value("url", 0) # Mount
  <2>1. /\ Value("env", q).from # Mount.from /\ Value("env", 0).from # Mount.from
        /\ Value("url", 0).from # Mount.from
    BY ValueFrom
  <2> QED
    BY <2>1
<1>2. \A S, v : \A x \in DOMAIN Const(S, v) : Const(S, v)[x] = v
  BY DEF Const
<1>3. /\ \A x \in DOMAIN ofProject : ofProject[x] # Mount
      /\ \A x \in DOMAIN ofAll : ofAll[x] # Mount
      /\ \A x \in DOMAIN urls : urls[x] # Mount
  BY <1>1, <1>2
<1>4. SecretData(q) = IF q < N THEN ofProject ELSE all
  BY DEF SecretData
<1> HIDE DEF ofProject, ofAll, urls
<1>5. \A x \in DOMAIN both : both[x] # Mount
  BY <1>3, UpdatedLacks
<1> HIDE DEF both
<1>6. \A x \in DOMAIN all : all[x] # Mount
  BY <1>3, <1>5, UpdatedLacks
<1> HIDE DEF all
<1> QED
  BY <1>3, <1>4, <1>6

\* In the merged secret exactly the names of the files have a path as value.
LEMMA MergedAnnouncesFiles ==
  ASSUME NEW q \in Projects, FromVault(read)
  PROVE  LET s == Updated(Updated(read, SecretData(q)), FilePaths)
         IN {x \in DOMAIN s : s[x] = Mount} = {Var(f) : f \in FilesSet}
<1> DEFINE vars1 == Updated(read, SecretData(q))
           s == Updated(vars1, FilePaths)
<1>1. \A x \in DOMAIN read : read[x] # Mount
  BY ValueFrom DEF FromVault
<1>2. \A x \in DOMAIN vars1 : vars1[x] # Mount
  BY <1>1, SecretDataIsEnv, UpdatedLacks
<1>3. DOMAIN FilePaths = {Var(f) : f \in FilesSet} /\ \A x \in DOMAIN FilePaths : FilePaths[x] = Mount
  BY DEF FilePaths, Const
<1> HIDE DEF vars1
<1>4. /\ DOMAIN s = DOMAIN vars1 \cup DOMAIN FilePaths
      /\ \A x \in DOMAIN FilePaths : s[x] = FilePaths[x]
      /\ \A x \in DOMAIN vars1 \ DOMAIN FilePaths : s[x] = vars1[x]
  BY UpdatedDef
<1> HIDE DEF s
<1>5. {x \in DOMAIN s : s[x] = Mount} = DOMAIN FilePaths
  BY <1>2, <1>3, <1>4
<1> QED
  BY <1>3, <1>5 DEF s, vars1

\* Making files of Vault's keys unsets no variable of the environment.
LEMMA FilesStaySet ==
  ASSUME NEW d, file' \in FilesFrom(d), file \in [Files -> {file[f] : f \in Files}]
  PROVE  /\ FilesSet \subseteq FilesSet'
         /\ file' \in [Files -> {file'[f] : f \in Files}]
<1> DEFINE New(f) == {[kind |-> "path", data |-> d[Raw(k)]] :
                        k \in {k \in FileKeys : Raw(k) \in DOMAIN d /\ Upper[k] = f}}
<1>1. /\ file' \in [Files -> UNION {New(f) \cup {file[f]} : f \in Files}]
      /\ \A f \in Files : file'[f] = file[f] \/ file'[f] \in New(f)
  BY DEF FilesFrom
<1>2. ASSUME NEW f \in Files, file[f].kind # "unset" PROVE file'[f].kind # "unset"
  <2>1. \A v \in New(f) : v.kind = "path"
    OBVIOUS
  <2> QED
    BY <1>1, <1>2, <2>1
<1> HIDE DEF New
<1>3. file' \in [Files -> {file'[f] : f \in Files}]
  BY <1>1
<1> QED
  BY <1>2, <1>3 DEF FilesSet

-----------------------------------------------------------------------------
\* At first nothing has been read and no file made.
LEMMA InitInv == Init => Inv
<1> SUFFICES ASSUME Init PROVE Inv
  OBVIOUS
<1>1. N \in Nat /\ 1 \in Projects
  BY SecretsAssumption DEF Projects
<1>2. Finished = {}
  BY DEF Init, Finished
<1>3. FromVault(read)
  BY DEF Init, FromVault, Empty
<1> QED
  BY <1>1, <1>2, <1>3 DEF Init, Inv, FilesAnnounced, FilesAccumulate

\* Steps that leave the finished projects and their secrets alone.
LEMMA SameFinished ==
  ASSUME Inv, FilesSet \subseteq FilesSet', UNCHANGED <<p, fileSecret, secret>>,
         pc # "done", pc' # "done"
  PROVE  /\ \A q \in Finished' : DOMAIN fileSecret'[q] \subseteq FilesSet'
         /\ FilesAnnounced' /\ FilesAccumulate'
BY DEF Inv, Finished, FilesAnnounced, FilesAccumulate

\* Each step keeps files and variables together.
LEMMA StepInv == Inv /\ [Next]_vars => Inv'
<1> USE SecretsAssumption
<1> SUFFICES ASSUME Inv, [Next]_vars PROVE Inv'
  OBVIOUS
<1>1. CASE Login
  <2>1. FilesSet' = FilesSet
    BY <1>1 DEF Login, FilesSet
  <2>2. pc # "done" /\ pc' \notin {"done", "secret"} /\ UNCHANGED <<p, file, read, fileSecret, secret>>
    BY <1>1 DEF Login, FirstStep
  <2>3. /\ \A q \in Finished' : DOMAIN fileSecret'[q] \subseteq FilesSet'
        /\ FilesAnnounced' /\ FilesAccumulate'
    BY <2>1, <2>2, SameFinished
  <2> QED
    BY <2>1, <2>2, <2>3 DEF Inv, FromVault
<1>2. CASE ReadMain
  <2>1. FilesSet \subseteq FilesSet' /\ file' \in [Files -> {file'[f] : f \in Files}]
    BY <1>2, FilesStaySet DEF ReadMain, Inv, FilesSet
  <2>2. pc # "done" /\ pc' \notin {"done", "secret"} /\ UNCHANGED <<p, fileSecret, secret>>
    BY <1>2 DEF ReadMain
  <2>3. FromVault(read')
    <3>1. FromVault(Answer("main")) /\ FromVault(Converted(Answer("main"))) /\ FromVault(Empty)
      <4>1. FromVault(Answer("main"))
        BY AnswerFromVault DEF Paths
      <4>2. FromVault(Empty)
        BY DEF FromVault, Empty
      <4> QED
        BY <4>1, <4>2, WithoutFromVault DEF Converted
    <3> QED
      BY <1>2, <3>1 DEF ReadMain
  <2>4. /\ \A q \in Finished' : DOMAIN fileSecret'[q] \subseteq FilesSet'
        /\ FilesAnnounced' /\ FilesAccumulate'
    BY <2>1, <2>2, SameFinished
  <2> QED
    BY <2>1, <2>2, <2>3, <2>4 DEF Inv, FromVault
<1>3. CASE ReadTf
  <2>1. FilesSet \subseteq FilesSet' /\ file' \in [Files -> {file'[f] : f \in Files}]
    BY <1>3, FilesStaySet DEF ReadTf, Inv
  <2>2. pc # "done" /\ pc' \notin {"done", "secret"} /\ UNCHANGED <<p, fileSecret, secret>>
    BY <1>3 DEF ReadTf
  <2>3. FromVault(read')
    <3> DEFINE tf == Without(Answer("tf"), DOMAIN read)
    <3>1. FromVault(read) /\ FromVault(Answer("tf"))
      BY AnswerFromVault DEF Paths, Inv
    <3>2. FromVault(tf)
      BY <3>1, WithoutFromVault
    <3> HIDE DEF tf
    <3>3. FromVault(Updated(read, tf))
      BY <3>1, <3>2, UpdatedFromVault
    <3> DEFINE d == Updated(read, tf)
    <3>4. FromVault(d)
      BY <3>3
    <3>5. read' = Converted(d)
      BY <1>3 DEF ReadTf, tf, d
    <3> HIDE DEF d
    <3> QED
      BY <3>4, <3>5, WithoutFromVault DEF Converted
  <2>4. /\ \A q \in Finished' : DOMAIN fileSecret'[q] \subseteq FilesSet'
        /\ FilesAnnounced' /\ FilesAccumulate'
    BY <2>1, <2>2, SameFinished
  <2> QED
    BY <2>1, <2>2, <2>3, <2>4 DEF Inv, FromVault
<1>4. CASE TfMissing \/ Fails
  <2>1. FilesSet' = FilesSet
    BY <1>4 DEF TfMissing, Fails, FilesSet
  <2>2. pc # "done" /\ pc' \notin {"done", "secret"} /\ UNCHANGED <<p, file, read, fileSecret, secret>>
    BY <1>4 DEF TfMissing, Fails
  <2>3. /\ \A q \in Finished' : DOMAIN fileSecret'[q] \subseteq FilesSet'
        /\ FilesAnnounced' /\ FilesAccumulate'
    BY <2>1, <2>2, SameFinished
  <2> QED
    BY <2>1, <2>2, <2>3 DEF Inv, FromVault
<1>5. CASE CreateFileSecret
  <2>1. FilesSet' = FilesSet
    BY <1>5 DEF CreateFileSecret, FilesSet
  <2>2. /\ pc = "file" /\ pc' = "secret" /\ UNCHANGED <<p, file, secret>>
        /\ p \in Projects
        /\ fileSecret' = [fileSecret EXCEPT ![p] = [f \in FilesSet |-> file[f].data]]
    BY <1>5 DEF CreateFileSecret, Inv
  <2>3. FromVault(read')
    BY <1>5 DEF CreateFileSecret, Inv, FromVault, Empty
  <2>4. Finished' = Finished /\ Finished = 1..(p - 1) /\ p \notin Finished
    BY <2>2 DEF Finished, Projects
  <2>5. \A q \in Finished : q \in Projects /\ fileSecret'[q] = fileSecret[q]
    <3>1. \A q \in Finished : q \in Projects /\ q # p
      BY <2>2, <2>4 DEF Projects
    <3> QED
      BY <2>2, <3>1 DEF Inv
  <2>6. DOMAIN fileSecret'[p] = FilesSet
    BY <2>2 DEF Inv
  <2>7. fileSecret' \in [Projects -> {fileSecret'[q] : q \in Projects}]
    <3>1. DOMAIN fileSecret' = Projects /\ fileSecret' = [q \in Projects |-> fileSecret'[q]]
      BY <2>2 DEF Inv
    <3> QED
      BY <3>1
  <2>8. secret' = secret /\ Finished' = Finished
    BY <2>2, <2>4
  <2>9. FilesAnnounced'
    <3> SUFFICES ASSUME NEW q \in Finished
                 PROVE  {x \in DOMAIN secret[q] : secret[q][x] = Mount}
                          = {Var(f) : f \in DOMAIN fileSecret'[q]}
      BY <2>8 DEF FilesAnnounced, Mount, Value, Var
    <3>1. {x \in DOMAIN secret[q] : secret[q][x] = Mount} = {Var(f) : f \in DOMAIN fileSecret[q]}
      BY DEF Inv, FilesAnnounced
    <3> QED
      BY <2>5, <3>1
  <2>10. FilesAccumulate'
    <3>1. FilesAccumulate
      BY DEF Inv
    <3> QED
      BY <2>5, <2>8, <3>1 DEF FilesAccumulate
  <2> QED
    BY <2>1, <2>2, <2>3, <2>4, <2>5, <2>6, <2>7, <2>9, <2>10 DEF Inv
<1>6. CASE CreateSecret
  <2> DEFINE s == Updated(Updated(read, SecretData(p)), FilePaths)
  <2>1. FilesSet' = FilesSet
    BY <1>6 DEF CreateSecret, FilesSet
  <2>2. /\ pc = "secret" /\ p \in Projects /\ UNCHANGED <<file, read, fileSecret>>
        /\ secret' = [secret EXCEPT ![p] = s]
        /\ IF p < N THEN p' = p + 1 /\ pc' = FirstStep ELSE pc' = "done" /\ p' = p
    BY <1>6 DEF CreateSecret, Inv
  <2>3. {x \in DOMAIN s : s[x] = Mount} = {Var(f) : f \in FilesSet}
    BY <2>2, MergedAnnouncesFiles DEF Inv
  <2> HIDE DEF s
  <2>4. DOMAIN fileSecret[p] = FilesSet
    BY <2>2 DEF Inv
  <2>5. Finished = 1..(p - 1) /\ Finished' = Finished \cup {p} /\ p' \in Projects
    BY <2>2 DEF Finished, Projects, FirstStep
  <2>6. /\ \A q \in Finished : secret'[q] = secret[q] /\ q \in Projects /\ q < p
        /\ secret'[p] = s
        /\ secret' \in [Projects -> {secret'[q] : q \in Projects}]
    <3>1. DOMAIN secret = Projects /\ N \in Nat /\ p \in 1..N
      BY <2>2 DEF Inv, Projects
    <3>2. \A q \in Finished : q \in Projects /\ q < p
      BY <2>5, <3>1 DEF Projects
    <3>3. \A q \in Projects : secret'[q] = IF q = p THEN s ELSE secret[q]
      BY <2>2, <3>1
    <3>4. secret' = [q \in Projects |-> secret'[q]]
      BY <2>2, <3>1
    <3>5. secret' \in [Projects -> {secret'[q] : q \in Projects}]
      BY <3>4
    <3>6. \A q \in Finished : q # p
      BY <2>5
    <3> QED
      BY <2>2, <3>2, <3>3, <3>5, <3>6
  <2>7. FilesAnnounced'
    BY <2>2, <2>3, <2>4, <2>5, <2>6 DEF Inv, FilesAnnounced
  <2>8. FilesAccumulate'
    <3> SUFFICES ASSUME NEW q \in Finished', NEW r \in Finished', q < r
                 PROVE  DOMAIN fileSecret[q] \subseteq DOMAIN fileSecret[r]
      BY <2>2 DEF FilesAccumulate
    <3>1. CASE r = p
      <4>1. q \in Finished
        BY <2>5, <3>1, <2>2 DEF Projects
      <4> QED
        BY <2>4, <3>1, <4>1 DEF Inv
    <3>2. CASE r # p
      <4>1. r \in Finished /\ q \in Finished
        BY <2>2, <2>5, <2>6, <3>2 DEF Projects
      <4> QED
        BY <4>1 DEF Inv, FilesAccumulate
    <3> QED
      BY <3>1, <3>2
  <2>9. \A q \in Finished' : DOMAIN fileSecret'[q] \subseteq FilesSet'
    BY <2>1, <2>2, <2>4, <2>5 DEF Inv
  <2>10. (pc' = "done" => p' = N) /\ pc' # "secret"
    BY <2>2 DEF FirstStep, Projects
  <2> QED
    BY <2>1, <2>2, <2>5, <2>6, <2>7, <2>8, <2>9, <2>10 DEF Inv, FromVault
<1>7. CASE VaultWrite \/ UNCHANGED vars
  <2>1. UNCHANGED <<pc, p, file, read, fileSecret, secret>>
    BY <1>7 DEF VaultWrite, vars
  <2>2. FilesSet' = FilesSet /\ Finished' = Finished
    BY <2>1 DEF FilesSet, Finished
  <2> QED
    BY <2>1, <2>2 DEF Inv, FromVault, FilesAnnounced, FilesAccumulate
<1> QED
  BY <1>1, <1>2, <1>3, <1>4, <1>5, <1>6, <1>7 DEF Next

\* The inductive invariant of the merge of secrets (deploy_application's loop).
THEOREM SecretsInvariant == Spec => []Inv
BY InitInv, StepInv, PTL DEF Spec

\* The variables that name a mounted file are those of the files in the file
\* secret of the same project, for every project that is done.
THEOREM FilesAnnouncedHolds == Spec => []FilesAnnounced
<1>1. Inv => FilesAnnounced
  BY DEF Inv
<1> QED
  BY <1>1, SecretsInvariant, PTL

\* A project's file secret has every file of the projects before it.
THEOREM FilesAccumulateHolds == Spec => []FilesAccumulate
<1>1. Inv => FilesAccumulate
  BY DEF Inv
<1> QED
  BY <1>1, SecretsInvariant, PTL
-----------------------------------------------------------------------------
(* The types. *)

VaultValues == [from : {"main", "tf"}, n : 0..MaxWrites]

\* With the values at hand the types are inductive: file keys put them into files.
TypeInv == TypeOK /\ \A x \in DOMAIN read : read[x] \in VaultValues

\* What somebody makes of a path of Vault is what a path may hold.
LEMMA VaultDataOK ==
  ASSUME NEW d \in VaultData, NEW x \in VaultNames, NEW n \in 0..MaxWrites
  PROVE  LET old == IF d = None THEN Empty ELSE d
         IN Updated(old, Const({x}, n)) \in VaultData /\ Without(old, {x}) \in VaultData
<1> DEFINE old == IF d = None THEN Empty ELSE d
           more == Updated(old, Const({x}, n))
           less == Without(old, {x})
<1>1. PICK S \in SUBSET VaultNames : old \in [S -> 0..MaxWrites]
  <2>1. CASE d = None
    <3>1. Empty \in [{} -> 0..MaxWrites]
      BY DEF Empty
    <3> QED
      BY <2>1, <3>1
  <2>2. CASE d # None
    BY <2>2 DEF VaultData
  <2> QED
    BY <2>1, <2>2
<1> HIDE DEF old
<1>2. more \in [S \cup {x} -> 0..MaxWrites]
  BY <1>1 DEF Updated, Const
<1>3. less \in [S \ {x} -> 0..MaxWrites]
  BY <1>1 DEF Without
<1>4. S \cup {x} \in SUBSET VaultNames /\ S \ {x} \in SUBSET VaultNames
  OBVIOUS
<1> HIDE DEF more, less
<1>5. more \in VaultData /\ less \in VaultData
  BY <1>2, <1>3, <1>4 DEF VaultData
<1> QED
  BY <1>5 DEF more, less, old

\* What a path of Vault answers.
LEMMA AnswerOK ==
  ASSUME NEW t \in Paths, vault \in [Paths -> VaultData], vault[t] # None
  PROVE  /\ DOMAIN Answer(t) = DOMAIN vault[t] /\ DOMAIN Answer(t) \subseteq VaultNames
         /\ \A x \in DOMAIN Answer(t) : /\ Answer(t)[x] = Value(t, vault[t][x])
                                        /\ Answer(t)[x] \in VaultValues
<1>1. PICK S \in SUBSET VaultNames : vault[t] \in [S -> 0..MaxWrites]
  BY DEF VaultData
<1>2. DOMAIN Answer(t) = S /\ \A x \in S : Answer(t)[x] = Value(t, vault[t][x])
  BY <1>1 DEF Answer
<1>3. \A x \in S : Value(t, vault[t][x]) \in VaultValues
  BY <1>1 DEF Value, VaultValues, Paths
<1> QED
  BY <1>1, <1>2, <1>3

\* Files made of values of Vault are files.
LEMMA FilesFromOK ==
  ASSUME NEW d, \A x \in DOMAIN d : d[x] \in VaultValues,
         file \in [Files -> FileVar], file' \in FilesFrom(d)
  PROVE  file' \in [Files -> FileVar]
<1> DEFINE New(f) == {[kind |-> "path", data |-> d[Raw(k)]] :
                        k \in {k \in FileKeys : Raw(k) \in DOMAIN d /\ Upper[k] = f}}
<1>1. \A f \in Files : New(f) \subseteq FileVar
  BY DEF FileVar, VaultValues
<1>2. /\ file' \in [Files -> UNION {New(f) \cup {file[f]} : f \in Files}]
      /\ \A f \in Files : file'[f] = file[f] \/ file'[f] \in New(f)
  BY DEF FilesFrom
<1> HIDE DEF New
<1>3. \A f \in Files : file'[f] \in FileVar
  BY <1>1, <1>2
<1> QED
  BY <1>2, <1>3

\* The names in a merged secret.
LEMMA MergedNames ==
  ASSUME NEW q \in Projects, TypeOK
  PROVE  DOMAIN Updated(Updated(read, SecretData(q)), FilePaths)
           \subseteq VaultNames \cup VarNames \cup {Url(r) : r \in Projects}
<1> DEFINE ofProject == Const({Var(k) : k \in own[q]}, Value("env", q))
           ofAll == Const({Var(k) : k \in general}, Value("env", 0))
           urls == Const({Url(r) : r \in Projects \ {N}}, Value("url", 0))
<1>1. /\ DOMAIN ofProject \subseteq VarNames /\ DOMAIN ofAll \subseteq VarNames
      /\ DOMAIN FilePaths \subseteq VarNames
      /\ DOMAIN urls \subseteq {Url(r) : r \in Projects}
  BY DEF Const, VarNames, FilePaths, FilesSet, TypeOK
<1>2. DOMAIN SecretData(q) \subseteq VarNames \cup {Url(r) : r \in Projects}
  <2>1. SecretData(q) = IF q < N THEN ofProject ELSE Updated(Updated(ofAll, ofProject), urls)
    BY DEF SecretData
  <2> DEFINE both == Updated(ofAll, ofProject)
  <2> HIDE DEF ofProject, ofAll, urls
  <2>2. DOMAIN both = DOMAIN ofAll \cup DOMAIN ofProject
    BY UpdatedDomain
  <2> HIDE DEF both
  <2>3. DOMAIN Updated(both, urls) = DOMAIN both \cup DOMAIN urls
    BY UpdatedDomain
  <2> QED
    BY <1>1, <2>1, <2>2, <2>3 DEF both
<1>3. DOMAIN read \subseteq VaultNames
  BY DEF TypeOK
<1> DEFINE found == Updated(read, SecretData(q))
<1>4. DOMAIN found = DOMAIN read \cup DOMAIN SecretData(q)
  BY UpdatedDomain
<1> HIDE DEF found
<1>5. DOMAIN Updated(found, FilePaths) = DOMAIN found \cup DOMAIN FilePaths
  BY UpdatedDomain
<1> QED
  BY <1>1, <1>2, <1>3, <1>4, <1>5 DEF found

\* At first the types are right.
LEMMA InitTypes == Init => TypeInv
<1> SUFFICES ASSUME Init PROVE TypeInv
  OBVIOUS
<1>1. None \in VaultData /\ 0 \in 0..MaxWrites /\ 1 \in Projects
  BY SecretsAssumption DEF VaultData, Projects
<1>2. file \in [Files -> FileVar]
  <2>1. \A v \in [kind : {"unset"}] \cup [kind : {"path", "broken", "value"}, data : {Value("ci", 0)}] :
          v \in FileVar
    <3>1. Value("ci", 0) \in [from : {"ci", "main", "tf"}, n : 0..MaxWrites]
      BY <1>1 DEF Value
    <3> QED
      BY <3>1 DEF FileVar
  <2> QED
    BY <2>1 DEF Init
<1>3. seen \in [Projects -> [Paths -> VaultData]] /\ vault \in [Paths -> VaultData]
  BY <1>1 DEF Init
<1>4. /\ DOMAIN read = {}
      /\ \A q \in Projects : DOMAIN fileSecret[q] = {} /\ DOMAIN secret[q] = {}
  <2>1. DOMAIN Empty = {}
    BY DEF Empty
  <2> QED
    BY <2>1 DEF Init
<1>5. /\ pc \in {"login", "vault", "tf", "file", "secret", "done", "failed"}
      /\ p \in Projects /\ writes \in 0..MaxWrites
      /\ vaultAddr \in BOOLEAN /\ tfSecrets \in BOOLEAN
      /\ general \subseteq Keys /\ own \in [Projects -> SUBSET Keys]
  <2>1. p = 1 /\ writes = 0 /\ pc = "login" /\ general \in SUBSET Keys
    BY DEF Init
  <2> QED
    BY <1>1, <2>1 DEF Init
<1> QED
  BY <1>2, <1>3, <1>4, <1>5 DEF TypeInv, TypeOK

\* Each step keeps the types.
LEMMA StepTypes == Inv /\ TypeInv /\ [Next]_vars => TypeInv'
<1> SUFFICES ASSUME Inv, TypeInv, [Next]_vars PROVE TypeInv'
  OBVIOUS
<1> USE SecretsAssumption
<1> DEFINE Same == UNCHANGED <<general, own, vaultAddr, tfSecrets, vault, writes, p>>
           Kept == UNCHANGED <<fileSecret, secret>>
           Values == \A x \in DOMAIN read' : x \in VaultNames /\ read'[x] \in VaultValues
           Steps == {"login", "vault", "tf", "file", "secret", "done", "failed"}
<1>1. /\ p \in Projects /\ N \in Nat \ {0} /\ vault \in [Paths -> VaultData]
      /\ seen \in [Projects -> [Paths -> VaultData]] /\ file \in [Files -> FileVar]
      /\ \A x \in DOMAIN read : x \in VaultNames /\ read[x] \in VaultValues
      /\ "main" \in Paths /\ "tf" \in Paths /\ FirstStep \in Steps
  BY DEF TypeInv, TypeOK, Paths, FirstStep
<1>2. CASE Login \/ Fails \/ TfMissing
  <2>1. Same /\ Kept /\ UNCHANGED <<file, read, seen>> /\ pc' \in Steps
    BY <1>1, <1>2 DEF Login, Fails, TfMissing, envVars
  <2> QED
    BY <2>1 DEF TypeInv, TypeOK
<1>3. CASE ReadMain
  <2>1. Same /\ Kept /\ pc' \in Steps
    BY <1>3 DEF ReadMain, envVars
  <2>2. seen' \in [Projects -> [Paths -> VaultData]]
    BY <1>1, <1>3 DEF ReadMain
  <2>3. vault["main"] # None =>
          \A x \in DOMAIN Answer("main") :
            x \in VaultNames /\ Answer("main")[x] \in VaultValues
    BY <1>1, AnswerOK
  <2>4. Values
    <3>1. CASE read' = Empty
      BY <3>1 DEF Empty
    <3>2. CASE vault["main"] # None /\ (read' = Answer("main") \/ read' = Converted(Answer("main")))
      BY <2>3, <3>2 DEF Converted, Without
    <3> QED
      BY <1>3, <3>1, <3>2 DEF ReadMain
  <2>5. file' \in [Files -> FileVar]
    BY <1>1, <1>3, <2>3, FilesFromOK DEF ReadMain
  <2> QED
    BY <2>1, <2>2, <2>4, <2>5 DEF TypeInv, TypeOK
<1>4. CASE ReadTf
  <2> DEFINE tf == Without(Answer("tf"), DOMAIN read)
             d == Updated(read, tf)
  <2>1. Same /\ Kept /\ pc' \in Steps /\ vault["tf"] # None
    BY <1>4 DEF ReadTf, envVars
  <2>2. seen' \in [Projects -> [Paths -> VaultData]]
    BY <1>1, <1>4 DEF ReadTf
  <2>3. \A x \in DOMAIN tf : x \in VaultNames /\ tf[x] \in VaultValues
    <3>1. \A x \in DOMAIN Answer("tf") : x \in VaultNames /\ Answer("tf")[x] \in VaultValues
      BY <1>1, <2>1, AnswerOK
    <3> QED
      BY <3>1 DEF Without
  <2>4. read' = Converted(d) /\ file' \in FilesFrom(d)
    BY <1>4 DEF ReadTf
  <2> HIDE DEF tf
  <2>5. \A x \in DOMAIN d : x \in VaultNames /\ d[x] \in VaultValues
    <3>1. DOMAIN d = DOMAIN read \cup DOMAIN tf
      BY UpdatedDomain
    <3>2. \A x \in DOMAIN d : d[x] = IF x \in DOMAIN tf THEN tf[x] ELSE read[x]
      BY DEF Updated
    <3> HIDE DEF d
    <3> QED
      BY <1>1, <2>3, <3>1, <3>2
  <2> HIDE DEF d
  <2>6. Values
    BY <2>4, <2>5 DEF Converted, Without
  <2>7. file' \in [Files -> FileVar]
    BY <1>1, <2>4, <2>5, FilesFromOK
  <2> QED
    BY <2>1, <2>2, <2>6, <2>7 DEF TypeInv, TypeOK
<1>5. CASE CreateFileSecret
  <2>1. Same /\ UNCHANGED <<file, seen, secret>> /\ pc' \in Steps
    BY <1>5 DEF CreateFileSecret, envVars
  <2>2. Values
    <3>1. DOMAIN Empty = {}
      BY DEF Empty
    <3> QED
      BY <1>1, <1>5, <3>1 DEF CreateFileSecret
  <2>3. \A q \in Projects : DOMAIN fileSecret'[q] \subseteq Files
    <3>1. \A q \in Projects : fileSecret'[q] = IF q = p THEN [f \in FilesSet |-> file[f].data]
                                               ELSE fileSecret[q]
      BY <1>5 DEF CreateFileSecret, Inv
    <3>2. \A q \in Projects : DOMAIN fileSecret[q] \subseteq Files
      BY DEF TypeInv, TypeOK
    <3> QED
      BY <3>1, <3>2 DEF FilesSet
  <2> QED
    BY <2>1, <2>2, <2>3 DEF TypeInv, TypeOK
<1>6. CASE CreateSecret
  <2> DEFINE s == Updated(Updated(read, SecretData(p)), FilePaths)
             names == VaultNames \cup VarNames \cup {Url(r) : r \in Projects}
  <2>1. /\ UNCHANGED <<general, own, vaultAddr, tfSecrets, vault, writes>>
        /\ UNCHANGED <<file, read, seen, fileSecret>> /\ pc' \in Steps /\ p' \in Projects
    BY <1>1, <1>6 DEF CreateSecret, envVars, Projects
  <2>2. DOMAIN s \subseteq names
    BY <1>1, MergedNames DEF TypeInv
  <2>3. \A q \in Projects : secret'[q] = IF q = p THEN s ELSE secret[q]
    BY <1>6 DEF CreateSecret, Inv
  <2>4. \A q \in Projects : DOMAIN secret[q] \subseteq names
    BY DEF TypeInv, TypeOK
  <2> HIDE DEF s
  <2>5. \A q \in Projects : DOMAIN secret'[q] \subseteq names
    BY <2>2, <2>3, <2>4
  <2> QED
    BY <2>1, <2>5 DEF TypeInv, TypeOK, VaultNames, VarNames, Url
<1>7. CASE VaultWrite
  <2>1. /\ UNCHANGED <<general, own, vaultAddr, tfSecrets, p, pc, file, read, seen>> /\ Kept
        /\ writes' \in 0..MaxWrites
    BY <1>7 DEF VaultWrite, envVars, TypeInv, TypeOK
  <2>2. vault' \in [Paths -> VaultData]
    <3>1. PICK t \in Paths :
            \/ vault' = [vault EXCEPT ![t] = None]
            \/ \E x \in VaultNames :
                 LET old == IF vault[t] = None THEN Empty ELSE vault[t]
                 IN \/ vault' = [vault EXCEPT ![t] = Updated(old, Const({x}, writes'))]
                    \/ vault' = [vault EXCEPT ![t] = Without(old, {x})]
      BY <1>7 DEF VaultWrite
    <3>2. ASSUME NEW v \in VaultData, vault' = [vault EXCEPT ![t] = v]
          PROVE  vault' \in [Paths -> VaultData]
      BY <1>1, <3>2
    <3>3. None \in VaultData /\ vault[t] \in VaultData
      BY <1>1 DEF VaultData
    <3>4. CASE vault' = [vault EXCEPT ![t] = None]
      BY <3>2, <3>3, <3>4
    <3>5. ASSUME NEW x \in VaultNames,
                 LET old == IF vault[t] = None THEN Empty ELSE vault[t]
                 IN \/ vault' = [vault EXCEPT ![t] = Updated(old, Const({x}, writes'))]
                    \/ vault' = [vault EXCEPT ![t] = Without(old, {x})]
          PROVE  vault' \in [Paths -> VaultData]
      <4> DEFINE old == IF vault[t] = None THEN Empty ELSE vault[t]
                 more == Updated(old, Const({x}, writes'))
                 less == Without(old, {x})
      <4>1. more \in VaultData /\ less \in VaultData
        BY <2>1, <3>3, VaultDataOK
      <4>2. vault' = [vault EXCEPT ![t] = more] \/ vault' = [vault EXCEPT ![t] = less]
        BY <3>5
      <4> HIDE DEF more, less
      <4> QED
        BY <3>2, <4>1, <4>2
    <3> QED
      BY <3>1, <3>4, <3>5
  <2> QED
    BY <2>1, <2>2 DEF TypeInv, TypeOK
<1>8. CASE UNCHANGED vars
  BY <1>8 DEF vars, envVars, TypeInv, TypeOK
<1> QED
  BY <1>2, <1>3, <1>4, <1>5, <1>6, <1>7, <1>8 DEF Next

\* The variables keep their types, whatever Vault, the environment and the files
\* offer.
THEOREM TypesCorrect == Spec => []TypeOK
<1>1. TypeInv => TypeOK
  BY DEF TypeInv
<1> QED
  BY <1>1, InitTypes, StepTypes, SecretsInvariant, PTL DEF Spec
-----------------------------------------------------------------------------
(* Where the values come from. *)

Has(q, t, x) == seen[q][t] # None /\ x \in DOMAIN seen[q][t]
Unseen(q) == seen[q]["main"] = None /\ seen[q]["tf"] = None

\* What is at hand is what the main path held.
ReadMainOf(q) ==
  /\ seen[q]["main"] # None /\ DOMAIN read = DOMAIN seen[q]["main"]
  /\ \A x \in DOMAIN read : read[x] = Value("main", seen[q]["main"][x])

\* What is at hand of the variables is what the two paths held, the main one first.
ReadBothOf(q) ==
  \A x \in VarNames :
    /\ x \in DOMAIN read <=> Has(q, "main", x) \/ Has(q, "tf", x)
    /\ Has(q, "main", x) => read[x] = Value("main", seen[q]["main"][x])
    /\ ~Has(q, "main", x) /\ Has(q, "tf", x) => read[x] = Value("tf", seen[q]["tf"][x])

\* The values the two paths held for a file, which count unless Terraform's path,
\* having been asked for, was missing.
Found(q, f) ==
  UNION {{Value(t, seen[q][t][Raw(k)]) :
            k \in {k \in FileKeys : Upper[k] = f /\ Has(q, t, Raw(k))}} : t \in Paths}
Given(q, f) == Found(q, f) # {} /\ (tfSecrets => seen[q]["tf"] # None)

\* The two properties, for one project.
Strong(q) ==
  \A x \in VarNames :
    /\ x \in DOMAIN secret[q] <=> Offers(q, x) # {}
    /\ x \in DOMAIN secret[q] =>
         /\ secret[q][x] \in Offers(q, x)
         /\ \A v \in Offers(q, x) : Strength(v) <= Strength(secret[q][x])
Current(q) ==
  \A f \in Files :
    Given(q, f) => f \in DOMAIN fileSecret[q] /\ fileSecret[q][f] \in Found(q, f)

\* What each step of the loop leaves to the next one.
SourceInv ==
  /\ \A q \in Projects : q > p \/ (q = p /\ pc \in {"login", "vault"}) => Unseen(q)
  /\ pc \in {"vault", "tf"} => vaultAddr
  /\ ~vaultAddr => read = Empty /\ \A q \in Projects : Unseen(q)
  /\ pc = "tf" => tfSecrets /\ ReadMainOf(p) /\ seen[p]["tf"] = None
  /\ pc \in {"file", "secret"} => ReadBothOf(p)
  /\ pc = "file" =>
       \A f \in Files : Given(p, f) => file[f].kind = "path" /\ file[f].data \in Found(p, f)
  /\ pc = "secret" => Current(p)
  /\ \A q \in Finished : Strong(q) /\ Current(q)

\* The strengths of the sources.
LEMMA Strengths ==
  /\ \A n : Strength(Value("tf", n)) = 1 /\ Strength(Value("main", n)) = 2
  /\ Strength(Value("env", 0)) = 3
  /\ \A q \in Projects : Strength(Value("env", q)) = 4
  /\ Strength(Mount) = 5
<1>1. \A source, n : Value(source, n).from = source /\ Value(source, n).n = n
  BY DEF Value
<1>2. \A q \in Projects : q # 0
  BY DEF Projects
<1>3. Mount.from = "mount"
  BY ValueFrom
<1> QED
  BY <1>1, <1>2, <1>3 DEF Strength

\* The names of variables, of file keys and of URLs are different ones.
LEMMA NamesApart ==
  /\ \A a, b : Var(a) # Raw(b) /\ Var(a) # Url(b)
  /\ \A a, b : (Var(a) = Var(b) => a = b) /\ (Raw(a) = Raw(b) => a = b)
BY DEF Var, Raw, Url

\* The sources that offer a variable, one by one.
LEMMA OffersAre ==
  ASSUME NEW q \in Projects, NEW x
  PROVE  \A v : v \in Offers(q, x) <=>
           \/ Has(q, "tf", x) /\ v = Value("tf", seen[q]["tf"][x])
           \/ Has(q, "main", x) /\ v = Value("main", seen[q]["main"][x])
           \/ (q = N /\ \E k \in general : x = Var(k)) /\ v = Value("env", 0)
           \/ (\E k \in own[q] : x = Var(k)) /\ v = Value("env", q)
           \/ (\E f \in DOMAIN fileSecret[q] : x = Var(f)) /\ v = Mount
BY DEF Offers, Has, Paths

\* What the environment gives a project.
LEMMA SecretDataOf ==
  ASSUME NEW q \in Projects, NEW x \in VarNames
  PROVE  LET mine == \E k \in own[q] : x = Var(k)
             all == q = N /\ \E k \in general : x = Var(k)
         IN /\ x \in DOMAIN SecretData(q) <=> mine \/ all
            /\ mine => SecretData(q)[x] = Value("env", q)
            /\ ~mine /\ all => SecretData(q)[x] = Value("env", 0)
<1> DEFINE ofProject == Const({Var(k) : k \in own[q]}, Value("env", q))
           ofAll == Const({Var(k) : k \in general}, Value("env", 0))
           urls == Const({Url(r) : r \in Projects \ {N}}, Value("url", 0))
           both == Updated(ofAll, ofProject)
           data == Updated(both, urls)
<1>1. /\ x \in DOMAIN ofProject <=> \E k \in own[q] : x = Var(k)
      /\ x \in DOMAIN ofProject => ofProject[x] = Value("env", q)
      /\ x \in DOMAIN ofAll <=> \E k \in general : x = Var(k)
      /\ x \in DOMAIN ofAll => ofAll[x] = Value("env", 0)
      /\ x \notin DOMAIN urls
  BY NamesApart DEF Const, VarNames
<1>2. SecretData(q) = IF q < N THEN ofProject ELSE data
  BY DEF SecretData
<1>3. q < N \/ q = N
  BY SecretsAssumption DEF Projects
<1> HIDE DEF ofProject, ofAll, urls
<1>4. /\ x \in DOMAIN both <=> x \in DOMAIN ofAll \/ x \in DOMAIN ofProject
      /\ x \in DOMAIN ofProject => both[x] = ofProject[x]
      /\ x \in DOMAIN ofAll /\ x \notin DOMAIN ofProject => both[x] = ofAll[x]
  BY DEF Updated
<1> HIDE DEF both
<1>5. /\ x \in DOMAIN data <=> x \in DOMAIN both
      /\ x \in DOMAIN both => data[x] = both[x]
  BY <1>1 DEF Updated
<1> HIDE DEF data
<1>6. q = N => ~(q < N)
  BY SecretsAssumption
<1> QED
  BY <1>1, <1>2, <1>3, <1>4, <1>5, <1>6

\* The merge of the sources takes the strongest.
LEMMA MergeIsStrong ==
  ASSUME NEW q \in Projects, ReadBothOf(q), DOMAIN fileSecret[q] = FilesSet,
         secret'[q] = Updated(Updated(read, SecretData(q)), FilePaths),
         UNCHANGED <<general, own, seen, fileSecret>>
  PROVE  Strong(q)'
<1> SUFFICES ASSUME NEW x \in VarNames
             PROVE  /\ x \in DOMAIN secret'[q] <=> Offers(q, x) # {}
                    /\ x \in DOMAIN secret'[q] =>
                         /\ secret'[q][x] \in Offers(q, x)
                         /\ \A v \in Offers(q, x) : Strength(v) <= Strength(secret'[q][x])
  <2>1. VarNames' = VarNames /\ \A x \in VarNames : Offers(q, x)' = Offers(q, x)
    BY DEF VarNames, Offers
  <2> QED
    BY <2>1 DEF Strong
<1> DEFINE found == Updated(read, SecretData(q))
           s == Updated(found, FilePaths)
           mine == \E k \in own[q] : x = Var(k)
           all == q = N /\ \E k \in general : x = Var(k)
           isFile == \E f \in FilesSet : x = Var(f)
<1>1. /\ x \in DOMAIN read <=> Has(q, "main", x) \/ Has(q, "tf", x)
      /\ Has(q, "main", x) => read[x] = Value("main", seen[q]["main"][x])
      /\ ~Has(q, "main", x) /\ Has(q, "tf", x) => read[x] = Value("tf", seen[q]["tf"][x])
  BY DEF ReadBothOf
<1>2. /\ x \in DOMAIN SecretData(q) <=> mine \/ all
      /\ mine => SecretData(q)[x] = Value("env", q)
      /\ ~mine /\ all => SecretData(q)[x] = Value("env", 0)
  BY SecretDataOf
<1>3. /\ x \in DOMAIN found <=> x \in DOMAIN read \/ x \in DOMAIN SecretData(q)
      /\ x \in DOMAIN SecretData(q) => found[x] = SecretData(q)[x]
      /\ x \in DOMAIN read /\ x \notin DOMAIN SecretData(q) => found[x] = read[x]
  BY DEF Updated
<1> HIDE DEF found
<1>4. /\ x \in DOMAIN FilePaths <=> isFile
      /\ x \in DOMAIN FilePaths => FilePaths[x] = Mount
  BY DEF FilePaths, Const
<1>5. /\ x \in DOMAIN s <=> x \in DOMAIN found \/ x \in DOMAIN FilePaths
      /\ x \in DOMAIN FilePaths => s[x] = FilePaths[x]
      /\ x \in DOMAIN found /\ x \notin DOMAIN FilePaths => s[x] = found[x]
  BY DEF Updated
<1>6. secret'[q] = s
  BY DEF s, found
<1> HIDE DEF s
<1>7. \A v : v \in Offers(q, x) <=>
           \/ Has(q, "tf", x) /\ v = Value("tf", seen[q]["tf"][x])
           \/ Has(q, "main", x) /\ v = Value("main", seen[q]["main"][x])
           \/ all /\ v = Value("env", 0)
           \/ mine /\ v = Value("env", q)
           \/ isFile /\ v = Mount
  BY OffersAre
<1> HIDE DEF mine, all, isFile
<1>8. CASE isFile
  BY <1>4, <1>5, <1>6, <1>7, <1>8, Strengths
<1>9. CASE ~isFile /\ mine
  BY <1>2, <1>3, <1>4, <1>5, <1>6, <1>7, <1>9, Strengths
<1>10. CASE ~isFile /\ ~mine /\ all
  BY <1>2, <1>3, <1>4, <1>5, <1>6, <1>7, <1>10, Strengths
<1>11. CASE ~isFile /\ ~mine /\ ~all /\ Has(q, "main", x)
  BY <1>1, <1>2, <1>3, <1>4, <1>5, <1>6, <1>7, <1>11, Strengths
<1>12. CASE ~isFile /\ ~mine /\ ~all /\ ~Has(q, "main", x)
  BY <1>1, <1>2, <1>3, <1>4, <1>5, <1>6, <1>7, <1>12, Strengths
<1> QED
  BY <1>8, <1>9, <1>10, <1>11, <1>12

\* The two properties are those of the finished projects.
LEMMA PropertiesAre ==
  /\ StrongestSourceWins <=> \A q \in Finished : Strong(q)
  /\ FilesAreCurrent <=> \A q \in Finished : Current(q)
BY DEF StrongestSourceWins, FilesAreCurrent, Strong, Current, Given, Found, Has

\* What is so of a project stays so while its secrets and what was read for it do.
LEMMA ProjectKept ==
  ASSUME NEW q \in Projects, Strong(q), Current(q), UNCHANGED <<general, own, tfSecrets>>,
         seen'[q] = seen[q], secret'[q] = secret[q], fileSecret'[q] = fileSecret[q]
  PROVE  Strong(q)' /\ Current(q)'
<1>1. \A x : Offers(q, x)' = Offers(q, x)
  BY DEF Offers
<1>2. \A f : (Found(q, f)' = Found(q, f)) /\ (Given(q, f)' <=> Given(q, f))
  BY DEF Found, Given, Has
<1>3. VarNames' = VarNames
  BY DEF VarNames
<1>4. Strong(q)'
  BY <1>1, <1>3 DEF Strong
<1>5. Current(q)'
  BY <1>2 DEF Current
<1> QED
  BY <1>4, <1>5

\* Steps that finish no project keep the finished ones.
LEMMA FinishedKept ==
  ASSUME TypeInv, SourceInv, UNCHANGED <<general, own, tfSecrets, p, secret>>,
         pc = "done" <=> pc' = "done", UNCHANGED <<seen, fileSecret>> \/ pc # "done",
         \A q \in Projects : q # p => seen'[q] = seen[q] /\ fileSecret'[q] = fileSecret[q]
  PROVE  \A q \in Finished' : Strong(q)' /\ Current(q)'
<1>1. Finished' = Finished /\ Finished \subseteq Projects /\ (pc # "done" => p \notin Finished)
  <2>1. p \in 1..N /\ N \in Nat
    BY SecretsAssumption DEF TypeInv, TypeOK, Projects
  <2> QED
    BY <2>1 DEF Finished, Projects
<1> SUFFICES ASSUME NEW q \in Finished PROVE Strong(q)' /\ Current(q)'
  BY <1>1
<1>2. seen'[q] = seen[q] /\ fileSecret'[q] = fileSecret[q] /\ q \in Projects
  BY <1>1
<1> QED
  BY <1>2, ProjectKept DEF SourceInv

\* A file made of what the paths held is one of theirs; every file they held is made.
LEMMA FilesOfPaths ==
  ASSUME NEW q \in Projects, NEW d, file' \in FilesFrom(d), NEW f \in Files,
         \A k \in FileKeys : Raw(k) \in DOMAIN d <=> Has(q, "main", Raw(k))' \/ Has(q, "tf", Raw(k))',
         \A k \in FileKeys : Raw(k) \in DOMAIN d =>
           \E t \in Paths : Has(q, t, Raw(k))' /\ d[Raw(k)] = Value(t, seen'[q][t][Raw(k)])
  PROVE  Found(q, f)' # {} => file'[f].kind = "path" /\ file'[f].data \in Found(q, f)'
<1> DEFINE New == {[kind |-> "path", data |-> d[Raw(k)]] :
                     k \in {k \in FileKeys : Raw(k) \in DOMAIN d /\ Upper[k] = f}}
<1> SUFFICES ASSUME Found(q, f)' # {}
             PROVE  file'[f].kind = "path" /\ file'[f].data \in Found(q, f)'
  OBVIOUS
<1>1. PICK t \in Paths, k \in FileKeys : Upper[k] = f /\ Has(q, t, Raw(k))'
  BY DEF Found
<1>2. Raw(k) \in DOMAIN d
  BY <1>1 DEF Paths
<1>3. New # {}
  BY <1>1, <1>2
<1>4. file'[f] \in New
  BY <1>3 DEF FilesFrom
<1>5. PICK l \in FileKeys : /\ Raw(l) \in DOMAIN d /\ Upper[l] = f
                            /\ file'[f] = [kind |-> "path", data |-> d[Raw(l)]]
  BY <1>4
<1>6. PICK u \in Paths : Has(q, u, Raw(l))' /\ d[Raw(l)] = Value(u, seen'[q][u][Raw(l)])
  BY <1>5
<1>7. d[Raw(l)] \in Found(q, f)'
  BY <1>5, <1>6 DEF Found
<1> QED
  BY <1>5, <1>7

\* A project of which nothing was read has nothing of Vault.
LEMMA UnseenIsEmpty ==
  ASSUME NEW q, Unseen(q)
  PROVE  /\ \A t \in Paths : \A x : ~Has(q, t, x)
         /\ \A f : Found(q, f) = {}
BY DEF Unseen, Has, Found, Paths

\* At first nothing has been read.
LEMMA InitSources == Init => SourceInv
<1> SUFFICES ASSUME Init PROVE SourceInv
  OBVIOUS
<1>1. Finished = {}
  BY DEF Init, Finished
<1>2. \A q \in Projects : Unseen(q)
  BY DEF Init, Unseen, Paths
<1> QED
  BY <1>1, <1>2 DEF Init, SourceInv

\* Reading the main path: nothing but what it answers is at hand.
LEMMA ReadMainSources ==
  ASSUME TypeInv, SourceInv, ReadMain PROVE SourceInv'
<1>0. PICK q \in Projects : q = p
  BY DEF TypeInv, TypeOK
<1>1. /\ q \in Projects /\ vault \in [Paths -> VaultData] /\ "main" \in Paths /\ "tf" \in Paths
      /\ seen \in [Projects -> [Paths -> VaultData]]
  BY DEF TypeInv, TypeOK, Paths
<1>2. /\ UNCHANGED <<general, own, vaultAddr, tfSecrets, p, secret, fileSecret>> /\ p = q
      /\ pc = "vault" /\ pc' \in {"tf", "file"} /\ seen' = [seen EXCEPT ![q]["main"] = vault["main"]]
  BY <1>0 DEF ReadMain, envVars
<1>3. /\ seen'[q]["main"] = vault["main"] /\ seen'[q]["tf"] = None
      /\ \A r \in Projects : r # q => seen'[r] = seen[r]
  BY <1>1, <1>2 DEF SourceInv, Unseen
<1>4. \A r \in Finished' : Strong(r)' /\ Current(r)'
  BY <1>2, <1>3, FinishedKept
<1>5. vaultAddr /\ \A r \in Projects : r > q => Unseen(r)'
  <2>1. \A r \in Projects : r > q => r # q
    BY SecretsAssumption, <1>1 DEF Projects
  <2> QED
    BY <1>2, <1>3, <2>1 DEF SourceInv, Unseen
<1>6. \A x : ~Has(q, "tf", x)'
  BY <1>3 DEF Has
<1>7. CASE vault["main"] = None /\ read' = Empty /\ pc' = "file"
  <2>1. Unseen(q)' /\ DOMAIN read' = {}
    BY <1>3, <1>7 DEF Unseen, Empty
  <2>2. \A t \in Paths : \A x : ~Has(q, t, x)'
    BY <2>1 DEF Unseen, Has, Paths
  <2>3. \A f : Found(q, f)' = {}
    BY <2>2 DEF Found
  <2>4. ReadBothOf(q)'
    BY <1>1, <2>1, <2>2 DEF ReadBothOf
  <2> QED
    BY <1>2, <1>4, <1>5, <1>7, <2>3, <2>4 DEF SourceInv, Given
<1>8. ASSUME vault["main"] # None
      PROVE  /\ DOMAIN Answer("main") = DOMAIN seen'[q]["main"]
             /\ \A x \in DOMAIN Answer("main") :
                  Has(q, "main", x)' /\ Answer("main")[x] = Value("main", seen'[q]["main"][x])
  BY <1>1, <1>3, <1>8, AnswerOK DEF Has
<1>9. CASE vault["main"] # None /\ tfSecrets /\ read' = Answer("main") /\ pc' = "tf"
  <2>1. ReadMainOf(q)'
    BY <1>2, <1>3, <1>8, <1>9 DEF ReadMainOf
  <2> QED
    BY <1>2, <1>3, <1>4, <1>5, <1>9, <2>1 DEF SourceInv
<1>10. CASE /\ vault["main"] # None /\ ~tfSecrets /\ pc' = "file"
            /\ read' = Converted(Answer("main")) /\ file' \in FilesFrom(Answer("main"))
  <2>1. \A x : Has(q, "main", x)' <=> x \in DOMAIN Answer("main")
    BY <1>3, <1>8, <1>10 DEF Has
  <2>2. ReadBothOf(q)'
    <3> SUFFICES ASSUME NEW x \in VarNames
                 PROVE  /\ x \in DOMAIN read' <=> Has(q, "main", x)'
                        /\ Has(q, "main", x)' => read'[x] = Value("main", seen'[q]["main"][x])
      BY <1>6 DEF ReadBothOf, VarNames
    <3>1. x \notin {Raw(k) : k \in FileKeys}
      BY NamesApart DEF VarNames
    <3>2. /\ x \in DOMAIN read' <=> x \in DOMAIN Answer("main")
          /\ x \in DOMAIN read' => read'[x] = Answer("main")[x]
      BY <1>10, <3>1 DEF Converted, Without
    <3> QED
      BY <1>8, <1>10, <2>1, <3>2
  <2>3. \A f \in Files : Found(q, f)' # {} => file'[f].kind = "path" /\ file'[f].data \in Found(q, f)'
    <3>1. \A k \in FileKeys : Raw(k) \in DOMAIN Answer("main")
                                 <=> Has(q, "main", Raw(k))' \/ Has(q, "tf", Raw(k))'
      BY <1>6, <2>1
    <3>2. \A k \in FileKeys : Raw(k) \in DOMAIN Answer("main") =>
            \E t \in Paths : /\ Has(q, t, Raw(k))'
                             /\ Answer("main")[Raw(k)] = Value(t, seen'[q][t][Raw(k)])
      BY <1>1, <1>8, <1>10
    <3>3. file' \in FilesFrom(Answer("main"))
      BY <1>10
    <3> DEFINE d == Answer("main")
    <3> HIDE DEF d
    <3> QED
      BY <1>1, <3>1, <3>2, <3>3, FilesOfPaths DEF d
  <2> QED
    BY <1>2, <1>4, <1>5, <1>10, <2>2, <2>3 DEF SourceInv, Given
<1> QED
  BY <1>7, <1>9, <1>10 DEF ReadMain

\* Reading Terraform's path: what the main path has is not replaced.
LEMMA ReadTfSources ==
  ASSUME TypeInv, SourceInv, ReadTf PROVE SourceInv'
<1> DEFINE tf == Without(Answer("tf"), DOMAIN read)
           d == Updated(read, tf)
<1>0. PICK q \in Projects : q = p
  BY DEF TypeInv, TypeOK
<1>1. /\ q \in Projects /\ vault \in [Paths -> VaultData] /\ "main" \in Paths /\ "tf" \in Paths
      /\ seen \in [Projects -> [Paths -> VaultData]]
  BY DEF TypeInv, TypeOK, Paths
<1>2. /\ UNCHANGED <<general, own, vaultAddr, tfSecrets, p, secret, fileSecret>> /\ p = q
      /\ pc = "tf" /\ pc' = "file" /\ seen' = [seen EXCEPT ![q]["tf"] = vault["tf"]]
      /\ vault["tf"] # None /\ read' = Converted(d) /\ file' \in FilesFrom(d)
  BY <1>0 DEF ReadTf, envVars
<1>3. /\ seen'[q]["tf"] = vault["tf"] /\ seen'[q]["main"] = seen[q]["main"]
      /\ \A r \in Projects : r # q => seen'[r] = seen[r]
  BY <1>1, <1>2
<1>4. \A r \in Finished' : Strong(r)' /\ Current(r)'
  BY <1>2, <1>3, FinishedKept
<1>5. vaultAddr /\ \A r \in Projects : r > q => Unseen(r)'
  <2>1. \A r \in Projects : r > q => r # q
    BY SecretsAssumption, <1>1 DEF Projects
  <2> QED
    BY <1>2, <1>3, <2>1 DEF SourceInv, Unseen
<1>6. /\ \A x : x \in DOMAIN read <=> Has(q, "main", x)'
      /\ \A x \in DOMAIN read : read[x] = Value("main", seen'[q]["main"][x])
  BY <1>2, <1>3 DEF SourceInv, ReadMainOf, Has
<1>7. /\ \A x : x \in DOMAIN tf <=> Has(q, "tf", x)' /\ x \notin DOMAIN read
      /\ \A x \in DOMAIN tf : tf[x] = Value("tf", seen'[q]["tf"][x])
  <2>1. /\ DOMAIN Answer("tf") = DOMAIN vault["tf"]
        /\ \A x \in DOMAIN Answer("tf") : Answer("tf")[x] = Value("tf", vault["tf"][x])
    BY <1>1, <1>2, AnswerOK
  <2>2. \A x : Has(q, "tf", x)' <=> x \in DOMAIN vault["tf"]
    BY <1>2, <1>3 DEF Has
  <2> QED
    BY <1>3, <2>1, <2>2 DEF Without
<1> HIDE DEF tf
<1>8. /\ \A x : x \in DOMAIN d <=> Has(q, "main", x)' \/ Has(q, "tf", x)'
      /\ \A x \in DOMAIN d :
           d[x] = IF Has(q, "main", x)' THEN Value("main", seen'[q]["main"][x])
                  ELSE Value("tf", seen'[q]["tf"][x])
  <2>1. DOMAIN d = DOMAIN read \cup DOMAIN tf
    BY UpdatedDomain
  <2>2. \A x \in DOMAIN d : d[x] = IF x \in DOMAIN tf THEN tf[x] ELSE read[x]
    BY DEF Updated
  <2> HIDE DEF d
  <2> QED
    BY <1>6, <1>7, <2>1, <2>2
<1> HIDE DEF d
<1>9. ReadBothOf(q)'
  <2> SUFFICES ASSUME NEW x \in VarNames
               PROVE  /\ x \in DOMAIN read' <=> Has(q, "main", x)' \/ Has(q, "tf", x)'
                      /\ Has(q, "main", x)' => read'[x] = Value("main", seen'[q]["main"][x])
                      /\ ~Has(q, "main", x)' /\ Has(q, "tf", x)' =>
                           read'[x] = Value("tf", seen'[q]["tf"][x])
    BY DEF ReadBothOf, VarNames
  <2>1. x \notin {Raw(k) : k \in FileKeys}
    BY NamesApart DEF VarNames
  <2>2. (x \in DOMAIN read' <=> x \in DOMAIN d) /\ (x \in DOMAIN read' => read'[x] = d[x])
    BY <1>2, <2>1 DEF Converted, Without
  <2> QED
    BY <1>8, <2>2
<1>10. \A f \in Files : Found(q, f)' # {} => file'[f].kind = "path" /\ file'[f].data \in Found(q, f)'
  <2>1. \A k \in FileKeys : Raw(k) \in DOMAIN d <=> Has(q, "main", Raw(k))' \/ Has(q, "tf", Raw(k))'
    BY <1>8
  <2>2. \A k \in FileKeys : Raw(k) \in DOMAIN d =>
          \E t \in Paths : Has(q, t, Raw(k))' /\ d[Raw(k)] = Value(t, seen'[q][t][Raw(k)])
    BY <1>1, <1>8
  <2> QED
    BY <1>1, <1>2, <2>1, <2>2, FilesOfPaths
<1> QED
  BY <1>2, <1>4, <1>5, <1>9, <1>10 DEF SourceInv, Given

\* Each step leaves to the next one what it relies on.
LEMMA StepSources ==
  ASSUME Inv, TypeInv, SourceInv, [Next]_vars PROVE SourceInv'
<1>0. PICK q \in Projects : q = p
  BY DEF TypeInv, TypeOK
<1>1. N \in Nat /\ q \in 1..N
  BY SecretsAssumption DEF Projects
<1>2. CASE Login
  <2>1. /\ UNCHANGED <<general, own, vaultAddr, tfSecrets, p, secret, seen, fileSecret, read>>
        /\ pc = "login" /\ pc' = FirstStep /\ p = q
    BY <1>0, <1>2 DEF Login, envVars
  <2>2. \A r \in Finished' : Strong(r)' /\ Current(r)'
    BY <2>1, FinishedKept DEF FirstStep
  <2>3. Unseen(q) /\ \A r \in Projects : Unseen(r)' <=> Unseen(r)
    BY <2>1 DEF SourceInv, Unseen
  <2>4. CASE vaultAddr
    BY <2>1, <2>2, <2>3, <2>4 DEF SourceInv, FirstStep
  <2>5. CASE ~vaultAddr
    <3>1. pc' = "file" /\ DOMAIN read' = {}
      BY <2>1, <2>5 DEF FirstStep, SourceInv, Empty
    <3>2. (\A t \in Paths : \A x : ~Has(q, t, x)') /\ \A f : Found(q, f)' = {}
      BY <2>1, <2>3 DEF Unseen, Has, Found, Paths
    <3>3. ReadBothOf(q)'
      BY <3>1, <3>2 DEF ReadBothOf, Paths
    <3> QED
      BY <2>1, <2>2, <2>3, <2>5, <3>1, <3>2, <3>3 DEF SourceInv, Given
  <2> QED
    BY <2>4, <2>5
<1>3. CASE ReadMain
  BY <1>3, ReadMainSources
<1>4. CASE ReadTf
  BY <1>4, ReadTfSources
<1>5. CASE TfMissing
  <2>1. /\ UNCHANGED <<general, own, vaultAddr, tfSecrets, p, secret, seen, fileSecret, read, file>>
        /\ pc = "tf" /\ pc' = "file" /\ p = q
    BY <1>0, <1>5 DEF TfMissing, envVars
  <2>2. \A r \in Finished' : Strong(r)' /\ Current(r)'
    BY <2>1, FinishedKept
  <2>3. /\ tfSecrets /\ ReadMainOf(q) /\ seen[q]["tf"] = None
        /\ \A r \in Projects : Unseen(r)' <=> Unseen(r)
    BY <2>1 DEF SourceInv, Unseen
  <2>4. ReadBothOf(q)'
    BY <2>1, <2>3 DEF ReadBothOf, ReadMainOf, Has
  <2>5. \A f \in Files : ~Given(q, f)'
    BY <2>1, <2>3 DEF Given
  <2> QED
    BY <2>1, <2>2, <2>3, <2>4, <2>5 DEF SourceInv
<1>6. CASE CreateFileSecret
  <2>1. /\ UNCHANGED <<general, own, vaultAddr, tfSecrets, p, secret, seen, file>>
        /\ pc = "file" /\ pc' = "secret" /\ p = q
        /\ fileSecret' = [fileSecret EXCEPT ![q] = [f \in FilesSet |-> file[f].data]]
        /\ read' = IF vaultAddr THEN read ELSE Empty
    BY <1>0, <1>6 DEF CreateFileSecret, envVars
  <2>2. \A r \in Projects : fileSecret'[r] = IF r = q THEN [f \in FilesSet |-> file[f].data]
                                              ELSE fileSecret[r]
    BY <2>1 DEF Inv
  <2>3. \A r \in Finished' : Strong(r)' /\ Current(r)'
    BY <2>1, <2>2, FinishedKept
  <2>4. read' = read /\ \A r \in Projects : Unseen(r)' <=> Unseen(r)
    BY <2>1 DEF SourceInv, Unseen
  <2>5. ReadBothOf(q)'
    <3>1. ReadBothOf(q)
      BY <2>1 DEF SourceInv
    <3> QED
      BY <2>1, <2>4, <3>1 DEF ReadBothOf, Has, VarNames
  <2>6. Current(q)'
    <3> SUFFICES ASSUME NEW f \in Files, Given(q, f)
                 PROVE  f \in DOMAIN fileSecret'[q] /\ fileSecret'[q][f] \in Found(q, f)
      <4>1. \A f : (Given(q, f)' <=> Given(q, f)) /\ Found(q, f)' = Found(q, f)
        BY <2>1 DEF Given, Found, Has
      <4> QED
        BY <4>1 DEF Current
    <3>1. file[f].kind = "path" /\ file[f].data \in Found(q, f)
      BY <2>1 DEF SourceInv
    <3> QED
      BY <2>2, <3>1 DEF FilesSet
  <2> QED
    BY <2>1, <2>3, <2>4, <2>5, <2>6 DEF SourceInv
<1>7. CASE CreateSecret
  <2> DEFINE s == Updated(Updated(read, SecretData(q)), FilePaths)
  <2>1. /\ UNCHANGED <<general, own, vaultAddr, tfSecrets, seen, fileSecret, read, file>>
        /\ pc = "secret" /\ p = q /\ secret' = [secret EXCEPT ![q] = s]
        /\ IF q < N THEN p' = q + 1 /\ pc' = FirstStep ELSE pc' = "done" /\ p' = q
    BY <1>0, <1>7 DEF CreateSecret, envVars
  <2>2. \A r \in Projects : secret'[r] = IF r = q THEN s ELSE secret[r]
    BY <2>1 DEF Inv
  <2>3. Strong(q)'
    <3>1. ReadBothOf(q) /\ DOMAIN fileSecret[q] = FilesSet
      BY <2>1 DEF SourceInv, Inv
    <3>2. secret'[q] = s
      BY <2>2
    <3> QED
      BY <2>1, <3>1, <3>2, MergeIsStrong
  <2> HIDE DEF s
  <2>4. Current(q)'
    <3>1. Current(q)
      BY <2>1 DEF SourceInv
    <3> QED
      BY <2>1, <3>1 DEF Current, Given, Found, Has
  <2>5. Finished' = Finished \cup {q} /\ Finished \subseteq Projects /\ q \notin Finished
    BY <1>1, <2>1 DEF Finished, FirstStep, Projects
  <2>6. \A r \in Finished' : Strong(r)' /\ Current(r)'
    <3> SUFFICES ASSUME NEW r \in Finished PROVE Strong(r)' /\ Current(r)'
      BY <2>3, <2>4, <2>5
    <3>1. r \in Projects /\ secret'[r] = secret[r]
      BY <2>2, <2>5
    <3> QED
      BY <2>1, <3>1, ProjectKept DEF SourceInv
  <2>7. \A r \in Projects : Unseen(r)' <=> Unseen(r)
    BY <2>1 DEF Unseen
  <2>8. CASE q = N
    <3>1. pc' = "done" /\ p' = q
      BY <1>1, <2>1, <2>8
    <3> QED
      BY <2>1, <2>6, <2>7, <3>1 DEF SourceInv
  <2>9. CASE q < N
    <3>1. pc' \in {"vault", "file"} /\ pc' = FirstStep /\ p' = q + 1 /\ q + 1 \in Projects
      BY <1>1, <2>1, <2>9 DEF FirstStep, Projects
    <3>2. \A r \in Projects : r >= q + 1 => Unseen(r)'
      <4>1. \A r \in Projects : r >= q + 1 => r > q
        BY <1>1 DEF Projects
      <4> QED
        BY <2>1, <2>7, <4>1 DEF SourceInv
    <3>3. CASE vaultAddr
      BY <1>1, <2>1, <2>6, <3>1, <3>2, <3>3 DEF SourceInv, FirstStep, Projects
    <3>4. CASE ~vaultAddr
      <4> DEFINE n == q + 1
      <4>1. pc' = "file" /\ DOMAIN read' = {} /\ n \in Projects /\ p' = n
        BY <2>1, <3>1, <3>4 DEF FirstStep, SourceInv, Empty
      <4>2. Unseen(n)'
        BY <1>1, <3>1, <3>2
      <4> HIDE DEF n
      <4>3. (\A t \in Paths : \A x : ~Has(n, t, x)') /\ \A f : Found(n, f)' = {}
        BY <4>2 DEF Unseen, Has, Found, Paths
      <4>4. ReadBothOf(n)'
        BY <4>1, <4>3 DEF ReadBothOf, Paths
      <4>5. ~vaultAddr' /\ read' = Empty /\ \A r \in Projects : Unseen(r)'
        BY <2>1, <2>7, <3>4 DEF SourceInv
      <4> QED
        BY <2>6, <4>1, <4>3, <4>4, <4>5 DEF SourceInv, Given
    <3> QED
      BY <3>3, <3>4
  <2> QED
    BY <1>1, <2>8, <2>9
<1>8. CASE Fails
  <2>1. /\ UNCHANGED <<general, own, vaultAddr, tfSecrets, p, secret, seen, fileSecret, read>>
        /\ pc # "done" /\ pc' = "failed"
    BY <1>8 DEF Fails, envVars
  <2>2. \A r \in Finished' : Strong(r)' /\ Current(r)'
    BY <2>1, FinishedKept
  <2> QED
    BY <2>1, <2>2 DEF SourceInv, Unseen
<1>9. CASE VaultWrite \/ UNCHANGED vars
  <2>1. UNCHANGED <<general, own, vaultAddr, tfSecrets, p, pc, secret, seen, fileSecret, read, file>>
    BY <1>9 DEF VaultWrite, envVars, vars
  <2>2. \A r \in Finished' : Strong(r)' /\ Current(r)'
    BY <2>1, FinishedKept
  <2>3. /\ \A r, t, x : Has(r, t, x)' <=> Has(r, t, x)
        /\ \A r, f : Found(r, f)' = Found(r, f)
    BY <2>1 DEF Has, Found
  <2> QED
    BY <2>1, <2>2, <2>3 DEF SourceInv, Unseen, ReadMainOf, ReadBothOf, Current, Given, VarNames
<1> QED
  BY <1>2, <1>3, <1>4, <1>5, <1>6, <1>7, <1>8, <1>9 DEF Next

\* The inductive invariant of where the values come from: what one run reads of
\* Vault for a project is what its secrets are made of, while others write to Vault.
THEOREM SourcesInvariant == Spec => []SourceInv
<1>1. Inv /\ TypeInv /\ SourceInv /\ [Next]_vars => SourceInv'
  BY StepSources
<1>2. Spec => []Inv /\ []TypeInv
  BY InitTypes, StepTypes, SecretsInvariant, PTL DEF Spec
<1> QED
  BY <1>1, <1>2, InitSources, PTL DEF Spec

\* A variable has the value of the strongest source that offers it (Vault's two
\* paths, the environment, the files), in every project that is done.
THEOREM StrongestSourceWinsHolds == Spec => []StrongestSourceWins
<1>1. SourceInv => StrongestSourceWins
  BY PropertiesAre DEF SourceInv
<1> QED
  BY <1>1, SourcesInvariant, PTL

\* The files of a project are those Vault held when its secrets were read.
THEOREM FilesAreCurrentHolds == Spec => []FilesAreCurrent
<1>1. SourceInv => FilesAreCurrent
  BY PropertiesAre DEF SourceInv
<1> QED
  BY <1>1, SourcesInvariant, PTL
=============================================================================
