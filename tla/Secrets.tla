------------------------------- MODULE Secrets --------------------------------
(***************************************************************************)
(* What one run of deploy_application puts into the secrets of its         *)
(* projects: variables of the environment, files of the environment, and   *)
(* the two secrets Vault may hold for the project, its own ("main") and    *)
(* the one Terraform manages ("tf"), while others write to Vault.  Deploy   *)
(* says how the requests to the cluster interleave with other jobs; here   *)
(* the data of the secrets matters.                                        *)
(***************************************************************************)
EXTENDS Naturals

CONSTANTS
  N,          \* the number of projects: dependencies first, the main one last
  Keys,       \* names of variables an application may be given
  Files,      \* names of secret files, without K8S_FILE_SECRET_PREFIX
  FileKeys,   \* keys in Vault that have that prefix
  Upper,      \* which file such a key becomes: os.environ takes it in capitals
  MaxWrites,  \* bound: how often others write to Vault
  None

Projects == 1..N
Var(k) == <<"var", k>>          \* a variable of the application
Raw(k) == <<"raw", k>>          \* a file key under its own name
Url(p) == <<"url", p>>          \* the variable <PROJECT>_URL
VaultNames == {Var(k) : k \in Keys} \cup {Raw(k) : k \in FileKeys}

\* A value is told by its source: which of Vault's secrets and which write to
\* it, the general variables (n = 0) or those of project n, the file of CI.
Value(source, n) == [from |-> source, n |-> n]
Mount == Value("mount", 0)      \* the path the file of that name is mounted at

\* The secrets a path of Vault may hold; None: there is no such path.
VaultData == {None} \cup UNION {[S -> 0..MaxWrites] : S \in SUBSET VaultNames}
\* A variable K8S_FILE_SECRET_f: not set, the path of a file that can be read,
\* the path of one that cannot, or what the file is to contain.
FileVar == [kind : {"unset"}] \cup [kind : {"path", "broken", "value"},
                                    data : [from : {"ci", "main", "tf"}, n : 0..MaxWrites]]

ASSUME SecretsAssumption ==
  /\ N \in Nat \ {0} /\ MaxWrites \in Nat
  /\ Upper \in [FileKeys -> Files]

VARIABLES
  vaultAddr,    \* VAULT_ADDR is set
  tfSecrets,    \* VAULT_TF_SECRETS is set, and the version of the store is 2
  general, own, \* the variables set for all projects, and for each of them
  vault, writes,\* the two secrets in Vault, and how often they were written
  file,         \* the K8S_FILE_SECRET_ variables of this process
  pc, p,        \* the next step, and the project it is for
  read,         \* secrets_list, then secret_data
  seen,         \* per project, what Vault answered: used by properties only
  fileSecret, secret  \* per project, the data of the two secrets in the cluster

envVars == <<vaultAddr, tfSecrets, general, own>>
vars == <<envVars, vault, writes, file, pc, p, read, seen, fileSecret, secret>>

Paths == {"main", "tf"}
Empty == [x \in {} |-> x]
Init ==
  /\ vaultAddr \in BOOLEAN /\ tfSecrets \in BOOLEAN
  /\ general \in SUBSET Keys /\ own \in [Projects -> SUBSET Keys]
  /\ vault \in [Paths -> {d \in VaultData : d = None \/ \A x \in DOMAIN d : d[x] = 0}]
  /\ vaultAddr \/ vault = [t \in Paths |-> None]
  /\ writes = 0
  /\ file \in [Files -> [kind : {"unset"}]
                          \cup [kind : {"path", "broken", "value"}, data : {Value("ci", 0)}]]
  /\ pc = "login" /\ p = 1
  /\ read = Empty
  /\ seen = [q \in Projects |-> [t \in Paths |-> None]]
  /\ fileSecret = [q \in Projects |-> Empty] /\ secret = [q \in Projects |-> Empty]
-----------------------------------------------------------------------------
\* dict.update: the entries of g, and those of f that g has not.
Updated(f, g) == [x \in DOMAIN f \cup DOMAIN g |-> IF x \in DOMAIN g THEN g[x] ELSE f[x]]
Without(f, S) == [x \in DOMAIN f \ S |-> f[x]]
Const(S, v) == [x \in S |-> v]

\* What a path of Vault answers.
Answer(t) == [x \in DOMAIN vault[t] |-> Value(t, vault[t][x])]

\* Project.secret_data: the general variables are for the main project only,
\* which also gets the URLs of the others.
SecretData(q) ==
  LET ofProject == Const({Var(k) : k \in own[q]}, Value("env", q))
  IN IF q < N THEN ofProject
     ELSE Updated(Updated(Const({Var(k) : k \in general}, Value("env", 0)), ofProject),
                  Const({Url(r) : r \in Projects \ {N}}, Value("url", 0)))

FilesSet == {f \in Files : file[f].kind # "unset"}
FilePaths == Const({Var(f) : f \in FilesSet}, Mount)

\* Faulty variant of FilesFrom: a variable the environment has is kept.
MutKeepsFile(d) ==
  LET New(f) == {[kind |-> "path", data |-> d[Raw(k)]] :
                   k \in {k \in FileKeys : Raw(k) \in DOMAIN d /\ Upper[k] = f}}
  IN {g \in [Files -> UNION {New(f) \cup {file[f]} : f \in Files}] :
        \A f \in Files : IF New(f) = {} \/ file[f].kind # "unset" THEN g[f] = file[f]
                         ELSE g[f] \in New(f)}

\* The file keys of d become files of the runner, whose paths replace the
\* variables of their names; of two keys for one file the later one wins.
FilesFrom(d) ==
  LET New(f) == {[kind |-> "path", data |-> d[Raw(k)]] :
                   k \in {k \in FileKeys : Raw(k) \in DOMAIN d /\ Upper[k] = f}}
  IN {g \in [Files -> UNION {New(f) \cup {file[f]} : f \in Files}] :
        \A f \in Files : IF New(f) = {} THEN g[f] = file[f] ELSE g[f] \in New(f)}
Converted(d) == Without(d, {Raw(k) : k \in FileKeys})

FirstStep == IF vaultAddr THEN "vault" ELSE "file"
-----------------------------------------------------------------------------
(* Faulty variants of the definitions below, one plausible bug each. *)

\* The loop over the projects goes one too far.
MutOneTooMany ==
  /\ pc = "secret"
  /\ secret' = [secret EXCEPT ![p] = Updated(Updated(read, SecretData(p)), FilePaths)]
  /\ IF p <= N THEN p' = p + 1 /\ pc' = FirstStep ELSE pc' = "done" /\ p' = p
  /\ UNCHANGED <<envVars, vault, writes, file, read, seen, fileSecret>>

\* A file that cannot be read is left out instead of ending the command.
MutSkipsBroken ==
  /\ pc = "file"
  /\ fileSecret' = [fileSecret EXCEPT ![p] =
       [f \in {g \in FilesSet : file[g].kind # "broken"} |-> file[f].data]]
  /\ pc' = "secret"
  /\ read' = IF vaultAddr THEN read ELSE Empty
  /\ UNCHANGED <<envVars, vault, writes, file, p, seen, secret>>

\* Terraform's secrets overwrite those of the same name.
MutTfWins ==
  /\ pc = "tf" /\ vault["tf"] # None
  /\ seen' = [seen EXCEPT ![p]["tf"] = vault["tf"]]
  /\ LET d == Updated(read, Answer("tf"))
     IN read' = Converted(d) /\ file' \in FilesFrom(d)
  /\ pc' = "file"
  /\ UNCHANGED <<envVars, vault, writes, p, fileSecret, secret>>

-----------------------------------------------------------------------------
(* The command *)

\* Vault.login.
Login ==
  /\ pc = "login"
  /\ pc' = FirstStep
  /\ UNCHANGED <<envVars, vault, writes, file, p, read, seen, fileSecret, secret>>

\* get_secrets, first half.  A missing path is logged, and ends get_secrets.
ReadMain ==
  /\ pc = "vault"
  /\ seen' = [seen EXCEPT ![p]["main"] = vault["main"]]
  /\ \/ vault["main"] = None /\ read' = Empty /\ pc' = "file" /\ UNCHANGED file
     \/ /\ vault["main"] # None /\ tfSecrets
        /\ read' = Answer("main") /\ pc' = "tf" /\ UNCHANGED file
     \/ /\ vault["main"] # None /\ ~tfSecrets
        /\ read' = Converted(Answer("main")) /\ file' \in FilesFrom(Answer("main"))
        /\ pc' = "file"
  /\ UNCHANGED <<envVars, vault, writes, p, fileSecret, secret>>

\* _read_tf_secrets and the conversion of file keys.
ReadTf ==
  /\ pc = "tf" /\ vault["tf"] # None
  /\ seen' = [seen EXCEPT ![p]["tf"] = vault["tf"]]
  /\ LET d == Updated(read, Without(Answer("tf"), DOMAIN read))
     IN read' = Converted(d) /\ file' \in FilesFrom(d)
  /\ pc' = "file"
  /\ UNCHANGED <<envVars, vault, writes, p, fileSecret, secret>>

\* The path of Terraform's secrets is missing: that ends get_secrets too, and
\* what was read is returned as it is.
TfMissing ==
  /\ pc = "tf" /\ vault["tf"] = None
  /\ pc' = "file"
  /\ UNCHANGED <<envVars, vault, writes, file, p, read, seen, fileSecret, secret>>

\* create_file_secrets_from_environment.
CreateFileSecret ==
  /\ pc = "file"
  /\ \A f \in FilesSet : file[f].kind # "broken"
  /\ fileSecret' = [fileSecret EXCEPT ![p] = [f \in FilesSet |-> file[f].data]]
  /\ pc' = "secret"
  /\ read' = IF vaultAddr THEN read ELSE Empty
  /\ UNCHANGED <<envVars, vault, writes, file, p, seen, secret>>

\* The merge of all sources, create_secret, and the rest of the project.
CreateSecret ==
  /\ pc = "secret"
  /\ secret' = [secret EXCEPT ![p] = Updated(Updated(read, SecretData(p)), FilePaths)]
  /\ IF p < N THEN p' = p + 1 /\ pc' = FirstStep ELSE pc' = "done" /\ p' = p
  /\ UNCHANGED <<envVars, vault, writes, file, read, seen, fileSecret>>

\* What else may end the command: Vault refuses, a file cannot be read, a
\* request to the cluster fails.
Fails ==
  /\ pc \notin {"done", "failed"}
  /\ pc' = "failed"
  /\ UNCHANGED <<envVars, vault, writes, file, p, read, seen, fileSecret, secret>>

\* Somebody adds, changes or removes one secret of a path, or the path.
VaultWrite ==
  /\ writes < MaxWrites /\ writes' = writes + 1
  /\ \E t \in Paths :
       \/ vault[t] # None /\ vault' = [vault EXCEPT ![t] = None]
       \/ \E x \in VaultNames :
            LET old == IF vault[t] = None THEN Empty ELSE vault[t]
            IN \/ vault' = [vault EXCEPT ![t] = Updated(old, Const({x}, writes'))]
               \/ x \in DOMAIN old /\ vault' = [vault EXCEPT ![t] = Without(old, {x})]
  /\ UNCHANGED <<envVars, file, pc, p, read, seen, fileSecret, secret>>

Next ==
  \/ Login \/ ReadMain \/ ReadTf \/ TfMissing
  \/ CreateFileSecret \/ CreateSecret \/ Fails \/ VaultWrite

Spec == Init /\ [][Next]_vars
-----------------------------------------------------------------------------
(* Properties.  Finished projects are those whose secret has been created. *)

Finished == IF pc = "done" THEN Projects ELSE 1..(p - 1)
VarNames == {Var(k) : k \in Keys \cup Files}

TypeOK ==
  /\ general \subseteq Keys /\ own \in [Projects -> SUBSET Keys]
  /\ vaultAddr \in BOOLEAN /\ tfSecrets \in BOOLEAN
  /\ vault \in [Paths -> VaultData] /\ writes \in 0..MaxWrites
  /\ file \in [Files -> FileVar]
  /\ pc \in {"login", "vault", "tf", "file", "secret", "done", "failed"} /\ p \in Projects
  /\ DOMAIN read \subseteq VaultNames
  /\ seen \in [Projects -> [Paths -> VaultData]]
  /\ \A q \in Projects :
       /\ DOMAIN fileSecret[q] \subseteq Files
       /\ DOMAIN secret[q] \subseteq VaultNames \cup VarNames \cup {Url(r) : r \in Projects}

\* The two secrets of a project fit together: the variables that name a mounted
\* file are those of the files in the file secret, whatever else had the name.
FilesAnnounced ==
  \A q \in Finished :
    {x \in DOMAIN secret[q] : secret[q][x] = Mount} = {Var(f) : f \in DOMAIN fileSecret[q]}

\* What the sources offer under the name x to project q: Terraform's secrets,
\* those of the other path, the environment, the files.
Offers(q, x) ==
     {Value(t, seen[q][t][x]) : t \in {t \in Paths : seen[q][t] # None /\ x \in DOMAIN seen[q][t]}}
  \cup {Value("env", 0) : k \in {k \in general : q = N /\ x = Var(k)}}
  \cup {Value("env", q) : k \in {k \in own[q] : x = Var(k)}}
  \cup {Mount : f \in {f \in DOMAIN fileSecret[q] : x = Var(f)}}
Strength(v) == CASE v.from = "tf" -> 1 [] v.from = "main" -> 2
                 [] v.from = "env" -> IF v.n = 0 THEN 3 ELSE 4 [] v.from = "mount" -> 5

\* A variable has the value of the strongest source that offers it, and is there
\* if and only if one does: nothing is lost, invented, or left over from the
\* project before, and a dependency gets no variable meant for another project.
StrongestSourceWins ==
  \A q \in Finished, x \in VarNames :
    /\ x \in DOMAIN secret[q] <=> Offers(q, x) # {}
    /\ x \in DOMAIN secret[q] =>
         /\ secret[q][x] \in Offers(q, x)
         /\ \A v \in Offers(q, x) : Strength(v) <= Strength(secret[q][x])

\* The files Vault held when the secrets of a project were read are the ones it
\* gets, also when a variable or an earlier project set the same name.
FilesAreCurrent ==
  \A q \in Finished, f \in Files :
    LET Held(t) == {k \in FileKeys : /\ Upper[k] = f /\ seen[q][t] # None
                                     /\ Raw(k) \in DOMAIN seen[q][t]}
        Found == UNION {{Value(t, seen[q][t][Raw(k)]) : k \in Held(t)} : t \in Paths}
    IN (Found # {} /\ (tfSecrets => seen[q]["tf"] # None))
          => f \in DOMAIN fileSecret[q] /\ fileSecret[q][f] \in Found

\* The file secret of a later project has every file of an earlier one: the
\* variables stay in the process, even if Vault has lost the secret since.
FilesAccumulate ==
  \A q, r \in Finished : q < r => DOMAIN fileSecret[q] \subseteq DOMAIN fileSecret[r]

\* docs/pages/reference/vault.md:34: keys with the prefix become files.
FileKeysBecomeFiles ==
  \A q \in Finished, k \in FileKeys : Raw(k) \notin DOMAIN secret[q]

=============================================================================
