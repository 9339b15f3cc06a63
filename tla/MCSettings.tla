------------------------------ MODULE MCSettings ------------------------------
(* Settings for TLC: variables of the project, and of its clusters. *)
EXTENDS Settings

\* Some of the variables of f are not set.
Parts(f) == {[v \in D |-> f[v]] : D \in SUBSET DOMAIN f}
Joined(S, T) == {Onto(f, g) : f \in S, g \in T}
Single(v, S) == {Nothing} \cup {[w \in {v} |-> x] : x \in S}

MCSafe == [n \in {"my-app", "docs", "ci", "new", "org/repo"} |->
             CASE n = "my-app" -> <<"MY", "APP">> [] n = "docs" -> <<"DOCS">>
               [] n = "ci" -> <<"CI">> [] n = "new" -> <<"NEW">>
               [] OTHER -> <<"ORG", "REPO">>]

GitLab == [v \in {<<"GITLAB", "CI">>, <<"CI", "PROJECT", "NAME">>, <<"KUBE", "NAMESPACE">>} |->
             CASE v[1] = "GITLAB" -> "true" [] v[1] = "CI" -> "my-app" [] OTHER -> "kube"]
GitHub == [v \in {<<"GITHUB", "ACTIONS">>, <<"GITHUB", "REPOSITORY">>, <<"K8S", "NAMESPACE">>} |->
             CASE v[2] = "ACTIONS" -> "true" [] v[1] = "GITHUB" -> "org/repo" [] OTHER -> "k8s"]
Azure == [v \in {<<"AZURE", "HTTP", "USER", "AGENT">>, <<"SYSTEM", "TEAMPROJECT">>, <<"DOCS", "K8S", "NAMESPACE">>} |->
             CASE v[1] = "AZURE" -> "agent" [] v[1] = "SYSTEM" -> "docs" [] OTHER -> "k8s"]

\* What the project is called and what it sets by itself.
Names ==
  Joined(Single(<<"PROJECT", "NAME">>, {"", "ci"}),
  Joined(Single(<<"MY", "APP", "PROJECT", "NAME">>, {"new"}),
  Joined(Single(<<"BUILT", "DOCKER", "TEST", "IMAGE">>, {"", "mine"}),
         Single(<<"MY", "APP", "BUILT", "DOCKER", "TEST", "IMAGE">>, {"old"}))))

\* Its tracks and clusters; every variable of a cluster has a value of its own.
Clusters ==
  Joined(Single(<<"TRACK">>, {"", "REVIEW", "RAW"}),
  Joined(Single(<<"DEFAULT", "TRACK">>, {"", "REVIEW"}),
  Joined(Single(<<"MY", "APP", "TRACK">>, {"REVIEW"}),
  Joined(Single(<<"KUBECONFIG", "RAW">>, {"", "raw"}),
         Parts([v \in {<<"KUBECONFIG", "RAW", "REVIEW">>, <<"KUBECONFIG", "STABLE">>,
                       <<"KUBECONFIG", "REVIEW">>, <<"KUBECONFIG">>} |->
                  CASE v = <<"KUBECONFIG">> -> "file" [] v[2] = "RAW" -> "raw review"
                    [] v[2] = "STABLE" -> "stable" [] OTHER -> "review"])))))

MCBases == Joined(Names, {GitLab, GitHub, Azure, Onto(GitLab, Azure), Nothing})
           \cup Joined(Clusters, {GitLab})
=============================================================================
