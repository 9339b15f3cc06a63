-------------------------------- MODULE Naming --------------------------------
(***************************************************************************)
(* The names and hosts made for a project: cut to the lengths Helm,        *)
(* Kubernetes and certificates accept, with the beginning of a hash in the *)
(* place of what was cut.  Strings are sequences of characters, because    *)
(* lengths are what matters.                                               *)
(***************************************************************************)
EXTENDS Naturals, Integers, Sequences

CONSTANTS
  Char,        \* characters, "-" among them
  Safe,        \* the character kubernetes_safe_name writes for each of them
  Digest(_)    \* sha256(s).hexdigest()

ASSUME NamingAssumption ==
  /\ "-" \in Char
  /\ Safe \in [Char -> Char]

EnvSlugLength == 30      \* DEPLOY_NAME_MAX_ENV_SLUG_LENGTH
HelmNameLength == 53     \* DEPLOY_NAME_MAX_HELM_NAME_LENGTH
MutTrackLength == 13
TrackLength == 10        \* DEPLOY_NAME_MAX_TRACK_LENGTH
CNLength == 64           \* CN_MAX_LENGTH

Cut(s, n) == SubSeq(s, 1, IF Len(s) <= n THEN Len(s) ELSE n)       \* s[:n]
HashOf(s, n) == <<"-">> \o SubSeq(Digest(s), 1, n)

\* truncate_with_hash, and when it raises an error instead.
MutTruncated(s, max) == IF Len(s) <= max THEN s ELSE Cut(s, max) \o HashOf(s, 2)
Truncated(s, max) ==
  IF Len(s) <= max THEN s
  ELSE Cut(s, IF max - 3 >= 1 THEN max - 3 ELSE 1) \o HashOf(s, 2)
CannotTruncate(s, max) == Len(Truncated(s, max)) > max

SafeName(s) == [i \in DOMAIN s |-> Safe[s[i]]]                     \* kubernetes_safe_name

\* get_deploy_name; <<>> stands for the default track and for no postfix.
Dashed(s) == IF s = <<>> THEN <<>> ELSE <<"-">> \o s
TrackedName(slug, track) == Cut(slug, EnvSlugLength) \o Cut(Dashed(track), TrackLength)
MutDeployName(slug, track, postfix) ==
  SafeName(TrackedName(slug, track)
             \o Cut(Dashed(postfix), HelmNameLength - Len(TrackedName(slug, track))))
DeployName(slug, track, postfix) ==
  SafeName(TrackedName(slug, track)
             \o Truncated(Dashed(postfix), HelmNameLength - Len(TrackedName(slug, track))))

\* get_secret_name, for the secret of a project and for that of its files.
SecretEnd == <<"-", "s", "e", "c", "r", "e", "t">>
FileEnd == <<"-", "f", "i", "l", "e">>
MutFileSecretName(slug, track, name) == DeployName(slug, track, name) \o SecretEnd
SecretName(slug, track, name) == DeployName(slug, track, name) \o SecretEnd
FileSecretName(slug, track, name) == SecretName(slug, track, name \o FileEnd)

\* deploy_service: the name of a service's release, with which its chart names the
\* host, and the host that get_base_database_url and its like tell applications.
ServiceRelease(slug, track, service) == DeployName(slug, track, service)
ServiceHost(slug, track, service) == DeployName(slug, track, <<>>) \o Dashed(service)

\* A host without protocol: its first label, what follows the first dot, and how
\* many labels there are in all (one: no dot).
HostLength(h) == Len(h.label) + 1 + Len(h.domain)
LabelRoom(h) == CNLength - Len(h.domain) - 1

\* limit_url_length, and when it raises: no dot, or no room for the label.
WithLabel(h, label) == [label |-> label, domain |-> h.domain, labels |-> h.labels]
Limited(h) == WithLabel(h, Truncated(h.label, LabelRoom(h)))
CannotLimit(h) == h.labels < 2 \/ CannotTruncate(h.label, LabelRoom(h))

\* get_dependency_project_url, and when it takes the parent for production.
MutDependencyHost(name, h) == WithLabel(h, Cut(h.label, 55) \o HashOf(h.label, 7))
DependencyHost(name, h) == WithLabel(h, Cut(h.label, 55) \o HashOf(name, 7))
LooksLikeProduction(h) == h.labels < 3 \/ h.label = <<"w", "w", "w">>
=============================================================================
