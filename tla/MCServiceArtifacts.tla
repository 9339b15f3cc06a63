-------------------------- MODULE MCServiceArtifacts --------------------------
(* ServiceArtifacts for TLC: the URL of MySQL is asked for under the name that *)
(* PostgreSQL uses too, and "web" has access to both.                          *)
EXTENDS ServiceArtifacts

MCGrants == [s \in Services |-> IF s = "postgresql" THEN {"web"} ELSE {"web", "api"}]
MCEnvVar == [s \in Services |->
  CASE s = "mysql" -> <<"DATABASE", "URL">>
    [] s = "postgresql" -> <<"REPORTS", "URL">>
    [] s = "rabbitmq" -> <<"CELERY", "URL">>]
=============================================================================
