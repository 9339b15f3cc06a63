----------------------------- MODULE MCImageBuild -----------------------------
(* ImageBuild for TLC: pipelines build commits of a branch "main" and of one   *)
(* called "main-dev" (or "main/dev", or "main_dev"), whose tag is that of the  *)
(* stage "dev" of "main".  Both may build the same commit.                     *)
EXTENDS ImageBuild

MCDockerfiles == {<<"base", "dev", "prod">>, <<"dev", "">>, <<"base", "prod">>}
MCTagSettings == {None, {"latest"}}
MCCommits == {[sha |-> "sha1", ref |-> <<"main">>], [sha |-> "sha2", ref |-> <<"main">>],
              [sha |-> "sha2", ref |-> <<"main", "dev">>]}
OwnPipeline == {[b \in Builds |-> b]}
AnyPipeline == OwnPipeline \cup {[b \in Builds |-> "p1"]}
OneRepo == [b \in Builds |-> "app"]
=============================================================================
