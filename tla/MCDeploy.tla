------------------------------- MODULE MCDeploy -------------------------------
(* Deploy for TLC: deploying processes are interchangeable, so are cleaners. *)
EXTENDS Deploy, TLC

Symmetry == Permutations(Deployers) \cup Permutations(Cleaners)
=============================================================================
