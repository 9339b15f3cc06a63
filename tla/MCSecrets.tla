------------------------------ MODULE MCSecrets -------------------------------
(* Secrets for TLC: the keys "cert" and "CERT" of Vault become the same file. *)
EXTENDS Secrets

MCUpper == [k \in FileKeys |-> "CERT"]
=============================================================================
