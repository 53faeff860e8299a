----------------------------- MODULE MCRollout -----------------------------
(* Instances of Rollout for TLC. *)
EXTENDS Rollout, TLC

CONSTANTS h1, h2

(* Two canary-style batches of one host, or one batch of all hosts. *)
OneEach  == h1 :> 1 @@ h2 :> 2
Together == [h \in Hosts |-> 1]

(* Agents of the current version, and one legacy agent per host. *)
Current    == [h \in Hosts |-> "both"]
SignedPath == [h \in Hosts |-> "signed_path"]
=============================================================================
