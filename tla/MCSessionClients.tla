---------------------------- MODULE MCSessionClients ----------------------------
(* Instances of SessionClients and SessionClaims for TLC. *)
EXTENDS SessionClaims, TLC

\* Requests are interchangeable in the safety runs.
RequestSymmetry == Permutations(Requests)
================================================================================
