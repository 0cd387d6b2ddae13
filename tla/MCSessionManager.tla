---------------------------- MODULE MCSessionManager ----------------------------
(* Instances of SessionManager for TLC. *)
EXTENDS SessionManager, TLC

\* Requests are interchangeable in the safety runs.
RequestSymmetry == Permutations(Requests)
================================================================================
