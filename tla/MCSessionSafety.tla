---------------------------- MODULE MCSessionSafety ----------------------------
(* Instances of SessionSafety for TLC; session identities are interchangeable. *)
EXTENDS SessionSafety, TLC

Symmetry == Permutations(Sessions)
================================================================================
