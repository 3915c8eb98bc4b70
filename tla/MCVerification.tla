---------------------------- MODULE MCVerification ----------------------------
(* Instances of Verification for TLC. *)
EXTENDS Verification, TLC

Symmetry == Permutations(Sessions)

\* A supervised session with notifications, and a session that exempts the
\* account the probe runs as.
BothKinds == {[wd |-> TRUE, notify |-> TRUE, exempt |-> FALSE],
              [wd |-> FALSE, notify |-> FALSE, exempt |-> TRUE]}
================================================================================
