-------------------------- MODULE MCWireController --------------------------
(* Model values for TLC's instances of WireController, and the symmetry of   *)
(* the hosts, which the safety runs with two hosts use.                      *)
EXTENDS WireController, TLC

CONSTANTS h1, h2

Symmetry == Permutations(Hosts)

============================================================================
