-------------------------- MODULE MCLinkController --------------------------
(* Model values for TLC's instances of LinkController. *)
EXTENDS LinkController, TLC

CONSTANTS h1, h2

Symmetry == Permutations(Hosts)

============================================================================
