------------------------------ MODULE MCHostPanes ------------------------------
(* Two containers, neither of which comes first, and two tabs on the host. *)
EXTENDS HostPanes, TLC

CONSTANTS c1, c2, t1, t2

HostSymmetry == Permutations({c1, c2}) \cup Permutations({t1, t2})
=============================================================================
