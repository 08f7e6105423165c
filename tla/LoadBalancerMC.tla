---------------------------- MODULE LoadBalancerMC ----------------------------
(* Constants for TLC: see the .cfg files for the instances. *)
EXTENDS LoadBalancer, TLC

CONSTANTS c1, c2, c3, c4, d1, d2, d3, d4

Symmetry == Permutations(Conns) \cup Permutations(Requests)
=============================================================================
