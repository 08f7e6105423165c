----------------------------- MODULE TheSystemMC -----------------------------
(* Constants for TLC: see the .cfg files for the instances. *)
EXTENDS TheSystem, TLC

CONSTANTS s1, s2, r1, r2, r3, k1, k2, Bob, Eve, p1

\* Bob and Eve differ under any collation.
FoldNone == [n \in Names |-> n]

Symmetry == Permutations(Servers) \cup Permutations(Requests) \cup Permutations(Clients)
=============================================================================
