--------------------------- MODULE AccountServerMC ---------------------------
(* Constants for TLC: see the .cfg files for the instances. *)
EXTENDS AccountServer, TLC

CONSTANTS s1, s2, r1, r2, r3, Bob, bob, p1

\* utf8mb4_0900_ai_ci compares Bob and bob equal.
FoldCase == [n \in Names |-> Bob]

OneServer == {s1}
TwoServers == {s1, s2}
TwoRequests == {r1, r2}
ThreeRequests == {r1, r2, r3}

Symmetry == Permutations(Servers) \cup Permutations(Requests)
=============================================================================
