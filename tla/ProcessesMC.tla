----------------------------- MODULE ProcessesMC -----------------------------
(* Constants for TLC: see the .cfg files for the instances. *)
EXTENDS Processes, TLC

CONSTANTS s1, s2, here, lbHost, svHost

Line(key, address) == [key |-> key, address |-> address]

\* The order of README.txt, the load balancer's line alone, and no line.
FilesAny == {<<Line("load_balancer", lbHost), Line("server", svHost)>>,
             <<Line("server", svHost), Line("load_balancer", lbHost)>>}
=============================================================================
