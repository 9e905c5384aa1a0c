------------------------------ MODULE MCMonitor ------------------------------
(* Instances of Monitor for TLC. *)
EXTENDS Monitor, TLC

CONSTANTS c1, c2

\* c1 reacts at once, c2 debounces both ways.
MCFall == [c \in Checks |-> IF c = c1 THEN 1 ELSE 2]
MCRise == [c \in Checks |-> IF c = c1 THEN 1 ELSE 2]

Symmetry == Permutations(Threads) \cup Permutations(Ids)
=============================================================================
