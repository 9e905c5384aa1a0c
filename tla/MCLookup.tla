------------------------------ MODULE MCLookup -------------------------------
(* Instances of Lookup for TLC. *)
EXTENDS Lookup

CONSTANTS r1, r2, r3

F == INSTANCE Functions

\* Tiers of one, two and three records, with zero weights among positive ones,
\* and none but zero.
MCWeights ==
  {[r \in Records |-> CASE r = r1 -> x [] r = r2 -> y [] r = r3 -> z] :
     <<x, y, z>> \in {<<2, 2, 0>>, <<1, 2, 1>>, <<0, 0, 0>>, <<0, 1, 0>>}}

\* As many answers as the tier has records, fewer and more.
MCPolicies ==
  [type : {"round-robin", "sticky-hash", "weighted-random"}, max : 1..2]
    \cup {[type |-> "malformed", max |-> 1]}
MCKey == [r \in Records |-> CASE r = r1 -> 1 [] r = r2 -> 2 [] r = r3 -> 3]

\* Every assignment of view rules.
MCRules == [Records -> RuleKinds]

\* The number of tickets is the sum of the weights.
ASSUME TicketsAreSums ==
  \A w \in Weights, c \in SUBSET Records : Total(c, w) = F!SumFunctionOnSet(w, c)
=============================================================================
