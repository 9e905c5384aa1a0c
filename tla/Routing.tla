------------------------------- MODULE Routing -------------------------------
(***************************************************************************)
(* The answer-selection policies, as the set of answers each may give.     *)
(*                                                                         *)
(* Source: powergslb/routing/.  A candidate is a record; its weight is     *)
(* w[r] and its place in the (hash, content) order of the client's network *)
(* is key[r].  A draw of random.sample is the choice of one answer of the  *)
(* set; the loop that draws by weight is in Lookup.                        *)
(***************************************************************************)
EXTENDS Integers, FiniteSets

Least(a, b) == IF a <= b THEN a ELSE b

\* RoutingPolicy.highest_tier: the candidates of the highest weight.
HighestTier(c, w) == {r \in c : \A q \in c : w[q] <= w[r]}

\* random.sample: every subset of the given size.
Samples(c, n) == {s \in SUBSET c : Cardinality(s) = n}

\* RoundRobin.select: the highest tier, whole or sampled down to max.
RoundRobinAnswers(c, w, max) ==
  LET tier == HighestTier(c, w)
  IN  Samples(tier, Least(max, Cardinality(tier)))

\* Fault: the network's hash (here 3) modulo the number of candidates.
StickyPick_Modulo(c, key, max) ==
  {r \in c : (Cardinality({q \in c : key[q] > key[r]}) + 3) % Cardinality(c) < max}

\* _sticky_pick: the max candidates ranked highest by key.
StickyPick(c, key, max) ==
  {r \in c : Cardinality({q \in c : key[q] > key[r]}) < max}

\* StickyHash.select: one answer, fixed by the tier and the client network.
StickyAnswer(c, w, key, max) == StickyPick(HighestTier(c, w), key, max)

\* A record holds as many tickets as it has weight, so that a sum of weights is
\* a number of tickets: of the whole of c, and of c up to r in the order of content.
Tickets(c, w) == UNION {{r} \X (0..(w[r] - 1)) : r \in c}
Total(c, w) == Cardinality(Tickets(c, w))
Cumulative(c, w, order, r) == Total({q \in c : order[q] <= order[r]}, w)

\* Fault: the walk stops one step early.
WeightedPick_Inclusive(c, w, order, draw) ==
  CHOOSE r \in c : /\ draw <= Cumulative(c, w, order, r)
                   /\ \A q \in c : order[q] < order[r] => Cumulative(c, w, order, q) < draw

\* _weighted_pick: the first record whose cumulative weight exceeds the draw.
WeightedPick(c, w, order, draw) ==
  CHOOSE r \in c : /\ draw < Cumulative(c, w, order, r)
                   /\ \A q \in c : order[q] < order[r] => Cumulative(c, w, order, q) <= draw

\* What WeightedRandom.select may answer: max candidates; a record of weight zero is drawn
\* only when no record of positive weight remains.
WeightedAnswers(c, w, max) ==
  {s \in Samples(c, Least(max, Cardinality(c))) :
     (\E r \in s : w[r] = 0) => \A q \in c : w[q] > 0 => q \in s}
=============================================================================
