---------------------------- MODULE LookupProofs -----------------------------
(***************************************************************************)
(* Lookup implements LookupSpec, for any records, rules, weights, policies *)
(* and numbers of answers, and any interleaving with the CheckThreads.     *)
(***************************************************************************)
EXTENDS Lookup, FiniteSetTheorems, WellFoundedInduction, TLAPS

\* While the lookup runs, every record was seen in its present status.
Seen ==
  Busy => /\ down \subseteq wasDown
          /\ Records \ down \subseteq wasUp

\* The records read as up were up; those read and not kept were down.
ReadsTrue ==
  /\ live \subseteq wasUp
  /\ Records \subseteq wasUp \cup wasDown \/ pc = "start"
  /\ pc \in {"start", "specific", "catchAll"} => candidates = {}
  /\ pc = "start" => live = {}
  /\ pc = "specific" => /\ InView(rule) # {}
                        /\ live \subseteq Specific(rule)
                        /\ Specific(rule) \ (left \cup live) \subseteq wasDown
  /\ pc = "catchAll" => /\ InView(rule) # {}
                        /\ live \subseteq CatchAll(rule)
                        /\ Specific(rule) \subseteq wasDown
                        /\ CatchAll(rule) \ (left \cup live) \subseteq wasDown

\* The three ways the candidates can have been chosen.
LiveSpecific ==
  /\ candidates = live /\ live # {} /\ live \subseteq Specific(rule)
  /\ Specific(rule) \ live \subseteq wasDown

LiveCatchAll ==
  /\ candidates = live /\ live # {} /\ live \subseteq CatchAll(rule)
  /\ Specific(rule) \subseteq wasDown
  /\ CatchAll(rule) \ live \subseteq wasDown

AllDown ==
  /\ live = {} /\ InView(rule) \subseteq wasDown
  /\ candidates = IF Specific(rule) # {} THEN Specific(rule) ELSE CatchAll(rule)

Chosen ==
  pc \in {"choose", "draw", "done"} =>
    IF InView(rule) = {} THEN candidates = {}
    ELSE LiveSpecific \/ LiveCatchAll \/ AllDown

\* What was drawn so far has weight and is no more than was wanted.
Drawing ==
  /\ pc \in {"start", "specific", "catchAll", "choose"} => drawn = {}
  /\ pc = "draw" => /\ candidates # {} /\ policy.type = "weighted-random"
                    /\ Cardinality(drawn) <= Wanted
                    /\ \A r \in drawn : weight[r] > 0

\* The answer is one the policy gives for the candidates.
Outcome == IF candidates = {} THEN {{}} ELSE Answers(policy, weight, candidates)
Answered == pc = "done" => answer \in Outcome

IInv == TypeOK /\ Seen /\ ReadsTrue /\ Chosen /\ Drawing /\ Answered

-----------------------------------------------------------------------------
\* A policy answers with candidates only.
LEMMA AnswersAreCandidates ==
  ASSUME NEW p, p.type \in PolicyKinds, NEW w, NEW c, NEW a \in Answers(p, w, c)
  PROVE  a \subseteq c
BY DEF PolicyKinds, Answers, RoundRobinAnswers, StickyAnswer, StickyPick,
       WeightedAnswers, Samples, HighestTier

\* LookupSpec extends Selection as well: through the refinement mapping its
\* operators are those of Lookup.
LEMMA SameRules ==
  ASSUME NEW v, NEW dead
  PROVE  /\ Promise!InView(v) = InView(v)
         /\ Promise!Tier(v, dead) = Tier(v, dead)
BY DEF Promise!InView, InView, Promise!Tier, Tier, Promise!Specific, Specific,
       Promise!CatchAll, CatchAll

LEMMA SameAnswers ==
  ASSUME NEW p, NEW w, NEW c
  PROVE  Promise!Answers(p, w, c) = Answers(p, w, c)
<1>1. \A S : Promise!Cardinality(S) = Cardinality(S)
  BY DEF Promise!Cardinality, Cardinality
<1>2. \A S : Promise!HighestTier(S, w) = HighestTier(S, w)
  BY DEF Promise!HighestTier, HighestTier
<1>3. \A S, n : Promise!Samples(S, n) = Samples(S, n)
  BY <1>1 DEF Promise!Samples, Samples
<1>4. \A a, b : Promise!Least(a, b) = Least(a, b)
  BY DEF Promise!Least, Least
<1>5. Promise!RoundRobinAnswers(c, w, p.max) = RoundRobinAnswers(c, w, p.max)
  BY <1>1, <1>2, <1>3, <1>4 DEF Promise!RoundRobinAnswers, RoundRobinAnswers
<1>6. Promise!StickyAnswer(c, w, Key, p.max) = StickyAnswer(c, w, Key, p.max)
  BY <1>1, <1>2 DEF Promise!StickyAnswer, StickyAnswer, Promise!StickyPick, StickyPick
<1>7. Promise!WeightedAnswers(c, w, p.max) = WeightedAnswers(c, w, p.max)
  BY <1>1, <1>3, <1>4 DEF Promise!WeightedAnswers, WeightedAnswers
<1>. QED  BY <1>5, <1>6, <1>7 DEF Promise!Answers, Answers

\* The candidates are the tier of the statuses that were read: dead are the
\* records seen down at some moment and not read as up.
LEMMA ChosenIsTier ==
  ASSUME IInv, pc \in {"choose", "draw", "done"}, InView(rule) # {}
  PROVE  candidates = Tier(rule, wasDown \ live) /\ candidates # {}
<1>1. LiveSpecific \/ LiveCatchAll \/ AllDown  BY DEF IInv, Chosen
<1>2. CASE LiveSpecific  BY <1>2 DEF LiveSpecific, Tier
<1>3. CASE LiveCatchAll
  <2>1. Specific(rule) \cap CatchAll(rule) = {}  BY DEF Specific, CatchAll
  <2>2. Specific(rule) \ (wasDown \ live) = {}  BY <1>3, <2>1 DEF LiveCatchAll
  <2>3. CatchAll(rule) \ (wasDown \ live) = live  BY <1>3 DEF LiveCatchAll
  <2>. QED  BY <1>3, <2>2, <2>3 DEF LiveCatchAll, Tier
<1>4. CASE AllDown
  <2>1. Specific(rule) \ (wasDown \ live) = {}  BY <1>4 DEF AllDown, InView
  <2>2. CatchAll(rule) \ (wasDown \ live) = {}  BY <1>4 DEF AllDown, InView
  <2>3. Specific(rule) # {} \/ CatchAll(rule) # {}  BY DEF InView
  <2>. QED  BY <1>4, <2>1, <2>2, <2>3 DEF AllDown, Tier
<1>. QED  BY <1>1, <1>2, <1>3, <1>4

-----------------------------------------------------------------------------
(* The policies. *)

\* Among finitely many records one has the greatest weight, or key.
LEMMA GreatestExists ==
  ASSUME NEW c, IsFiniteSet(c), c # {}, NEW w, \A q \in c : w[q] \in Nat
  PROVE  \E r \in c : \A q \in c : w[q] <= w[r]
<1>. DEFINE Above(r) == {q \in c : w[q] > w[r]}
            Aboves == {Above(r) : r \in c}
<1>1. Aboves \subseteq FiniteSubsetsOf(c) /\ Aboves # {}
  <2>1. ASSUME NEW r \in c  PROVE Above(r) \in FiniteSubsetsOf(c)
    <3>1. Above(r) \in SUBSET c  OBVIOUS
    <3>. HIDE DEF Above
    <3>. QED  BY <3>1, FS_Subset DEF FiniteSubsetsOf
  <2>. QED  BY <2>1
<1>2. PICK A \in Aboves : \A B \in Aboves : <<B, A>> \notin StrictSubsetOrdering(c)
  <2>. HIDE DEF Aboves
  <2>. QED  BY <1>1, FS_StrictSubsetOrderingWellFounded, WFMin
<1>3. PICK r \in c : A = Above(r)  OBVIOUS
<1>4. ASSUME NEW q \in c, w[q] > w[r]  PROVE FALSE
  <2>1. Above(q) \subseteq Above(r) /\ q \in Above(r) /\ q \notin Above(q)  BY <1>4
  <2>2. <<Above(q), Above(r)>> \in StrictSubsetOrdering(c)
    BY <2>1 DEF StrictSubsetOrdering
  <2>. QED  BY <1>2, <1>3, <2>2
<1>. QED  BY <1>4

\* A policy that can be used answers, from any candidates, with at least one.
LEMMA PolicyAnswers ==
  ASSUME NEW p \in [type : PolicyKinds, max : Nat \ {0}], p.type # "malformed",
         NEW w \in [Records -> Nat], NEW c \in SUBSET Records, c # {},
         NEW a \in Answers(p, w, c)
  PROVE  a # {}
<1>1. IsFiniteSet(c)  BY LookupAssumption, FS_Subset
<1>2. ASSUME NEW t \in SUBSET c, t # {}, a \in Samples(t, Least(p.max, Cardinality(t)))
      PROVE  a # {}
  <2>1. IsFiniteSet(t)  BY <1>1, FS_Subset
  <2>2. Cardinality(t) \in Nat \ {0}  BY <1>2, <2>1, FS_CardinalityType, FS_EmptySet
  <2>3. Cardinality(a) # 0  BY <1>2, <2>2 DEF Samples, Least
  <2>. QED  BY <2>3, FS_EmptySet
<1>3. HighestTier(c, w) # {} /\ HighestTier(c, w) \in SUBSET c
  BY <1>1, GreatestExists DEF HighestTier
<1>4. CASE p.type = "round-robin"
  BY <1>2, <1>3, <1>4 DEF Answers, RoundRobinAnswers
<1>5. CASE p.type = "sticky-hash"
  <2>. DEFINE tier == HighestTier(c, w)
  <2>1. IsFiniteSet(tier)  BY <1>1, <1>3, FS_Subset
  <2>2. PICK r \in tier : \A q \in tier : Key[q] <= Key[r]
    BY <1>3, <2>1, GreatestExists, LookupAssumption
  <2>3. {q \in tier : Key[q] > Key[r]} = {}
    BY <1>3, <2>2, LookupAssumption
  <2>4. r \in StickyPick(tier, Key, p.max)  BY <2>3, FS_EmptySet DEF StickyPick
  <2>. QED  BY <1>5, <2>4 DEF Answers, StickyAnswer
<1>6. CASE p.type = "weighted-random"
  BY <1>2, <1>6 DEF Answers, WeightedAnswers
<1>. QED  BY <1>4, <1>5, <1>6 DEF PolicyKinds

\* Ranked by distinct keys, the picks move by at most one when a record goes away.
LEMMA StickyRemap ==
  ASSUME NEW t \in SUBSET Records, NEW m \in Nat, NEW r \in t
  PROVE  LET old == StickyPick(t, Key, m)
             new == StickyPick(t \ {r}, Key, m)
         IN  /\ old \ {r} \subseteq new
             /\ r \notin old => new = old
             /\ Cardinality(new \ old) <= 1
<1>. DEFINE old == StickyPick(t, Key, m)
            new == StickyPick(t \ {r}, Key, m)
            Above(x) == {q \in t : Key[q] > Key[x]}
            AboveLeft(x) == {q \in t \ {r} : Key[q] > Key[x]}
<1>1. \A x \in t : Key[x] \in Nat  BY LookupAssumption
<1>2. ASSUME NEW x \in t
      PROVE  /\ IsFiniteSet(Above(x)) /\ Cardinality(Above(x)) \in Nat
             /\ IsFiniteSet(AboveLeft(x)) /\ Cardinality(AboveLeft(x)) \in Nat
             /\ Cardinality(AboveLeft(x)) =
                  IF r \in Above(x) THEN Cardinality(Above(x)) - 1 ELSE Cardinality(Above(x))
  <2>1. IsFiniteSet(Above(x))  BY LookupAssumption, FS_Subset
  <2>2. AboveLeft(x) = Above(x) \ {r}  OBVIOUS
  <2>. HIDE DEF Above, AboveLeft
  <2>. QED  BY <2>1, <2>2, FS_RemoveElement, FS_CardinalityType
<1>3. \A x : /\ x \in old <=> x \in t /\ Cardinality(Above(x)) < m
             /\ x \in new <=> x \in t /\ x # r /\ Cardinality(AboveLeft(x)) < m
  BY DEF StickyPick
<1>4. \A x, y \in t : Key[x] > Key[y] => Above(x) \cup {x} \subseteq Above(y) /\ x \notin Above(x)
  BY <1>1
<1>5. ASSUME NEW x \in t, NEW y \in t, Key[x] > Key[y]
      PROVE  Cardinality(Above(x)) < Cardinality(Above(y))
  <2>1. Above(x) \cup {x} \subseteq Above(y) /\ x \notin Above(x)  BY <1>4, <1>5
  <2>2. IsFiniteSet(Above(x)) /\ IsFiniteSet(Above(y))
        /\ Cardinality(Above(x)) \in Nat /\ Cardinality(Above(y)) \in Nat
    BY <1>2
  <2>. HIDE DEF Above
  <2>3. Cardinality(Above(x) \cup {x}) = Cardinality(Above(x)) + 1
    BY <2>1, <2>2, FS_AddElement
  <2>4. Cardinality(Above(x) \cup {x}) <= Cardinality(Above(y))
    BY <2>1, <2>2, FS_Subset
  <2>. QED  BY <2>2, <2>3, <2>4
<1>6. \A x \in t : r \in Above(x) <=> Key[r] > Key[x]  OBVIOUS
<1>. HIDE DEF old, new, Above, AboveLeft
<1>7. old \ {r} \subseteq new  BY <1>2, <1>3
<1>8. ASSUME r \notin old  PROVE new = old
  <2>1. ~ (Cardinality(Above(r)) < m)  BY <1>3, <1>8
  <2>2. ASSUME NEW x \in new  PROVE x \in old
    <3>1. x \in t /\ x # r /\ Cardinality(AboveLeft(x)) < m  BY <1>3
    <3>2. CASE Key[r] > Key[x]
      <4>1. Cardinality(AboveLeft(x)) = Cardinality(Above(x)) - 1  BY <1>2, <1>6, <3>1, <3>2
      <4>2. Cardinality(Above(r)) < Cardinality(Above(x))  BY <1>5, <3>1, <3>2
      <4>3. Cardinality(Above(r)) \in Nat /\ Cardinality(Above(x)) \in Nat  BY <1>2, <3>1
      <4>. QED  BY <2>1, <3>1, <4>1, <4>2, <4>3
    <3>3. CASE ~ (Key[r] > Key[x])
      <4>1. Cardinality(AboveLeft(x)) = Cardinality(Above(x))  BY <1>2, <1>6, <3>1, <3>3
      <4>. QED  BY <1>3, <3>1, <4>1
    <3>. QED  BY <3>2, <3>3
  <2>. QED  BY <1>7, <1>8, <2>2
<1>9. ASSUME NEW x \in new \ old, NEW y \in new \ old  PROVE x = y
  <2>1. x \in t /\ y \in t /\ x \in new /\ y \in new /\ x \notin old /\ y \notin old
    BY <1>3
  <2>2. Cardinality(Above(x)) = m /\ Cardinality(Above(y)) = m  BY <1>2, <1>3, <2>1
  <2>3. ~ (Key[x] > Key[y]) /\ ~ (Key[y] > Key[x])  BY <1>5, <2>1, <2>2
  <2>4. Key[x] = Key[y]  BY <1>1, <2>1, <2>3
  <2>. QED  BY <2>1, <2>4, LookupAssumption
<1>10. Cardinality(new \ old) <= 1
  <2>1. CASE new \ old = {}  BY <2>1, FS_EmptySet
  <2>2. CASE new \ old # {}
    <3>1. PICK x : x \in new \ old  BY <2>2
    <3>2. new \ old = {x}  BY <1>9, <3>1
    <3>. QED  BY <3>2, FS_Singleton
  <2>. QED  BY <2>1, <2>2
<1>. QED  BY <1>7, <1>8, <1>10 DEF old, new

-----------------------------------------------------------------------------
(* The walk of a weighted draw. *)

\* There are n numbers from m up to below m + n.
LEMMA NumbersBelow ==
  ASSUME NEW m \in Nat, NEW n \in Nat
  PROVE  /\ IsFiniteSet(m..(m + n - 1)) /\ Cardinality(m..(m + n - 1)) = n
         /\ IsFiniteSet(0..(n - 1)) /\ Cardinality(0..(n - 1)) = n
<1>. DEFINE a == m + n - 1
            b == n - 1
<1>1. a \in Int /\ b \in Int /\ m \in Int /\ 0 \in Int  OBVIOUS
<1>2. (m > a <=> n = 0) /\ (0 > b <=> n = 0) /\ a - m + 1 = n /\ b - 0 + 1 = n  OBVIOUS
<1>. HIDE DEF a, b
<1>3. IsFiniteSet(m..a) /\ Cardinality(m..a) = IF m > a THEN 0 ELSE a - m + 1
  BY <1>1, FS_Interval
<1>4. IsFiniteSet(0..b) /\ Cardinality(0..b) = IF 0 > b THEN 0 ELSE b - 0 + 1
  BY <1>1, FS_Interval
<1>5. Cardinality(m..a) = n /\ Cardinality(0..b) = n  BY <1>2, <1>3, <1>4
<1>. QED  BY <1>3, <1>4, <1>5 DEF a, b

\* Tickets are counted by records: one more record adds its weight.
LEMMA TicketCount ==
  ASSUME NEW c, IsFiniteSet(c), NEW w, \A q \in c : w[q] \in Nat
  PROVE  /\ IsFiniteSet(Tickets(c, w)) /\ Total(c, w) \in Nat
         /\ c = {} => Total(c, w) = 0
         /\ \A r \in c : Total(c, w) = Total(c \ {r}, w) + w[r]
<1>1. IsFiniteSet(Tickets(c, w))
  <2>1. CASE c = {}
    <3>1. Tickets(c, w) = {}  BY <2>1 DEF Tickets
    <3>. QED  BY <3>1, FS_EmptySet
  <2>2. CASE c # {}
    <3>1. PICK m \in c : \A q \in c : w[q] <= w[m]  BY <2>2, GreatestExists
    <3>2. w[m] \in Nat  OBVIOUS
    <3>3. IsFiniteSet(0..w[m])  BY <3>2, FS_Interval
    <3>4. IsFiniteSet(c \X (0..w[m]))  BY <3>3, FS_Product
    <3>5. Tickets(c, w) \subseteq c \X (0..w[m])
      <4>1. ASSUME NEW q \in c, NEW i \in 0..(w[q] - 1)  PROVE i \in 0..w[m]
        BY <3>1, <3>2
      <4>. QED  BY <4>1 DEF Tickets
    <3>. QED  BY <3>4, <3>5, FS_Subset
  <2>. QED  BY <2>1, <2>2
<1>2. Total(c, w) \in Nat  BY <1>1, FS_CardinalityType DEF Total
<1>3. ASSUME c = {}  PROVE Total(c, w) = 0
  <2>1. Tickets(c, w) = {}  BY <1>3 DEF Tickets
  <2>. QED  BY <2>1, FS_EmptySet DEF Total
<1>4. ASSUME NEW r \in c  PROVE Total(c, w) = Total(c \ {r}, w) + w[r]
  <2>. DEFINE Others == Tickets(c \ {r}, w)
              Mine == {r} \X (0..(w[r] - 1))
  <2>1. Tickets(c, w) = Others \cup Mine
    <3>. DEFINE T(q) == {q} \X (0..(w[q] - 1))
    <3>1. /\ \A x : x \in Tickets(c, w) <=> \E q \in c : x \in T(q)
          /\ \A x : x \in Others <=> \E q \in c \ {r} : x \in T(q)
          /\ \A x : x \in Mine <=> x \in T(r)
      BY Zenon DEF Tickets
    <3>. HIDE DEF T, Others, Mine
    <3>2. \A x : x \in Tickets(c, w) <=> x \in Others \/ x \in Mine  BY <3>1
    <3>. QED  BY <3>2
  <2>2. Others \cap Mine = {}  BY DEF Tickets
  <2>3. IsFiniteSet(Others)
    <3>1. Others \subseteq Tickets(c, w)  BY <2>1
    <3>. QED  BY <1>1, <3>1, FS_Subset
  <2>4. IsFiniteSet(Mine) /\ Cardinality(Mine) = w[r]
    <3>1. w[r] \in Nat  OBVIOUS
    <3>2. IsFiniteSet(0..(w[r] - 1)) /\ Cardinality(0..(w[r] - 1)) = w[r]
      BY <3>1, NumbersBelow
    <3>3. IsFiniteSet({r}) /\ Cardinality({r}) = 1  BY FS_Singleton
    <3>4. IsFiniteSet(Mine) /\ Cardinality(Mine) = Cardinality({r}) * Cardinality(0..(w[r] - 1))
      BY <3>2, <3>3, FS_Product
    <3>. QED  BY <3>1, <3>2, <3>3, <3>4
  <2>. HIDE DEF Others, Mine
  <2>5. Cardinality(Others \cup Mine) = Cardinality(Others) + Cardinality(Mine) - Cardinality(Others \cap Mine)
    BY <2>3, <2>4, FS_Union
  <2>6. Cardinality(Others \cap Mine) = 0 /\ Cardinality(Others) \in Nat
    BY <2>2, <2>3, FS_EmptySet, FS_CardinalityType
  <2>7. w[r] \in Nat  OBVIOUS
  <2>8. Cardinality(Others \cup Mine) = Cardinality(Others) + w[r]
    BY <2>4, <2>5, <2>6, <2>7
  <2>. QED  BY <2>1, <2>8 DEF Total, Others
<1>. QED  BY <1>1, <1>2, <1>3, <1>4

\* A part of the records has a part of the tickets.
LEMMA TicketsGrow ==
  ASSUME NEW c, IsFiniteSet(c), NEW w, \A q \in c : w[q] \in Nat, NEW b \in SUBSET c
  PROVE  /\ IsFiniteSet(b) /\ Total(b, w) \in Nat /\ Total(c, w) \in Nat
         /\ Total(b, w) <= Total(c, w)
<1>1. IsFiniteSet(b)  BY FS_Subset
<1>2. Tickets(b, w) \subseteq Tickets(c, w)  BY DEF Tickets
<1>3. IsFiniteSet(Tickets(c, w)) /\ Total(b, w) \in Nat /\ Total(c, w) \in Nat
  BY <1>1, TicketCount
<1>. QED  BY <1>1, <1>2, <1>3, FS_Subset DEF Total

\* The walk, for draws below the total, picks a record for just as many draws
\* as it has weight: those from the weight before it up to its own cumulative one.
LEMMA WalkIntervals ==
  ASSUME NEW c, IsFiniteSet(c), NEW w, \A q \in c : w[q] \in Nat,
         NEW order \in Orders(c), NEW r \in c
  PROVE  w[r] = Cardinality({draw \in 0..(Total(c, w) - 1) : WeightedPick(c, w, order, draw) = r})
<1>. DEFINE upTo(q) == {p \in c : order[p] <= order[q]}
            before(q) == {p \in c : order[p] < order[q]}
            cum(q) == Total(upTo(q), w)
            base(q) == Total(before(q), w)
            Fits(q, draw) == /\ draw < cum(q)
                             /\ \A p \in c : order[p] < order[q] => cum(p) <= draw
<1>1. /\ Cardinality(c) \in Nat
      /\ \A q \in c : order[q] \in 1..Cardinality(c) /\ order[q] \in Nat
      /\ \A p, q \in c : order[p] = order[q] => p = q
  BY FS_CardinalityType DEF Orders
<1>2. \A q \in c : /\ upTo(q) \in SUBSET c /\ before(q) \in SUBSET c
                   /\ q \in upTo(q) /\ upTo(q) \ {q} = before(q)
  BY <1>1
<1>3. \A p, q \in c : order[p] < order[q] => upTo(p) \in SUBSET before(q)
  BY <1>1
<1>4. \A q \in c : \A draw : Fits(q, draw) <=> /\ draw < Cumulative(c, w, order, q)
                                                /\ \A p \in c : order[p] < order[q] => Cumulative(c, w, order, p) <= draw
  BY DEF Cumulative
<1>5. \A b \in SUBSET c : IsFiniteSet(b) /\ Total(b, w) \in Nat /\ Total(b, w) <= Total(c, w)
  BY TicketsGrow
<1>6. ASSUME NEW q \in c
      PROVE  cum(q) = base(q) + w[q] /\ base(q) \in Nat /\ cum(q) \in Nat /\ cum(q) <= Total(c, w)
  <2>. DEFINE u == upTo(q)
              b == before(q)
  <2>1. u \in SUBSET c /\ b \in SUBSET c /\ q \in u /\ u \ {q} = b  BY <1>2
  <2>. HIDE DEF u, b
  <2>2. IsFiniteSet(u) /\ \A p \in u : w[p] \in Nat  BY <1>5, <2>1
  <2>3. Total(u, w) = Total(u \ {q}, w) + w[q]  BY <2>1, <2>2, TicketCount
  <2>4. Total(u, w) = Total(b, w) + w[q]  BY <2>1, <2>3
  <2>5. Total(u, w) \in Nat /\ Total(b, w) \in Nat /\ Total(u, w) <= Total(c, w)  BY <1>5, <2>1
  <2>. QED  BY <2>4, <2>5 DEF u, b
<1>7. ASSUME NEW p \in c, NEW q \in c, order[p] < order[q]  PROVE cum(p) <= base(q)
  <2>. DEFINE u == upTo(p)
              b == before(q)
  <2>1. u \in SUBSET b /\ b \in SUBSET c  BY <1>2, <1>3, <1>7
  <2>. HIDE DEF u, b
  <2>2. IsFiniteSet(b) /\ \A x \in b : w[x] \in Nat  BY <1>5, <2>1
  <2>3. Total(u, w) <= Total(b, w)  BY <2>1, <2>2, TicketsGrow
  <2>. QED  BY <2>3 DEF u, b
<1>8. ASSUME NEW q \in c
      PROVE  (before(q) = {} /\ base(q) = 0) \/ \E p \in c : order[p] < order[q] /\ base(q) = cum(p)
  <2>. DEFINE b == before(q)
  <2>0. b \in SUBSET c  BY <1>2
  <2>1. CASE b = {}
    <3>1. IsFiniteSet(b) /\ \A x \in b : w[x] \in Nat  BY <1>5, <2>0
    <3>. HIDE DEF b
    <3>2. Total(b, w) = 0  BY <2>1, <3>1, TicketCount
    <3>. QED  BY <2>1, <3>2 DEF b
  <2>2. CASE b # {}
    <3>1. IsFiniteSet(b) /\ \A x \in b : order[x] \in Nat  BY <1>1, <1>5, <2>0
    <3>2. PICK p \in b : \A x \in b : order[x] <= order[p]
      <4>. HIDE DEF b
      <4>. QED  BY <2>2, <3>1, GreatestExists
    <3>3. p \in c /\ order[p] < order[q]  OBVIOUS
    <3>4. upTo(p) = b
      <4>1. ASSUME NEW x \in c  PROVE order[x] <= order[p] <=> order[x] < order[q]
        BY <1>1, <3>2, <3>3
      <4>. QED  BY <4>1
    <3>. QED  BY <3>3, <3>4
  <2>. QED  BY <2>1, <2>2
<1>. HIDE DEF upTo, before, cum, base
\* A record fits the draws of its interval.
<1>9. ASSUME NEW q \in c, NEW draw \in Nat
      PROVE  Fits(q, draw) <=> base(q) <= draw /\ draw < cum(q)
  <2>1. ASSUME Fits(q, draw)  PROVE base(q) <= draw
    BY <1>8, <2>1
  <2>2. ASSUME base(q) <= draw, draw < cum(q)  PROVE Fits(q, draw)
    <3>1. ASSUME NEW p \in c, order[p] < order[q]  PROVE cum(p) <= draw
      <4>1. cum(p) <= base(q)  BY <1>7, <3>1
      <4>. QED  BY <1>6, <2>2, <4>1
    <3>. QED  BY <2>2, <3>1
  <2>. QED  BY <2>1, <2>2
<1>10. ASSUME NEW p \in c, NEW q \in c, NEW draw \in Nat, Fits(p, draw), Fits(q, draw)
       PROVE  p = q
  <2>1. cum(p) \in Nat /\ cum(q) \in Nat  BY <1>6
  <2>2. ~ (order[p] < order[q]) /\ ~ (order[q] < order[p])  BY <1>10, <2>1
  <2>. QED  BY <1>1, <2>2
\* Some record fits each draw below the total.
<1>11. ASSUME NEW draw \in Nat, draw < Total(c, w)  PROVE \E q \in c : Fits(q, draw)
  <2>. DEFINE S == {q \in c : draw < cum(q)}
              N == Cardinality(c)
              g == [q \in c |-> N - order[q]]
  <2>1. c # {}
    <3>1. Total({}, w) = 0  BY FS_EmptySet, TicketCount
    <3>. QED  BY <1>11, <3>1
  <2>2. PICK l \in c : \A x \in c : order[x] <= order[l]  BY <1>1, <2>1, GreatestExists
  <2>3. cum(l) = Total(c, w)
    <3>1. upTo(l) = c  BY <2>2 DEF upTo
    <3>. QED  BY <3>1 DEF cum
  <2>4. l \in S /\ S \in SUBSET c  BY <1>11, <2>3
  <2>5. IsFiniteSet(S) /\ S # {}  BY <2>4, FS_Subset
  <2>6. \A x \in S : g[x] \in Nat  BY <1>1, <2>4
  <2>7. PICK q \in S : \A x \in S : g[x] <= g[q]
    <3>. HIDE DEF S, g
    <3>. QED  BY <2>5, <2>6, GreatestExists
  <2>8. ASSUME NEW p \in c, order[p] < order[q]  PROVE cum(p) <= draw
    <3>1. p \notin S
      <4>. SUFFICES ASSUME p \in S  PROVE FALSE
        OBVIOUS
      <4>1. g[p] <= g[q]  BY <2>7
      <4>2. N - order[p] <= N - order[q]  BY <2>4, <4>1
      <4>3. N \in Nat /\ order[p] \in Nat /\ order[q] \in Nat  BY <1>1, <2>4
      <4>. HIDE DEF N
      <4>. QED  BY <2>8, <4>2, <4>3
    <3>2. cum(p) \in Nat  BY <1>6
    <3>. QED  BY <3>1, <3>2
  <2>. QED  BY <2>8
<1>12. ASSUME NEW draw \in 0..(Total(c, w) - 1)
       PROVE  WeightedPick(c, w, order, draw) = r <=> Fits(r, draw)
  <2>1. Total(c, w) \in Nat  BY TicketsGrow
  <2>2. draw \in Nat /\ draw < Total(c, w)  BY <2>1
  <2>3. PICK q \in c : Fits(q, draw)  BY <1>11, <2>2
  <2>. DEFINE P(x) == /\ draw < Cumulative(c, w, order, x)
                      /\ \A p \in c : order[p] < order[x] => Cumulative(c, w, order, p) <= draw
              pick == CHOOSE x \in c : P(x)
  <2>4. \A x \in c : P(x) <=> Fits(x, draw)  BY <1>4
  <2>. HIDE DEF P, Fits
  <2>5. pick \in c /\ P(pick)  BY <2>3, <2>4
  <2>. HIDE DEF pick
  <2>6. Fits(pick, draw)  BY <2>4, <2>5
  <2>7. pick = r <=> Fits(r, draw)  BY <1>10, <2>2, <2>5, <2>6
  <2>8. WeightedPick(c, w, order, draw) = pick  BY DEF WeightedPick, pick, P
  <2>. QED  BY <2>7, <2>8
<1>13. {draw \in 0..(Total(c, w) - 1) : WeightedPick(c, w, order, draw) = r} = base(r)..(base(r) + w[r] - 1)
  <2>1. /\ Total(c, w) \in Nat /\ w[r] \in Nat /\ base(r) \in Nat
        /\ cum(r) = base(r) + w[r] /\ cum(r) <= Total(c, w)
    BY <1>6, TicketsGrow
  <2>2. ASSUME NEW draw \in 0..(Total(c, w) - 1)
        PROVE  WeightedPick(c, w, order, draw) = r <=> base(r) <= draw /\ draw < cum(r)
    BY <1>9, <1>12, <2>1
  <2>. HIDE DEF Fits
  <2>3. ASSUME NEW draw \in base(r)..(base(r) + w[r] - 1)
        PROVE  draw \in 0..(Total(c, w) - 1) /\ base(r) <= draw /\ draw < cum(r)
    BY <2>1
  <2>4. ASSUME NEW draw \in 0..(Total(c, w) - 1), base(r) <= draw, draw < cum(r)
        PROVE  draw \in base(r)..(base(r) + w[r] - 1)
    BY <2>1, <2>4
  <2>. QED  BY <2>2, <2>3, <2>4
<1>14. base(r) \in Nat /\ w[r] \in Nat  BY <1>6
<1>. QED  BY <1>13, <1>14, NumbersBelow

-----------------------------------------------------------------------------
\* A lookup starts with no status read.
LEMMA InitIInv == Init => IInv
BY LookupAssumption DEF Init, IInv, TypeOK, Seen, Busy, ReadsTrue, Chosen, InView, Drawing, Answered

\* The sets and records the policies are about.
LEMMA Typed ==
  ASSUME IInv
  PROVE  /\ policy \in [type : PolicyKinds, max : Nat \ {0}]
         /\ weight \in [Records -> Nat]
         /\ candidates \in SUBSET Records /\ IsFiniteSet(candidates)
         /\ drawn \subseteq candidates
         /\ Cardinality(candidates) \in Nat /\ Cardinality(drawn) \in Nat
         /\ Wanted \in Nat
<1>1. /\ policy \in [type : PolicyKinds, max : Nat \ {0}]
      /\ weight \in [Records -> Nat]
      /\ candidates \in SUBSET Records
      /\ drawn \subseteq candidates
  <2>1. InView(rule) \subseteq Records  BY DEF InView, Specific, CatchAll
  <2>. QED  BY <2>1, LookupAssumption DEF IInv, TypeOK
<1>2. IsFiniteSet(candidates) /\ IsFiniteSet(drawn)
  BY <1>1, LookupAssumption, FS_Subset
<1>3. Cardinality(candidates) \in Nat /\ Cardinality(drawn) \in Nat
  BY <1>2, FS_CardinalityType
<1>. QED  BY <1>1, <1>2, <1>3 DEF Wanted, Least

\* Drawing adds a record of positive weight while fewer than wanted are drawn.
LEMMA DrawKeepsDrawing ==
  ASSUME IInv, NEW r \in Records, Draw(r)
  PROVE  Drawing'
<1>1. /\ pc = "draw" /\ pc' = pc /\ Cardinality(drawn) < Wanted
      /\ r \in candidates /\ r \notin drawn /\ weight[r] > 0
      /\ drawn' = drawn \cup {r} /\ weight' = weight
      /\ candidates' = candidates /\ policy' = policy /\ Wanted' = Wanted
  BY DEF Draw, Remaining, Wanted, rowSet
<1>2. IsFiniteSet(drawn) /\ Cardinality(drawn) \in Nat /\ Wanted \in Nat
  BY Typed, FS_Subset
<1>3. Cardinality(drawn') <= Wanted'
  <2>1. Cardinality(drawn \cup {r}) = Cardinality(drawn) + 1  BY <1>1, <1>2, FS_AddElement
  <2>. QED  BY <1>1, <1>2, <2>1
<1>. QED  BY <1>1, <1>3 DEF IInv, Drawing

\* However the handler ends, it ends with an answer of the policy.
LEMMA EndsWithOutcome ==
  ASSUME IInv, Choose \/ DrawEqual \/ DrawnAll
  PROVE  answer' \in Outcome
<1>1. CASE Choose  BY <1>1 DEF Choose, Outcome
<1>2. CASE DrawEqual \/ DrawnAll
  <2>1. candidates # {} /\ policy.type = "weighted-random" /\ \A r \in drawn : weight[r] > 0
    BY <1>2 DEF DrawEqual, DrawnAll, IInv, Drawing
  <2>2. \A r \in candidates : weight[r] \in Nat  BY Typed
  <2>3. CASE DrawnAll
    <3>1. answer' = drawn /\ Cardinality(drawn) = Wanted  BY <2>3 DEF DrawnAll
    <3>2. answer' \in Samples(candidates, Wanted)  BY <3>1, Typed DEF Samples
    <3>3. \A r \in answer' : weight[r] # 0  BY <2>1, <2>2, <3>1, Typed
    <3>. QED  BY <2>1, <3>2, <3>3 DEF Outcome, Answers, WeightedAnswers, Wanted
  <2>4. CASE DrawEqual
    <3>1. PICK s \in Samples(Remaining, Wanted - Cardinality(drawn)) : answer' = drawn \cup s
      BY <2>4 DEF DrawEqual
    <3>2. s \subseteq candidates /\ drawn \cap s = {} /\ Cardinality(s) = Wanted - Cardinality(drawn)
      BY <3>1 DEF Samples, Remaining
    <3>3. IsFiniteSet(s) /\ IsFiniteSet(drawn) /\ Cardinality(drawn) \in Nat /\ Wanted \in Nat
      BY <3>2, Typed, FS_Subset
    <3>4. Cardinality(drawn \cup s) = Cardinality(drawn) + Cardinality(s) - Cardinality(drawn \cap s)
      BY <3>3, FS_Union
    <3>5. Cardinality(answer') = Wanted
      <4>1. Cardinality(drawn \cap s) = 0  BY <3>2, FS_EmptySet
      <4>. QED  BY <3>1, <3>2, <3>3, <3>4, <4>1
    <3>6. answer' \in Samples(candidates, Wanted)  BY <3>1, <3>2, <3>5, Typed DEF Samples
    <3>7. \A q \in candidates : weight[q] > 0 => q \in answer'
      BY <2>2, <2>4, <3>1 DEF DrawEqual, Remaining
    <3>. QED  BY <2>1, <3>6, <3>7 DEF Outcome, Answers, WeightedAnswers, Wanted
  <2>. QED  BY <1>2, <2>3, <2>4
<1>. QED  BY <1>1, <1>2

\* The policies answer with candidates.
LEMMA OutcomeInCandidates ==
  ASSUME IInv, NEW a \in Outcome
  PROVE  a \subseteq candidates
BY Typed, AnswersAreCandidates DEF Outcome

\* A status that changes during the lookup only adds to what was seen.
LEMMA FlipIInv ==
  ASSUME IInv, NEW r \in Records, Flip(r)
  PROVE  IInv'
<1>. USE DEF Flip, rowSet
<1>1. TypeOK'
  BY DEF IInv, TypeOK, Busy, InView, Specific, CatchAll
<1>2. Seen'
  BY DEF IInv, TypeOK, Seen, Busy
<1>3. wasDown \subseteq wasDown' /\ wasUp \subseteq wasUp'
  BY DEF Busy
<1>4. ReadsTrue'
  BY <1>3 DEF IInv, ReadsTrue, InView, Specific, CatchAll
<1>5. Chosen'
  BY <1>3 DEF IInv, Chosen, LiveSpecific, LiveCatchAll, AllDown, InView, Specific, CatchAll
<1>6. Drawing'
  BY DEF IInv, Drawing, Wanted
<1>7. Answered'
  BY DEF IInv, Answered, Outcome
<1>. QED  BY <1>1, <1>2, <1>4, <1>5, <1>6, <1>7 DEF IInv

\* Every step of the handler keeps the meaning of its locals.
LEMMA StepIInv ==
  ASSUME IInv, LookupStep
  PROVE  IInv'
<1>1. TypeOK' /\ Seen' /\ ReadsTrue' /\ Chosen'
  <2>. USE DEF IInv, TypeOK, Seen, Busy, ReadsTrue, Chosen, InView, Specific, CatchAll,
               registry, rowSet
  <2>1. CASE SplitByView  BY <2>1 DEF SplitByView, Drawing
  <2>2. CASE TierLives
    BY <2>2 DEF TierLives, LiveSpecific, LiveCatchAll, Drawing
  <2>3. CASE FallToCatchAll  BY <2>3 DEF FallToCatchAll
  <2>4. CASE AllDownAllUp  BY <2>4 DEF AllDownAllUp, AllDown, Drawing
  <2>5. ASSUME NEW r \in Records, ReadStatus(r)  PROVE TypeOK' /\ Seen' /\ ReadsTrue' /\ Chosen'
    BY <2>5 DEF ReadStatus
  <2>6. CASE Choose \/ DrawEqual \/ DrawnAll
    <3>1. answer' \subseteq candidates  BY <2>6, EndsWithOutcome, OutcomeInCandidates
    <3>. QED  BY <2>6, <3>1 DEF Choose, DrawEqual, DrawnAll, LiveSpecific, LiveCatchAll, AllDown
  <2>7. CASE BeginDraw \/ \E r \in Records : Draw(r)
    BY <2>7 DEF BeginDraw, Draw, Remaining, LiveSpecific, LiveCatchAll, AllDown
  <2>. QED  BY <2>1, <2>2, <2>3, <2>4, <2>5, <2>6, <2>7 DEF LookupStep
<1>2. Drawing'
  <2>1. CASE SplitByView \/ TierLives \/ FallToCatchAll \/ AllDownAllUp
    BY <2>1 DEF SplitByView, TierLives, FallToCatchAll, AllDownAllUp, IInv, Drawing
  <2>2. ASSUME NEW r \in Records, ReadStatus(r)  PROVE Drawing'
    BY <2>2 DEF ReadStatus, IInv, Drawing
  <2>3. CASE Choose \/ DrawEqual \/ DrawnAll
    BY <2>3 DEF Choose, DrawEqual, DrawnAll, Drawing
  <2>4. CASE BeginDraw
    <3>1. drawn = {} /\ Cardinality(drawn) = 0  BY <2>4, FS_EmptySet DEF BeginDraw, IInv, Drawing
    <3>2. Wanted \in Nat  BY Typed
    <3>. QED  BY <2>4, <3>1, <3>2 DEF BeginDraw, Drawing, Wanted, rowSet
  <2>. QED  BY <2>1, <2>2, <2>3, <2>4, DrawKeepsDrawing DEF LookupStep
<1>3. Answered'
  <2>1. CASE Choose \/ DrawEqual \/ DrawnAll
    <3>1. answer' \in Outcome  BY <2>1, EndsWithOutcome
    <3>2. Outcome' = Outcome
      BY <2>1 DEF Choose, DrawEqual, DrawnAll, Outcome, rowSet
    <3>. QED  BY <3>1, <3>2 DEF Answered
  <2>2. CASE SplitByView \/ TierLives \/ FallToCatchAll \/ AllDownAllUp \/ BeginDraw
    BY <2>2 DEF SplitByView, TierLives, FallToCatchAll, AllDownAllUp, BeginDraw, Answered
  <2>3. ASSUME NEW r \in Records, ReadStatus(r) \/ Draw(r)  PROVE Answered'
    BY <2>3 DEF ReadStatus, Draw, Answered
  <2>. QED  BY <2>1, <2>2, <2>3 DEF LookupStep
<1>. QED  BY <1>1, <1>2, <1>3 DEF IInv

\* What the lookup's locals mean, at every moment of it.
THEOREM Inductive == Spec => []IInv
<1>1. IInv /\ UNCHANGED vars => IInv'
  <2>1. IInv /\ UNCHANGED vars => (TypeOK /\ Seen /\ ReadsTrue /\ Chosen)'
    BY DEF vars, rowSet, registry, IInv, TypeOK, Seen, Busy, ReadsTrue, Chosen, LiveSpecific,
           LiveCatchAll, AllDown, InView, Specific, CatchAll
  <2>2. IInv /\ UNCHANGED vars => (Drawing /\ Answered)'
    BY DEF vars, rowSet, IInv, Drawing, Wanted, Answered, Outcome
  <2>. QED  BY <2>1, <2>2 DEF IInv
<1>2. IInv /\ [Next]_vars => IInv'
  BY <1>1, FlipIInv, StepIInv DEF Next
<1>. QED  BY InitIInv, <1>2, PTL DEF Spec

\* The locals of _select_records hold records of the tier they are about, and
\* only records in view are answered.
THEOREM TypeCorrect == Spec => []TypeOK
BY Inductive, PTL DEF IInv

\* A record that was down during the whole lookup is answered only when every
\* record in view was down at some moment of it, and a catch-all record only
\* when every specific one was.
THEOREM FallbackJustified == Spec => []FallsBackOnlyWhenDown
<1>1. IInv => FallsBackOnlyWhenDown
  BY DEF IInv, TypeOK, ReadsTrue, Chosen, LiveSpecific, LiveCatchAll, AllDown,
         FallsBackOnlyWhenDown, InView, Specific, CatchAll
<1>. QED  BY <1>1, Inductive, PTL

\* A name with a record in view and a usable policy is always answered: with
\* any weights, zero among them, and any number of answers.
THEOREM AlwaysAnswers == Spec => []NeverEmpty
<1>1. ASSUME IInv  PROVE NeverEmpty
  <2>. SUFFICES ASSUME pc = "done", InView(rule) # {}, policy.type # "malformed"
                PROVE  answer # {}
    BY DEF NeverEmpty
  <2>1. candidates # {}  BY <1>1, ChosenIsTier
  <2>2. answer \in Answers(policy, weight, candidates)
    BY <1>1, <2>1 DEF IInv, Answered, Outcome
  <2>. QED  BY <1>1, <2>1, <2>2, Typed, PolicyAnswers
<1>. QED  BY <1>1, Inductive, PTL

\* Removing a record moves a client to at most one record it was not answered
\* with, and only when it was answered with the removed one.
THEOREM RemapIsMinimal == Spec => []StickyWhenDropped
<1>1. ASSUME IInv  PROVE StickyWhenDropped
  <2>. SUFFICES ASSUME pc = "done", policy.type = "sticky-hash",
                       NEW r \in HighestTier(candidates, weight)
                PROVE  LET next == StickyPick(HighestTier(candidates, weight) \ {r}, Key, policy.max)
                       IN  /\ answer \ {r} \subseteq next
                           /\ r \notin answer => next = answer
                           /\ Cardinality(next \ answer) <= 1
    BY DEF StickyWhenDropped
  <2>1. candidates # {} /\ HighestTier(candidates, weight) \in SUBSET Records
    BY <1>1, Typed DEF HighestTier
  <2>2. answer = StickyPick(HighestTier(candidates, weight), Key, policy.max)
    BY <1>1, <2>1 DEF IInv, Answered, Outcome, Answers, StickyAnswer
  <2>3. policy.max \in Nat  BY <1>1, Typed
  <2>. HIDE DEF HighestTier
  <2>. QED  BY <2>1, <2>2, <2>3, StickyRemap
<1>. QED  BY <1>1, Inductive, PTL

\* At every draw of WeightedRandom.select, each record that remains is picked
\* for as many results of randrange(total) as it has weight, in any order of
\* the contents: its chance is its weight over the remaining total.
THEOREM WalkProportional == Spec => []WalkIsProportional
<1>1. ASSUME IInv  PROVE WalkIsProportional
  <2>1. /\ IsFiniteSet(Remaining)
        /\ \A q \in Remaining : weight[q] \in Nat
    BY <1>1, Typed, FS_Subset DEF Remaining
  <2>. QED  BY <2>1, WalkIntervals DEF WalkIsProportional
<1>. QED  BY <1>1, Inductive, PTL

\* What Draw and DrawEqual stand for in WeightedRandom.select: the total is
\* zero just when no remaining record has weight, and the records that can be
\* drawn are those that the walk picks for some result of randrange(total).
THEOREM DrawsAreWalks ==
  ASSUME IInv
  PROVE  /\ Total(Remaining, weight) = 0 <=> \A r \in Remaining : weight[r] = 0
         /\ \A order \in Orders(Remaining), r \in Remaining :
              weight[r] > 0 <=> \E draw \in 0..(Total(Remaining, weight) - 1) :
                                  WeightedPick(Remaining, weight, order, draw) = r
<1>1. /\ IsFiniteSet(Remaining)
      /\ \A q \in Remaining : weight[q] \in Nat
  BY Typed, FS_Subset DEF Remaining
<1>2. ASSUME \A r \in Remaining : weight[r] = 0  PROVE Total(Remaining, weight) = 0
  <2>1. Tickets(Remaining, weight) = {}  BY <1>2 DEF Tickets
  <2>. QED  BY <2>1, FS_EmptySet DEF Total
<1>3. ASSUME NEW r \in Remaining, weight[r] # 0  PROVE Total(Remaining, weight) # 0
  <2>1. Total(Remaining, weight) = Total(Remaining \ {r}, weight) + weight[r]  BY <1>1, TicketCount
  <2>2. Total(Remaining \ {r}, weight) \in Nat  BY <1>1, TicketsGrow
  <2>. QED  BY <1>1, <1>3, <2>1, <2>2
<1>4. ASSUME NEW order \in Orders(Remaining), NEW r \in Remaining
      PROVE  weight[r] > 0 <=> \E draw \in 0..(Total(Remaining, weight) - 1) :
                                 WeightedPick(Remaining, weight, order, draw) = r
  <2>. DEFINE D == {draw \in 0..(Total(Remaining, weight) - 1) :
                      WeightedPick(Remaining, weight, order, draw) = r}
  <2>1. weight[r] = Cardinality(D)  BY <1>1, WalkIntervals
  <2>2. IsFiniteSet(D)
    <3>. DEFINE I == 0..(Total(Remaining, weight) - 1)
    <3>1. Total(Remaining, weight) \in Nat  BY <1>1, TicketCount
    <3>2. IsFiniteSet(I)  BY <3>1, NumbersBelow
    <3>3. D \in SUBSET I  OBVIOUS
    <3>. HIDE DEF I, D
    <3>. QED  BY <3>2, <3>3, FS_Subset
  <2>3. weight[r] > 0 <=> D # {}
    <3>. HIDE DEF D
    <3>. QED  BY <1>1, <2>1, <2>2, FS_EmptySet
  <2>. QED  BY <2>3
<1>. QED  BY <1>2, <1>3, <1>4

\* Every answer is the one the selection rules give for one status of each
\* record out of the lookup: Lookup implements LookupSpec.
THEOREM PromiseKept == Spec => KeepsPromise
<1>1. Init => Promise!SpecInit
  BY DEF Init, Promise!SpecInit
<1>2. ASSUME IInv, Next  PROVE [Promise!SpecNext]_Promise!specVars
  <2>. USE DEF rowSet, registry
  <2>1. ASSUME NEW r \in Records, Flip(r)  PROVE Promise!SpecFlip(r)
    BY <1>2, <2>1 DEF Flip, Busy, Promise!SpecFlip, IInv, TypeOK
  <2>2. CASE SplitByView
    <3>1. pc = "start" /\ pc' \in {"choose", "specific"}
      BY <2>2 DEF SplitByView
    <3>. QED  BY <2>2, <3>1 DEF SplitByView, Promise!SpecBegin, Promise!SpecNext
  <2>3. CASE \/ TierLives \/ FallToCatchAll \/ AllDownAllUp
             \/ \E r \in Records : ReadStatus(r)
    BY <2>3 DEF TierLives, FallToCatchAll, AllDownAllUp, ReadStatus, Promise!specVars
  <2>4. CASE BeginDraw \/ \E r \in Records : Draw(r)
    BY <2>4 DEF BeginDraw, Draw, Promise!specVars
  <2>5. CASE Choose \/ DrawEqual \/ DrawnAll
    <3>1. pc \in {"choose", "draw"} /\ pc' = "done"
          /\ UNCHANGED <<rule, weight, policy, down, wasDown, wasUp>>
      BY <2>5 DEF Choose, DrawEqual, DrawnAll
    <3>2. answer' \in IF InView(rule) = {} THEN {{}}
                      ELSE Answers(policy, weight, Tier(rule, wasDown \ live))
      <4>1. answer' \in Outcome  BY <1>2, <2>5, EndsWithOutcome
      <4>2. CASE InView(rule) = {}
        BY <1>2, <3>1, <4>1, <4>2 DEF IInv, Chosen, Outcome
      <4>3. CASE InView(rule) # {}
        BY <1>2, <3>1, <4>1, <4>3, ChosenIsTier DEF Outcome
      <4>. QED  BY <4>2, <4>3
    <3>3. Records \ (wasDown \ live) \subseteq wasUp
      BY <1>2, <3>1 DEF IInv, ReadsTrue
    <3>4. answer' \in IF Promise!InView(rule) = {} THEN {{}}
                      ELSE Promise!Answers(policy, weight, Promise!Tier(rule, wasDown \ live))
      BY <3>2, SameRules, SameAnswers
    <3>. QED  BY <3>1, <3>3, <3>4 DEF Promise!SpecAnswer, Promise!SpecNext
  <2>. QED  BY <1>2, <2>1, <2>2, <2>3, <2>4, <2>5 DEF Next, LookupStep, Promise!SpecNext
<1>3. UNCHANGED vars => UNCHANGED Promise!specVars
  BY DEF vars, rowSet, registry, Promise!specVars
<1>. QED
  BY <1>1, <1>2, <1>3, Inductive, PTL DEF Spec, KeepsPromise, Promise!LookupPromise
=============================================================================
