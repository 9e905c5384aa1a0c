------------------------------- MODULE Lookup --------------------------------
(***************************************************************************)
(* One DNS lookup of one qtype, reading the health registry record by      *)
(* record while CheckThreads change it.                                    *)
(*                                                                         *)
(* Source: PowerDNSRequestHandler in                                       *)
(* powergslb/server/http/handler/powerdns.py.  The records come from one   *)
(* SELECT, so rule and policy are fixed; each status is one read of the    *)
(* registry shared with the other threads.                                 *)
(***************************************************************************)
EXTENDS Selection

VARIABLES
  rule, weight, policy, \* the row set gslb_records returned
  down,         \* StatusRegistry._status, restricted to these records
  pc,           \* "start", "specific", "catchAll", "choose", "draw" or "done"
  left,         \* records of the tier whose status is still to be read
  live,         \* records of the tier read as up
  candidates,   \* local of _select_records
  drawn,        \* "selected" in WeightedRandom.select
  answer,       \* selected[qtype]; {} when the qtype is absent
  wasDown, wasUp \* history: who was down, up at some moment of the lookup

rowSet == <<rule, weight, policy>>
registry == <<down, wasDown, wasUp>>
vars == <<rowSet, registry, pc, left, live, candidates, drawn, answer>>

Init ==
  /\ rule \in Rules /\ weight \in Weights /\ policy \in Policies
  /\ down \in SUBSET Records
  /\ pc = "start"
  /\ left = {} /\ live = {} /\ candidates = {} /\ drawn = {} /\ answer = {}
  /\ wasDown = {} /\ wasUp = {}

Busy == pc \in {"specific", "catchAll", "choose", "draw"}

-----------------------------------------------------------------------------
\* A CheckThread marks one record down or up.
Flip(r) ==
  /\ down' = IF r \in down THEN down \ {r} ELSE down \cup {r}
  /\ wasDown' = IF Busy THEN wasDown \cup down' ELSE wasDown
  /\ wasUp' = IF Busy THEN wasUp \cup (Records \ down') ELSE wasUp
  /\ UNCHANGED <<rowSet, pc, left, live, candidates, drawn, answer>>

\* Fault: the specific tier takes every record that is no catch-all.
SplitByView_KeepsMisses ==
  /\ pc = "start"
  /\ pc' = IF InView(rule) = {} THEN "choose" ELSE "specific"
  /\ left' = Records \ CatchAll(rule)
  /\ wasDown' = down /\ wasUp' = Records \ down
  /\ UNCHANGED <<rowSet, down, live, candidates, drawn, answer>>

\* The group is split by view; without an in-view record the qtype is absent.
SplitByView ==
  /\ pc = "start"
  /\ pc' = IF InView(rule) = {} THEN "choose" ELSE "specific"
  /\ left' = Specific(rule)
  /\ wasDown' = down /\ wasUp' = Records \ down
  /\ UNCHANGED <<rowSet, down, live, candidates, drawn, answer>>

\* _live: one is_down of one record of the tier.
ReadStatus(r) ==
  /\ pc \in {"specific", "catchAll"} /\ r \in left
  /\ left' = left \ {r}
  /\ live' = IF r \in down THEN live ELSE live \cup {r}
  /\ UNCHANGED <<rowSet, registry, pc, candidates, drawn, answer>>

\* The tier has a live record: its live records are the candidates.
TierLives ==
  /\ pc \in {"specific", "catchAll"} /\ left = {} /\ live # {}
  /\ candidates' = live
  /\ pc' = "choose"
  /\ UNCHANGED <<rowSet, registry, left, live, drawn, answer>>

\* No specific record was read as up: the catch-all records are read.
FallToCatchAll ==
  /\ pc = "specific" /\ left = {} /\ live = {}
  /\ left' = CatchAll(rule)
  /\ pc' = "catchAll"
  /\ UNCHANGED <<rowSet, registry, live, candidates, drawn, answer>>

\* "all down = all up": the down records of the first non-empty tier.
AllDownAllUp ==
  /\ pc = "catchAll" /\ left = {} /\ live = {}
  /\ candidates' = IF Specific(rule) # {} THEN Specific(rule) ELSE CatchAll(rule)
  /\ pc' = "choose"
  /\ UNCHANGED <<rowSet, registry, left, live, drawn, answer>>

\* The routing policy chooses among the candidates, or the qtype is absent.
Choose ==
  /\ pc = "choose"
  /\ candidates # {} => policy.type # "weighted-random"
  /\ answer' \in IF candidates = {} THEN {{}} ELSE Answers(policy, weight, candidates)
  /\ pc' = "done"
  /\ UNCHANGED <<rowSet, registry, left, live, candidates, drawn>>

\* WeightedRandom.select draws one record after the other.
BeginDraw ==
  /\ pc = "choose" /\ candidates # {} /\ policy.type = "weighted-random"
  /\ pc' = "draw"
  /\ UNCHANGED <<rowSet, registry, left, live, candidates, drawn, answer>>

Remaining == candidates \ drawn
Wanted == Least(policy.max, Cardinality(candidates))

\* Fault: every record can be drawn.
Draw_AnyRecord(r) ==
  /\ pc = "draw" /\ Cardinality(drawn) < Wanted
  /\ r \in Remaining
  /\ drawn' = drawn \cup {r}
  /\ UNCHANGED <<rowSet, registry, pc, left, live, candidates, answer>>

\* The weights that remain have a total, and one of the records that add to it
\* is picked (WalkIsProportional).
Draw(r) ==
  /\ pc = "draw" /\ Cardinality(drawn) < Wanted
  /\ r \in Remaining /\ weight[r] > 0
  /\ drawn' = drawn \cup {r}
  /\ UNCHANGED <<rowSet, registry, pc, left, live, candidates, answer>>

\* Fault: randrange(0) raises, which drops the qtype.
DrawEqual_Raises ==
  /\ pc = "draw" /\ Cardinality(drawn) < Wanted
  /\ \A r \in Remaining : weight[r] = 0
  /\ pc' = "done"
  /\ UNCHANGED <<rowSet, registry, left, live, candidates, drawn, answer>>

\* Their total is zero: an equal sample of them is the rest of the answer.
DrawEqual ==
  /\ pc = "draw" /\ Cardinality(drawn) < Wanted
  /\ \A r \in Remaining : weight[r] = 0
  /\ \E s \in Samples(Remaining, Wanted - Cardinality(drawn)) : answer' = drawn \cup s
  /\ pc' = "done"
  /\ UNCHANGED <<rowSet, registry, left, live, candidates, drawn>>

DrawnAll ==
  /\ pc = "draw" /\ Cardinality(drawn) = Wanted
  /\ answer' = drawn
  /\ pc' = "done"
  /\ UNCHANGED <<rowSet, registry, left, live, candidates, drawn>>

LookupStep ==
  \/ SplitByView \/ TierLives \/ FallToCatchAll \/ AllDownAllUp \/ Choose
  \/ \E r \in Records : ReadStatus(r)
  \/ BeginDraw \/ (\E r \in Records : Draw(r)) \/ DrawEqual \/ DrawnAll

Next == LookupStep \/ \E r \in Records : Flip(r)

Spec == Init /\ [][Next]_vars

-----------------------------------------------------------------------------
(* Properties *)

Orders(c) ==
  {order \in [c -> 1..Cardinality(c)] : \A r, q \in c : order[r] = order[q] => r = q}

\* The locals hold records of the tier they are about, and nothing that is
\* not in view is ever a candidate.
TypeOK ==
  /\ rule \in Rules /\ weight \in Weights /\ policy \in Policies
  /\ down \subseteq Records /\ wasDown \subseteq Records /\ wasUp \subseteq Records
  /\ pc \in {"start", "specific", "catchAll", "choose", "draw", "done"}
  /\ live \subseteq InView(rule) \ left
  /\ left \subseteq CASE pc = "specific" -> Specific(rule)
                      [] pc = "catchAll" -> CatchAll(rule)
                      [] OTHER -> {}
  /\ candidates \subseteq InView(rule) /\ drawn \subseteq candidates /\ answer \subseteq candidates

\* The lookup keeps its promise: the answer is right for one status of each
\* record out of the lookup.
Promise == INSTANCE LookupSpec WITH
  phase <- IF pc = "start" THEN "idle" ELSE IF pc = "done" THEN "done" ELSE "busy"

KeepsPromise == Promise!LookupPromise

\* "so DNS never fails entirely": a name with a record in view and a usable
\* policy is answered, whatever is down and whatever changes meanwhile.
NeverEmpty ==
  pc = "done" /\ InView(rule) # {} /\ policy.type # "malformed" => answer # {}

\* A record that was down during the whole lookup is answered only when every
\* record in view was down at some moment of it, and a catch-all record only
\* when every specific one was.
FallsBackOnlyWhenDown ==
  pc = "done" =>
    /\ answer \ wasUp # {} => InView(rule) \subseteq wasDown
    /\ answer \cap CatchAll(rule) # {} => Specific(rule) \subseteq wasDown

\* Out of the draws of randrange, as many pick a record as it has weight,
\* whatever the order of the contents: "a record's chance of being drawn is its
\* weight over the remaining total" (weighted_random.py:36-37), also for weight
\* zero and as records are removed.
WalkIsProportional ==
  pc = "draw" =>
    \A order \in Orders(Remaining), r \in Remaining :
      weight[r] = Cardinality({draw \in 0..Total(Remaining, weight) - 1 :
                                 WeightedPick(Remaining, weight, order, draw) = r})

\* When a record of the tier goes away, a client keeps those it was answered
\* with and gets at most one other: "Dropping a record only reshuffles entries
\* ranked below it" (sticky_hash.py:54).
StickyWhenDropped ==
  pc = "done" /\ policy.type = "sticky-hash" =>
    \A r \in HighestTier(candidates, weight) :
      LET next == StickyPick(HighestTier(candidates, weight) \ {r}, Key, policy.max)
      IN  /\ answer \ {r} \subseteq next
          /\ r \notin answer => next = answer
          /\ Cardinality(next \ answer) <= 1
=============================================================================
