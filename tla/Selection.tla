------------------------------ MODULE Selection ------------------------------
(***************************************************************************)
(* Which records of one qtype a DNS lookup answers with, given the view    *)
(* rules, the health statuses and the routing policy.                      *)
(*                                                                         *)
(* Source: PowerDNSRequestHandler._select_records in                       *)
(* powergslb/server/http/handler/powerdns.py.                              *)
(***************************************************************************)
EXTENDS Views, Routing

CONSTANTS
  Rules,     \* view rule of each record: see RuleKinds
  Weights,   \* weight of each record
  Policies,  \* the routing policies the rrset may have, each with max_answers
  Key        \* order of the records for the client's network (sticky-hash)

PolicyKinds == {"round-robin", "sticky-hash", "weighted-random", "malformed"}

ASSUME LookupAssumption ==
  /\ IsFiniteSet(Records)
  /\ Rules \subseteq [Records -> RuleKinds]
  /\ Weights \subseteq [Records -> Nat]
  /\ Key \in [Records -> Nat]
  /\ \A r, q \in Records : Key[r] = Key[q] => r = q
  /\ Policies \subseteq [type : PolicyKinds, max : Nat \ {0}]

\* What the routing policy may answer from the candidates c; a malformed
\* policy drops the qtype.
Answers(policy, weight, c) ==
  CASE policy.type = "round-robin" -> RoundRobinAnswers(c, weight, policy.max)
    [] policy.type = "sticky-hash" -> {StickyAnswer(c, weight, Key, policy.max)}
    [] policy.type = "weighted-random" -> WeightedAnswers(c, weight, policy.max)
    [] policy.type = "malformed" -> {{}}
=============================================================================
