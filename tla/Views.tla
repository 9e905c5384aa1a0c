-------------------------------- MODULE Views --------------------------------
(***************************************************************************)
(* How the records of one qtype are split by view and by health.           *)
(*                                                                         *)
(* Source: PowerDNSRequestHandler._select_records in                       *)
(* powergslb/server/http/handler/powerdns.py.                              *)
(***************************************************************************)
EXTENDS Integers, FiniteSets

CONSTANT Records \* the records of one qtype at the queried name

\* How a view rule relates to the client: it matches every client, it matches
\* this one, it does not, it does not parse.
RuleKinds == {"all", "match", "miss", "malformed"}

\* The in-view records of a narrower view, and of a match-all view.
Specific(rule) == {r \in Records : rule[r] = "match"}
CatchAll(rule) == {r \in Records : rule[r] = "all"}
InView(rule) == Specific(rule) \cup CatchAll(rule)

\* The first non-empty tier when exactly the records of dead are down.
Tier(rule, dead) ==
  IF Specific(rule) \ dead # {} THEN Specific(rule) \ dead
  ELSE IF CatchAll(rule) \ dead # {} THEN CatchAll(rule) \ dead
  ELSE IF Specific(rule) # {} THEN Specific(rule)
  ELSE CatchAll(rule)
=============================================================================
