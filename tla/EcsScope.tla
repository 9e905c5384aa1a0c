------------------------------ MODULE EcsScope -------------------------------
(***************************************************************************)
(* The EDNS Client Subnet scope of an answer, and a resolver that caches   *)
(* by it.                                                                  *)
(*                                                                         *)
(* Source: PowerDNSRequestHandler._scope_prefix and _get_lookup in         *)
(* powergslb/server/http/handler/powerdns.py, ViewRule in view/rule.py,    *)
(* StickyHash in routing/sticky_hash.py, ClientContext in                  *)
(* client/context.py.  The resolver sends the client's address truncated   *)
(* to a source prefix of its own choice for each address family; answers   *)
(* are cached while the health statuses stay as they are.                  *)
(***************************************************************************)
EXTENDS Views

CONSTANTS
  Width,     \* bits of an address, for each address family
  Sources,   \* source prefixes the resolver may be configured with
  RuleSet,   \* parsed view rules
  Policies,  \* routing policies of the rrset
  Geo(_, _), \* country of an address of a family
  Countries

Families == {4, 6}

Addresses(f) == [1..Width[f] -> {0, 1}]
Clients == UNION {[fam : {f}, addr : Addresses(f)] : f \in Families}

\* A network, and a ViewRule: a rule that does not parse has no token.
Networks == UNION {[fam : {f}, addr : Addresses(f), len : 0..Width[f]] : f \in Families}
ViewRules == [cidrs : SUBSET Networks, geos : SUBSET Countries]

\* A prefix length for each family.
Prefixes == {p \in [Families -> Nat] : \A f \in Families : p[f] <= Width[f]}

\* StickyHash with its ipv4_prefix and ipv6_prefix, or a policy that does not
\* look at the client: round-robin, weighted-random.
PolicyKinds == [sticky : BOOLEAN, prefix : Prefixes]

ASSUME EcsAssumption ==
  /\ Width \in [Families -> Nat]
  /\ Sources \subseteq Prefixes
  /\ RuleSet \subseteq ViewRules
  /\ Policies \subseteq PolicyKinds

VARIABLES
  rules,  \* the view rule of each record of the rrset
  policy, \* the routing policy of the rrset
  authority, \* the rrset is SOA, NS or DS
  dead,   \* the records that are down
  source, \* the source prefix the resolver sends, for each family
  cache   \* the answers the resolver keeps

vars == <<rules, policy, authority, dead, source, cache>>

-----------------------------------------------------------------------------
Least(a, b) == IF a <= b THEN a ELSE b

\* An address with the bits after the prefix p zeroed.
Mask(f, a, p) == [i \in 1..Width[f] |-> IF i <= p THEN a[i] ELSE 0]

\* ViewRule.matches_all: a CIDR of prefix 0 in both families.
MatchesAll(rule) ==
  \A f \in Families : \E n \in rule.cidrs : n.fam = f /\ n.len = 0

\* ClientContext.ip, of prefix length source[f].
ContextIp(f, a) == Mask(f, a, source[f])

\* ViewRule.matches
Matches(rule, f, ip) ==
  \/ MatchesAll(rule)
  \/ \E n \in rule.cidrs : n.fam = f /\ Mask(f, ip, n.len) = Mask(f, n.addr, n.len)
  \/ Geo(f, ip) \in rule.geos

\* The view rules of the rrset as they concern one client.
Kinds(f, ip) ==
  [r \in Records |-> IF MatchesAll(rules[r]) THEN "all"
                     ELSE IF Matches(rules[r], f, ip) THEN "match" ELSE "miss"]

\* What fixes the answer, apart from random choices: the candidates, and for
\* sticky-hash the masked client network.
AnswerTo(f, ip) ==
  [candidates |-> Tier(Kinds(f, ip), dead),
   network |-> IF policy.sticky THEN {<<f, Mask(f, ip, policy.prefix[f])>>} ELSE {}]

\* Fault: the scope looks at the records answered only.
ScopePrefix_SelectedOnly(f, ip) ==
  IF authority THEN 0
  ELSE IF \E r \in AnswerTo(f, ip).candidates : ~MatchesAll(rules[r]) THEN source[f]
  ELSE IF policy.sticky THEN Least(policy.prefix[f], source[f])
  ELSE 0

\* _scope_prefix, on the full rrset.
ScopePrefix(f, ip) ==
  IF authority THEN 0
  ELSE IF \E r \in Records : ~MatchesAll(rules[r]) THEN source[f]
  ELSE IF policy.sticky THEN Least(policy.prefix[f], source[f])
  ELSE 0

-----------------------------------------------------------------------------
Init ==
  /\ rules \in [Records -> RuleSet]
  /\ policy \in Policies
  /\ authority \in BOOLEAN
  /\ dead \in SUBSET Records
  /\ source \in Sources
  /\ cache = {}

\* A client asks; the resolver asks for it and caches the answer by its scope.
\* An answer without records carries no scope.
Lookup(c) ==
  LET ip == ContextIp(c.fam, c.addr)
      scope == ScopePrefix(c.fam, ip)
  IN  /\ Tier(Kinds(c.fam, ip), dead) # {}
      /\ cache' = {[fam |-> c.fam, net |-> Mask(c.fam, ip, scope), scope |-> scope,
                    answer |-> AnswerTo(c.fam, ip)]}
      /\ UNCHANGED <<rules, policy, authority, dead, source>>

Next == \E c \in Clients : Lookup(c)

Spec == Init /\ [][Next]_vars

-----------------------------------------------------------------------------
(* Properties *)

Same(c, entry) == AnswerTo(c.fam, ContextIp(c.fam, c.addr)) = entry.answer

\* A cached answer is right for every client of the family in its scope: the
\* server would have answered that client the same.  (SOA, NS and DS are
\* meant to be the same for all, whatever the views say.)
ScopeSound ==
  ~authority =>
    \A entry \in cache : \A c \in Clients :
      c.fam = entry.fam /\ Mask(c.fam, c.addr, entry.scope) = entry.net => Same(c, entry)

\* "scope 0 only when every record's view matches all clients and the routing
\* policy is client-independent, so resolvers may cache the shared answer
\* globally": an answer of scope 0 is right for every client, of any family.
ZeroIsGlobal ==
  ~authority => \A entry \in cache : entry.scope = 0 => \A c \in Clients : Same(c, entry)
=============================================================================
