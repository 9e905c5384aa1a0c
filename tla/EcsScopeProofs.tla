--------------------------- MODULE EcsScopeProofs ----------------------------
(***************************************************************************)
(* The scope of an answer is wide enough, for addresses of any width, any  *)
(* source prefixes, view rules, countries, policies and statuses.          *)
(***************************************************************************)
EXTENDS EcsScope, TLAPS

Configured ==
  /\ rules \in [Records -> RuleSet]
  /\ policy \in Policies
  /\ source \in Sources

\* What a cached answer was made from.
Made(entry, c) ==
  LET ip == ContextIp(c.fam, c.addr)
  IN  /\ entry.fam = c.fam
      /\ entry.scope = ScopePrefix(c.fam, ip)
      /\ entry.net = Mask(c.fam, ip, entry.scope)
      /\ entry.answer = AnswerTo(c.fam, ip)

IInv == Configured /\ \A entry \in cache : \E c \in Clients : Made(entry, c)

-----------------------------------------------------------------------------
\* Masking twice by one prefix is masking once.
LEMMA MaskTwice ==
  ASSUME NEW f \in Families, NEW a, NEW p
  PROVE  Mask(f, Mask(f, a, p), p) = Mask(f, a, p)
BY DEF Mask

\* Addresses that agree up to the shorter of two prefixes, once masked by one
\* of them, are the same masked by the other.
LEMMA MaskBoth ==
  ASSUME NEW f \in Families, Width[f] \in Nat, NEW a, NEW b,
         NEW p \in Nat, NEW s \in Nat,
         Mask(f, b, Least(p, s)) = Mask(f, Mask(f, a, s), Least(p, s))
  PROVE  Mask(f, Mask(f, b, s), p) = Mask(f, Mask(f, a, s), p)
<1>1. ASSUME NEW i \in 1..Width[f], i <= p, i <= s  PROVE a[i] = b[i]
  <2>1. i <= Least(p, s)  BY <1>1 DEF Least
  <2>2. Mask(f, b, Least(p, s))[i] = b[i]  BY <2>1 DEF Mask
  <2>3. Mask(f, Mask(f, a, s), Least(p, s))[i] = a[i]  BY <1>1, <2>1 DEF Mask
  <2>. QED  BY <2>2, <2>3
<1>2. ASSUME NEW i \in 1..Width[f]
      PROVE  (IF i <= p THEN Mask(f, b, s)[i] ELSE 0) = (IF i <= p THEN Mask(f, a, s)[i] ELSE 0)
  BY <1>1 DEF Mask
<1>. QED  BY <1>2 DEF Mask

\* Where every view matches all clients, the candidates are the same for all.
LEMMA SameKinds ==
  ASSUME \A r \in Records : MatchesAll(rules[r]),
         NEW f, NEW g, NEW a, NEW b
  PROVE  Kinds(f, a) = Kinds(g, b)
BY DEF Kinds

\* Two clients of one family that share the scope of the answer to the first
\* get the same answer.
LEMMA SameInScope ==
  ASSUME Configured, ~authority,
         NEW c \in Clients, NEW d \in Clients, c.fam = d.fam,
         LET ip == ContextIp(c.fam, c.addr)
             scope == ScopePrefix(c.fam, ip)
         IN  Mask(d.fam, d.addr, scope) = Mask(c.fam, ip, scope)
  PROVE  AnswerTo(d.fam, ContextIp(d.fam, d.addr)) = AnswerTo(c.fam, ContextIp(c.fam, c.addr))
<1>. DEFINE f == c.fam
            ip == ContextIp(f, c.addr)
            jp == ContextIp(f, d.addr)
            scope == ScopePrefix(f, ip)
<1>1. f \in Families /\ d.fam = f  BY DEF Clients
<1>2. Width[f] \in Nat /\ source[f] \in Nat /\ policy.prefix[f] \in Nat
  BY <1>1, EcsAssumption DEF Configured, Prefixes, PolicyKinds
<1>3. Mask(f, d.addr, scope) = Mask(f, ip, scope)  OBVIOUS
<1>4. CASE \E r \in Records : ~MatchesAll(rules[r])
  <2>1. scope = source[f]  BY <1>4 DEF ScopePrefix
  <2>2. jp = ip  BY <1>1, <1>3, <2>1, MaskTwice DEF ContextIp
  <2>. QED  BY <1>1, <2>2
<1>5. CASE \A r \in Records : MatchesAll(rules[r])
  <2>1. Kinds(f, jp) = Kinds(f, ip)  BY <1>5, SameKinds
  <2>2. policy.sticky => Mask(f, jp, policy.prefix[f]) = Mask(f, ip, policy.prefix[f])
    <3>1. SUFFICES ASSUME policy.sticky
                   PROVE  Mask(f, jp, policy.prefix[f]) = Mask(f, ip, policy.prefix[f])
      OBVIOUS
    <3>2. scope = Least(policy.prefix[f], source[f])  BY <1>5, <3>1 DEF ScopePrefix
    <3>3. Mask(f, d.addr, Least(policy.prefix[f], source[f]))
            = Mask(f, Mask(f, c.addr, source[f]), Least(policy.prefix[f], source[f]))
      BY <1>3, <3>2 DEF ContextIp
    <3>. QED  BY <1>1, <1>2, <3>3, MaskBoth DEF ContextIp
  <2>3. AnswerTo(f, jp) = AnswerTo(f, ip)  BY <2>1, <2>2 DEF AnswerTo
  <2>. QED  BY <1>1, <2>3
<1>. QED  BY <1>4, <1>5

-----------------------------------------------------------------------------
\* Every cached answer is the answer to some client, with the scope the
\* server gave it.
THEOREM Inductive == Spec => []IInv
<1>1. Init => IInv
  BY DEF Init, IInv, Configured
<1>2. ASSUME IInv, NEW c \in Clients, Lookup(c)  PROVE IInv'
  <2>1. Configured'  BY <1>2 DEF IInv, Configured, Lookup
  <2>2. ASSUME NEW entry \in cache'  PROVE Made(entry, c)'
    BY <1>2, <2>2 DEF Lookup, Made, ContextIp, ScopePrefix, AnswerTo, Kinds
  <2>. QED  BY <2>1, <2>2 DEF IInv
<1>3. ASSUME IInv, UNCHANGED vars  PROVE IInv'
  <2>1. ASSUME NEW entry, NEW c, Made(entry, c)  PROVE Made(entry, c)'
    BY <1>3, <2>1 DEF vars, Made, ContextIp, ScopePrefix, AnswerTo, Kinds
  <2>. QED  BY <1>3, <2>1 DEF vars, IInv, Configured
<1>4. IInv /\ [Next]_vars => IInv'
  BY <1>2, <1>3 DEF Next
<1>. QED  BY <1>1, <1>4, PTL DEF Spec

\* A cached answer is right for every client of the family in its scope.
THEOREM ScopeIsSound == Spec => []ScopeSound
<1>1. IInv => ScopeSound
  <2>1. SUFFICES ASSUME IInv, ~authority, NEW entry \in cache, NEW d \in Clients,
                        d.fam = entry.fam, Mask(d.fam, d.addr, entry.scope) = entry.net
                 PROVE  Same(d, entry)
    BY DEF ScopeSound
  <2>2. PICK c \in Clients : Made(entry, c)  BY <2>1 DEF IInv
  <2>3. Mask(d.fam, d.addr, ScopePrefix(c.fam, ContextIp(c.fam, c.addr)))
          = Mask(c.fam, ContextIp(c.fam, c.addr), ScopePrefix(c.fam, ContextIp(c.fam, c.addr)))
    BY <2>1, <2>2 DEF Made
  <2>4. AnswerTo(d.fam, ContextIp(d.fam, d.addr)) = AnswerTo(c.fam, ContextIp(c.fam, c.addr))
    BY <2>1, <2>2, <2>3, SameInScope DEF IInv, Made
  <2>. QED  BY <2>2, <2>4 DEF Made, Same
<1>. QED  BY <1>1, Inductive, PTL
=============================================================================
