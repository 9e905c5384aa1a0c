----------------------------- MODULE MCEcsScope ------------------------------
(* Instances of EcsScope for TLC. *)
EXTENDS EcsScope

CONSTANTS r1, r2

\* IPv4 addresses of three bits, IPv6 addresses of two.
MCWidth == [f \in Families |-> IF f = 4 THEN 3 ELSE 2]

Zero(f) == [i \in 1..Width[f] |-> 0]
One(f) == [Zero(f) EXCEPT ![1] = 1]

Any4 == [fam |-> 4, addr |-> Zero(4), len |-> 0]
Any6 == [fam |-> 6, addr |-> Zero(6), len |-> 0]
Half4 == [fam |-> 4, addr |-> One(4), len |-> 1]
Host4 == [fam |-> 4, addr |-> One(4), len |-> 3]

Rule(cidrs, geos) == [cidrs |-> cidrs, geos |-> geos]

\* Public, one family only, a subnet, a host with a country, a country,
\* and a rule that does not parse.
MCRuleSet == {Rule({Any4, Any6}, {}), Rule({Any4}, {}), Rule({Half4}, {}),
              Rule({Host4}, {"DE"}), Rule({}, {"DE"}), Rule({}, {})}

\* The country changes at the last bit of an address.
MCGeo(f, a) == IF a[Width[f]] = 1 THEN "DE" ELSE "FR"

MCSources == {[f \in Families |-> IF f = 4 THEN p ELSE q] : p \in 0..3, q \in {1}}
NoOptOut == {[f \in Families |-> IF f = 4 THEN 2 ELSE 1]}
MCPrefixes == {[f \in Families |-> IF f = 4 THEN p ELSE q] : p \in 0..3, q \in {0, 2}}
MCPolicies == [sticky : {TRUE}, prefix : MCPrefixes] \cup [sticky : {FALSE}, prefix : NoOptOut]
=============================================================================
