----------------------------- MODULE LookupSpec ------------------------------
(***************************************************************************)
(* What a DNS lookup promises while CheckThreads keep changing the health  *)
(* registry: the answer is one the selection rules give for a health       *)
(* status in which each record has the status it had at some moment of     *)
(* the lookup.  The statuses of two records may be of different moments.   *)
(***************************************************************************)
EXTENDS Selection

VARIABLES
  rule, weight, policy, \* the row set read from the database
  down,         \* the health registry, restricted to these records
  wasDown,      \* records that were down at some moment of this lookup
  wasUp,        \* records that were up at some moment of this lookup
  phase,        \* "idle", "busy" or "done"
  answer        \* the records answered

specVars == <<rule, weight, policy, down, wasDown, wasUp, phase, answer>>

SpecInit ==
  /\ rule \in Rules /\ weight \in Weights /\ policy \in Policies
  /\ down \in SUBSET Records
  /\ wasDown = {} /\ wasUp = {}
  /\ phase = "idle" /\ answer = {}

\* A CheckThread changes the status of one record.
SpecFlip(r) ==
  /\ down' = IF r \in down THEN down \ {r} ELSE down \cup {r}
  /\ wasDown' = IF phase = "busy" THEN wasDown \cup down' ELSE wasDown
  /\ wasUp' = IF phase = "busy" THEN wasUp \cup (Records \ down') ELSE wasUp
  /\ UNCHANGED <<rule, weight, policy, phase, answer>>

SpecBegin ==
  /\ phase = "idle"
  /\ phase' = "busy"
  /\ wasDown' = down /\ wasUp' = Records \ down
  /\ UNCHANGED <<rule, weight, policy, down, answer>>

SpecAnswer ==
  /\ phase = "busy"
  /\ phase' = "done"
  /\ \E dead \in SUBSET wasDown :
       /\ Records \ dead \subseteq wasUp
       /\ answer' \in IF InView(rule) = {} THEN {{}} ELSE Answers(policy, weight, Tier(rule, dead))
  /\ UNCHANGED <<rule, weight, policy, down, wasDown, wasUp>>

SpecNext == SpecBegin \/ SpecAnswer \/ \E r \in Records : SpecFlip(r)

LookupPromise == SpecInit /\ [][SpecNext]_specVars
=============================================================================
