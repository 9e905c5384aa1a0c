------------------------------ MODULE RecordRows ------------------------------
(***************************************************************************)
(* The rows of rrsets and records of one zone, and what statements with    *)
(* their triggers do to them (src/database/scheme.sql).                    *)
(*                                                                         *)
(* An rrset is known by its unique key; ttl, policy, monitor, weight and   *)
(* content are left out.                                                   *)
(***************************************************************************)
EXTENDS Naturals, FiniteSets

CONSTANTS
  Names, Apex,        \* relative names of the zone; Apex is '@'
  Views,
  Recids,             \* bound: the keys AUTO_INCREMENT has for records
  ManualTypes,        \* types an operator's UPDATE rrsets may set
  Present, Absent     \* an rrset that exists; a row that does not

Types == {"A", "CNAME", "SOA"}

\* rrsets_domain_id_name_type_value_uindex and rrsets_soa_apex_check.
Keys == {q \in Names \X Types : q[2] = "SOA" => q[1] = Apex}
Records == [key : Keys, view : Views]
Rows == Keys \cup Recids

-----------------------------------------------------------------------------
(* What the statements and their triggers do to the rows d. *)

Answers(d, q) == {k \in Recids : d[k] # Absent /\ d[k].key = q}

\* Fault: the guard looks for a CNAME only when it gets a CNAME.
Guard_OneWay(d, q, self) ==
  q[2] = "CNAME" => \A p \in Keys \ self : p[1] = q[1] => d[p] = Absent

\* rrset_guard for an rrset that gets the key q; self is the rrset, if it
\* exists, whose id is passed.
Guard(d, q, self) ==
  LET others == {p \in Keys \ self : d[p] = Present /\ p[1] = q[1]}
  IN /\ q[2] = "CNAME" => others = {}
     /\ q[2] # "CNAME" => <<q[1], "CNAME">> \notin others
     /\ q[2] = "SOA" => \A p \in self : Cardinality(Answers(d, p)) <= 1

\* INSERT ... ON DUPLICATE KEY UPDATE passes rrsets_before_insert, with no id,
\* and then, when the rrset exists, rrsets_before_update.
UpsertPasses(d, q) ==
  /\ Guard(d, q, {})
  /\ d[q] = Present => Guard(d, q, {q})

\* Fault: only an insert into an SOA rrset is checked.
RecordPasses_MoveUnchecked(d, k, r) ==
  /\ (r.key[2] = "SOA" /\ d[k] = Absent) => Answers(d, r.key) = {}
  /\ r.key[2] = "CNAME" => \A j \in Answers(d, r.key) \ {k} : d[j].view # r.view

\* records_before_insert and records_before_update, for record k becoming r.
RecordPasses(d, k, r) ==
  /\ (r.key[2] = "SOA" /\ (d[k] = Absent \/ d[k].key # r.key)) => Answers(d, r.key) = {}
  /\ (r.key[2] = "CNAME" /\ d[k] # r) => \A j \in Answers(d, r.key) \ {k} : d[j].view # r.view

\* Fault: an rrset whose last record moves away stays.
Written_NoGC(d, k, r) == [d EXCEPT ![k] = r]

\* records_after_update: moving the last record away takes its rrset along.
Written(d, k, r) ==
  [x \in Rows |->
     IF x = k THEN r
     ELSE IF x \in Keys \ {r.key} /\ Answers(d, x) = {k} THEN Absent
     ELSE d[x]]

\* records_after_delete: deleting the last record deletes its rrset.
Deleted(d, K) ==
  [x \in Rows |->
     IF x \in K THEN Absent
     ELSE IF x \in Keys /\ Answers(d, x) # {} /\ Answers(d, x) \subseteq K THEN Absent
     ELSE d[x]]

\* The rrset q exists.
Upserted(d, q) == [d EXCEPT ![q] = Present]

\* An rrset gets the key p: the records refer to it by its id.
Renamed(d, q, p) ==
  [x \in Rows |->
     IF x = q THEN Absent
     ELSE IF x = p THEN Present
     ELSE IF x \in Answers(d, q) THEN [d[x] EXCEPT !.key = p]
     ELSE d[x]]

RenamePasses(d, q, p) ==
  /\ d[q] = Present /\ d[p] = Absent
  /\ p[2] \in ManualTypes \cup {q[2]}
  /\ Guard(d, p, {q})
=============================================================================
