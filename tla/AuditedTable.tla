----------------------------- MODULE AuditedTable ------------------------------
(***************************************************************************)
(* What saving and deleting the rows of an audited table promise, whoever  *)
(* else does at the same time: every request takes effect at one moment,   *)
(* together with its audit rows, which tell what it changed.  A key names  *)
(* one row for ever: nothing brings a deleted row back.                    *)
(***************************************************************************)
EXTENDS Naturals

CONSTANTS
  Recids,   \* keys
  Values,   \* what a row can hold, its key apart
  Absent,   \* the state of a row that does not exist
  Initial   \* the rows when the trail begins

VARIABLES
  rows,     \* the state of every row
  trail,    \* the audit rows
  unused    \* keys that no row had yet

specVars == <<rows, trail, unused>>

SpecInit ==
  /\ rows = Initial
  /\ trail = {}
  /\ unused \in SUBSET {k \in Recids : Initial[k] = Absent}

\* The rows K become st, and one audit row for each of them, later than those
\* it has, tells so.
AuditedWrite(K, st) ==
  LET new == trail' \ trail
  IN /\ rows' = [k \in Recids |-> IF k \in K THEN st ELSE rows[k]]
     /\ trail \subseteq trail'
     /\ \A k \in K : \E e \in new : e.recid = k
     /\ \A e \in new :
          /\ e.recid \in K /\ e.before = rows[e.recid] /\ e.after = st
          /\ \A f \in new : f.recid = e.recid => f = e
          /\ \A f \in trail : f.recid = e.recid => f.id < e.id

SpecInsert(k, v) ==
  /\ k \in unused
  /\ AuditedWrite({k}, v)
  /\ unused' = unused \ {k}

SpecUpdate(k, v) ==
  /\ rows[k] \notin {Absent, v}
  /\ AuditedWrite({k}, v)
  /\ UNCHANGED unused

\* Only rows that are there are deleted, and audited.
SpecDelete(K) ==
  /\ \A k \in K : rows[k] # Absent
  /\ AuditedWrite(K, Absent)
  /\ UNCHANGED unused

\* The key of an insert that is rolled back is not given to another one.
SpecGap ==
  /\ unused' \in SUBSET unused
  /\ UNCHANGED <<rows, trail>>

SpecNext ==
  \/ \E k \in Recids, v \in Values : SpecInsert(k, v) \/ SpecUpdate(k, v)
  \/ \E K \in (SUBSET Recids) \ {{}} : SpecDelete(K)
  \/ SpecGap

AuditedRequests == SpecInit /\ [][SpecNext]_specVars
=============================================================================
