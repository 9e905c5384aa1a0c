----------------------------- MODULE RecordsSpec -------------------------------
(***************************************************************************)
(* What saving and deleting records promise, whoever else does at the same *)
(* time: every request takes effect at one moment, as a whole, on the rows *)
(* of that moment, and only if those rows let each of its statements pass  *)
(* the triggers.  A key names one record for ever: an update never brings  *)
(* a deleted record back.                                                  *)
(***************************************************************************)
EXTENDS RecordRows

VARIABLES
  rows,   \* the rows of rrsets and records
  unused  \* record keys that no record had yet

specVars == <<rows, unused>>

SpecInit ==
  /\ rows = [x \in Rows |-> Absent]
  /\ unused = Recids

\* Records.save: the rrset is upserted, then the record is written, which may
\* take the rrset it leaves along.
Saved(d, k, r) == Written(Upserted(d, r.key), k, r)

SavePasses(d, k, r) ==
  /\ UpsertPasses(d, r.key)
  /\ RecordPasses(Upserted(d, r.key), k, r)

SpecInsert(k, r) ==
  /\ k \in unused
  /\ SavePasses(rows, k, r)
  /\ rows' = Saved(rows, k, r)
  /\ unused' = unused \ {k}

SpecUpdate(k, r) ==
  /\ rows[k] # Absent
  /\ SavePasses(rows, k, r)
  /\ rows' = Saved(rows, k, r)
  /\ UNCHANGED unused

\* The records that a delete has read and that are all still there.
SpecDelete(K) ==
  /\ \A k \in K : rows[k] # Absent
  /\ rows' = Deleted(rows, K)
  /\ UNCHANGED unused

\* An operator's statements at the database's own prompt.
SpecManualUpdate(q, p) ==
  /\ RenamePasses(rows, q, p)
  /\ rows' = Renamed(rows, q, p)
  /\ UNCHANGED unused

SpecManualRecord(k, r) ==
  /\ k \in unused \/ rows[k] # Absent
  /\ rows[r.key] = Present
  /\ RecordPasses(rows, k, r)
  /\ rows' = Written(rows, k, r)
  /\ unused' = unused \ {k}

\* A failed insert leaves gaps in the keys.
SpecGap ==
  /\ unused' \in SUBSET unused
  /\ UNCHANGED rows

SpecNext ==
  \/ \E k \in Recids, r \in Records :
       SpecInsert(k, r) \/ SpecUpdate(k, r) \/ SpecManualRecord(k, r)
  \/ \E K \in SUBSET Recids : SpecDelete(K)
  \/ \E q, p \in Keys : SpecManualUpdate(q, p)
  \/ SpecGap

WholeRequests == SpecInit /\ [][SpecNext]_specVars
=============================================================================
