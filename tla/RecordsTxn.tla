------------------------------ MODULE RecordsTxn -------------------------------
(***************************************************************************)
(* Saving and deleting records: Records.save writes two tables in two      *)
(* statements, and the triggers of scheme.sql keep the DNS invariants and  *)
(* collect empty rrsets inside those statements.                           *)
(*                                                                         *)
(* Source: powergslb/database/mysql/tables.py (Records.save, remove),      *)
(* w2ui.py (save_data, delete_data) and src/database/scheme.sql (rrsets,   *)
(* records, rrset_guard, the triggers).  AdminTxn has the audit trail and  *)
(* the broken connections, which are only a failing statement here.        *)
(*                                                                         *)
(* One zone.  RecordRows leaves out the fields beside an rrset's key and a *)
(* record's view: whether a save changes them is open.                     *)
(* From InnoDB: the row, gap and index locks that a statement and its      *)
(* triggers take at one name are one lock, held to the end of the          *)
(* transaction; a statement and its triggers work on the rows of now, a    *)
(* SELECT on the read view.                                                *)
(***************************************************************************)
EXTENDS RecordRows

CONSTANTS
  Sessions,           \* connection threads of the admin server, a database connection each
  SnapshotIsolation,  \* a write fails on a row that changed since the read view
  Untouched,          \* not a state: what a transaction did not write
  Nobody              \* not a session: holder of a free name

ASSUME RecordsAssumption ==
  /\ Apex \in Names /\ Nobody \notin Sessions
  /\ Keys \cap Recids = {} /\ IsFiniteSet(Recids)
  /\ Present \notin Records \cup {Absent, Untouched}
  /\ Absent \notin Records \cup {Untouched} /\ Untouched \notin Records
  /\ ManualTypes \subseteq Types /\ SnapshotIsolation \in BOOLEAN

VARIABLES
  rows,   \* committed: Present or Absent for an rrset, its fields or Absent for a record
  fresh,  \* record keys not generated yet
  lock,   \* session that holds the locks at a name
  pc,     \* where a session is in save_data / delete_data
  ids,    \* the records a request names, none for an insert
  post,   \* the key and view a save posts, else Absent
  found,  \* the records the read before the write found
  newer,  \* records others committed since the read view
  own     \* rows as the transaction wrote them

request == <<ids, post>>
vars == <<rows, fresh, lock, pc, ids, post, found, newer, own>>

States(x) == IF x \in Keys THEN {Present, Absent} ELSE Records \cup {Absent}
Nothing == [x \in Rows |-> Untouched]

Init ==
  /\ rows = [x \in Rows |-> Absent]
  /\ fresh = Recids
  /\ lock = [n \in Names |-> Nobody]
  /\ pc = [s \in Sessions |-> "idle"]
  /\ ids = [s \in Sessions |-> {}]
  /\ post = [s \in Sessions |-> Absent]
  /\ found = [s \in Sessions |-> {}]
  /\ newer = [s \in Sessions |-> {}]
  /\ own = [s \in Sessions |-> Nothing]

-----------------------------------------------------------------------------

Goto(s, place) == pc' = [pc EXCEPT ![s] = place]

\* The rows as a statement of s finds them.
Current(s) == [x \in Rows |-> IF own[s][x] # Untouched THEN own[s][x] ELSE rows[x]]

\* A statement waits for the locks at the names N, keeps them and turns the
\* rows into d.
Statement(s, N, d) ==
  /\ \A n \in N : lock[n] \in {Nobody, s}
  /\ lock' = [n \in Names |-> IF n \in N THEN s ELSE lock[n]]
  /\ own' = [own EXCEPT ![s] = [x \in Rows |-> IF d[x] # Current(s)[x] THEN d[x] ELSE @[x]]]

\* The names at which records K are, for s and for the others.
NamesOf(s, K) ==
  {Current(s)[k].key[1] : k \in {j \in K : Current(s)[j] # Absent}}
    \cup {rows[k].key[1] : k \in {j \in K : rows[j] # Absent}}

\* Snapshot isolation refuses to write a row that changed since the read view.
Visible(s, K) == SnapshotIsolation => K \cap newer[s] = {}

\* The transaction of an update or a delete: its SELECT opens the read view.
BeginRead(s, command, K) ==
  /\ pc[s] = "idle"
  /\ Goto(s, command)
  /\ ids' = [ids EXCEPT ![s] = K]
  /\ found' = [found EXCEPT ![s] = {k \in K : rows[k] # Absent}]
  /\ newer' = [newer EXCEPT ![s] = {}]
  /\ UNCHANGED <<rows, fresh, lock, post, own>>

\* Records.save, statement one: the rrset exists afterwards and is pinned.  A
\* new or changed rrset counts as affected.  It is the first statement of an
\* insert, which reads nothing before.
UpsertRrset(s, r) ==
  /\ pc[s] \in {"idle", "save"}
  /\ post' = [post EXCEPT ![s] = r]
  /\ UpsertPasses(Current(s), r.key)
  /\ Statement(s, {r.key[1]}, Upserted(Current(s), r.key))
  /\ \/ Goto(s, "rrset affected")
     \/ Current(s)[r.key] = Present /\ Goto(s, "rrset")
  /\ UNCHANGED <<rows, fresh, ids, found, newer>>

\* Statement two of an insert.
InsertRecord(s) ==
  /\ pc[s] \in {"rrset", "rrset affected"} /\ ids[s] = {}
  /\ \E k \in fresh :
       /\ RecordPasses(Current(s), k, post[s])
       /\ Statement(s, {}, Written(Current(s), k, post[s]))
       /\ fresh' = fresh \ {k}
       /\ ids' = [ids EXCEPT ![s] = {k}]
  /\ Goto(s, "read back")
  /\ UNCHANGED <<rows, post, found, newer>>

\* Statement two of an update of record k, which exists.
UpdateRecord(s, k) ==
  /\ pc[s] \in {"rrset", "rrset affected"}
  /\ k \in ids[s] /\ Current(s)[k] # Absent
  /\ Visible(s, {k})
  /\ RecordPasses(Current(s), k, post[s])
  /\ Statement(s, NamesOf(s, {k}), Written(Current(s), k, post[s]))
  /\ \/ Goto(s, "read back")
     \/ Current(s)[k] = post[s] /\ pc[s] = "rrset" /\ Goto(s, "done")
  /\ UNCHANGED <<rows, fresh, request, found, newer>>

\* Fault: REPLACE, which writes a record that is gone again.
UpdateMissing_Replaces(s, k) ==
  /\ pc[s] \in {"rrset", "rrset affected"}
  /\ k \in ids[s] /\ Current(s)[k] = Absent
  /\ \A t \in Sessions : own[t][k] = Untouched
  /\ Visible(s, {k})
  /\ RecordPasses(Current(s), k, post[s])
  /\ Statement(s, {}, Written(Current(s), k, post[s]))
  /\ Goto(s, "read back")
  /\ UNCHANGED <<rows, fresh, request, found, newer>>

\* Statement two of an update of record k, which is gone: no row is affected,
\* but the rrset may have been.
UpdateMissing(s, k) ==
  /\ pc[s] \in {"rrset", "rrset affected"}
  /\ k \in ids[s] /\ Current(s)[k] = Absent
  /\ \A t \in Sessions : own[t][k] = Untouched
  /\ Visible(s, {k})
  /\ Goto(s, IF pc[s] = "rrset" THEN "done" ELSE "read back")
  /\ UNCHANGED <<rows, fresh, lock, request, found, newer, own>>

\* _read_row after a write that affected rows sees the version of s, else that
\* of its read view; a missing row raises ValueError.
ReadBack(s) ==
  /\ pc[s] = "read back"
  /\ \A k \in ids[s] : k \in found[s] \/ own[s][k] # Untouched
  /\ Goto(s, "done")
  /\ UNCHANGED <<rows, fresh, lock, request, found, newer, own>>

\* DELETE ... WHERE id IN (found).
DeleteRecords(s) ==
  /\ pc[s] = "delete"
  /\ Visible(s, found[s])
  /\ Statement(s, NamesOf(s, found[s]), Deleted(Current(s), found[s]))
  /\ Goto(s, "done")
  /\ UNCHANGED <<rows, fresh, request, found, newer>>

\* The end of a transaction: its locals are gone.
End(s) ==
  /\ lock' = [n \in Names |-> IF lock[n] = s THEN Nobody ELSE lock[n]]
  /\ own' = [own EXCEPT ![s] = Nothing]
  /\ ids' = [ids EXCEPT ![s] = {}]
  /\ post' = [post EXCEPT ![s] = Absent]
  /\ found' = [found EXCEPT ![s] = {}]
  /\ Goto(s, "idle")

\* Fault: only what the transaction wrote remains.
Commit_OwnOnly(s) ==
  /\ pc[s] = "done"
  /\ rows' = own[s]
  /\ newer' = [newer EXCEPT ![s] = {}]
  /\ End(s)
  /\ UNCHANGED fresh

\* COMMIT: read views taken before are older than these writes.
Commit(s) ==
  /\ pc[s] = "done"
  /\ rows' = Current(s)
  /\ newer' = [t \in Sessions |->
                 IF t = s \/ ids[t] = {} THEN {}
                 ELSE newer[t] \cup {k \in Recids : own[s][k] # Untouched}]
  /\ End(s)
  /\ UNCHANGED fresh

\* A statement raises (a trigger's SIGNAL, a lock wait, a deadlock, a refused
\* write, a lost connection) or the read-back does: roll back.
Fail(s) ==
  /\ pc[s] # "idle"
  /\ newer' = [newer EXCEPT ![s] = {}]
  /\ End(s)
  /\ UNCHANGED <<rows, fresh>>

\* An operator renames or retypes an rrset: UPDATE rrsets, with autocommit.
ManualUpdate(q, p) ==
  /\ RenamePasses(rows, q, p)
  /\ lock[q[1]] = Nobody /\ lock[p[1]] = Nobody
  /\ rows' = Renamed(rows, q, p)
  /\ UNCHANGED <<fresh, lock, pc, request, found, newer, own>>

\* An operator inserts record k or changes it, with autocommit.
ManualRecord(k, r) ==
  /\ k \in fresh \/ rows[k] # Absent
  /\ rows[r.key] = Present
  /\ lock[r.key[1]] = Nobody
  /\ rows[k] # Absent => lock[rows[k].key[1]] = Nobody
  /\ RecordPasses(rows, k, r)
  /\ rows' = Written(rows, k, r)
  /\ fresh' = fresh \ {k}
  /\ newer' = [t \in Sessions |-> IF ids[t] = {} THEN {} ELSE newer[t] \cup {k}]
  /\ UNCHANGED <<lock, pc, request, found, own>>

Session(s) ==
  \/ \E k \in Recids \ fresh : BeginRead(s, "save", {k})
  \/ \E K \in SUBSET (Recids \ fresh) : K # {} /\ BeginRead(s, "delete", K)
  \/ \E r \in Records : UpsertRrset(s, r)
  \/ InsertRecord(s)
  \/ \E k \in Recids : UpdateRecord(s, k) \/ UpdateMissing(s, k)
  \/ ReadBack(s)
  \/ DeleteRecords(s)
  \/ Commit(s)
  \/ Fail(s)

Next ==
  \/ \E s \in Sessions : Session(s)
  \/ \E q, p \in Keys : ManualUpdate(q, p)
  \/ \E k \in Recids, r \in Records : ManualRecord(k, r)

Spec == Init /\ [][Next]_vars

-----------------------------------------------------------------------------

(* Rows, locks and requests hold values of their types. *)
TypeOK ==
  /\ \A x \in Rows : rows[x] \in States(x)
  /\ fresh \subseteq Recids
  /\ lock \in [Names -> Sessions \cup {Nobody}]
  /\ pc \in [Sessions -> {"idle", "save", "rrset", "rrset affected", "read back", "delete", "done"}]
  /\ ids \in [Sessions -> SUBSET Recids]
  /\ post \in [Sessions -> Records \cup {Absent}]
  /\ found \in [Sessions -> SUBSET Recids]
  /\ newer \in [Sessions -> SUBSET Recids]
  /\ \A s \in Sessions, x \in Rows : own[s][x] \in States(x) \cup {Untouched}

(***************************************************************************)
(* Committed records belong to a committed rrset and every rrset has one   *)
(* ("so orphan rrsets never accumulate", src/database/README.md:179, and   *)
(* the foreign key of records).                                            *)
(***************************************************************************)
NoOrphans == \A q \in Keys : rows[q] = Present <=> Answers(rows, q) # {}

(***************************************************************************)
(* A CNAME rrset is alone at its name, whoever else is saving there        *)
(* (rrset_guard, both directions).                                         *)
(***************************************************************************)
CnameExclusive ==
  \A q, p \in Keys :
    (rows[q] = Present /\ rows[p] = Present /\ q[1] = p[1] /\ q[2] = "CNAME") => p = q

\* Two records of the rrset q of the rows d that would be two answers where one
\* is allowed are the same.
SingleAnswer(d, q) ==
  \A k, j \in Answers(d, q) :
    q[2] = "SOA" \/ (q[2] = "CNAME" /\ d[k].view = d[j].view) => k = j

\* An operator gives the key q to an rrset that had another type, or whose
\* records were not single before.
Retyped(q) ==
  \E p \in Keys :
    /\ RenamePasses(rows, p, q) /\ rows' = Renamed(rows, p, q)
    /\ p[2] = "CNAME" => ~SingleAnswer(rows, p)

(***************************************************************************)
(* An SOA rrset keeps its one record, and a CNAME rrset one for each view, *)
(* whatever saves, deletes and manual changes interleave                   *)
(* (records_before_insert, records_before_update, rrset_guard): only an    *)
(* operator's UPDATE rrsets that makes an rrset a CNAME can break it.      *)
(***************************************************************************)
OneAnswerKept ==
  [][\A q \in Keys :
       SingleAnswer(rows, q) => SingleAnswer(rows', q) \/ (q[2] = "CNAME" /\ Retyped(q))]_vars

(***************************************************************************)
(* An SOA rrset has one record, and a CNAME rrset one for each view, as    *)
(* long as no operator makes an rrset a CNAME: rrset_guard counts the      *)
(* records only for an SOA (scheme.sql:129).                               *)
(***************************************************************************)
OneAnswer == \A q \in Keys : SingleAnswer(rows, q)

(***************************************************************************)
(* An rrset that is alone at its name can be saved again: a CNAME rrset    *)
(* is refused for "other rrsets at this name" (scheme.sql:119).            *)
(***************************************************************************)
SavedAgain ==
  \A q \in Keys :
    rows[q] = Present /\ (\A p \in Keys \ {q} : p[1] = q[1] => rows[p] = Absent)
      => UpsertPasses(rows, q)

(***************************************************************************)
(* Every request takes effect at once when it commits: the statements of   *)
(* the others in between change nothing it relies on (Records.save and     *)
(* remove in one transaction, and the locks of their statements).  A key   *)
(* is unused until a record with it is committed.                          *)
(***************************************************************************)
Promise == INSTANCE RecordsSpec WITH
  unused <- fresh \cup {k \in Recids : rows[k] = Absent /\ \E s \in Sessions : own[s][k] \in Records}

ActsWhole == Promise!WholeRequests
=============================================================================
