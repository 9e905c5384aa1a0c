------------------------------ MODULE AdminTxn -------------------------------
(***************************************************************************)
(* Admin writes: connections saving and deleting rows of one table, each   *)
(* in a transaction that also writes the audit trail.                      *)
(*                                                                         *)
(* Source: powergslb/database/mysql/w2ui.py (save_data, delete_data),      *)
(* tables.py (Table.get, save, remove, Audit.record) and database.py       *)
(* (transaction, _open_cursor).  The database is modelled from its use:    *)
(* REPEATABLE READ with a read view taken by a transaction's first SELECT, *)
(* row locks held until the transaction ends, AUTO_INCREMENT keys that a   *)
(* rollback does not give back.  MariaDB from 11.6 refuses to write a row  *)
(* that changed since the read view (innodb_snapshot_isolation), MySQL 8   *)
(* and older MariaDB write its present version: SnapshotIsolation.         *)
(***************************************************************************)
EXTENDS Naturals, FiniteSets

CONSTANTS
  Sessions,           \* connection threads of the admin server, a database connection each
  MaxRecid,           \* bound: the last key the table generates
  Values,             \* what a row can hold, its key apart
  Absent,             \* the state of a row that does not exist
  Initial,            \* the rows when the trail begins
  Nobody,             \* not a session: holder of a free row
  Untouched,          \* not a state: what a transaction did not write
  MaxAudit,           \* bound: no request is taken up after this audit id
  SnapshotIsolation   \* a write fails on a row that changed since the read view

Recids == 1..MaxRecid
States == Values \cup {Absent}

ASSUME AdminTxnAssumption ==
  /\ MaxRecid \in Nat /\ MaxAudit \in Nat
  /\ Absent \notin Values /\ Untouched \notin States /\ Nobody \notin Sessions
  /\ Initial \in [Recids -> States]
  /\ SnapshotIsolation \in BOOLEAN

VARIABLES
  rows,       \* committed state of every row
  trail,      \* committed audit rows
  nextRecid,  \* AUTO_INCREMENT of the table
  nextAudit,  \* AUTO_INCREMENT of audit
  lock,       \* session that holds the lock of a row
  conn,       \* "up", or "lost" and not yet noticed
  pc,         \* where a connection is in save_data / delete_data, or its last reply
  op,         \* "insert", "update" or "delete"
  ids,        \* the keys a request names
  value,      \* the record a save posts
  before,     \* what was read before the write, by key
  after,      \* what was read back
  newer,      \* rows others committed since the transaction's read view
  own,        \* rows as the transaction wrote them
  audit       \* audit rows the transaction inserted

database == <<rows, trail, nextRecid, nextAudit, lock>>
request == <<op, ids, value>>
txn == <<newer, own, audit>>
vars == <<rows, trail, nextRecid, nextAudit, lock, conn, pc, op, ids, value,
          before, after, newer, own, audit>>

\* The replies of _save_record, _delete_records and content().
Replies == {"success", "not changed", "error"}
Resting == Replies \cup {"idle"}
InBlock == {"begun", "read", "written", "to audit", "done"}
Nothing == [k \in Recids |-> Untouched]
Unread == [k \in Recids |-> Absent]

AuditRows == [id : Nat, recid : Recids, before : States, after : States]

Init ==
  /\ rows = Initial
  /\ trail = {}
  /\ nextRecid \in {n \in Recids \cup {MaxRecid + 1} : \A k \in Recids : k >= n => Initial[k] = Absent}
  /\ nextAudit = 1
  /\ lock = [k \in Recids |-> Nobody]
  /\ conn = [s \in Sessions |-> "up"]
  /\ pc = [s \in Sessions |-> "idle"]
  /\ op = [s \in Sessions |-> "update"]
  /\ ids = [s \in Sessions |-> {}]
  /\ value = [s \in Sessions |-> Absent]
  /\ before = [s \in Sessions |-> Unread]
  /\ after = [s \in Sessions |-> Absent]
  /\ newer = [s \in Sessions |-> {}]
  /\ own = [s \in Sessions |-> Nothing]
  /\ audit = [s \in Sessions |-> {}]

-----------------------------------------------------------------------------

Goto(s, place) == pc' = [pc EXCEPT ![s] = place]

\* The reply to a request; its locals are gone.
Reply(s, r) ==
  /\ Goto(s, r)
  /\ ids' = [ids EXCEPT ![s] = {}]
  /\ value' = [value EXCEPT ![s] = Absent]
  /\ before' = [before EXCEPT ![s] = Unread]
  /\ after' = [after EXCEPT ![s] = Absent]
  /\ UNCHANGED op

\* Fault: reconnects inside a transaction too.
Cursor_Reconnects(s) == TRUE

\* A statement needs a live connection: inside a transaction _open_cursor
\* re-raises instead of reconnecting.
Cursor(s) == conn[s] = "up"

Unlocked(s) == [k \in Recids |-> IF lock[k] = s THEN Nobody ELSE lock[k]]

\* The server forgets the transaction of s.
Forget(s) ==
  /\ lock' = Unlocked(s)
  /\ newer' = [newer EXCEPT ![s] = {}]
  /\ own' = [own EXCEPT ![s] = Nothing]
  /\ audit' = [audit EXCEPT ![s] = {}]

\* A request arrives on the connection; the handler has authorized and
\* validated it.
Request(s, o, K, v) ==
  /\ pc[s] \in Resting
  /\ nextAudit <= MaxAudit
  /\ \/ o = "insert" /\ K = {}
     \/ o = "update" /\ \E k \in Recids : K = {k}
     \/ o = "delete" /\ K # {}
  /\ Goto(s, "open")
  /\ op' = [op EXCEPT ![s] = o]
  /\ ids' = [ids EXCEPT ![s] = K]
  /\ value' = [value EXCEPT ![s] = v]
  /\ UNCHANGED <<database, conn, before, after, txn>>

\* transaction() replaces a lost connection and suspends autocommit.
Begin(s) ==
  /\ pc[s] = "open"
  /\ conn' = [conn EXCEPT ![s] = "up"]
  /\ Goto(s, "begun")
  /\ UNCHANGED <<database, request, before, after, txn>>

\* Connecting again failed, or the connection died under the SET autocommit.
BeginFails(s) ==
  /\ pc[s] = "open"
  /\ conn' = [conn EXCEPT ![s] = "lost"]
  /\ Reply(s, "error")
  /\ UNCHANGED <<database, txn>>

\* The read of the rows that an update or a delete targets opens the read view.
ReadBefore(s) ==
  /\ pc[s] = "begun" /\ op[s] # "insert"
  /\ Cursor(s)
  /\ before' = [before EXCEPT ![s] = [k \in Recids |-> IF k \in ids[s] THEN rows[k] ELSE Absent]]
  /\ newer' = [newer EXCEPT ![s] = {}]
  /\ Goto(s, "read")
  /\ UNCHANGED <<database, conn, request, after, own, audit>>

\* The rows the read before the write found.
Found(s) == {k \in Recids : before[s][k] # Absent}

\* A statement that writes the rows K may go on: it waits for their locks,
\* and under snapshot isolation it fails on a row changed since the read view.
MayWrite(s, K) ==
  /\ \A k \in K : lock[k] \in {Nobody, s}
  /\ SnapshotIsolation => K \cap newer[s] = {}

\* What a statement does to the rows K: it locks them and writes st.
Write(s, K, st) ==
  /\ lock' = [k \in Recids |-> IF k \in K THEN s ELSE lock[k]]
  /\ own' = [own EXCEPT ![s] = [k \in Recids |-> IF k \in K THEN st ELSE @[k]]]

\* DELETE ... WHERE id IN (Found); without ids, or when every row is gone by
\* now, nothing is deleted and nothing audited.
Delete(s) ==
  /\ pc[s] = "read" /\ op[s] = "delete"
  /\ Cursor(s)
  /\ MayWrite(s, Found(s))
  /\ LET hit == {k \in Found(s) : rows[k] # Absent}
     IN /\ Write(s, hit, Absent)
        /\ Goto(s, IF hit = {} THEN "done" ELSE "to audit")
  /\ UNCHANGED <<rows, trail, nextRecid, nextAudit, conn, request, before, after, newer, audit>>

\* UPDATE ... WHERE id = k.  The affected count is 0 when the row is missing,
\* and when it holds the posted values already: then it is only locked.
Update(s) ==
  /\ pc[s] = "read" /\ op[s] = "update"
  /\ Cursor(s)
  /\ \E k \in ids[s] :
       /\ MayWrite(s, {k})
       /\ \/ /\ rows[k] \notin {Absent, value[s]}
             /\ Write(s, {k}, value[s])
             /\ Goto(s, "written")
          \/ /\ rows[k] = value[s]
             /\ lock' = [lock EXCEPT ![k] = s]
             /\ Goto(s, "done")
             /\ UNCHANGED own
          \/ /\ rows[k] = Absent
             /\ Goto(s, "done")
             /\ UNCHANGED <<lock, own>>
  /\ UNCHANGED <<rows, trail, nextRecid, nextAudit, conn, request, before, after, newer, audit>>

\* An insert reads nothing before; its key is the one it generated.
Insert(s) ==
  /\ pc[s] = "begun" /\ op[s] = "insert"
  /\ Cursor(s)
  /\ nextRecid \in Recids
  /\ Write(s, {nextRecid}, value[s])
  /\ ids' = [ids EXCEPT ![s] = {nextRecid}]
  /\ nextRecid' = nextRecid + 1
  /\ Goto(s, "written")
  /\ UNCHANGED <<rows, trail, nextAudit, conn, op, value, before, after, newer, audit>>

\* What s sees of row k: its own version, else a committed one.
Sees(s, k) == IF own[s][k] # Untouched THEN own[s][k] ELSE rows[k]

\* _read_row after the write; a missing row raises ValueError.
ReadBack(s) ==
  /\ pc[s] = "written"
  /\ Cursor(s)
  /\ \E k \in ids[s] :
       /\ Sees(s, k) # Absent
       /\ after' = [after EXCEPT ![s] = Sees(s, k)]
  /\ Goto(s, "to audit")
  /\ UNCHANGED <<database, conn, request, before, txn>>

\* Fault: the keys that were posted.
Audited_Posted(s) == ids[s]

\* The rows to audit: the saved one, or all that the delete read.
Audited(s) == IF op[s] = "delete" THEN Found(s) ELSE ids[s]

\* _audit_row for row k, under the key the INSERT gives it.
AuditRow(s, k) ==
  [id |-> nextAudit + Cardinality({j \in Audited(s) : j < k}),
   recid |-> k, before |-> before[s][k], after |-> after[s]]

\* AUDIT.record: one INSERT of all audit rows.
Record(s) ==
  /\ pc[s] = "to audit"
  /\ Cursor(s)
  /\ audit' = [audit EXCEPT ![s] = {AuditRow(s, k) : k \in Audited(s)}]
  /\ nextAudit' = nextAudit + Cardinality(Audited(s))
  /\ Goto(s, "done")
  /\ UNCHANGED <<rows, trail, nextRecid, lock, conn, request, before, after, newer, own>>

\* The server makes the writes of s last; read views taken before are older.
Applies(s) ==
  LET written == {k \in Recids : own[s][k] # Untouched}
  IN /\ rows' = [k \in Recids |-> Sees(s, k)]
     /\ trail' = trail \cup audit[s]
     /\ lock' = Unlocked(s)
     /\ newer' = [t \in Sessions |-> IF t = s THEN {} ELSE newer[t] \cup written]
     /\ own' = [own EXCEPT ![s] = Nothing]
     /\ audit' = [audit EXCEPT ![s] = {}]

\* Fault: a status that the client does not know.
Commit_Unknown(s) ==
  /\ pc[s] = "done"
  /\ Cursor(s)
  /\ Applies(s)
  /\ Reply(s, IF audit[s] # {} THEN "success" ELSE "unchanged")
  /\ UNCHANGED <<nextRecid, nextAudit, conn>>

\* COMMIT, answered: autocommit is back on and the reply tells whether rows
\* were affected.
Commit(s) ==
  /\ pc[s] = "done"
  /\ Cursor(s)
  /\ Applies(s)
  /\ Reply(s, IF audit[s] # {} THEN "success" ELSE "not changed")
  /\ UNCHANGED <<nextRecid, nextAudit, conn>>

\* The server commits, but the connection dies before it answers.
CommitUnanswered(s) ==
  /\ pc[s] = "done"
  /\ Cursor(s)
  /\ Applies(s)
  /\ conn' = [conn EXCEPT ![s] = "lost"]
  /\ Reply(s, "error")
  /\ UNCHANGED <<nextRecid, nextAudit>>

\* The connection breaks at any time: the server rolls back.
Lose(s) ==
  /\ conn[s] = "up"
  /\ conn' = [conn EXCEPT ![s] = "lost"]
  /\ Forget(s)
  /\ UNCHANGED <<rows, trail, nextRecid, nextAudit, pc, request, before, after>>

\* Fault: no rollback, autocommit stays off.
Fail_LeavesOpen(s) ==
  /\ pc[s] \in InBlock
  /\ Reply(s, "error")
  /\ UNCHANGED <<database, conn, txn>>

\* A statement raises (a lost connection, a lock wait, a deadlock, a refused
\* write, a constraint), or the code between two of them does: roll back.  A
\* rollback fails, and is suppressed, only on a connection that Lose has broken,
\* whose transaction the server has rolled back and whose session is gone.
Fail(s) ==
  /\ pc[s] \in InBlock
  /\ Forget(s)
  /\ Reply(s, "error")
  /\ UNCHANGED <<rows, trail, nextRecid, nextAudit, conn>>

Session(s) ==
  \/ \E o \in {"insert", "update", "delete"}, K \in SUBSET Recids, v \in Values : Request(s, o, K, v)
  \/ Begin(s)
  \/ BeginFails(s)
  \/ ReadBefore(s)
  \/ Delete(s)
  \/ Update(s)
  \/ Insert(s)
  \/ ReadBack(s)
  \/ Record(s)
  \/ Commit(s)
  \/ CommitUnanswered(s)
  \/ Lose(s)
  \/ Fail(s)

Next == \E s \in Sessions : Session(s)

Spec == Init /\ [][Next]_vars

-----------------------------------------------------------------------------

(* Rows, locks, transactions and requests hold values of their types. *)
TypeOK ==
  /\ rows \in [Recids -> States]
  /\ trail \subseteq AuditRows
  /\ nextRecid \in 1..(MaxRecid + 1)
  /\ nextAudit \in Nat \ {0}
  /\ lock \in [Recids -> Sessions \cup {Nobody}]
  /\ conn \in [Sessions -> {"up", "lost"}]
  /\ pc \in [Sessions -> Resting \cup InBlock \cup {"open"}]
  /\ op \in [Sessions -> {"insert", "update", "delete"}]
  /\ ids \in [Sessions -> SUBSET Recids]
  /\ value \in [Sessions -> States]
  /\ before \in [Sessions -> [Recids -> States]]
  /\ after \in [Sessions -> States]
  /\ newer \in [Sessions -> SUBSET Recids]
  /\ own \in [Sessions -> [Recids -> States \cup {Untouched}]]
  /\ audit \in [Sessions -> SUBSET AuditRows]

Latest(k, e) == e \in trail /\ e.recid = k /\ \A f \in trail : f.recid = k => f.id <= e.id

(***************************************************************************)
(* The trail, read by its ids, ends for every row in the state the row has *)
(* (save_data, delete_data: write and audit rows in one transaction).      *)
(***************************************************************************)
TrailTells ==
  \A k \in Recids :
    /\ \A e \in trail : Latest(k, e) => rows[k] = e.after
    /\ (\A e \in trail : e.recid # k) => rows[k] = Initial[k]

(***************************************************************************)
(* What a commit adds to the trail is what it changed: each audit row goes *)
(* from the state the row had to the one it gets, each changed row has one *)
(* ("so the deleted set is exactly the audited set", w2ui.py:64).          *)
(***************************************************************************)
AuditExact ==
  [][/\ \A e \in trail' \ trail : rows[e.recid] = e.before /\ rows'[e.recid] = e.after
     /\ \A k \in Recids : rows'[k] # rows[k] => \E e \in trail' \ trail : e.recid = k
     /\ \A e, f \in trail' \ trail : e.recid = f.recid => e = f]_vars

(***************************************************************************)
(* A connection between two requests is in no transaction: it holds no     *)
(* row lock and nothing it wrote waits to be committed by a later one      *)
(* (transaction: "an exception cannot leave the connection                 *)
(* mid-transaction").                                                      *)
(***************************************************************************)
RestHoldsNothing ==
  \A s \in Sessions : pc[s] \in Resting =>
    /\ \A k \in Recids : lock[k] # s
    /\ own[s] = Nothing
    /\ audit[s] = {}

(***************************************************************************)
(* Every request takes effect at once when it commits, with the audit rows *)
(* of what it changed, whatever the others do between its statements       *)
(* (save_data, delete_data: "so the deleted set is exactly the audited     *)
(* set", w2ui.py:64).  A key is unused until a row with it is committed.   *)
(***************************************************************************)
Promise == INSTANCE AuditedTable WITH
  unused <- {k \in Recids : k >= nextRecid}
            \cup {k \in Recids : rows[k] = Absent /\ \E s \in Sessions : own[s][k] \in Values}

ActsAudited == Promise!AuditedRequests
=============================================================================
