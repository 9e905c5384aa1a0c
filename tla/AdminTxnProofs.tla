--------------------------- MODULE AdminTxnProofs ----------------------------
(***************************************************************************)
(* The audit trail of AdminTxn tells the state of every row, under either  *)
(* isolation, a connection at rest holds nothing, and under snapshot       *)
(* isolation AdminTxn implements AuditedTable.                             *)
(***************************************************************************)
EXTENDS AdminTxn, FiniteSetTheorems, TLAPS

\* A row that is deleted for good: free, and its key will not be generated.
Gone(k) == rows[k] = Absent /\ lock[k] = Nobody /\ k < nextRecid

\* Keys not generated yet name no row, and none was read.
KeysOK ==
  /\ \A k \in Recids : k >= nextRecid => rows[k] = Absent /\ lock[k] = Nobody
  /\ \A s \in Sessions, k \in Recids : before[s][k] # Absent => k < nextRecid

\* Only a save that read its row back has an after side.
NothingReadBack(s) == pc[s] \notin {"to audit", "done"} => after[s] = Absent

\* Who holds locks, versions and audit rows, and when.
TxnOK(s) ==
  /\ \A k \in Recids : own[s][k] # Untouched => lock[k] = s
  /\ conn[s] = "lost" => own[s] = Nothing /\ \A k \in Recids : lock[k] # s
  /\ pc[s] \notin {"written", "to audit", "done"} =>
       own[s] = Nothing /\ \A k \in Recids : lock[k] # s
  /\ pc[s] # "done" \/ conn[s] = "lost" => audit[s] = {}
  /\ NothingReadBack(s)

\* What a request asks for.
AskedOK(s) ==
  pc[s] \in InBlock \cup {"open"} =>
    value[s] \in Values /\ (op[s] = "update" => \E k \in Recids : ids[s] = {k})

\* A save that wrote its row.
WrittenOK(s) ==
  pc[s] = "written" /\ conn[s] = "up" =>
    \E k \in Recids :
      /\ op[s] # "delete" /\ ids[s] = {k}
      /\ own[s][k] # Untouched /\ own[s][k] # Absent
      /\ \A j \in Recids : j # k => own[s][j] = Untouched

\* What is about to be audited is what was written, or gone.
ToAuditOK(s) ==
  pc[s] = "to audit" /\ conn[s] = "up" =>
    /\ \A k \in Recids : own[s][k] # Untouched => k \in Audited(s) /\ own[s][k] = after[s]
    /\ \A k \in Audited(s) : own[s][k] = Untouched => Gone(k) /\ after[s] = Absent

\* What a commit brings: one audit row for each row it changes, later than
\* those in the trail.
DoneOK(s) ==
  /\ \A k \in Recids : own[s][k] # Untouched /\ pc[s] = "done" => \E e \in audit[s] : e.recid = k
  /\ \A e \in audit[s] : e.id < nextAudit
  /\ \A e \in audit[s] : \/ /\ own[s][e.recid] # Untouched
                            /\ own[s][e.recid] = e.after
                            /\ \A f \in trail : f.recid = e.recid => f.id < e.id
                         \/ own[s][e.recid] = Untouched /\ Gone(e.recid) /\ e.after = Absent
  /\ \A e, f \in audit[s] : e.recid = f.recid => e = f

SessionOK(s) == TxnOK(s) /\ AskedOK(s) /\ WrittenOK(s) /\ ToAuditOK(s) /\ DoneOK(s)

\* Nothing of connection t changes in a step of another one.
LocalSame(t) ==
  /\ pc'[t] = pc[t] /\ conn'[t] = conn[t] /\ op'[t] = op[t] /\ ids'[t] = ids[t] /\ value'[t] = value[t]
  /\ before'[t] = before[t] /\ after'[t] = after[t]
  /\ own'[t] = own[t] /\ audit'[t] = audit[t]

IInv ==
  /\ TypeOK
  /\ KeysOK
  /\ \A s \in Sessions : SessionOK(s)
  /\ \A e \in trail : e.id < nextAudit
  /\ TrailTells

-----------------------------------------------------------------------------
\* Facts about the constants that every step below uses.
LEMMA ConstantFacts ==
  /\ Recids \subseteq Nat /\ MaxRecid \in Nat
  /\ Absent \notin Values /\ Untouched \notin States /\ Nobody \notin Sessions
  /\ Absent \in States /\ Values \subseteq States
  /\ \A n : n \in Recids <=> n \in Nat /\ 1 <= n /\ n <= MaxRecid
BY AdminTxnAssumption DEF Recids, States

\* Nobody has begun a transaction and the trail is empty.
LEMMA InitIInv == Init => IInv
<1>. SUFFICES ASSUME Init  PROVE IInv
  OBVIOUS
<1>. USE ConstantFacts, AdminTxnAssumption DEF Init
<1>1. TypeOK
  BY DEF TypeOK, Unread, Nothing, Resting
<1>2. KeysOK
  BY DEF KeysOK, Unread
<1>3. ASSUME NEW s \in Sessions  PROVE SessionOK(s)
  BY DEF SessionOK, TxnOK, NothingReadBack, AskedOK, InBlock, WrittenOK, ToAuditOK, DoneOK, Nothing
<1>4. TrailTells
  BY DEF TrailTells
<1>5. QED  BY <1>1, <1>2, <1>3, <1>4 DEF IInv

\* The audit rows of one INSERT get keys from nextAudit on.
LEMMA Numbering ==
  ASSUME NEW A \in SUBSET Recids
  PROVE  /\ Cardinality(A) \in Nat
         /\ \A k \in A : Cardinality({j \in A : j < k}) \in Nat
         /\ \A k \in A : Cardinality({j \in A : j < k}) < Cardinality(A)
<1>1. IsFiniteSet(Recids)  BY ConstantFacts, FS_Interval DEF Recids
<1>2. IsFiniteSet(A) /\ Cardinality(A) \in Nat  BY <1>1, FS_Subset, FS_CardinalityType
<1>3. ASSUME NEW k \in A
      PROVE  /\ Cardinality({j \in A : j < k}) \in Nat
             /\ Cardinality({j \in A : j < k}) < Cardinality(A)
  <2>. DEFINE B == {j \in A : j < k}
  <2>1. B \in SUBSET A  OBVIOUS
  <2>2. k \notin B  BY ConstantFacts
  <2>3. Cardinality(B) \in Nat /\ Cardinality(B) <= Cardinality(A) /\ Cardinality(B) # Cardinality(A)
    <3>. HIDE DEF B
    <3>. QED  BY <1>2, <2>1, <2>2, FS_Subset, FS_CardinalityType
  <2>. QED  BY <1>2, <2>3
<1>. QED  BY <1>2, <1>3

\* The effects shared by several actions keep types.
LEMMA EffectTypes ==
  ASSUME TypeOK, NEW s \in Sessions
  PROVE  /\ \A r \in Replies : Reply(s, r) =>
              (pc \in [Sessions -> Resting \cup InBlock \cup {"open"}] /\ op \in [Sessions -> {"insert", "update", "delete"}]
               /\ ids \in [Sessions -> SUBSET Recids] /\ value \in [Sessions -> States]
               /\ before \in [Sessions -> [Recids -> States]] /\ after \in [Sessions -> States])'
         /\ Forget(s) =>
              (lock \in [Recids -> Sessions \cup {Nobody}] /\ newer \in [Sessions -> SUBSET Recids]
               /\ own \in [Sessions -> [Recids -> States \cup {Untouched}]] /\ audit \in [Sessions -> SUBSET AuditRows])'
         /\ Applies(s) =>
              (rows \in [Recids -> States] /\ trail \subseteq AuditRows
               /\ lock \in [Recids -> Sessions \cup {Nobody}] /\ newer \in [Sessions -> SUBSET Recids]
               /\ own \in [Sessions -> [Recids -> States \cup {Untouched}]] /\ audit \in [Sessions -> SUBSET AuditRows])'
         /\ \A K \in SUBSET Recids, st \in States : Write(s, K, st) =>
              (lock \in [Recids -> Sessions \cup {Nobody}]
               /\ own \in [Sessions -> [Recids -> States \cup {Untouched}]])'
<1>. USE ConstantFacts DEF TypeOK
<1>1. Unlocked(s) \in [Recids -> Sessions \cup {Nobody}]  BY DEF Unlocked
<1>2. Nothing \in [Recids -> States \cup {Untouched}]  BY DEF Nothing
<1>3. Unread \in [Recids -> States]  BY DEF Unread
<1>4. \A k \in Recids : Sees(s, k) \in States  BY DEF Sees
<1>5. ASSUME NEW r \in Replies, Reply(s, r)
      PROVE  (pc \in [Sessions -> Resting \cup InBlock \cup {"open"}] /\ op \in [Sessions -> {"insert", "update", "delete"}]
               /\ ids \in [Sessions -> SUBSET Recids] /\ value \in [Sessions -> States]
               /\ before \in [Sessions -> [Recids -> States]] /\ after \in [Sessions -> States])'
  BY <1>3, <1>5 DEF Reply, Goto, Resting
<1>6. ASSUME Forget(s)
      PROVE  (lock \in [Recids -> Sessions \cup {Nobody}] /\ newer \in [Sessions -> SUBSET Recids]
               /\ own \in [Sessions -> [Recids -> States \cup {Untouched}]] /\ audit \in [Sessions -> SUBSET AuditRows])'
  BY <1>1, <1>2, <1>6 DEF Forget
<1>7. ASSUME Applies(s)
      PROVE  (rows \in [Recids -> States] /\ trail \subseteq AuditRows
               /\ lock \in [Recids -> Sessions \cup {Nobody}] /\ newer \in [Sessions -> SUBSET Recids]
               /\ own \in [Sessions -> [Recids -> States \cup {Untouched}]] /\ audit \in [Sessions -> SUBSET AuditRows])'
  BY <1>1, <1>2, <1>4, <1>7 DEF Applies
<1>8. ASSUME NEW K \in SUBSET Recids, NEW st \in States, Write(s, K, st)
      PROVE  (lock \in [Recids -> Sessions \cup {Nobody}]
               /\ own \in [Sessions -> [Recids -> States \cup {Untouched}]])'
  <2>1. [k \in Recids |-> IF k \in K THEN st ELSE own[s][k]] \in [Recids -> States \cup {Untouched}]  OBVIOUS
  <2>2. own' = [own EXCEPT ![s] = [k \in Recids |-> IF k \in K THEN st ELSE own[s][k]]]  BY <1>8 DEF Write
  <2>3. own' \in [Sessions -> [Recids -> States \cup {Untouched}]]  BY <2>1, <2>2
  <2>. QED  BY <1>8, <2>3 DEF Write
<1>. QED  BY <1>5, <1>6, <1>7, <1>8

\* Types are kept by every step.
LEMMA TypeStep ==
  ASSUME TypeOK, NEW s \in Sessions, Session(s)
  PROVE  TypeOK'
<1>. USE DEF database, request, txn
<1>. DEFINE Places == Resting \cup InBlock \cup {"open"}
<1>0. /\ \A r \in Replies : r \in Places
      /\ {"open", "begun", "read", "written", "to audit", "done"} \subseteq Places
      /\ \A r \in Places : Goto(s, r) => pc' \in [Sessions -> Places]
  <2>1. \A r \in Places : Goto(s, r) => pc' \in [Sessions -> Places]
    <3>. HIDE DEF Places
    <3>1. pc \in [Sessions -> Places]  BY DEF TypeOK, Places
    <3>. QED  BY <3>1 DEF Goto
  <2>. QED  BY <2>1 DEF Resting, InBlock
<1>1. ASSUME NEW o \in {"insert", "update", "delete"}, NEW K \in SUBSET Recids, NEW v \in Values,
             Request(s, o, K, v)
      PROVE  TypeOK'
  BY <1>0, <1>1, ConstantFacts DEF Request, TypeOK
<1>2. CASE Begin(s)  BY <1>0, <1>2 DEF Begin, TypeOK
<1>3. CASE BeginFails(s)
  BY <1>3, EffectTypes DEF BeginFails, Replies, TypeOK
<1>4. CASE ReadBefore(s)
  <2>1. before' \in [Sessions -> [Recids -> States]]  BY <1>4, ConstantFacts DEF ReadBefore, TypeOK
  <2>. QED  BY <1>0, <1>4, <2>1 DEF ReadBefore, TypeOK
<1>5. CASE Delete(s)
  <2>1. {k \in Found(s) : rows[k] # Absent} \in SUBSET Recids  BY DEF Found
  <2>2. (lock \in [Recids -> Sessions \cup {Nobody}] /\ own \in [Sessions -> [Recids -> States \cup {Untouched}]])'
    BY <1>5, <2>1, EffectTypes, ConstantFacts DEF Delete
  <2>. QED  BY <1>0, <1>5, <2>2 DEF Delete, TypeOK
<1>6. CASE Update(s)
  <2>1. PICK k \in ids[s] :
          /\ MayWrite(s, {k})
          /\ \/ Write(s, {k}, value[s]) /\ Goto(s, "written")
             \/ lock' = [lock EXCEPT ![k] = s] /\ Goto(s, "done") /\ UNCHANGED own
             \/ Goto(s, "done") /\ UNCHANGED <<lock, own>>
    BY <1>6 DEF Update
  <2>2. k \in Recids /\ {k} \in SUBSET Recids /\ value[s] \in States  BY DEF TypeOK
  <2>3. (lock \in [Recids -> Sessions \cup {Nobody}] /\ own \in [Sessions -> [Recids -> States \cup {Untouched}]])'
    <3>1. CASE Write(s, {k}, value[s])  BY <2>2, <3>1, EffectTypes
    <3>2. CASE lock' = [lock EXCEPT ![k] = s] /\ UNCHANGED own  BY <2>2, <3>2 DEF TypeOK
    <3>3. CASE UNCHANGED <<lock, own>>  BY <3>3 DEF TypeOK
    <3>. QED  BY <2>1, <3>1, <3>2, <3>3
  <2>. QED  BY <1>0, <1>6, <2>1, <2>3 DEF Update, TypeOK
<1>7. CASE Insert(s)
  <2>1. {nextRecid} \in SUBSET Recids /\ value[s] \in States  BY <1>7 DEF Insert, TypeOK
  <2>2. (lock \in [Recids -> Sessions \cup {Nobody}] /\ own \in [Sessions -> [Recids -> States \cup {Untouched}]])'
    BY <1>7, <2>1, EffectTypes DEF Insert
  <2>3. nextRecid' \in 1..(MaxRecid + 1)  BY <1>7, ConstantFacts DEF Insert
  <2>4. ids' \in [Sessions -> SUBSET Recids]  BY <1>7, <2>1 DEF Insert, TypeOK
  <2>. QED  BY <1>0, <1>7, <2>2, <2>3, <2>4 DEF Insert, TypeOK
<1>8. CASE ReadBack(s)
  <2>1. \A k \in Recids : Sees(s, k) \in States  BY DEF Sees, TypeOK
  <2>2. PICK k \in ids[s] : after' = [after EXCEPT ![s] = Sees(s, k)]  BY <1>8 DEF ReadBack
  <2>3. k \in Recids  BY DEF TypeOK
  <2>4. after' \in [Sessions -> States]  BY <2>1, <2>2, <2>3 DEF TypeOK
  <2>. QED  BY <1>0, <1>8, <2>4 DEF ReadBack, TypeOK
<1>9. CASE Record(s)
  <2>1. Audited(s) \in SUBSET Recids  BY DEF Audited, Found, TypeOK
  <2>. DEFINE R == {AuditRow(s, k) : k \in Audited(s)}
            n == Cardinality(Audited(s))
  <2>2. /\ audit' = [audit EXCEPT ![s] = R] /\ nextAudit' = nextAudit + n
        /\ Goto(s, "done")
        /\ UNCHANGED <<rows, trail, nextRecid, lock, conn, op, ids, value, before, after, newer, own>>
    BY <1>9, Zenon DEF Record
  <2>3. R \in SUBSET AuditRows
    <3>1. nextAudit \in Nat /\ before[s] \in [Recids -> States] /\ after[s] \in States  BY DEF TypeOK
    <3>2. ASSUME NEW k \in Audited(s)  PROVE AuditRow(s, k) \in AuditRows
      BY <2>1, <3>1, Numbering DEF AuditRows, AuditRow
    <3>. QED  BY <3>2, Zenon
  <2>4. n \in Nat  BY <2>1, Numbering
  <2>. HIDE DEF R, n
  <2>5. audit' \in [Sessions -> SUBSET AuditRows]  BY <2>2, <2>3 DEF TypeOK
  <2>6. nextAudit' \in Nat \ {0}  BY <2>2, <2>4 DEF TypeOK
  <2>. QED  BY <1>0, <2>2, <2>5, <2>6 DEF TypeOK
<1>10. CASE Commit(s)  BY <1>10, EffectTypes DEF Commit, Replies, TypeOK
<1>11. CASE CommitUnanswered(s)  BY <1>11, EffectTypes DEF CommitUnanswered, Replies, TypeOK
<1>12. CASE Lose(s)  BY <1>12, EffectTypes DEF Lose, TypeOK
<1>13. CASE Fail(s)  BY <1>13, EffectTypes DEF Fail, Replies, TypeOK
<1>. QED
  BY <1>1, <1>2, <1>3, <1>4, <1>5, <1>6, <1>7, <1>8, <1>9, <1>10, <1>11, <1>12, <1>13 DEF Session

-----------------------------------------------------------------------------
\* The shape of every step of a connection as the others see it: it takes
\* free locks and gives back its own, leaves deleted rows deleted, and adds
\* to the trail only what it had audited.
Bystanders(s) ==
  /\ \A t \in Sessions : t # s => LocalSame(t)
  /\ nextAudit <= nextAudit' /\ nextRecid <= nextRecid'
  /\ \A k \in Recids : lock'[k] # lock[k] => lock[k] \in {s, Nobody} /\ lock'[k] \in {s, Nobody}
  /\ \A k \in Recids : Gone(k) => Gone(k)'
  /\ trail' \subseteq trail \cup audit[s]

\* What holds of the other connections survives a step of that shape.
LEMMA OthersStep ==
  ASSUME IInv, TypeOK', NEW s \in Sessions, Bystanders(s)
  PROVE  \A t \in Sessions : t # s => SessionOK(t)'
<1>. SUFFICES ASSUME NEW t \in Sessions, t # s  PROVE SessionOK(t)'
  OBVIOUS
<1>1. LocalSame(t)  BY DEF Bystanders
<1>2. TxnOK(t) /\ AskedOK(t) /\ WrittenOK(t) /\ ToAuditOK(t) /\ DoneOK(t)  BY DEF IInv, SessionOK
<1>3. t # Nobody  BY ConstantFacts
<1>4. TxnOK(t)'
  BY <1>1, <1>2, <1>3 DEF TxnOK, NothingReadBack, Bystanders, LocalSame
<1>a. AskedOK(t)'
  BY <1>1, <1>2 DEF AskedOK, LocalSame
<1>5. WrittenOK(t)'
  BY <1>1, <1>2 DEF WrittenOK, LocalSame
<1>6. Audited(t)' = Audited(t)
  BY <1>1 DEF Audited, Found, LocalSame
<1>7. ToAuditOK(t)'
  <2>1. Audited(t) \subseteq Recids  BY DEF Audited, Found, IInv, TypeOK
  <2>. QED  BY <1>1, <1>2, <1>6, <2>1 DEF ToAuditOK, LocalSame, Bystanders
<1>8. DoneOK(t)'
  <2>. USE <1>1, <1>2
  <2>1. audit[t] \subseteq AuditRows /\ \A e \in AuditRows : e.recid \in Recids /\ e.id \in Nat
    BY DEF IInv, TypeOK, AuditRows
  <2>2. \A k \in Recids : own'[t][k] # Untouched /\ pc'[t] = "done" => \E e \in audit'[t] : e.recid = k
    BY DEF DoneOK, LocalSame
  <2>3. \A e \in audit'[t] : e.id < nextAudit'
    BY <2>1 DEF DoneOK, LocalSame, Bystanders, IInv, TypeOK
  <2>4. ASSUME NEW e \in audit'[t], own[t][e.recid] # Untouched, NEW f \in trail', f.recid = e.recid
        PROVE  f.id < e.id
    <3>1. e \in audit[t] /\ e.recid \in Recids  BY <2>1 DEF LocalSame
    <3>2. lock[e.recid] = t  BY <2>4, <3>1 DEF TxnOK
    <3>3. CASE f \in trail  BY <2>4, <3>1, <3>3 DEF DoneOK
    <3>4. CASE f \in audit[s]
      <4>1. own[s][f.recid] # Untouched \/ Gone(f.recid)  BY <3>4 DEF IInv, SessionOK, DoneOK
      <4>2. f.recid \in Recids  BY <2>4, <3>1
      <4>3. own[s][f.recid] # Untouched => lock[f.recid] = s  BY <4>2 DEF IInv, SessionOK, TxnOK
      <4>. QED  BY <1>3, <2>4, <3>2, <4>1, <4>3 DEF Gone
    <3>. QED  BY <2>4, <3>3, <3>4 DEF Bystanders
  <2>5. \A e \in audit'[t] :
          \/ /\ own'[t][e.recid] # Untouched
             /\ own'[t][e.recid] = e.after
             /\ \A f \in trail' : f.recid = e.recid => f.id < e.id
          \/ own'[t][e.recid] = Untouched /\ Gone(e.recid)' /\ e.after = Absent
    BY <2>1, <2>4 DEF DoneOK, LocalSame, Bystanders
  <2>6. \A e, f \in audit'[t] : e.recid = f.recid => e = f
    BY DEF DoneOK, LocalSame
  <2>. QED  BY <2>2, <2>3, <2>5, <2>6 DEF DoneOK
<1>. QED  BY <1>4, <1>a, <1>5, <1>7, <1>8 DEF SessionOK

\* What is left to show of a step that commits nothing.
LEMMA NoCommit ==
  ASSUME IInv, TypeOK', NEW s \in Sessions, UNCHANGED <<rows, trail>>,
         Bystanders(s), SessionOK(s)', KeysOK'
  PROVE  IInv'
<1>1. \A t \in Sessions : SessionOK(t)'  BY OthersStep
<1>2. (\A e \in trail : e.id < nextAudit)'
  BY DEF IInv, Bystanders, TypeOK, AuditRows
<1>3. TrailTells'  BY DEF IInv, TrailTells, Latest
<1>. QED  BY <1>1, <1>2, <1>3 DEF IInv

\* The generated keys are numbers.
LEMMA Counters ==
  ASSUME TypeOK
  PROVE  nextAudit \in Nat /\ nextRecid \in Nat
BY ConstantFacts DEF TypeOK

\* A row that exists has a key that was generated.
LEMMA GeneratedKeys ==
  ASSUME IInv, NEW k \in Recids, rows[k] # Absent \/ lock[k] # Nobody
  PROVE  k < nextRecid
<1>1. k \in Nat /\ nextRecid \in Nat  BY ConstantFacts DEF IInv, TypeOK
<1>2. ~(k >= nextRecid)  BY DEF IInv, KeysOK
<1>. QED  BY <1>1, <1>2

\* Steps that touch neither the database nor the transaction's writes.
Quiet(s) ==
  \/ \E o \in {"insert", "update", "delete"}, K \in SUBSET Recids, v \in Values : Request(s, o, K, v)
  \/ Begin(s) \/ BeginFails(s) \/ ReadBefore(s) \/ ReadBack(s)

\* Requests, the begin of a transaction and its reads keep the invariant.
LEMMA QuietStep ==
  ASSUME IInv, TypeOK', NEW s \in Sessions, Quiet(s)
  PROVE  IInv'
<1>. USE DEF Goto, Reply, Resting, Replies, database, request, txn
<1>1. UNCHANGED <<rows, trail, nextRecid, nextAudit, lock, own, audit>>
  BY DEF Quiet, Request, Begin, BeginFails, ReadBefore, ReadBack
<1>2. /\ pc'[s] \in {"open", "begun", "read", "to audit", "error"}
      /\ pc[s] \notin {"done", "to audit"}
      /\ pc'[s] = "to audit" <=> ReadBack(s)
      /\ pc[s] = "written" <=> ReadBack(s)
      /\ conn'[s] = "lost" => conn[s] = "lost" \/ pc'[s] = "error"
  <2>1. ASSUME NEW o \in {"insert", "update", "delete"}, NEW K \in SUBSET Recids, NEW v \in Values,
               Request(s, o, K, v)
        PROVE  pc'[s] = "open" /\ pc[s] \in Resting /\ conn' = conn
    BY <2>1 DEF Request, IInv, TypeOK
  <2>2. CASE Begin(s)  BY <2>2 DEF Begin, ReadBack, IInv, TypeOK
  <2>3. CASE BeginFails(s)  BY <2>3 DEF BeginFails, ReadBack, IInv, TypeOK
  <2>4. CASE ReadBefore(s)  BY <2>4 DEF ReadBefore, ReadBack, IInv, TypeOK
  <2>5. CASE ReadBack(s)  BY <2>5 DEF ReadBack, IInv, TypeOK
  <2>6. CASE \E o \in {"insert", "update", "delete"}, K \in SUBSET Recids, v \in Values : Request(s, o, K, v)
    <3>1. pc'[s] = "open" /\ pc[s] \in Resting /\ conn' = conn  BY <2>1, <2>6
    <3>. QED  BY <3>1 DEF ReadBack, IInv, TypeOK
  <2>. QED  BY <2>2, <2>3, <2>4, <2>5, <2>6 DEF Quiet
<1>3. TxnOK(s) /\ DoneOK(s) /\ WrittenOK(s)  BY DEF IInv, SessionOK
<1>4. ASSUME NEW t \in Sessions, t # s  PROVE LocalSame(t)
  <2>0. /\ pc = [r \in Sessions |-> pc[r]] /\ conn = [r \in Sessions |-> conn[r]]
        /\ op = [r \in Sessions |-> op[r]] /\ ids = [r \in Sessions |-> ids[r]]
        /\ value = [r \in Sessions |-> value[r]]
        /\ before = [r \in Sessions |-> before[r]] /\ after = [r \in Sessions |-> after[r]]
    BY DEF IInv, TypeOK
  <2>1. ASSUME NEW o \in {"insert", "update", "delete"}, NEW K \in SUBSET Recids, NEW v \in Values,
               Request(s, o, K, v)
        PROVE  LocalSame(t)
    BY <1>4, <2>0, <2>1 DEF Request, LocalSame
  <2>2. CASE Begin(s)  BY <1>4, <2>0, <2>2 DEF Begin, LocalSame
  <2>3. CASE BeginFails(s)  BY <1>4, <2>0, <2>3 DEF BeginFails, LocalSame
  <2>4. CASE ReadBefore(s)  BY <1>4, <2>0, <2>4 DEF ReadBefore, LocalSame
  <2>5. CASE ReadBack(s)  BY <1>4, <2>0, <2>5 DEF ReadBack, LocalSame
  <2>. QED  BY <2>1, <2>2, <2>3, <2>4, <2>5 DEF Quiet
<1>5. Bystanders(s)
  <2>1. nextAudit <= nextAudit' /\ nextRecid <= nextRecid'  BY <1>1, Counters DEF IInv
  <2>. QED  BY <1>1, <1>4, <2>1 DEF Bystanders, Gone
<1>6. TxnOK(s)'
  <2>1. ~ReadBack(s) => after'[s] = after[s] \/ after'[s] = Absent
    <3>0. after = [r \in Sessions |-> after[r]]  BY DEF IInv, TypeOK
    <3>1. ASSUME NEW o \in {"insert", "update", "delete"}, NEW K \in SUBSET Recids,
                 NEW v \in Values, Request(s, o, K, v)
          PROVE  after'[s] = after[s] \/ after'[s] = Absent
      BY <3>0, <3>1 DEF Request
    <3>2. CASE Begin(s) \/ BeginFails(s) \/ ReadBefore(s)
      BY <3>0, <3>2 DEF Begin, BeginFails, ReadBefore
    <3>. QED  BY <3>1, <3>2 DEF Quiet
  <2>. QED  BY <1>1, <1>2, <1>3, <2>1 DEF TxnOK, NothingReadBack
<1>a. AskedOK(s)'
  <2>1. ASSUME NEW o \in {"insert", "update", "delete"}, NEW K \in SUBSET Recids, NEW v \in Values,
               Request(s, o, K, v)
        PROVE  AskedOK(s)'
    <3>0. /\ op = [r \in Sessions |-> op[r]] /\ ids = [r \in Sessions |-> ids[r]]
          /\ value = [r \in Sessions |-> value[r]]
      BY DEF IInv, TypeOK
    <3>1. op'[s] = o /\ ids'[s] = K /\ value'[s] = v  BY <2>1, <3>0 DEF Request
    <3>2. o = "update" => \E k \in Recids : K = {k}  BY <2>1 DEF Request
    <3>. QED  BY <3>1, <3>2 DEF AskedOK
  <2>2. CASE Begin(s) \/ ReadBefore(s) \/ ReadBack(s)
    <3>1. op' = op /\ ids' = ids /\ value' = value  BY <2>2 DEF Begin, ReadBefore, ReadBack
    <3>2. pc[s] \in InBlock \cup {"open"}  BY <2>2 DEF Begin, ReadBefore, ReadBack, InBlock
    <3>. QED  BY <3>1, <3>2 DEF IInv, SessionOK, AskedOK
  <2>3. CASE BeginFails(s)
    <3>1. pc'[s] = "error"  BY <2>3 DEF BeginFails, IInv, TypeOK
    <3>. QED  BY <3>1 DEF AskedOK, InBlock
  <2>. QED  BY <2>1, <2>2, <2>3 DEF Quiet
<1>7. DoneOK(s)'
  BY <1>1, <1>2, <1>3 DEF DoneOK, Gone
<1>8. WrittenOK(s)'  BY <1>2 DEF WrittenOK
<1>9. ToAuditOK(s)'
  <2>1. CASE ReadBack(s)
    <3>1. PICK k \in Recids :
            /\ op[s] # "delete" /\ ids[s] = {k}
            /\ own[s][k] # Untouched /\ own[s][k] # Absent
            /\ \A j \in Recids : j # k => own[s][j] = Untouched
      BY <1>3, <2>1 DEF WrittenOK, ReadBack, Cursor
    <3>2. after' = [after EXCEPT ![s] = Sees(s, k)]  BY <2>1, <3>1 DEF ReadBack
    <3>3. after'[s] = own[s][k]  BY <3>1, <3>2 DEF Sees, IInv, TypeOK
    <3>4. Audited(s)' = {k}  BY <2>1, <3>1 DEF ReadBack, Audited
    <3>. QED  BY <1>1, <3>1, <3>3, <3>4 DEF ToAuditOK
  <2>2. CASE ~ReadBack(s)  BY <1>2, <2>2 DEF ToAuditOK
  <2>. QED  BY <2>1, <2>2
<1>10. KeysOK'
  <2>1. ASSUME NEW k \in Recids, before'[s][k] # Absent  PROVE k < nextRecid
    <3>1. CASE before'[s] = before[s]  BY <2>1, <3>1 DEF IInv, KeysOK
    <3>2. CASE before'[s] = Unread  BY <2>1, <3>2 DEF Unread
    <3>3. CASE ReadBefore(s)
      <4>1. rows[k] # Absent  BY <2>1, <3>3 DEF ReadBefore, IInv, TypeOK
      <4>. QED  BY <4>1, GeneratedKeys
    <3>4. before'[s] = before[s] \/ before'[s] = Unread \/ ReadBefore(s)
      BY DEF Quiet, Request, Begin, BeginFails, ReadBack, IInv, TypeOK
    <3>. QED  BY <3>1, <3>2, <3>3, <3>4
  <2>2. \A t \in Sessions, k \in Recids : before'[t][k] # Absent => k < nextRecid
    BY <1>4, <2>1 DEF LocalSame, IInv, KeysOK
  <2>. QED  BY <1>1, <2>2 DEF IInv, KeysOK
<1>. QED  BY <1>1, <1>5, <1>6, <1>a, <1>7, <1>8, <1>9, <1>10, NoCommit DEF SessionOK

\* The transaction of s is gone: its locks are free, nothing it wrote stays.
LEMMA ForgetStep ==
  ASSUME IInv, TypeOK', NEW s \in Sessions, Forget(s),
         UNCHANGED <<rows, trail, nextRecid, nextAudit>>,
         \A t \in Sessions : t # s => LocalSame(t),
         pc'[s] # "error" => conn'[s] = "lost",
         NothingReadBack(s)', AskedOK(s)',
         \A k \in Recids : before'[s][k] # Absent => before[s][k] # Absent
  PROVE  IInv'
<1>1. own'[s] = Nothing /\ audit'[s] = {}  BY DEF Forget, IInv, TypeOK
<1>2. \A k \in Recids : lock'[k] = IF lock[k] = s THEN Nobody ELSE lock[k]
  BY DEF Forget, Unlocked
<1>3. s # Nobody  BY ConstantFacts
<1>4. Bystanders(s)
  <2>1. nextAudit' = nextAudit /\ nextRecid' = nextRecid  OBVIOUS
  <2>2. nextAudit <= nextAudit' /\ nextRecid <= nextRecid'
    <3>1. TypeOK  BY DEF IInv
    <3>2. nextAudit \in Nat /\ nextRecid \in Nat  BY <3>1, Counters
    <3>. QED  BY <2>1, <3>2
  <2>. QED  BY <1>2, <1>3, <2>2 DEF Bystanders, Gone
<1>5. SessionOK(s)'
  BY <1>1, <1>2, <1>3 DEF SessionOK, TxnOK, WrittenOK, ToAuditOK, DoneOK, Nothing, AskedOK
<1>6. KeysOK'
  <2>1. \A t \in Sessions, k \in Recids : before'[t][k] # Absent => before[t][k] # Absent
    BY DEF LocalSame
  <2>. QED  BY <1>2, <2>1 DEF IInv, KeysOK
<1>. QED  BY <1>4, <1>5, <1>6, NoCommit

\* A lost connection and a rollback are such steps.
LEMMA RollbackStep ==
  ASSUME IInv, TypeOK', NEW s \in Sessions, Lose(s) \/ Fail(s)
  PROVE  IInv'
<1>0. /\ pc = [r \in Sessions |-> pc[r]] /\ conn = [r \in Sessions |-> conn[r]]
      /\ op = [r \in Sessions |-> op[r]]
      /\ ids = [r \in Sessions |-> ids[r]] /\ value = [r \in Sessions |-> value[r]] /\ own = [r \in Sessions |-> own[r]]
      /\ audit = [r \in Sessions |-> audit[r]]
      /\ before = [r \in Sessions |-> before[r]] /\ after = [r \in Sessions |-> after[r]]
  BY DEF IInv, TypeOK
<1>1. Forget(s) /\ UNCHANGED <<rows, trail, nextRecid, nextAudit>>  BY DEF Lose, Fail
<1>2. ASSUME NEW t \in Sessions, t # s  PROVE LocalSame(t)
  BY <1>0, <1>2 DEF Lose, Fail, Forget, Reply, Goto, request, LocalSame
<1>3. pc'[s] # "error" => conn'[s] = "lost"
  BY <1>0 DEF Lose, Fail, Reply, Goto
<1>4. before'[s] = before[s] \/ before'[s] = Unread
  BY <1>0 DEF Lose, Fail, Reply
<1>5. NothingReadBack(s)'
  BY <1>0 DEF Lose, Fail, Reply, Goto, request, IInv, SessionOK, TxnOK, NothingReadBack
<1>6. AskedOK(s)'
  <2>1. CASE Lose(s)
    <3>1. pc' = pc /\ op' = op /\ ids' = ids /\ value' = value  BY <2>1 DEF Lose, request
    <3>. QED  BY <3>1 DEF IInv, SessionOK, AskedOK
  <2>2. CASE Fail(s)
    <3>1. pc'[s] = "error"  BY <1>0, <2>2 DEF Fail, Reply, Goto
    <3>. QED  BY <3>1 DEF AskedOK, InBlock
  <2>. QED  BY <2>1, <2>2
<1>. QED  BY <1>1, <1>2, <1>3, <1>4, <1>5, <1>6, ForgetStep DEF Unread

\* A statement writes st to rows K that are free and exist, or are new.
WriteBy(s, K, st) ==
  /\ pc[s] \in {"begun", "read"} /\ pc'[s] \in {"written", "to audit", "done"}
  /\ conn[s] = "up"
  /\ K \subseteq Recids /\ st \in States /\ Write(s, K, st)
  /\ \A k \in K : lock[k] \in {Nobody, s} /\ ~Gone(k)
  /\ UNCHANGED <<rows, trail, nextAudit, audit, conn, after>> /\ nextRecid <= nextRecid'
  /\ \A t \in Sessions : t # s =>
       /\ pc'[t] = pc[t] /\ op'[t] = op[t] /\ ids'[t] = ids[t]
       /\ value'[t] = value[t] /\ before'[t] = before[t]

\* Such a statement leaves exactly its rows locked and written by s.
LEMMA WriteEffect ==
  ASSUME IInv, TypeOK', NEW s \in Sessions, NEW K, NEW st, WriteBy(s, K, st)
  PROVE  /\ Bystanders(s)
         /\ \A k \in Recids : own'[s][k] = IF k \in K THEN st ELSE Untouched
         /\ \A k \in Recids : lock'[k] = IF k \in K THEN s ELSE lock[k]
         /\ audit'[s] = {}
         /\ TxnOK(s)'
<1>0. /\ pc[s] \in {"begun", "read"} /\ pc'[s] \in {"written", "to audit", "done"}
      /\ conn[s] = "up" /\ conn' = conn /\ after' = after /\ audit' = audit
      /\ rows' = rows /\ trail' = trail /\ nextAudit' = nextAudit /\ nextRecid <= nextRecid'
      /\ Write(s, K, st) /\ \A k \in K : lock[k] \in {Nobody, s} /\ ~Gone(k)
      /\ \A t \in Sessions : t # s =>
           /\ pc'[t] = pc[t] /\ op'[t] = op[t] /\ ids'[t] = ids[t]
           /\ value'[t] = value[t] /\ before'[t] = before[t]
  BY DEF WriteBy
<1>1. own[s] = Nothing /\ audit[s] = {} /\ after[s] = Absent /\ \A k \in Recids : lock[k] # s
  BY <1>0 DEF IInv, SessionOK, TxnOK, NothingReadBack
<1>2. own' = [own EXCEPT ![s] = [k \in Recids |-> IF k \in K THEN st ELSE own[s][k]]]
  BY <1>0 DEF Write
<1>3. own = [t \in Sessions |-> own[t]]  BY DEF IInv, TypeOK
<1>4. \A k \in Recids : own'[s][k] = IF k \in K THEN st ELSE Untouched
  BY <1>1, <1>2, <1>3 DEF Nothing
<1>5. \A t \in Sessions : t # s => own'[t] = own[t]  BY <1>2, <1>3
<1>6. \A k \in Recids : lock'[k] = IF k \in K THEN s ELSE lock[k]  BY <1>0 DEF Write
<1>7. Bystanders(s)
  <2>1. \A t \in Sessions : t # s => LocalSame(t)  BY <1>0, <1>5 DEF LocalSame
  <2>2. nextAudit <= nextAudit'
    <3>1. nextAudit' = nextAudit  BY <1>0
    <3>2. nextAudit \in Nat  BY Counters DEF IInv
    <3>. QED  BY <3>1, <3>2
  <2>3. \A k \in Recids : k \in Nat  BY ConstantFacts
  <2>4. nextRecid \in Nat /\ nextRecid' \in Nat
    <3>1. nextRecid \in 1..(MaxRecid + 1) /\ nextRecid' \in 1..(MaxRecid + 1)  BY DEF IInv, TypeOK
    <3>. QED  BY <3>1, ConstantFacts
  <2>5. nextRecid <= nextRecid' /\ rows' = rows /\ trail' = trail  BY <1>0
  <2>6. \A k \in K : ~Gone(k) /\ lock[k] \in {Nobody, s}  BY <1>0
  <2>7. ASSUME NEW k \in Recids, Gone(k)  PROVE Gone(k)'
    <3>1. lock'[k] = lock[k]  BY <1>6, <2>6, <2>7
    <3>2. k < nextRecid'  BY <2>3, <2>4, <2>5, <2>7 DEF Gone
    <3>. QED  BY <2>5, <2>7, <3>1, <3>2 DEF Gone
  <2>8. \A k \in Recids : lock'[k] # lock[k] => lock[k] \in {s, Nobody} /\ lock'[k] \in {s, Nobody}
    BY <1>6, <2>6
  <2>. QED  BY <2>1, <2>2, <2>5, <2>7, <2>8 DEF Bystanders
<1>8. TxnOK(s)'
  BY <1>0, <1>1, <1>4, <1>6 DEF TxnOK, NothingReadBack
<1>9. audit'[s] = {}  BY <1>0, <1>1
<1>. QED  BY <1>4, <1>6, <1>7, <1>8, <1>9

\* A DELETE: what it did not hit of the rows read is gone for good.
LEMMA DeleteStep ==
  ASSUME IInv, TypeOK', NEW s \in Sessions, Delete(s)
  PROVE  IInv'
<1>. DEFINE hit == {k \in Found(s) : rows[k] # Absent}
<1>1. /\ pc[s] = "read" /\ op[s] = "delete" /\ conn[s] = "up"
      /\ Write(s, hit, Absent) /\ MayWrite(s, Found(s))
      /\ pc' = [pc EXCEPT ![s] = IF hit = {} THEN "done" ELSE "to audit"]
      /\ UNCHANGED <<rows, trail, nextRecid, nextAudit, conn, op, ids, value, before, after, newer, audit>>
  BY DEF Delete, Cursor, Goto, request
<1>2. hit \in SUBSET Recids /\ Found(s) \in SUBSET Recids  BY DEF Found
<1>3. pc = [t \in Sessions |-> pc[t]]  BY DEF IInv, TypeOK
<1>4. pc'[s] = (IF hit = {} THEN "done" ELSE "to audit") /\ \A t \in Sessions : t # s => pc'[t] = pc[t]
  BY <1>1, <1>3
<1>5. \A k \in hit : lock[k] \in {Nobody, s} /\ ~Gone(k)  BY <1>1 DEF MayWrite, Gone
<1>6. nextRecid <= nextRecid'
  <2>1. nextRecid' = nextRecid  BY <1>1
  <2>. QED  BY <2>1, Counters DEF IInv
<1>7. /\ Bystanders(s)
      /\ \A k \in Recids : own'[s][k] = IF k \in hit THEN Absent ELSE Untouched
      /\ \A k \in Recids : lock'[k] = IF k \in hit THEN s ELSE lock[k]
      /\ audit'[s] = {}
      /\ TxnOK(s)'
  <2>. HIDE DEF hit
  <2>1. Absent \in States  BY ConstantFacts
  <2>2. pc[s] \in {"begun", "read"} /\ pc'[s] \in {"written", "to audit", "done"}  BY <1>1, <1>4
  <2>3. /\ UNCHANGED <<rows, trail, nextAudit, audit, conn, after>>
        /\ \A t \in Sessions : t # s =>
             /\ pc'[t] = pc[t] /\ op'[t] = op[t] /\ ids'[t] = ids[t]
             /\ value'[t] = value[t] /\ before'[t] = before[t]
    BY <1>1, <1>4
  <2>4. WriteBy(s, hit, Absent)  BY <1>1, <1>2, <1>5, <1>6, <2>1, <2>2, <2>3 DEF WriteBy
  <2>. QED  BY <2>4, WriteEffect
<1>8. WrittenOK(s)' /\ (hit = {} => ToAuditOK(s)')  BY <1>4 DEF WrittenOK, ToAuditOK
<1>9. DoneOK(s)'
  BY <1>4, <1>7 DEF DoneOK
<1>10. after[s] = Absent /\ \A k \in Found(s) : k < nextRecid /\ lock[k] # s
  BY <1>1, <1>2 DEF IInv, KeysOK, SessionOK, TxnOK, NothingReadBack, Found
<1>11. ToAuditOK(s)'
  <2>1. Audited(s)' = Found(s)  BY <1>1 DEF Audited, Found
  <2>2. ASSUME NEW k \in Found(s), k \notin hit  PROVE Gone(k)'
    BY <1>1, <1>2, <1>7, <1>10, <2>2 DEF Gone, MayWrite
  <2>3. \A k \in Found(s) : k \in Recids  BY <1>2
  <2>4. after'[s] = Absent  BY <1>1, <1>10
  <2>5. \A k \in Recids : own'[s][k] # Untouched => k \in Found(s) /\ own'[s][k] = Absent
    BY <1>7
  <2>6. \A k \in Found(s) : own'[s][k] = Untouched => Gone(k)'
    BY <1>7, <2>2, <2>3, ConstantFacts
  <2>. QED  BY <2>1, <2>4, <2>5, <2>6 DEF ToAuditOK
<1>a. AskedOK(s)'
  BY <1>1 DEF IInv, SessionOK, AskedOK, InBlock
<1>12. KeysOK'
  <2>1. ASSUME NEW k \in Recids, k >= nextRecid  PROVE rows[k] = Absent /\ lock'[k] = Nobody
    BY <1>7, <2>1 DEF IInv, KeysOK
  <2>. QED  BY <1>1, <2>1 DEF IInv, KeysOK
<1>. QED  BY <1>1, <1>7, <1>a, <1>8, <1>9, <1>11, <1>12, NoCommit DEF SessionOK

\* An UPDATE: the row is written, or only locked, or missing.
LEMMA UpdateStep ==
  ASSUME IInv, TypeOK', NEW s \in Sessions, Update(s)
  PROVE  IInv'
<1>1. /\ pc[s] = "read" /\ op[s] = "update" /\ conn[s] = "up"
      /\ UNCHANGED <<rows, trail, nextRecid, nextAudit, conn, op, ids, value, before, after, newer, audit>>
  BY DEF Update, Cursor, request
<1>2. PICK k \in ids[s] :
        /\ lock[k] \in {Nobody, s}
        /\ \/ rows[k] \notin {Absent, value[s]} /\ Write(s, {k}, value[s]) /\ Goto(s, "written")
           \/ /\ rows[k] = value[s] /\ lock' = [lock EXCEPT ![k] = s]
              /\ Goto(s, "done") /\ UNCHANGED own
           \/ Goto(s, "done") /\ UNCHANGED <<lock, own>>
  BY DEF Update, MayWrite
<1>3. k \in Recids /\ value[s] \in Values /\ ids[s] = {k}
  BY <1>1 DEF IInv, TypeOK, SessionOK, AskedOK, InBlock
<1>4. /\ pc = [t \in Sessions |-> pc[t]]
      /\ TypeOK
  BY DEF IInv, TypeOK
<1>5. own[s] = Nothing /\ audit[s] = {} /\ after[s] = Absent /\ \A j \in Recids : lock[j] # s
  BY <1>1 DEF IInv, SessionOK, TxnOK, NothingReadBack
<1>6. nextAudit <= nextAudit' /\ nextRecid <= nextRecid'
  <2>1. nextAudit' = nextAudit /\ nextRecid' = nextRecid  BY <1>1
  <2>. QED  BY <1>4, <2>1, Counters
<1>7. pc'[s] \in {"written", "done"} /\ \A t \in Sessions : t # s => pc'[t] = pc[t]
  BY <1>2, <1>4 DEF Goto
<1>8. AskedOK(s)'
  BY <1>1 DEF IInv, SessionOK, AskedOK, InBlock
<1>9. ToAuditOK(s)'  BY <1>7 DEF ToAuditOK
<1>10. KeysOK' <=> \A j \in Recids : j >= nextRecid => lock'[j] = Nobody
  BY <1>1 DEF IInv, KeysOK
<1>11. CASE rows[k] \notin {Absent, value[s]} /\ Write(s, {k}, value[s]) /\ Goto(s, "written")
  <2>1. pc'[s] = "written"  BY <1>4, <1>11 DEF Goto
  <2>2. {k} \in SUBSET Recids /\ value[s] \in States /\ value[s] # Absent /\ value[s] # Untouched
    BY <1>3, ConstantFacts
  <2>3. \A j \in {k} : lock[j] \in {Nobody, s} /\ ~Gone(j)  BY <1>2, <1>11 DEF Gone
  <2>4. /\ Bystanders(s)
        /\ \A j \in Recids : own'[s][j] = IF j \in {k} THEN value[s] ELSE Untouched
        /\ \A j \in Recids : lock'[j] = IF j \in {k} THEN s ELSE lock[j]
        /\ audit'[s] = {}
        /\ TxnOK(s)'
    <3>1. pc[s] \in {"begun", "read"} /\ pc'[s] \in {"written", "to audit", "done"}  BY <1>1, <2>1
    <3>2. /\ UNCHANGED <<rows, trail, nextAudit, audit, conn, after>>
          /\ \A t \in Sessions : t # s =>
               /\ pc'[t] = pc[t] /\ op'[t] = op[t] /\ ids'[t] = ids[t]
               /\ value'[t] = value[t] /\ before'[t] = before[t]
      BY <1>1, <1>7
    <3>. DEFINE K == {k}
    <3>3. K \in SUBSET Recids /\ Write(s, K, value[s]) /\ \A j \in K : lock[j] \in {Nobody, s} /\ ~Gone(j)
      BY <1>11, <2>2, <2>3
    <3>. HIDE DEF K
    <3>4. /\ Bystanders(s)
          /\ \A j \in Recids : own'[s][j] = IF j \in K THEN value[s] ELSE Untouched
          /\ \A j \in Recids : lock'[j] = IF j \in K THEN s ELSE lock[j]
          /\ audit'[s] = {} /\ TxnOK(s)'
      <4>1. WriteBy(s, K, value[s])  BY <1>1, <1>6, <2>2, <3>1, <3>2, <3>3 DEF WriteBy
      <4>. QED  BY <4>1, WriteEffect
    <3>. QED  BY <3>4 DEF K
  <2>5. WrittenOK(s)'
    BY <1>1, <1>3, <2>2, <2>4 DEF WrittenOK
  <2>6. DoneOK(s)'  BY <2>1, <2>4 DEF DoneOK
  <2>7. k < nextRecid  BY <1>3, <1>11, GeneratedKeys
  <2>8. KeysOK'
    BY <1>3, <1>4, <1>10, <2>4, <2>7, Counters, ConstantFacts DEF IInv, KeysOK
  <2>. QED  BY <1>1, <1>8, <1>9, <2>4, <2>5, <2>6, <2>8, NoCommit DEF SessionOK
<1>12. CASE Goto(s, "done") /\ UNCHANGED own /\ (lock' = lock \/ (rows[k] # Absent /\ lock' = [lock EXCEPT ![k] = s]))
  <2>1. pc'[s] = "done"  BY <1>4, <1>12 DEF Goto
  <2>2. lock = [j \in Recids |-> lock[j]]  BY <1>4 DEF TypeOK
  <2>3. \A j \in Recids : lock'[j] = lock[j] \/ (j = k /\ lock'[j] = s)
    BY <1>12, <2>2
  <2>4. \A j \in Recids : Gone(j) => Gone(j)'
    BY <1>1, <1>12, <2>2 DEF Gone
  <2>5. Bystanders(s)
    <3>1. \A t \in Sessions : t # s => LocalSame(t)  BY <1>1, <1>7, <1>12 DEF LocalSame
    <3>. QED  BY <1>1, <1>2, <1>6, <2>3, <2>4, <3>1 DEF Bystanders
  <2>6. TxnOK(s)'  BY <1>1, <1>5, <1>12, <2>1 DEF TxnOK, NothingReadBack, Nothing
  <2>7. WrittenOK(s)' /\ DoneOK(s)'
    BY <1>1, <1>5, <1>12, <2>1 DEF WrittenOK, DoneOK, Nothing
  <2>8. KeysOK'
    <3>1. ASSUME NEW j \in Recids, j >= nextRecid  PROVE lock'[j] = Nobody
      <4>1. rows[j] = Absent /\ lock[j] = Nobody  BY <3>1 DEF IInv, KeysOK
      <4>. QED  BY <1>12, <2>2, <4>1
    <3>. QED  BY <1>10, <3>1
  <2>. QED  BY <1>1, <1>8, <1>9, <2>5, <2>6, <2>7, <2>8, NoCommit DEF SessionOK
<1>13. rows[k] = value[s] => rows[k] # Absent  BY <1>3, ConstantFacts
<1>. QED  BY <1>2, <1>11, <1>12, <1>13

\* An INSERT writes a row that had no key before.
LEMMA InsertStep ==
  ASSUME IInv, TypeOK', NEW s \in Sessions, Insert(s)
  PROVE  IInv'
<1>. DEFINE n == nextRecid
            K == {n}
<1>1. /\ pc[s] = "begun" /\ op[s] = "insert" /\ conn[s] = "up"
      /\ n \in Recids /\ Write(s, K, value[s])
      /\ ids' = [ids EXCEPT ![s] = K] /\ nextRecid' = n + 1
      /\ pc' = [pc EXCEPT ![s] = "written"]
      /\ UNCHANGED <<rows, trail, nextAudit, conn, op, value, before, after, newer, audit>>
  BY DEF Insert, Cursor, Goto
<1>2. n \in Nat /\ K \in SUBSET Recids
  BY <1>1, ConstantFacts
<1>3. /\ pc = [t \in Sessions |-> pc[t]] /\ ids = [t \in Sessions |-> ids[t]]
  BY DEF IInv, TypeOK
<1>. HIDE DEF n
<1>4. /\ pc'[s] = "written" /\ ids'[s] = K
      /\ \A t \in Sessions : t # s => pc'[t] = pc[t] /\ ids'[t] = ids[t]
  BY <1>1, <1>3
<1>5. rows[n] = Absent /\ lock[n] = Nobody
  BY <1>1, <1>2 DEF IInv, KeysOK, n
<1>6. \A k \in K : lock[k] \in {Nobody, s} /\ ~Gone(k)
  BY <1>2, <1>5 DEF Gone, n
<1>7. nextRecid <= nextRecid'  BY <1>1, <1>2 DEF n
<1>8. value[s] \in Values /\ value[s] \in States /\ value[s] # Absent /\ value[s] # Untouched
  BY <1>1, ConstantFacts DEF IInv, SessionOK, AskedOK, InBlock
<1>9. /\ Bystanders(s)
      /\ \A k \in Recids : own'[s][k] = IF k \in K THEN value[s] ELSE Untouched
      /\ \A k \in Recids : lock'[k] = IF k \in K THEN s ELSE lock[k]
      /\ audit'[s] = {} /\ TxnOK(s)'
  <2>. HIDE DEF K
  <2>1. pc[s] \in {"begun", "read"} /\ pc'[s] \in {"written", "to audit", "done"}  BY <1>1, <1>4
  <2>2. /\ UNCHANGED <<rows, trail, nextAudit, audit, conn, after>>
        /\ \A t \in Sessions : t # s =>
             /\ pc'[t] = pc[t] /\ op'[t] = op[t] /\ ids'[t] = ids[t]
             /\ value'[t] = value[t] /\ before'[t] = before[t]
    BY <1>1, <1>4
  <2>3. WriteBy(s, K, value[s])  BY <1>1, <1>2, <1>6, <1>7, <1>8, <2>1, <2>2 DEF WriteBy
  <2>. QED  BY <2>3, WriteEffect
<1>10. WrittenOK(s)'  BY <1>1, <1>4, <1>8, <1>9 DEF WrittenOK
<1>11. ToAuditOK(s)' /\ DoneOK(s)'  BY <1>4, <1>9 DEF ToAuditOK, DoneOK
<1>12. AskedOK(s)'
  BY <1>1, <1>8 DEF AskedOK
<1>13. KeysOK'
  <2>1. ASSUME NEW k \in Recids, k >= nextRecid'  PROVE rows[k] = Absent /\ lock'[k] = Nobody
    <3>1. k \in Nat /\ k # n /\ k >= nextRecid  BY <1>1, <1>2, <2>1, ConstantFacts DEF n
    <3>. QED  BY <1>9, <3>1 DEF IInv, KeysOK
  <2>2. ASSUME NEW t \in Sessions, NEW k \in Recids, before[t][k] # Absent  PROVE k < nextRecid'
    <3>1. k < n  BY <2>2 DEF IInv, KeysOK, n
    <3>. QED  BY <1>1, <1>2, <3>1, ConstantFacts
  <2>. QED  BY <1>1, <2>1, <2>2 DEF KeysOK
<1>. QED  BY <1>1, <1>9, <1>10, <1>11, <1>12, <1>13, NoCommit DEF SessionOK

\* The audit rows written are those that a commit needs.
LEMMA RecordStep ==
  ASSUME IInv, TypeOK', NEW s \in Sessions, Record(s)
  PROVE  IInv'
<1>. DEFINE A == Audited(s)
            R == {AuditRow(s, k) : k \in A}
<1>1. /\ pc[s] = "to audit" /\ conn[s] = "up"
      /\ audit' = [audit EXCEPT ![s] = R] /\ nextAudit' = nextAudit + Cardinality(A)
      /\ pc' = [pc EXCEPT ![s] = "done"]
      /\ UNCHANGED <<rows, trail, nextRecid, lock, conn, op, ids, value, before, after, newer, own>>
  BY Zenon DEF Record, Cursor, Goto, request
<1>2. A \in SUBSET Recids  BY DEF Audited, Found, IInv, TypeOK
<1>3. /\ nextAudit \in Nat /\ nextRecid \in Nat
      /\ pc = [t \in Sessions |-> pc[t]] /\ audit = [t \in Sessions |-> audit[t]]
  BY Counters DEF IInv, TypeOK
<1>4. /\ \A e \in R : \E k \in A : e = AuditRow(s, k)
      /\ \A k \in A : AuditRow(s, k) \in R
  BY Zenon
<1>5. \A k \in A : /\ AuditRow(s, k).recid = k /\ AuditRow(s, k).after = after[s]
                   /\ AuditRow(s, k).id \in Nat
                   /\ nextAudit <= AuditRow(s, k).id /\ AuditRow(s, k).id < nextAudit + Cardinality(A)
  BY <1>2, <1>3, Numbering DEF AuditRow
<1>6. Cardinality(A) \in Nat  BY <1>2, Numbering
<1>7. ToAuditOK(s) /\ TxnOK(s)  BY DEF IInv, SessionOK
<1>8. /\ \A k \in Recids : own[s][k] # Untouched => k \in A /\ own[s][k] = after[s]
      /\ \A k \in A : own[s][k] = Untouched => Gone(k) /\ after[s] = Absent
  BY <1>1, <1>7 DEF ToAuditOK
<1>. HIDE DEF A, R
<1>9. /\ pc'[s] = "done" /\ audit'[s] = R
      /\ \A t \in Sessions : t # s => pc'[t] = pc[t] /\ audit'[t] = audit[t]
  BY <1>1, <1>3
<1>10. Bystanders(s)
  <2>1. \A t \in Sessions : t # s => LocalSame(t)  BY <1>1, <1>9 DEF LocalSame
  <2>2. nextAudit <= nextAudit' /\ nextRecid <= nextRecid'
    <3>1. nextAudit' = nextAudit + Cardinality(A) /\ nextRecid' = nextRecid  BY <1>1
    <3>2. nextAudit \in Nat /\ nextRecid \in Nat  BY <1>3
    <3>. QED  BY <3>1, <3>2, <1>6
  <2>. QED  BY <1>1, <2>1, <2>2 DEF Bystanders, Gone
<1>11. TxnOK(s)'
  BY <1>1, <1>7, <1>9 DEF TxnOK, NothingReadBack
<1>12. DoneOK(s)'
  <2>1. ASSUME NEW k \in Recids, own[s][k] # Untouched  PROVE \E e \in R : e.recid = k
    BY <1>4, <1>5, <1>8, <2>1
  <2>2. \A e \in R : e.id < nextAudit'
    BY <1>1, <1>4, <1>5
  <2>3. ASSUME NEW e \in R
        PROVE  \/ /\ own[s][e.recid] # Untouched
                  /\ own[s][e.recid] = e.after
                  /\ \A f \in trail : f.recid = e.recid => f.id < e.id
               \/ own[s][e.recid] = Untouched /\ Gone(e.recid) /\ e.after = Absent /\ e.recid \in Recids
    <3>1. PICK k \in A : e = AuditRow(s, k)  BY <1>4
    <3>2. e.recid = k /\ e.after = after[s] /\ e.id \in Nat /\ nextAudit <= e.id  BY <1>5, <3>1
    <3>3. \A f \in trail : f.id \in Nat /\ f.id < nextAudit  BY DEF IInv, TypeOK, AuditRows
    <3>4. \A f \in trail : f.id < e.id  BY <1>3, <3>2, <3>3
    <3>5. k \in Recids  BY <1>2
    <3>. QED  BY <1>8, <3>2, <3>4, <3>5
  <2>4. ASSUME NEW e \in R, NEW f \in R, e.recid = f.recid  PROVE e = f
    BY <1>4, <1>5, <2>4
  <2>5. \A k \in Recids : Gone(k) => Gone(k)'  BY <1>1 DEF Gone
  <2>6. own' = own /\ trail' = trail  BY <1>1
  <2>. QED  BY <1>9, <2>1, <2>2, <2>3, <2>4, <2>5, <2>6 DEF DoneOK
<1>13. AskedOK(s)'  BY <1>1 DEF IInv, SessionOK, AskedOK, InBlock
<1>14. WrittenOK(s)' /\ ToAuditOK(s)'  BY <1>9 DEF WrittenOK, ToAuditOK
<1>15. KeysOK'  BY <1>1 DEF IInv, KeysOK
<1>. QED  BY <1>1, <1>10, <1>11, <1>12, <1>13, <1>14, <1>15, NoCommit DEF SessionOK

\* The commit of s, answered or not.
LEMMA CommitStep ==
  ASSUME IInv, TypeOK', NEW s \in Sessions, Commit(s) \/ CommitUnanswered(s)
  PROVE  IInv'
<1>1. /\ pc[s] = "done" /\ conn[s] = "up" /\ Applies(s)
      /\ UNCHANGED <<nextRecid, nextAudit>>
  BY DEF Commit, CommitUnanswered, Cursor
<1>2. /\ pc = [t \in Sessions |-> pc[t]] /\ conn = [t \in Sessions |-> conn[t]]
      /\ op = [t \in Sessions |-> op[t]] /\ ids = [t \in Sessions |-> ids[t]]
      /\ value = [t \in Sessions |-> value[t]] /\ before = [t \in Sessions |-> before[t]]
      /\ after = [t \in Sessions |-> after[t]] /\ own = [t \in Sessions |-> own[t]]
      /\ audit = [t \in Sessions |-> audit[t]]
  BY DEF IInv, TypeOK
<1>3. \E r \in Replies : Reply(s, r)
  BY DEF Commit, CommitUnanswered, Replies
<1>4. /\ pc'[s] \in Replies /\ before'[s] = Unread /\ after'[s] = Absent
      /\ \A t \in Sessions : t # s =>
           /\ pc'[t] = pc[t] /\ op'[t] = op[t] /\ ids'[t] = ids[t] /\ value'[t] = value[t]
           /\ before'[t] = before[t] /\ after'[t] = after[t]
  BY <1>2, <1>3 DEF Reply, Goto
<1>5. \A t \in Sessions : t # s => conn'[t] = conn[t]
  BY <1>2 DEF Commit, CommitUnanswered
<1>6. /\ \A k \in Recids : rows'[k] = Sees(s, k)
      /\ trail' = trail \cup audit[s]
      /\ \A k \in Recids : lock'[k] = IF lock[k] = s THEN Nobody ELSE lock[k]
      /\ own'[s] = Nothing /\ audit'[s] = {}
      /\ \A t \in Sessions : t # s => own'[t] = own[t] /\ audit'[t] = audit[t]
  BY <1>1, <1>2 DEF Applies, Unlocked
<1>7. TxnOK(s) /\ DoneOK(s)  BY DEF IInv, SessionOK
<1>8. s # Nobody /\ Recids \subseteq Nat  BY ConstantFacts
<1>9. \A k \in Recids : own[s][k] # Untouched => lock[k] = s  BY <1>7 DEF TxnOK
<1>10. \A k \in Recids : Gone(k) => Gone(k)'
  BY <1>1, <1>6, <1>8, <1>9 DEF Gone, Sees
<1>11. Bystanders(s)
  <2>1. \A t \in Sessions : t # s => LocalSame(t)  BY <1>4, <1>5, <1>6 DEF LocalSame
  <2>2. nextAudit <= nextAudit' /\ nextRecid <= nextRecid'
    <3>1. nextAudit' = nextAudit /\ nextRecid' = nextRecid  BY <1>1
    <3>. QED  BY <3>1, Counters DEF IInv
  <2>. QED  BY <1>6, <1>10, <2>1, <2>2 DEF Bystanders
<1>12. SessionOK(s)'
  <2>1. pc'[s] \notin InBlock \cup {"open"}  BY <1>4 DEF Replies, InBlock
  <2>2. TxnOK(s)'
    BY <1>4, <1>6, <1>8 DEF TxnOK, NothingReadBack, Nothing
  <2>3. AskedOK(s)' /\ WrittenOK(s)' /\ ToAuditOK(s)'
    BY <2>1 DEF AskedOK, WrittenOK, ToAuditOK, InBlock
  <2>4. DoneOK(s)'  BY <1>6 DEF DoneOK, Nothing
  <2>. QED  BY <2>2, <2>3, <2>4 DEF SessionOK
<1>13. KeysOK'
  <2>1. ASSUME NEW k \in Recids, k >= nextRecid  PROVE rows'[k] = Absent /\ lock'[k] = Nobody
    <3>1. rows[k] = Absent /\ lock[k] = Nobody  BY <2>1 DEF IInv, KeysOK
    <3>. QED  BY <1>6, <1>8, <1>9, <3>1 DEF Sees
  <2>2. ASSUME NEW t \in Sessions, NEW k \in Recids, before'[t][k] # Absent  PROVE k < nextRecid
    <3>1. before[t][k] # Absent  BY <1>4, <2>2 DEF Unread
    <3>. QED  BY <3>1 DEF IInv, KeysOK
  <2>3. nextRecid' = nextRecid  BY <1>1
  <2>. QED  BY <2>1, <2>2, <2>3 DEF KeysOK
<1>14. audit[s] \subseteq AuditRows /\ trail \subseteq AuditRows
       /\ \A e \in AuditRows : e.id \in Nat /\ e.recid \in Recids
  BY DEF IInv, TypeOK, AuditRows
<1>15. (\A e \in trail : e.id < nextAudit)'
  BY <1>1, <1>6, <1>7 DEF IInv, DoneOK
<1>16. TrailTells'
  <2>1. ASSUME NEW k \in Recids, NEW e \in trail', e.recid = k,
               \A f \in trail' : f.recid = k => f.id <= e.id
        PROVE  rows'[k] = e.after
    <3>1. CASE own[s][k] # Untouched
      <4>1. PICK g \in audit[s] : g.recid = k  BY <1>1, <1>7, <3>1 DEF DoneOK
      <4>2. own[s][k] = g.after /\ \A f \in trail : f.recid = k => f.id < g.id
        BY <1>7, <3>1, <4>1 DEF DoneOK
      <4>3. g.id <= e.id  BY <1>6, <2>1, <4>1
      <4>4. e \notin trail  BY <1>14, <2>1, <4>1, <4>2, <4>3
      <4>5. e = g  BY <1>6, <1>7, <2>1, <4>1, <4>4 DEF DoneOK
      <4>. QED  BY <1>6, <3>1, <4>2, <4>5 DEF Sees
    <3>2. CASE own[s][k] = Untouched
      <4>1. rows'[k] = rows[k]  BY <1>6, <3>2 DEF Sees
      <4>2. CASE e \in audit[s]
        <5>1. Gone(k) /\ e.after = Absent  BY <1>7, <2>1, <3>2, <4>2 DEF DoneOK
        <5>. QED  BY <4>1, <5>1 DEF Gone
      <4>3. CASE e \in trail
        <5>1. Latest(k, e)  BY <1>6, <2>1, <4>3 DEF Latest
        <5>. QED  BY <4>1, <4>3, <5>1 DEF IInv, TrailTells
      <4>. QED  BY <1>6, <4>2, <4>3
    <3>. QED  BY <3>1, <3>2
  <2>2. ASSUME NEW k \in Recids, \A e \in trail' : e.recid # k
        PROVE  rows'[k] = Initial[k]
    <3>1. own[s][k] = Untouched  BY <1>1, <1>6, <1>7, <2>2 DEF DoneOK
    <3>2. rows'[k] = rows[k]  BY <1>6, <3>1 DEF Sees
    <3>. QED  BY <1>6, <2>2, <3>2 DEF IInv, TrailTells
  <2>. QED  BY <2>1, <2>2 DEF TrailTells, Latest
<1>17. \A t \in Sessions : SessionOK(t)'  BY <1>11, <1>12, OthersStep
<1>. QED  BY <1>13, <1>15, <1>16, <1>17 DEF IInv

\* Every step keeps the invariant.
LEMMA NextStep == IInv /\ [Next]_vars => IInv'
<1>. SUFFICES ASSUME IInv, [Next]_vars  PROVE IInv'
  OBVIOUS
<1>1. ASSUME NEW s \in Sessions, Session(s)  PROVE IInv'
  <2>1. TypeOK'  BY <1>1, TypeStep DEF IInv
  <2>2. CASE Quiet(s)  BY <2>1, <2>2, QuietStep
  <2>3. CASE Lose(s) \/ Fail(s)  BY <2>1, <2>3, RollbackStep
  <2>4. CASE Delete(s)  BY <2>1, <2>4, DeleteStep
  <2>5. CASE Update(s)  BY <2>1, <2>5, UpdateStep
  <2>6. CASE Insert(s)  BY <2>1, <2>6, InsertStep
  <2>7. CASE Record(s)  BY <2>1, <2>7, RecordStep
  <2>8. CASE Commit(s) \/ CommitUnanswered(s)  BY <2>1, <2>8, CommitStep
  <2>. QED  BY <1>1, <2>2, <2>3, <2>4, <2>5, <2>6, <2>7, <2>8 DEF Session, Quiet
<1>2. CASE UNCHANGED vars
  <2>. USE <1>2 DEF vars
  <2>1. TypeOK'  BY DEF IInv, TypeOK
  <2>2. KeysOK'  BY DEF IInv, KeysOK
  <2>3. ASSUME NEW s \in Sessions  PROVE SessionOK(s)'
    <3>. USE DEF IInv, SessionOK
    <3>1. TxnOK(s)'  BY DEF TxnOK, NothingReadBack
    <3>a. AskedOK(s)'  BY DEF AskedOK
    <3>b. WrittenOK(s)'  BY DEF WrittenOK
    <3>2. Audited(s)' = Audited(s)  BY DEF Audited, Found
    <3>3. ToAuditOK(s)'  BY <3>2 DEF ToAuditOK, Gone
    <3>4. DoneOK(s)'  BY DEF DoneOK, Gone
    <3>. QED  BY <3>1, <3>a, <3>b, <3>3, <3>4
  <2>4. TrailTells' /\ (\A e \in trail : e.id < nextAudit)'  BY DEF IInv, TrailTells, Latest
  <2>. QED  BY <2>1, <2>2, <2>3, <2>4 DEF IInv
<1>. QED  BY <1>1, <1>2 DEF Next

\* The invariant holds always.
LEMMA Always == Spec => []IInv
BY InitIInv, NextStep, PTL DEF Spec

-----------------------------------------------------------------------------
\* Rows, locks, transactions and requests of the admin server keep their
\* types (AdminTxn, every definition).
THEOREM TypeCorrect == Spec => []TypeOK
<1>1. IInv => TypeOK  BY DEF IInv
<1>. QED  BY <1>1, Always, PTL

\* Whatever the connections do, and wherever they break, the committed trail
\* ends for each row in the row's committed state, under either isolation:
\* save_data and delete_data write rows and audit in one transaction.
THEOREM TrailTold == Spec => []TrailTells
<1>1. IInv => TrailTells  BY DEF IInv
<1>. QED  BY <1>1, Always, PTL

\* transaction() never leaves a connection that has replied holding a row
\* lock, an uncommitted write or an uncommitted audit row.
THEOREM RestFree == Spec => []RestHoldsNothing
<1>1. IInv => RestHoldsNothing
  BY DEF IInv, SessionOK, TxnOK, RestHoldsNothing, Resting, Replies
<1>. QED  BY <1>1, Always, PTL

-----------------------------------------------------------------------------
\* What a commit would publish, while it is prepared: the state before each
\* write is still the committed one, under snapshot isolation.

\* A request that has read nothing compares with no row.
UnreadOK(s) ==
  pc[s] \in Resting \cup {"open", "begun"} \/ op[s] = "insert" => before[s] = Unread

\* What was read of the requested rows is their state, unless somebody else
\* committed them since.
ReadOK(s) ==
  pc[s] = "read" =>
    /\ \A k \in Recids : before[s][k] # Absent => k \in ids[s]
    /\ conn[s] = "up" => \A k \in ids[s] : k \in newer[s] \/ before[s][k] = rows[k]

\* A transaction has changed each row that it wrote, from the state it read.
OwnOK(s) ==
  \A k \in Recids : own[s][k] # Untouched => before[s][k] = rows[k] /\ own[s][k] # rows[k]

\* Only rows that were written are audited, with the state read before.
AuditedOK(s) ==
  /\ pc[s] = "to audit" /\ conn[s] = "up" => \A k \in Audited(s) : own[s][k] # Untouched
  /\ \A e \in audit[s] : own[s][e.recid] # Untouched /\ e.before = before[s][e.recid]

ExactOK(s) == UnreadOK(s) /\ ReadOK(s) /\ OwnOK(s) /\ AuditedOK(s)

\* The step that AuditExact allows.
AuditExactStep ==
  /\ \A e \in trail' \ trail : rows[e.recid] = e.before /\ rows'[e.recid] = e.after
  /\ \A k \in Recids : rows'[k] # rows[k] => \E e \in trail' \ trail : e.recid = k
  /\ \A e, f \in trail' \ trail : e.recid = f.recid => e = f

\* How the committed rows look to connections other than s after its step.
Publishes(s) ==
  /\ \A t \in Sessions : t # s => newer[t] \subseteq newer'[t]
  /\ \A k \in Recids : rows'[k] # rows[k] =>
       own[s][k] # Untouched /\ \A t \in Sessions : t # s => k \in newer'[t]

\* No step of s spoils what another connection prepares: it writes no row
\* that the other one holds, and what it commits the other one knows as newer.
LEMMA OthersExact ==
  ASSUME IInv, NEW s \in Sessions, Publishes(s),
         NEW t \in Sessions, t # s, LocalSame(t), ExactOK(t)
  PROVE  ExactOK(t)'
<1>1. UnreadOK(t)'  BY DEF ExactOK, UnreadOK, LocalSame
<1>2. ReadOK(t)'
  <2>1. ids[t] \subseteq Recids /\ newer[t] \subseteq newer'[t]  BY DEF IInv, TypeOK, Publishes
  <2>2. \A k \in Recids : rows'[k] # rows[k] => k \in newer'[t]  BY DEF Publishes
  <2>. QED  BY <2>1, <2>2 DEF ExactOK, ReadOK, LocalSame
<1>3. \A k \in Recids : own[t][k] # Untouched => rows'[k] = rows[k]
  <2>1. TxnOK(s) /\ TxnOK(t)  BY DEF IInv, SessionOK
  <2>2. \A k \in Recids : own[t][k] # Untouched => own[s][k] = Untouched  BY <2>1 DEF TxnOK
  <2>. QED  BY <2>2 DEF Publishes
<1>4. OwnOK(t)'  BY <1>3 DEF ExactOK, OwnOK, LocalSame
<1>5. AuditedOK(t)'
  <2>1. Audited(t)' = Audited(t)  BY DEF Audited, Found, LocalSame
  <2>. QED  BY <2>1 DEF ExactOK, AuditedOK, LocalSame
<1>. QED  BY <1>1, <1>2, <1>4, <1>5 DEF ExactOK

\* A step of s is a step of s only.
LEMMA OthersSame ==
  ASSUME TypeOK, NEW s \in Sessions, Session(s), NEW t \in Sessions, t # s
  PROVE  LocalSame(t)
<1>0. /\ pc = [r \in Sessions |-> pc[r]] /\ conn = [r \in Sessions |-> conn[r]]
      /\ op = [r \in Sessions |-> op[r]] /\ ids = [r \in Sessions |-> ids[r]]
      /\ value = [r \in Sessions |-> value[r]] /\ own = [r \in Sessions |-> own[r]]
      /\ audit = [r \in Sessions |-> audit[r]]
      /\ before = [r \in Sessions |-> before[r]] /\ after = [r \in Sessions |-> after[r]]
  BY DEF TypeOK
<1>. USE <1>0 DEF Goto, Reply, database, request, txn, LocalSame
<1>1. ASSUME NEW o \in {"insert", "update", "delete"}, NEW K \in SUBSET Recids, NEW v \in Values,
             Request(s, o, K, v)
      PROVE  LocalSame(t)
  BY <1>1 DEF Request
<1>2. CASE Begin(s) \/ BeginFails(s) \/ ReadBefore(s) \/ ReadBack(s)
  BY <1>2 DEF Begin, BeginFails, ReadBefore, ReadBack
<1>3. ASSUME NEW K, NEW st, Write(s, K, st)  PROVE own'[t] = own[t]
  <2>1. own' = [own EXCEPT ![s] = [k \in Recids |-> IF k \in K THEN st ELSE own[s][k]]]
    BY <1>3 DEF Write
  <2>. QED  BY <2>1
<1>4. CASE Delete(s)
  <2>1. own'[t] = own[t]  BY <1>3, <1>4 DEF Delete
  <2>. QED  BY <1>4, <2>1 DEF Delete
<1>5. CASE Update(s)
  <2>1. own'[t] = own[t]  BY <1>3, <1>5 DEF Update
  <2>2. pc'[t] = pc[t]  BY <1>5 DEF Update
  <2>. QED  BY <1>5, <2>1, <2>2 DEF Update
<1>6. CASE Insert(s)
  <2>1. own'[t] = own[t]  BY <1>3, <1>6 DEF Insert
  <2>. QED  BY <1>6, <2>1 DEF Insert
<1>7. CASE Record(s)
  <2>1. audit'[t] = audit[t]
    <3>. DEFINE R == {AuditRow(s, k) : k \in Audited(s)}
    <3>1. audit' = [audit EXCEPT ![s] = R]  BY <1>7, Zenon DEF Record
    <3>. HIDE DEF R
    <3>. QED  BY <3>1
  <2>2. Goto(s, "done") /\ UNCHANGED <<conn, op, ids, value, before, after, own>>
    BY <1>7, Zenon DEF Record
  <2>. QED  BY <2>1, <2>2
<1>8. CASE Commit(s) \/ CommitUnanswered(s)
  BY <1>8 DEF Commit, CommitUnanswered, Applies
<1>9. CASE Lose(s) \/ Fail(s)
  BY <1>9 DEF Lose, Fail, Forget
<1>. QED  BY <1>1, <1>2, <1>4, <1>5, <1>6, <1>7, <1>8, <1>9 DEF Session

\* Only a commit changes committed rows, and every open read view of another
\* connection learns which ones.
LEMMA PublishesStep ==
  ASSUME TypeOK, NEW s \in Sessions, Session(s)
  PROVE  /\ Publishes(s)
         /\ Commit(s) \/ CommitUnanswered(s) \/ UNCHANGED <<rows, trail>>
<1>0. newer = [r \in Sessions |-> newer[r]] /\ rows = [k \in Recids |-> rows[k]]  BY DEF TypeOK
<1>1. ASSUME NEW o \in {"insert", "update", "delete"}, NEW K \in SUBSET Recids, NEW v \in Values,
             Request(s, o, K, v)
      PROVE  UNCHANGED <<rows, trail, newer>>
  BY <1>1 DEF Request, database, txn
<1>2. CASE Begin(s) \/ BeginFails(s) \/ ReadBack(s)
  BY <1>2 DEF Begin, BeginFails, ReadBack, Publishes, database, txn
<1>3. CASE ReadBefore(s)
  BY <1>0, <1>3 DEF ReadBefore, Publishes, database, txn
<1>4. CASE Delete(s) \/ Update(s) \/ Insert(s) \/ Record(s)
  <2>1. UNCHANGED <<rows, trail, newer>>  BY <1>4, Zenon DEF Delete, Update, Insert, Record
  <2>. QED  BY <2>1 DEF Publishes
<1>5. CASE Lose(s) \/ Fail(s)
  BY <1>0, <1>5 DEF Lose, Fail, Forget, Publishes
<1>6. CASE Commit(s) \/ CommitUnanswered(s)
  <2>1. Applies(s)  BY <1>6 DEF Commit, CommitUnanswered
  <2>2. Publishes(s)  BY <1>0, <2>1 DEF Applies, Sees, Publishes
  <2>. QED  BY <1>6, <2>2
<1>7. UNCHANGED <<rows, trail, newer>> => Publishes(s)  BY DEF Publishes
<1>. QED  BY <1>1, <1>2, <1>3, <1>4, <1>5, <1>6, <1>7 DEF Session

\* Requests, replies, rollbacks and reads: nothing is written but by the
\* read back, which found what was written.
LEMMA QuietExact ==
  ASSUME IInv, IInv', NEW s \in Sessions, Quiet(s) \/ Lose(s) \/ Fail(s), ExactOK(s)
  PROVE  ExactOK(s)'
<1>0. /\ pc = [r \in Sessions |-> pc[r]] /\ conn = [r \in Sessions |-> conn[r]]
      /\ op = [r \in Sessions |-> op[r]] /\ ids = [r \in Sessions |-> ids[r]]
      /\ before = [r \in Sessions |-> before[r]] /\ newer = [r \in Sessions |-> newer[r]]
  BY DEF IInv, TypeOK
<1>. USE <1>0 DEF Goto, Reply, request, txn, database
<1>1. pc'[s] \notin {"written", "to audit", "done"} \/ conn'[s] = "lost" => OwnOK(s)' /\ AuditedOK(s)'
  <2>1. ASSUME pc'[s] \notin {"written", "to audit", "done"} \/ conn'[s] = "lost"
        PROVE  own'[s] = Nothing /\ audit'[s] = {}
    BY <2>1 DEF IInv, SessionOK, TxnOK
  <2>. QED  BY <2>1 DEF OwnOK, AuditedOK, Nothing
<1>2. ASSUME NEW o \in {"insert", "update", "delete"}, NEW K \in SUBSET Recids, NEW v \in Values,
             Request(s, o, K, v)
      PROVE  ExactOK(s)'
  <2>1. pc'[s] = "open" /\ pc[s] \in Resting /\ before' = before  BY <1>2 DEF Request
  <2>. QED  BY <1>1, <2>1 DEF ExactOK, UnreadOK, ReadOK
<1>3. CASE Begin(s)
  <2>1. pc'[s] = "begun" /\ pc[s] = "open" /\ before' = before  BY <1>3 DEF Begin
  <2>. QED  BY <1>1, <2>1 DEF ExactOK, UnreadOK, ReadOK
<1>4. CASE BeginFails(s) \/ Fail(s)
  <2>1. pc'[s] = "error" /\ before'[s] = Unread  BY <1>4 DEF BeginFails, Fail
  <2>. QED  BY <1>1, <2>1 DEF ExactOK, UnreadOK, ReadOK
<1>5. CASE ReadBefore(s)
  <2>1. /\ pc'[s] = "read" /\ op'[s] # "insert" /\ newer'[s] = {}
        /\ before'[s] = [k \in Recids |-> IF k \in ids[s] THEN rows[k] ELSE Absent]
        /\ rows' = rows /\ ids' = ids
    BY <1>5 DEF ReadBefore
  <2>2. UnreadOK(s)'  BY <2>1 DEF UnreadOK, Resting, Replies
  <2>3. ids[s] \subseteq Recids  BY DEF IInv, TypeOK
  <2>4. ReadOK(s)'  BY <2>1, <2>3 DEF ReadOK
  <2>. QED  BY <1>1, <2>1, <2>2, <2>4 DEF ExactOK
<1>6. CASE ReadBack(s)
  <2>1. /\ pc[s] = "written" /\ pc'[s] = "to audit" /\ conn[s] = "up"
        /\ UNCHANGED <<rows, own, audit, before, op, ids>>
    BY <1>6 DEF ReadBack, Cursor
  <2>2. WrittenOK(s) /\ audit[s] = {}  BY <2>1 DEF IInv, SessionOK, TxnOK
  <2>3. AuditedOK(s)'  BY <2>1, <2>2 DEF WrittenOK, AuditedOK, Audited
  <2>4. UnreadOK(s)' /\ ReadOK(s)' /\ OwnOK(s)'
    BY <2>1 DEF ExactOK, UnreadOK, ReadOK, OwnOK, Resting, Replies
  <2>. QED  BY <2>3, <2>4 DEF ExactOK
<1>7. CASE Lose(s)
  <2>1. /\ conn'[s] = "lost" /\ UNCHANGED <<pc, before, op, ids>>
    BY <1>7 DEF Lose
  <2>. QED  BY <1>1, <2>1 DEF ExactOK, UnreadOK, ReadOK
<1>. QED  BY <1>2, <1>3, <1>4, <1>5, <1>6, <1>7 DEF Quiet

\* Under snapshot isolation a statement writes rows whose state is the one
\* that was read, and changes it.
LEMMA WriteExact ==
  ASSUME IInv, IInv', NEW s \in Sessions, Delete(s) \/ Update(s) \/ Insert(s),
         SnapshotIsolation, ExactOK(s)
  PROVE  ExactOK(s)'
<1>0. /\ pc = [r \in Sessions |-> pc[r]] /\ own = [r \in Sessions |-> own[r]]
      /\ before[s] \in [Recids -> States] /\ ids[s] \subseteq Recids
  BY DEF IInv, TypeOK
<1>1. /\ pc[s] \in {"begun", "read"} /\ conn[s] = "up"
      /\ pc'[s] \in {"written", "to audit", "done"}
      /\ pc'[s] = "to audit" => Delete(s) /\ op'[s] = "delete"
      /\ UNCHANGED <<rows, before, op, conn, audit, newer>>
  BY <1>0 DEF Delete, Update, Insert, Cursor, Goto, request
<1>2. own[s] = Nothing /\ audit[s] = {} /\ audit'[s] = {}
  BY <1>1 DEF IInv, SessionOK, TxnOK
<1>3. UnreadOK(s)' /\ ReadOK(s)'
  BY <1>1 DEF ExactOK, UnreadOK, ReadOK, Resting, Replies
<1>4. ASSUME NEW K, NEW st, Write(s, K, st)
      PROVE  \A k \in Recids : own'[s][k] = IF k \in K THEN st ELSE Untouched
  <2>1. own' = [own EXCEPT ![s] = [k \in Recids |-> IF k \in K THEN st ELSE own[s][k]]]
    BY <1>4 DEF Write
  <2>. QED  BY <1>0, <1>2, <2>1 DEF Nothing
<1>5. pc[s] = "read" =>
        \A k \in ids[s] : k \notin newer[s] => before[s][k] = rows[k]
  BY <1>1 DEF ExactOK, ReadOK
<1>6. CASE Delete(s)
  <2>. DEFINE hit == {k \in Found(s) : rows[k] # Absent}
  <2>1. Write(s, hit, Absent) /\ pc[s] = "read" /\ op[s] = "delete" /\ op' = op /\ before' = before
    BY <1>6 DEF Delete, request
  <2>2. \A k \in Found(s) : k \in ids[s] /\ k \notin newer[s] /\ before[s][k] # Absent /\ k \in Recids
    BY <1>6, <2>1 DEF Delete, MayWrite, Found, ExactOK, ReadOK
  <2>3. \A k \in Found(s) : before[s][k] = rows[k]  BY <1>5, <2>1, <2>2
  <2>4. \A k \in Recids : own'[s][k] = IF k \in Found(s) THEN Absent ELSE Untouched
    <3>1. hit = Found(s)  BY <2>2, <2>3
    <3>. HIDE DEF hit
    <3>. QED  BY <1>4, <2>1, <3>1
  <2>5. OwnOK(s)'  BY <1>1, <2>2, <2>3, <2>4 DEF OwnOK
  <2>6. Audited(s)' = Found(s)  BY <2>1 DEF Audited, Found
  <2>7. AuditedOK(s)'  BY <1>2, <2>2, <2>4, <2>6, ConstantFacts DEF AuditedOK
  <2>. QED  BY <1>3, <2>5, <2>7 DEF ExactOK
<1>7. CASE Update(s)
  <2>1. AuditedOK(s)'
    <3>1. pc'[s] # "to audit"  BY <1>0, <1>7 DEF Update, Goto
    <3>. QED  BY <1>2, <3>1 DEF AuditedOK
  <2>. SUFFICES OwnOK(s)'
    BY <1>3, <2>1 DEF ExactOK
  <2>2. CASE own' = own  BY <1>2, <2>2 DEF OwnOK, Nothing
  <2>3. CASE own' # own
    <3>1. PICK k \in ids[s] :
            MayWrite(s, {k}) /\ rows[k] \notin {Absent, value[s]} /\ Write(s, {k}, value[s])
      BY <1>7, <2>3 DEF Update
    <3>2. \A j \in Recids : own'[s][j] = IF j = k THEN value[s] ELSE Untouched
      <4>. DEFINE K == {k}
      <4>1. Write(s, K, value[s])  BY <3>1
      <4>2. \A j : j \in K <=> j = k  OBVIOUS
      <4>. HIDE DEF K
      <4>. QED  BY <1>4, <4>1, <4>2
    <3>3. before[s][k] = rows[k]
      <4>1. pc[s] = "read"  BY <1>7 DEF Update
      <4>2. k \notin newer[s]  BY <3>1 DEF MayWrite
      <4>. QED  BY <1>5, <3>1, <4>1, <4>2
    <3>. QED  BY <1>1, <3>1, <3>2, <3>3 DEF OwnOK
  <2>. QED  BY <2>2, <2>3
<1>8. CASE Insert(s)
  <2>. DEFINE n == nextRecid
  <2>1. n \in Recids /\ Write(s, {n}, value[s]) /\ op[s] = "insert" /\ pc[s] = "begun"  BY <1>8 DEF Insert
  <2>2. pc'[s] = "written"  BY <1>0, <1>8 DEF Insert, Goto
  <2>3. AuditedOK(s)'  BY <1>2, <2>2 DEF AuditedOK
  <2>4. rows[n] = Absent
    <3>1. n \in Nat  BY <2>1, ConstantFacts
    <3>. QED  BY <2>1, <3>1 DEF IInv, KeysOK
  <2>5. value[s] # Absent  BY <2>1, ConstantFacts DEF IInv, SessionOK, AskedOK, InBlock
  <2>6. before[s][n] = Absent  BY <2>1 DEF ExactOK, UnreadOK, Unread
  <2>. HIDE DEF n
  <2>7. \A j \in Recids : own'[s][j] = IF j = n THEN value[s] ELSE Untouched
    <3>. DEFINE K == {n}
    <3>1. Write(s, K, value[s])  BY <2>1
    <3>2. \A j : j \in K <=> j = n  OBVIOUS
    <3>. HIDE DEF K
    <3>. QED  BY <1>4, <3>1, <3>2
  <2>8. OwnOK(s)'  BY <1>1, <2>4, <2>5, <2>6, <2>7 DEF OwnOK
  <2>. QED  BY <1>3, <2>3, <2>8 DEF ExactOK
<1>. QED  BY <1>6, <1>7, <1>8

\* AUDIT.record writes an audit row for each written row, with the state
\* that was read before.
LEMMA RecordExact ==
  ASSUME IInv, IInv', NEW s \in Sessions, Record(s), ExactOK(s)
  PROVE  ExactOK(s)'
<1>. DEFINE A == Audited(s)
            R == {AuditRow(s, k) : k \in A}
<1>1. /\ pc[s] = "to audit" /\ conn[s] = "up" /\ Goto(s, "done")
      /\ audit' = [audit EXCEPT ![s] = R]
      /\ UNCHANGED <<rows, op, before, own>>
  BY Zenon DEF Record, Cursor, request
<1>2. \A e \in R : \E k \in A : e = AuditRow(s, k)  BY Zenon
<1>3. \A k \in A : AuditRow(s, k).recid = k /\ AuditRow(s, k).before = before[s][k]  BY DEF AuditRow
<1>4. \A k \in A : own[s][k] # Untouched  BY <1>1 DEF ExactOK, AuditedOK
<1>. HIDE DEF A, R
<1>5. audit'[s] = R /\ pc'[s] = "done"  BY <1>1 DEF Goto, IInv, TypeOK
<1>6. AuditedOK(s)'
  <2>1. ASSUME NEW e \in R  PROVE own[s][e.recid] # Untouched /\ e.before = before[s][e.recid]
    <3>1. PICK k \in A : e = AuditRow(s, k)  BY <1>2
    <3>2. e.recid = k /\ e.before = before[s][k]  BY <1>3, <3>1
    <3>. QED  BY <1>4, <3>2
  <2>2. own' = own /\ before' = before  BY <1>1
  <2>. QED  BY <1>5, <2>1, <2>2 DEF AuditedOK
<1>7. UnreadOK(s)' /\ ReadOK(s)' /\ OwnOK(s)'
  BY <1>1, <1>5 DEF ExactOK, UnreadOK, ReadOK, OwnOK, Resting, Replies
<1>. QED  BY <1>6, <1>7 DEF ExactOK

\* What a commit makes of the rows and the trail.
LEMMA CommitRows ==
  ASSUME IInv, NEW s \in Sessions, Commit(s) \/ CommitUnanswered(s), ExactOK(s)
  PROVE  /\ rows' = [k \in Recids |-> IF own[s][k] # Untouched THEN own[s][k] ELSE rows[k]]
         /\ trail \subseteq trail' /\ trail' \ trail = audit[s]
         /\ \A k \in Recids : own[s][k] # Untouched => \E e \in audit[s] : e.recid = k
         /\ \A e \in audit[s] :
              /\ e.recid \in Recids /\ own[s][e.recid] # Untouched
              /\ e.before = rows[e.recid] /\ e.after = own[s][e.recid]
              /\ \A f \in trail : f.recid = e.recid => f.id < e.id
         /\ \A e, f \in audit[s] : e.recid = f.recid => e = f
<1>1. /\ pc[s] = "done" /\ trail' = trail \cup audit[s]
      /\ rows' = [k \in Recids |-> IF own[s][k] # Untouched THEN own[s][k] ELSE rows[k]]
  BY DEF Commit, CommitUnanswered, Applies, Sees
<1>2. audit[s] \subseteq AuditRows /\ \A e \in AuditRows : e.id \in Nat /\ e.recid \in Recids
  BY DEF IInv, TypeOK, AuditRows
<1>3. DoneOK(s)  BY DEF IInv, SessionOK
<1>4. \A e \in audit[s] :
        /\ e.recid \in Recids /\ own[s][e.recid] # Untouched
        /\ e.before = rows[e.recid] /\ e.after = own[s][e.recid]
        /\ \A f \in trail : f.recid = e.recid => f.id < e.id
  BY <1>2, <1>3 DEF ExactOK, AuditedOK, OwnOK, DoneOK
<1>5. \A e \in audit[s] : e \notin trail
  <2>. SUFFICES ASSUME NEW e \in audit[s], e \in trail  PROVE FALSE
    OBVIOUS
  <2>1. e.id < e.id  BY <1>4
  <2>2. e.id \in Nat  BY <1>2
  <2>. QED  BY <2>1, <2>2
<1>6. trail \subseteq trail' /\ trail' \ trail = audit[s]  BY <1>1, <1>5
<1>7. /\ \A k \in Recids : own[s][k] # Untouched => \E e \in audit[s] : e.recid = k
      /\ \A e, f \in audit[s] : e.recid = f.recid => e = f
  BY <1>1, <1>3 DEF DoneOK
<1>. QED  BY <1>1, <1>4, <1>6, <1>7

\* A commit publishes the audited writes and forgets them.
LEMMA CommitExact ==
  ASSUME IInv, IInv', NEW s \in Sessions, Commit(s) \/ CommitUnanswered(s), ExactOK(s)
  PROVE  ExactOK(s)' /\ AuditExactStep
<1>1. \E r \in Replies : Reply(s, r)
  BY DEF Commit, CommitUnanswered, Replies
<1>2. pc'[s] \in Replies /\ before'[s] = Unread
  BY <1>1 DEF Reply, Goto, IInv, TypeOK
<1>3. ExactOK(s)'
  <2>1. own'[s] = Nothing /\ audit'[s] = {}  BY <1>2 DEF IInv, SessionOK, TxnOK, Replies
  <2>. QED  BY <1>2, <2>1 DEF ExactOK, UnreadOK, ReadOK, OwnOK, AuditedOK, Nothing, Replies
<1>4. AuditExactStep  BY CommitRows DEF AuditExactStep
<1>. QED  BY <1>3, <1>4

\* The invariant of exactness, and the steps that it makes exact.
LEMMA ExactStep ==
  ASSUME SnapshotIsolation, IInv, IInv', [Next]_vars, \A s \in Sessions : ExactOK(s)
  PROVE  /\ \A s \in Sessions : ExactOK(s)'
         /\ [AuditExactStep]_vars
<1>1. ASSUME NEW s \in Sessions, Session(s)
      PROVE  (\A t \in Sessions : ExactOK(t)') /\ AuditExactStep
  <2>0. TypeOK  BY DEF IInv
  <2>1. Publishes(s) /\ (Commit(s) \/ CommitUnanswered(s) \/ UNCHANGED <<rows, trail>>)
    BY <1>1, <2>0, PublishesStep
  <2>2. ASSUME NEW t \in Sessions, t # s  PROVE ExactOK(t)'
    <3>1. LocalSame(t)  BY <1>1, <2>0, <2>2, OthersSame
    <3>. QED  BY <2>1, <2>2, <3>1, OthersExact
  <2>3. ExactOK(s)'
    <3>1. CASE Quiet(s) \/ Lose(s) \/ Fail(s)  BY <3>1, QuietExact
    <3>2. CASE Delete(s) \/ Update(s) \/ Insert(s)  BY <3>2, WriteExact
    <3>3. CASE Record(s)  BY <3>3, RecordExact
    <3>4. CASE Commit(s) \/ CommitUnanswered(s)  BY <3>4, CommitExact
    <3>. QED  BY <1>1, <3>1, <3>2, <3>3, <3>4 DEF Session, Quiet
  <2>4. AuditExactStep
    <3>1. CASE Commit(s) \/ CommitUnanswered(s)  BY <3>1, CommitExact
    <3>2. CASE UNCHANGED <<rows, trail>>  BY <3>2 DEF AuditExactStep
    <3>. QED  BY <2>1, <3>1, <3>2
  <2>. QED  BY <2>2, <2>3, <2>4
<1>2. ASSUME UNCHANGED vars, NEW s \in Sessions  PROVE ExactOK(s)'
  <2>1. Audited(s)' = Audited(s)  BY <1>2 DEF vars, Audited, Found
  <2>2. ExactOK(s)  OBVIOUS
  <2>3. UnreadOK(s)' /\ ReadOK(s)' /\ OwnOK(s)'
    BY <1>2, <2>2 DEF vars, ExactOK, UnreadOK, ReadOK, OwnOK
  <2>4. AuditedOK(s)'  BY <1>2, <2>1, <2>2 DEF vars, ExactOK, AuditedOK
  <2>. QED  BY <2>3, <2>4 DEF ExactOK
<1>. QED  BY <1>1, <1>2 DEF Next

\* Where the server refuses to write a row that changed since it was read
\* (innodb_snapshot_isolation), the audit rows that a commit brings are
\* exactly the changes it makes, with their sides: "so the deleted set is
\* exactly the audited set" (w2ui.py:64), whatever the interleaving.
THEOREM AuditIsExact == SnapshotIsolation => (Spec => AuditExact)
<1>. SUFFICES ASSUME SnapshotIsolation  PROVE Spec => AuditExact
  OBVIOUS
<1>. DEFINE Exact == \A s \in Sessions : ExactOK(s)
<1>1. Init => Exact
  BY DEF Init, ExactOK, UnreadOK, ReadOK, OwnOK, AuditedOK, Nothing
<1>2. IInv /\ IInv' /\ Exact /\ [Next]_vars => Exact' /\ [AuditExactStep]_vars
  BY ExactStep
<1>3. Spec => [][AuditExactStep]_vars
  <2>. HIDE DEF Exact
  <2>. QED  BY <1>1, <1>2, Always, PTL DEF Spec
<1>. QED  BY <1>3 DEF AuditExact, AuditExactStep

-----------------------------------------------------------------------------
\* Every step is one of the promise.

\* A transaction writes one row, or deletes some.
SingleOK(s) ==
  \A k, j \in Recids : own[s][k] \in Values /\ own[s][j] # Untouched => j = k

Unused == {k \in Recids : k >= nextRecid}
            \cup {k \in Recids : rows[k] = Absent /\ \E s \in Sessions : own[s][k] \in Values}

\* The first write of a transaction: a row that exists, the next one, or a
\* delete.
OwnWrite(s, K, st) ==
  /\ \A k \in Recids : own'[s][k] = IF k \in K THEN st ELSE Untouched
  /\ st = Absent \/ \E k \in Recids : K = {k} /\ (rows[k] = Absent => k >= nextRecid)

LEMMA WriteOwn ==
  ASSUME IInv, NEW s \in Sessions, NEW K, NEW st, Write(s, K, st), pc[s] \in {"begun", "read"}
  PROVE  \A k \in Recids : own'[s][k] = IF k \in K THEN st ELSE Untouched
<1>1. own = [r \in Sessions |-> own[r]] /\ own[s] = Nothing  BY DEF IInv, TypeOK, SessionOK, TxnOK
<1>2. own' = [own EXCEPT ![s] = [k \in Recids |-> IF k \in K THEN st ELSE own[s][k]]]
  BY DEF Write
<1>. QED  BY <1>1, <1>2 DEF Nothing

\* What a step that does not commit makes of what s wrote.
LEMMA OwnStep ==
  ASSUME IInv, NEW s \in Sessions, Session(s), ~Commit(s), ~CommitUnanswered(s)
  PROVE  /\ nextRecid' = nextRecid \/ nextRecid' = nextRecid + 1
         /\ own'[s] = own[s] \/ own'[s] = Nothing \/ \E K, st : OwnWrite(s, K, st)
<1>0. own = [r \in Sessions |-> own[r]]  BY DEF IInv, TypeOK
<1>1. CASE Quiet(s)
  BY <1>1 DEF Quiet, Request, Begin, BeginFails, ReadBefore, ReadBack, database, txn
<1>2. CASE Lose(s) \/ Fail(s)
  BY <1>0, <1>2 DEF Lose, Fail, Forget
<1>3. CASE Delete(s)
  <2>. DEFINE hit == {k \in Found(s) : rows[k] # Absent}
  <2>1. Write(s, hit, Absent) /\ pc[s] = "read" /\ nextRecid' = nextRecid  BY <1>3 DEF Delete
  <2>. HIDE DEF hit
  <2>2. OwnWrite(s, hit, Absent)  BY <2>1, WriteOwn DEF OwnWrite
  <2>. QED  BY <2>1, <2>2
<1>4. CASE Update(s)
  <2>1. pc[s] = "read" /\ nextRecid' = nextRecid  BY <1>4 DEF Update
  <2>2. CASE own' = own  BY <2>1, <2>2
  <2>3. CASE own' # own
    <3>1. PICK k \in ids[s] : rows[k] # Absent /\ Write(s, {k}, value[s])
      BY <1>4, <2>3 DEF Update
    <3>2. k \in Recids  BY DEF IInv, TypeOK
    <3>3. \A j \in Recids : own'[s][j] = IF j \in {k} THEN value[s] ELSE Untouched
      BY <2>1, <3>1, WriteOwn
    <3>4. OwnWrite(s, {k}, value[s])  BY <3>1, <3>2, <3>3 DEF OwnWrite
    <3>. QED  BY <2>1, <3>4
  <2>. QED  BY <2>2, <2>3
<1>5. CASE Insert(s)
  <2>1. /\ nextRecid \in Recids /\ Write(s, {nextRecid}, value[s]) /\ pc[s] = "begun"
        /\ nextRecid' = nextRecid + 1
    BY <1>5 DEF Insert
  <2>2. \A j \in Recids : own'[s][j] = IF j \in {nextRecid} THEN value[s] ELSE Untouched
    BY <2>1, WriteOwn
  <2>3. nextRecid >= nextRecid  BY Counters DEF IInv
  <2>4. OwnWrite(s, {nextRecid}, value[s])  BY <2>1, <2>2, <2>3 DEF OwnWrite
  <2>. QED  BY <2>1, <2>4
<1>6. CASE Record(s)
  <2>1. own' = own /\ nextRecid' = nextRecid  BY <1>6, Zenon DEF Record
  <2>. QED  BY <2>1
<1>. QED  BY <1>1, <1>2, <1>3, <1>4, <1>5, <1>6 DEF Session, Quiet

LEMMA SingleStep ==
  ASSUME IInv, IInv', NEW s \in Sessions, Session(s), \A t \in Sessions : SingleOK(t)
  PROVE  \A t \in Sessions : SingleOK(t)'
<1>1. ASSUME NEW t \in Sessions, t # s  PROVE SingleOK(t)'
  <2>1. own'[t] = own[t]  BY <1>1, OthersSame DEF IInv, LocalSame
  <2>. QED  BY <2>1 DEF SingleOK
<1>2. SingleOK(s)'
  <2>1. CASE Commit(s) \/ CommitUnanswered(s)
    <3>1. own'[s] = Nothing  BY <2>1 DEF Commit, CommitUnanswered, Applies, IInv, TypeOK
    <3>. QED  BY <3>1 DEF SingleOK, Nothing
  <2>2. CASE own'[s] = own[s] \/ own'[s] = Nothing
    BY <2>2 DEF SingleOK, Nothing
  <2>3. ASSUME NEW K, NEW st, OwnWrite(s, K, st)  PROVE SingleOK(s)'
    <3>1. Untouched \notin Values /\ Absent \notin Values  BY ConstantFacts DEF States
    <3>. QED  BY <2>3, <3>1 DEF OwnWrite, SingleOK
  <2>. QED  BY <2>1, <2>2, <2>3, OwnStep
<1>. QED  BY <1>1, <1>2

\* What is committed stays, and so do the keys of existing rows.
LEMMA PromiseGap ==
  ASSUME IInv, IInv', NEW s \in Sessions, Session(s), ~Commit(s), ~CommitUnanswered(s)
  PROVE  Promise!SpecNext
<1>1. rows' = rows /\ trail' = trail  BY PublishesStep DEF IInv
<1>2. Untouched \notin Values /\ Absent \notin Values  BY ConstantFacts DEF States
<1>3. ASSUME NEW k \in Recids, k >= nextRecid'  PROVE k >= nextRecid
  <2>1. k \in Nat /\ nextRecid \in Nat  BY ConstantFacts, Counters DEF IInv
  <2>2. nextRecid' = nextRecid \/ nextRecid' = nextRecid + 1  BY OwnStep
  <2>. QED  BY <1>3, <2>1, <2>2
<1>4. ASSUME NEW k \in Recids, NEW t \in Sessions, rows[k] = Absent, own'[t][k] \in Values
      PROVE  k \in Unused
  <2>1. CASE t # s
    <3>1. own'[t] = own[t]  BY <2>1, OthersSame DEF IInv, LocalSame
    <3>. QED  BY <1>4, <3>1 DEF Unused
  <2>2. CASE own'[s] = own[s] /\ t = s  BY <1>4, <2>2 DEF Unused
  <2>3. CASE own'[s] = Nothing /\ t = s  BY <1>2, <1>4, <2>3 DEF Nothing
  <2>4. ASSUME NEW K, NEW st, OwnWrite(s, K, st), t = s  PROVE k \in Unused
    BY <1>2, <1>4, <2>4 DEF OwnWrite, Unused
  <2>. QED  BY <2>1, <2>2, <2>3, <2>4, OwnStep
<1>5. Unused' \subseteq Unused  BY <1>1, <1>3, <1>4 DEF Unused
<1>6. Unused' \in SUBSET Unused  BY <1>5
<1>7. Promise!SpecGap  BY <1>1, <1>6 DEF Unused, Promise!SpecGap
<1>. QED  BY <1>7 DEF Promise!SpecNext

\* No key is used up by a commit but those of the rows it inserts.
LEMMA UnusedCommit ==
  ASSUME IInv, NEW s \in Sessions, Commit(s) \/ CommitUnanswered(s), ExactOK(s)
  PROVE  /\ Unused' = {k \in Unused : rows'[k] = Absent}
         /\ \A k \in Unused : k \in Recids /\ rows[k] = Absent
<1>1. \A k \in Unused : k \in Recids /\ rows[k] = Absent
  BY DEF Unused, IInv, KeysOK
<1>2. \A k \in Recids : rows'[k] = IF own[s][k] # Untouched THEN own[s][k] ELSE rows[k]
  BY CommitRows
<1>3. /\ nextRecid' = nextRecid /\ \A k \in Recids : own'[s][k] = Untouched
      /\ \A t \in Sessions : t # s => own'[t] = own[t]
  <2>1. nextRecid' = nextRecid /\ own' = [own EXCEPT ![s] = Nothing]
    BY DEF Commit, CommitUnanswered, Applies
  <2>2. own = [t \in Sessions |-> own[t]]  BY DEF IInv, TypeOK
  <2>. QED  BY <2>1, <2>2 DEF Nothing
<1>4. Untouched \notin Values /\ Absent \notin Values /\ Nobody # s  BY ConstantFacts DEF States
<1>5. \A t \in Sessions, k \in Recids : own[t][k] # Untouched => lock[k] = t
  BY DEF IInv, SessionOK, TxnOK
<1>6. ASSUME NEW k \in Unused'  PROVE k \in Unused /\ rows'[k] = Absent
  <2>1. k \in Recids  BY DEF Unused
  <2>2. CASE k >= nextRecid
    <3>1. rows[k] = Absent /\ lock[k] = Nobody  BY <2>1, <2>2 DEF IInv, KeysOK
    <3>. QED  BY <1>2, <1>4, <1>5, <2>1, <2>2, <3>1 DEF Unused
  <2>3. CASE ~(k >= nextRecid)
    <3>1. rows'[k] = Absent  BY <1>3, <2>3 DEF Unused
    <3>2. PICK t \in Sessions : own'[t][k] \in Values  BY <1>3, <2>3 DEF Unused
    <3>3. t # s /\ own[t][k] \in Values  BY <1>3, <1>4, <2>1, <3>2
    <3>4. own[s][k] = Untouched  BY <1>4, <1>5, <2>1, <3>3
    <3>. QED  BY <1>2, <2>1, <3>1, <3>3, <3>4 DEF Unused
  <2>. QED  BY <2>2, <2>3
<1>7. ASSUME NEW k \in Unused, rows'[k] = Absent  PROVE k \in Unused'
  <2>1. k \in Recids  BY <1>1
  <2>2. CASE k >= nextRecid  BY <1>3, <2>1, <2>2 DEF Unused
  <2>3. ASSUME NEW t \in Sessions, own[t][k] \in Values  PROVE k \in Unused'
    <3>1. t # s  BY <1>2, <1>4, <1>7, <2>1, <2>3
    <3>2. own'[t][k] \in Values  BY <1>3, <2>3, <3>1
    <3>. QED  BY <1>7, <2>1, <3>2 DEF Unused
  <2>. QED  BY <2>2, <2>3 DEF Unused
<1>. QED  BY <1>1, <1>6, <1>7

LEMMA PromiseCommit ==
  ASSUME IInv, NEW s \in Sessions, Commit(s) \/ CommitUnanswered(s), ExactOK(s), SingleOK(s)
  PROVE  Promise!SpecNext
<1>. DEFINE K == {k \in Recids : own[s][k] # Untouched}
<1>1. /\ rows' = [k \in Recids |-> IF own[s][k] # Untouched THEN own[s][k] ELSE rows[k]]
      /\ trail \subseteq trail' /\ trail' \ trail = audit[s]
      /\ \A k \in Recids : own[s][k] # Untouched => \E e \in audit[s] : e.recid = k
      /\ \A e \in audit[s] :
           /\ e.recid \in Recids /\ own[s][e.recid] # Untouched
           /\ e.before = rows[e.recid] /\ e.after = own[s][e.recid]
           /\ \A f \in trail : f.recid = e.recid => f.id < e.id
      /\ \A e, f \in audit[s] : e.recid = f.recid => e = f
  BY CommitRows
<1>2. /\ Unused' = {k \in Unused : rows'[k] = Absent}
      /\ \A k \in Unused : k \in Recids /\ rows[k] = Absent
  BY UnusedCommit
<1>3. \A k \in K : k \in Recids /\ own[s][k] \in Values \cup {Absent} /\ own[s][k] # rows[k]
  BY DEF ExactOK, OwnOK, IInv, TypeOK, States
<1>4. Absent \notin Values  BY ConstantFacts
<1>5. K \in SUBSET Recids /\ \A k \in Recids : k \in K <=> own[s][k] # Untouched
  OBVIOUS
<1>. HIDE DEF K
<1>6. ASSUME NEW st, \A k \in K : own[s][k] = st  PROVE Promise!AuditedWrite(K, st)
  <2>1. rows' = [k \in Recids |-> IF k \in K THEN st ELSE rows[k]]  BY <1>1, <1>5, <1>6
  <2>2. \A k \in K : \E e \in trail' \ trail : e.recid = k  BY <1>1, <1>5
  <2>3. \A e \in trail' \ trail :
          /\ e.recid \in K /\ e.before = rows[e.recid] /\ e.after = st
          /\ \A f \in trail' \ trail : f.recid = e.recid => f = e
          /\ \A f \in trail : f.recid = e.recid => f.id < e.id
    BY <1>1, <1>5, <1>6
  <2>. QED  BY <1>1, <2>1, <2>2, <2>3 DEF Promise!AuditedWrite
<1>7. CASE K = {}
  <2>1. trail' = trail  BY <1>1, <1>5, <1>7
  <2>2. rows' = rows
    <3>1. rows = [k \in Recids |-> rows[k]]  BY DEF IInv, TypeOK
    <3>. QED  BY <1>1, <1>5, <1>7, <3>1
  <2>3. Unused' \in SUBSET Unused  BY <1>2
  <2>4. Promise!SpecGap  BY <2>1, <2>2, <2>3 DEF Unused, Promise!SpecGap
  <2>. QED  BY <2>4 DEF Promise!SpecNext
<1>8. ASSUME NEW k \in K, NEW v \in Values, own[s][k] = v  PROVE Promise!SpecNext
  <2>1. \A j \in K : j = k  BY <1>3, <1>5, <1>8 DEF SingleOK
  <2>2. K = {k}  BY <2>1
  <2>3. Promise!AuditedWrite({k}, v)  BY <1>6, <1>8, <2>1, <2>2
  <2>4. k \in Recids /\ rows'[k] = v /\ \A j \in Recids : j # k => rows'[j] = rows[j]
    BY <1>1, <1>3, <1>5, <1>8, <2>1
  <2>5. Unused' = Unused \ {k}  BY <1>2, <1>4, <1>8, <2>4
  <2>6. CASE rows[k] = Absent
    <3>1. k \in Unused  BY <1>8, <2>4, <2>6 DEF Unused
    <3>2. Promise!SpecInsert(k, v)  BY <2>3, <2>5, <3>1 DEF Unused, Promise!SpecInsert
    <3>. QED  BY <2>4, <3>2 DEF Promise!SpecNext
  <2>7. CASE rows[k] # Absent
    <3>1. Unused' = Unused  BY <1>2, <2>5, <2>7
    <3>2. Promise!SpecUpdate(k, v)  BY <1>3, <1>8, <2>3, <2>7, <3>1 DEF Unused, Promise!SpecUpdate
    <3>. QED  BY <2>4, <3>2 DEF Promise!SpecNext
  <2>. QED  BY <2>6, <2>7
<1>9. CASE K # {} /\ \A k \in K : own[s][k] = Absent
  <2>1. Promise!AuditedWrite(K, Absent)  BY <1>6, <1>9
  <2>2. \A k \in K : rows[k] # Absent  BY <1>3, <1>9
  <2>3. \A k \in Recids : rows[k] = Absent => rows'[k] = Absent  BY <1>1, <1>5, <1>9
  <2>4. Unused' = Unused  BY <1>2, <2>3
  <2>5. Promise!SpecDelete(K)  BY <2>1, <2>2, <2>4 DEF Unused, Promise!SpecDelete
  <2>6. K \in (SUBSET Recids) \ {{}}  BY <1>5, <1>9
  <2>. QED  BY <2>5, <2>6 DEF Promise!SpecNext
<1>. QED  BY <1>3, <1>7, <1>8, <1>9

LEMMA PromiseStart == Init => Promise!SpecInit
<1>. SUFFICES ASSUME Init  PROVE Promise!SpecInit
  OBVIOUS
<1>1. Untouched \notin Values  BY ConstantFacts DEF States
<1>2. \A k \in Unused : k \in Recids /\ Initial[k] = Absent
  BY <1>1 DEF Init, Unused, Nothing
<1>3. Unused \in SUBSET {k \in Recids : Initial[k] = Absent}  BY <1>2
<1>. QED  BY <1>3 DEF Init, Unused, Promise!SpecInit

\* Where the server refuses to write a row that changed since it was read,
\* every save or delete takes effect at one moment, its commit, on the rows
\* of that moment and together with the audit rows that tell it, and no key
\* comes back (save_data, delete_data): AdminTxn implements AuditedTable.
THEOREM RequestsAudited == SnapshotIsolation => (Spec => ActsAudited)
<1>. SUFFICES ASSUME SnapshotIsolation  PROVE Spec => ActsAudited
  OBVIOUS
<1>. DEFINE Exact == \A s \in Sessions : ExactOK(s)
            Single == \A s \in Sessions : SingleOK(s)
<1>1. Init => Exact /\ Single
  BY ConstantFacts DEF Init, ExactOK, UnreadOK, ReadOK, OwnOK, AuditedOK, SingleOK, Nothing, States
<1>2. ASSUME IInv, IInv', Exact, Single, [Next]_vars
      PROVE  Exact' /\ Single' /\ [Promise!SpecNext]_Promise!specVars
  <2>1. Exact'  BY <1>2, ExactStep
  <2>2. ASSUME NEW s \in Sessions, Session(s)  PROVE Single' /\ Promise!SpecNext
    <3>1. Single'  BY <1>2, <2>2, SingleStep
    <3>2. CASE Commit(s) \/ CommitUnanswered(s)  BY <1>2, <3>1, <3>2, PromiseCommit
    <3>3. CASE ~Commit(s) /\ ~CommitUnanswered(s)  BY <1>2, <2>2, <3>1, <3>3, PromiseGap
    <3>. QED  BY <3>2, <3>3
  <2>3. CASE UNCHANGED vars
    <3>1. UNCHANGED Promise!specVars  BY <2>3 DEF vars, Promise!specVars
    <3>2. own' = own  BY <2>3 DEF vars
    <3>3. Single'  BY <1>2, <3>2 DEF SingleOK
    <3>. QED  BY <2>1, <3>1, <3>3
  <2>. QED  BY <1>2, <2>1, <2>2, <2>3 DEF Next
<1>. HIDE DEF Exact, Single
<1>. QED
  BY <1>1, <1>2, PromiseStart, Always, PTL DEF Spec, ActsAudited, Promise!AuditedRequests
=============================================================================
