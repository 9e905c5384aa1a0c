---------------------------- MODULE RecordsProofs ------------------------------
(***************************************************************************)
(* The invariants of the records and their rrsets, and that saves and      *)
(* deletes act as a whole, for any names, views, connections and number of *)
(* records.                                                                *)
(***************************************************************************)
EXTENDS RecordsTxn, FiniteSetTheorems, TLAPS

-----------------------------------------------------------------------------
(* What is right at one name n of the rows d. *)

Live(d, k) == d[k] # Absent

\* A record's rrset exists: the foreign key.
Held(d, n) ==
  \A k \in Recids : Live(d, k) /\ d[k].key[1] = n => d[d[k].key] = Present

\* A CNAME rrset is the only one.
Alone(d, n) ==
  \A q, p \in Keys :
    d[q] = Present /\ d[p] = Present /\ q[1] = n /\ p[1] = n /\ q[2] = "CNAME" => p = q

\* Two records that would be two answers where one is allowed.
Rivals(r, u) ==
  /\ r.key = u.key
  /\ r.key[2] = "SOA" \/ (r.key[2] = "CNAME" /\ r.view = u.view)

Single(d, n) ==
  \A k, j \in Recids :
    Live(d, k) /\ Live(d, j) /\ d[k].key[1] = n /\ Rivals(d[k], d[j]) => k = j

\* An rrset has a record, but for the pinned ones.
Used(d, n, pin) ==
  \A q \in Keys \ pin : d[q] = Present /\ q[1] = n =>
    \E k \in Recids : Live(d, k) /\ d[k].key = q

\* Retyping an rrset by hand can only give a CNAME two answers of a view when
\* it may become one; only a refused write keeps a save from missing its record.
Good(d, n, pin) ==
  /\ Held(d, n)
  /\ Alone(d, n)
  /\ "CNAME" \notin ManualTypes => Single(d, n)
  /\ SnapshotIsolation => Used(d, n, pin)

\* The rows d and e have the same rrsets and records at name n.
Same(d, e, n) ==
  /\ \A q \in Keys : q[1] = n => d[q] = e[q]
  /\ \A k \in Recids : (Live(d, k) /\ d[k].key[1] = n) \/ (Live(e, k) /\ e[k].key[1] = n)
                         => d[k] = e[k]

Table(d) ==
  /\ d = [x \in Rows |-> d[x]]
  /\ \A q \in Keys : d[q] \in {Present, Absent}
  /\ \A k \in Recids : d[k] \in Records \cup {Absent}

-----------------------------------------------------------------------------
(* The inductive invariant. *)

Saving == {"rrset", "rrset affected"}

\* The rrset a save made, until its record is there; a save that misses its
\* record is stuck with it, to be rolled back.
Pinned(s) ==
  IF \/ pc[s] = "rrset affected"
     \/ pc[s] = "read back" /\ \E k \in ids[s] : k \notin found[s] /\ own[s][k] = Untouched
  THEN {post[s].key} ELSE {}

\* What a transaction wrote is under its locks.
OwnsKeys(s) == \A q \in Keys : own[s][q] # Untouched => lock[q[1]] = s
OwnsRecord(s, k) ==
  own[s][k] # Untouched =>
    /\ own[s][k] # Absent => lock[own[s][k].key[1]] = s
    /\ Live(rows, k) => lock[rows[k].key[1]] = s
    /\ k \notin fresh
    /\ \A t \in Sessions \ {s} : own[t][k] = Untouched
Owns == \A s \in Sessions : OwnsKeys(s) /\ \A k \in Recids : OwnsRecord(s, k)

SaveOK(s) ==
  /\ pc[s] = "idle" => own[s] = Nothing /\ ids[s] = {} /\ found[s] = {}
  /\ pc[s] \in Saving => /\ post[s] \in Records
                         /\ lock[post[s].key[1]] = s
                         /\ Current(s)[post[s].key] = Present
  /\ ids[s] = {} => found[s] = {}
  /\ pc[s] = "save" => own[s] = Nothing
  /\ pc[s] \in Saving => \A k \in Recids : own[s][k] = Untouched
  /\ pc[s] = "read back" => post[s] \in Records

\* What was read before is there, unless someone changed it since.
FoundOK(s) == \A k \in found[s] : Live(rows, k) \/ k \in newer[s]

FreshOK == \A k \in fresh : /\ rows[k] = Absent
                            /\ \A s \in Sessions : own[s][k] = Untouched /\ k \notin found[s]

Typed ==
  /\ TypeOK /\ Table(rows)
  /\ own = [s \in Sessions |-> [x \in Rows |-> own[s][x]]]

IInv ==
  /\ Typed
  /\ Owns
  /\ FreshOK
  /\ \A s \in Sessions : SaveOK(s) /\ FoundOK(s)
  /\ \A n \in Names : Good(rows, n, {})
  /\ \A s \in Sessions, n \in Names : Good(Current(s), n, Pinned(s))

-----------------------------------------------------------------------------
(* What the statements do to the rows. *)

\* A key is its name and its type, and no record is an rrset.
LEMMA KeyParts ==
  /\ \A q \in Keys : q[1] \in Names /\ q[2] \in Types /\ q = <<q[1], q[2]>>
  /\ \A q, p \in Keys : q[1] = p[1] /\ q[2] = p[2] => q = p
  /\ \A r \in Records : r.key \in Keys /\ r.view \in Views
  /\ \A k \in Recids : k \notin Keys /\ k \in Rows
  /\ Keys \subseteq Rows
  /\ Present # Absent /\ Present \notin Records /\ Absent \notin Records
  /\ Untouched \notin Records /\ Untouched # Present /\ Untouched # Absent
<1>1. \A q \in Keys : q[1] \in Names /\ q[2] \in Types /\ q = <<q[1], q[2]>>
  BY DEF Keys
<1>. QED  BY <1>1, RecordsAssumption DEF Records, Rows

\* A name that two tables agree on is right in both.
LEMMA SameGood ==
  ASSUME NEW d, NEW e, NEW n, NEW pin, Table(d), Table(e), Same(d, e, n), Good(d, n, pin)
  PROVE  Good(e, n, pin)
<1>. USE KeyParts DEF Same, Table, Live
<1>1. Held(e, n)  BY DEF Good, Held
<1>2. Alone(e, n)  BY DEF Good, Alone
<1>3. Single(d, n) => Single(e, n)
  <2> SUFFICES ASSUME Single(d, n), NEW k \in Recids, NEW j \in Recids, Live(e, k), Live(e, j),
                      e[k].key[1] = n, Rivals(e[k], e[j])
               PROVE  k = j
    BY DEF Single
  <2>1. e[j].key[1] = n  BY DEF Rivals
  <2>2. d[k] = e[k] /\ d[j] = e[j]  BY <2>1
  <2>. QED  BY <2>2 DEF Single
<1>4. Used(d, n, pin) => Used(e, n, pin)
  <2> SUFFICES ASSUME Used(d, n, pin), NEW q \in Keys \ pin, e[q] = Present, q[1] = n
               PROVE  \E k \in Recids : Live(e, k) /\ e[k].key = q
    BY DEF Used
  <2>1. PICK k \in Recids : Live(d, k) /\ d[k].key = q  BY DEF Used
  <2>2. d[k] = e[k]  BY <2>1
  <2>. QED  BY <2>1, <2>2
<1>. QED  BY <1>1, <1>2, <1>3, <1>4 DEF Good

\* Pinning more asks for less.
LEMMA PinMore ==
  ASSUME NEW d, NEW n, NEW pin, NEW more, pin \subseteq more, Good(d, n, pin)
  PROVE  Good(d, n, more)
BY DEF Good, Used

\* Saving the rrset keeps CNAMEs alone; a new rrset is pinned.
LEMMA UpsertGood ==
  ASSUME NEW d, NEW q \in Keys, Table(d), \A n \in Names : Good(d, n, {}), UpsertPasses(d, q),
         NEW n \in Names
  PROVE  /\ Table(Upserted(d, q))
         /\ Good(Upserted(d, q), n, {q})
         /\ d[q] = Present => Upserted(d, q) = d
<1> DEFINE e == Upserted(d, q)
<1>1. /\ e = [x \in Rows |-> e[x]]
      /\ e[q] = Present /\ \A x \in Rows : x # q => e[x] = d[x]
  BY KeyParts DEF Table, Upserted
<1>2. d[q] = Present => e = d
  <2>1. d[q] = Present => \A x \in Rows : e[x] = d[x]  BY <1>1
  <2>. QED  BY <1>1, <2>1 DEF Table
<1> HIDE DEF e
<1>3. Table(e)  BY <1>1, KeyParts DEF Table
<1>4. \A k \in Recids : e[k] = d[k]  BY <1>1, KeyParts
<1>5. \A p \in Keys : d[p] = Present => e[p] = Present  BY <1>1, KeyParts
<1>6. Held(e, n)
  BY <1>4, <1>5, KeyParts DEF Table, Good, Held, Live
<1>7. Alone(e, n)
  <2> SUFFICES ASSUME NEW a \in Keys, NEW b \in Keys, e[a] = Present, e[b] = Present,
                      a[1] = n, b[1] = n, a[2] = "CNAME"
               PROVE  b = a
    BY DEF Alone
  <2>1. CASE a # q /\ b # q
    BY <1>1, <2>1, KeyParts DEF Good, Alone
  <2>2. CASE a = q /\ b # q
    <3>1. d[b] = Present /\ b[1] = q[1] /\ q[2] = "CNAME"  BY <1>1, <2>2, KeyParts
    <3>. QED  BY <3>1 DEF UpsertPasses, Guard
  <2>3. CASE a # q /\ b = q
    <3>1. d[a] = Present /\ a[1] = q[1]  BY <1>1, <2>3, KeyParts
    <3>2. a = <<q[1], "CNAME">>  BY <3>1, KeyParts
    <3>3. q[2] # "CNAME"  BY <2>3, <3>1, KeyParts
    <3>. QED  BY <3>1, <3>2, <3>3 DEF UpsertPasses, Guard
  <2>. QED  BY <2>1, <2>2, <2>3
<1>8. Single(d, n) => Single(e, n)
  BY <1>4, Zenon DEF Single, Live
<1>9. Used(d, n, {}) => Used(e, n, {q})
  BY <1>1, <1>4, KeyParts DEF Used, Live
<1>10. Good(e, n, {q})
  BY <1>6, <1>7, <1>8, <1>9 DEF Good
<1>. QED  BY <1>2, <1>3, <1>10 DEF e

\* The rows after a record is written.
LEMMA WrittenRows ==
  ASSUME NEW d, NEW k \in Recids, NEW r \in Records, Table(d)
  PROVE  LET e == Written(d, k, r)
         IN /\ Table(e) /\ e[k] = r
            /\ \A j \in Recids : j # k => e[j] = d[j]
            /\ e[r.key] = d[r.key]
            /\ \A q \in Keys : q # r.key =>
                 e[q] = IF Answers(d, q) = {k} THEN Absent ELSE d[q]
<1> DEFINE e == Written(d, k, r)
<1>1. e = [x \in Rows |-> e[x]]
  BY DEF Written
<1>2. e[k] = r /\ \A j \in Recids : j # k => e[j] = d[j]
  BY KeyParts DEF Written
<1>3. /\ e[r.key] = d[r.key]
      /\ \A q \in Keys : q # r.key => e[q] = IF Answers(d, q) = {k} THEN Absent ELSE d[q]
  BY KeyParts DEF Written
<1> HIDE DEF e
<1>4. Table(e)
  BY <1>1, <1>2, <1>3, KeyParts DEF Table
<1>. QED  BY <1>2, <1>3, <1>4 DEF e

\* Writing a record into an rrset that is there keeps everything right and
\* unpins its rrset.
LEMMA WrittenGood ==
  ASSUME NEW d, NEW k \in Recids, NEW r \in Records, Table(d),
         \A n \in Names : Good(d, n, {r.key}),
         d[r.key] = Present, RecordPasses(d, k, r), NEW n \in Names
  PROVE  Good(Written(d, k, r), n, {})
<1> DEFINE e == Written(d, k, r)
<1>1. /\ Table(e) /\ e[k] = r
      /\ \A j \in Recids : j # k => e[j] = d[j]
      /\ e[r.key] = d[r.key]
      /\ \A q \in Keys : q # r.key => e[q] = IF Answers(d, q) = {k} THEN Absent ELSE d[q]
  BY WrittenRows
<1> HIDE DEF e
<1>2. \A j \in Recids : Live(d, j) => d[j].key \in Keys /\ d[j].key[1] \in Names /\ d[d[j].key] = Present
  <2> SUFFICES ASSUME NEW j \in Recids, Live(d, j)
               PROVE  d[j].key \in Keys /\ d[j].key[1] \in Names /\ d[d[j].key] = Present
    OBVIOUS
  <2>1. d[j] \in Records  BY DEF Live, Table
  <2>2. d[j].key \in Keys /\ d[j].key[1] \in Names  BY <2>1, KeyParts
  <2>. QED  BY <2>2 DEF Good, Held
<1>3. Held(e, n)
  <2> SUFFICES ASSUME NEW j \in Recids, Live(e, j)  PROVE e[e[j].key] = Present
    BY DEF Held
  <2>1. CASE j = k  BY <1>1, <2>1
  <2>2. CASE j # k
    <3>1. e[j] = d[j] /\ Live(d, j)  BY <1>1, <2>2 DEF Live
    <3>2. Answers(d, d[j].key) # {k}  BY <2>2, <3>1 DEF Answers, Live
    <3>. QED  BY <1>1, <1>2, <3>1, <3>2
  <2>. QED  BY <2>1, <2>2
<1>4. Alone(e, n)
  <2>1. \A q \in Keys : e[q] = Present => d[q] = Present  BY <1>1, KeyParts
  <2>. QED  BY <2>1 DEF Good, Alone
<1>5. ASSUME "CNAME" \notin ManualTypes  PROVE Single(e, n)
  <2>1. \A i, j \in Recids : Live(d, i) /\ Live(d, j) /\ Rivals(d[i], d[j]) => i = j
    BY <1>2, <1>5 DEF Good, Single
  <2>2. ASSUME NEW j \in Recids \ {k}, Live(d, j)  PROVE ~Rivals(r, d[j]) /\ ~Rivals(d[j], r)
    <3> SUFFICES ASSUME d[j].key = r.key, \/ r.key[2] = "SOA"
                                          \/ r.key[2] = "CNAME" /\ d[j].view = r.view
                 PROVE  FALSE
      BY DEF Rivals
    <3>1. j \in Answers(d, r.key) \ {k}  BY <2>2 DEF Answers, Live
    <3>2. CASE r.key[2] = "SOA" /\ (d[k] = Absent \/ d[k].key # r.key)
      BY <3>1, <3>2 DEF RecordPasses
    <3>3. CASE r.key[2] = "SOA" /\ d[k] # Absent /\ d[k].key = r.key
      BY <2>1, <2>2, <3>3 DEF Rivals, Live
    <3>4. CASE r.key[2] = "CNAME" /\ d[k] # r
      BY <3>1, <3>4 DEF RecordPasses
    <3>5. CASE r.key[2] = "CNAME" /\ d[k] = r
      <4>1. d[k] # Absent  BY <3>5, KeyParts
      <4>. QED  BY <2>1, <2>2, <3>5, <4>1 DEF Rivals, Live
    <3>. QED  BY <3>2, <3>3, <3>4, <3>5
  <2>3. \A i, j \in Recids : Live(e, i) /\ Live(e, j) /\ Rivals(e[i], e[j]) => i = j
    BY <1>1, <2>1, <2>2 DEF Live
  <2>. QED  BY <2>3 DEF Single
<1>6. ASSUME SnapshotIsolation  PROVE Used(e, n, {})
  <2> SUFFICES ASSUME NEW q \in Keys, e[q] = Present
               PROVE  \E j \in Recids : Live(e, j) /\ e[j].key = q
    BY DEF Used
  <2>1. CASE q = r.key
    BY <1>1, <2>1, KeyParts DEF Live
  <2>2. CASE q # r.key
    <3>1. d[q] = Present /\ Answers(d, q) # {k} /\ q[1] \in Names  BY <1>1, <2>2, KeyParts
    <3>2. PICK j \in Recids : Live(d, j) /\ d[j].key = q
      BY <1>6, <2>2, <3>1 DEF Good, Used
    <3>3. PICK i \in Recids : i # k /\ Live(d, i) /\ d[i].key = q
      BY <3>1, <3>2 DEF Answers, Live
    <3>. QED  BY <1>1, <3>3 DEF Live
  <2>. QED  BY <2>1, <2>2
<1>7. Good(e, n, {})
  BY <1>3, <1>4, <1>5, <1>6 DEF Good
<1>. QED  BY <1>7 DEF e

\* The rows after records are deleted.
LEMMA DeletedRows ==
  ASSUME NEW d, NEW K \in SUBSET Recids, Table(d)
  PROVE  LET e == Deleted(d, K)
         IN /\ Table(e)
            /\ \A j \in Recids : e[j] = IF j \in K THEN Absent ELSE d[j]
            /\ \A q \in Keys : e[q] = IF Answers(d, q) # {} /\ Answers(d, q) \subseteq K
                                      THEN Absent ELSE d[q]
<1> DEFINE e == Deleted(d, K)
<1>1. e = [x \in Rows |-> e[x]]
  BY DEF Deleted
<1>2. \A j \in Recids : e[j] = IF j \in K THEN Absent ELSE d[j]
  BY KeyParts DEF Deleted
<1>3. \A q \in Keys : e[q] = IF Answers(d, q) # {} /\ Answers(d, q) \subseteq K
                             THEN Absent ELSE d[q]
  BY KeyParts DEF Deleted
<1> HIDE DEF e
<1>4. Table(e)
  BY <1>1, <1>2, <1>3, KeyParts DEF Table
<1>. QED  BY <1>2, <1>3, <1>4 DEF e

\* Deleting records keeps everything right.
LEMMA DeletedGood ==
  ASSUME NEW d, NEW K \in SUBSET Recids, Table(d), \A n \in Names : Good(d, n, {}),
         NEW n \in Names
  PROVE  Good(Deleted(d, K), n, {})
<1> DEFINE e == Deleted(d, K)
<1>1. /\ \A j \in Recids : e[j] = IF j \in K THEN Absent ELSE d[j]
      /\ \A q \in Keys : e[q] = IF Answers(d, q) # {} /\ Answers(d, q) \subseteq K
                                THEN Absent ELSE d[q]
  BY DeletedRows
<1> HIDE DEF e
<1>2. \A j \in Recids : Live(e, j) => j \notin K /\ e[j] = d[j] /\ Live(d, j)
  BY <1>1 DEF Live
<1>3. Held(e, n)
  <2> SUFFICES ASSUME NEW j \in Recids, Live(e, j), e[j].key[1] = n  PROVE e[e[j].key] = Present
    BY DEF Held
  <2>1. j \notin K /\ e[j] = d[j] /\ Live(d, j)  BY <1>2
  <2>2. d[j].key \in Keys /\ d[d[j].key] = Present
    <3>1. d[j] \in Records  BY <2>1 DEF Table, Live
    <3>. QED  BY <2>1, <3>1, KeyParts DEF Good, Held
  <2>3. j \in Answers(d, d[j].key)  BY <2>1 DEF Answers, Live
  <2>. QED  BY <1>1, <2>1, <2>2, <2>3
<1>4. \A q \in Keys : e[q] = Present => d[q] = Present
  BY <1>1, KeyParts
<1>5. Alone(e, n)
  BY <1>4 DEF Good, Alone
<1>6. Single(d, n) => Single(e, n)
  <2> SUFFICES ASSUME Single(d, n), NEW i \in Recids, NEW j \in Recids, Live(e, i), Live(e, j),
                      e[i].key[1] = n, Rivals(e[i], e[j])
               PROVE  i = j
    BY DEF Single
  <2>1. e[i] = d[i] /\ Live(d, i) /\ e[j] = d[j] /\ Live(d, j)  BY <1>2
  <2>. QED  BY <2>1 DEF Single
<1>7. Used(d, n, {}) => Used(e, n, {})
  <2> SUFFICES ASSUME Used(d, n, {}), NEW q \in Keys, e[q] = Present, q[1] = n
               PROVE  \E j \in Recids : Live(e, j) /\ e[j].key = q
    BY DEF Used
  <2>1. d[q] = Present  BY <1>4
  <2>2. PICK i \in Recids : Live(d, i) /\ d[i].key = q  BY <2>1 DEF Used
  <2>3. i \in Answers(d, q)  BY <2>2 DEF Answers, Live
  <2>4. PICK j \in Answers(d, q) : j \notin K  BY <1>1, <2>3, KeyParts
  <2>. QED  BY <1>1, <2>4 DEF Answers, Live
<1>8. Good(e, n, {})
  BY <1>3, <1>5, <1>6, <1>7 DEF Good
<1>. QED  BY <1>8 DEF e

\* What rrset_guard counts for an SOA rrset.
LEMMA AtMostOne ==
  ASSUME NEW S \in SUBSET Recids, Cardinality(S) <= 1, NEW i \in S, NEW j \in S
  PROVE  i = j
<1>1. IsFiniteSet(S)
  BY RecordsAssumption, FS_Subset
<1>2. {i, j} \subseteq S  OBVIOUS
<1>3. Cardinality({i, j}) <= Cardinality(S) /\ IsFiniteSet({i, j})
  BY <1>1, <1>2, FS_Subset
<1>4. Cardinality({i, j}) \in Nat /\ Cardinality(S) \in Nat
  BY <1>1, <1>3, FS_CardinalityType
<1>5. i # j => Cardinality({i, j}) = 2
  <2>1. IsFiniteSet({i}) /\ Cardinality({i}) = 1  BY FS_Singleton
  <2>2. i # j => Cardinality({i} \cup {j}) = Cardinality({i}) + 1
    BY <2>1, FS_AddElement
  <2>3. {i, j} = {i} \cup {j}  OBVIOUS
  <2>. QED  BY <2>1, <2>2, <2>3
<1>. QED  BY <1>3, <1>4, <1>5

\* Renaming or retyping an rrset by hand keeps everything right.
LEMMA RenamedGood ==
  ASSUME NEW d, NEW q \in Keys, NEW p \in Keys, Table(d), \A n \in Names : Good(d, n, {}),
         d[q] = Present, d[p] = Absent, p[2] \in ManualTypes \cup {q[2]}, Guard(d, p, {q})
  PROVE  /\ Table(Renamed(d, q, p))
         /\ \A k \in Recids : Live(Renamed(d, q, p), k) <=> Live(d, k)
         /\ \A n \in Names : Good(Renamed(d, q, p), n, {})
<1> DEFINE e == Renamed(d, q, p)
<1>1. q # p  BY KeyParts
<1>2. /\ e = [x \in Rows |-> e[x]]
      /\ e[q] = Absent /\ e[p] = Present
      /\ \A x \in Keys : x # q /\ x # p => e[x] = d[x]
      /\ \A k \in Recids : e[k] = IF k \in Answers(d, q) THEN [d[k] EXCEPT !.key = p] ELSE d[k]
  <2>1. \A x \in Keys : x \notin Answers(d, q)  BY KeyParts DEF Answers
  <2>. QED  BY <1>1, <2>1, KeyParts DEF Renamed
<1> HIDE DEF e
<1>3. ASSUME NEW k \in Recids, Live(d, k)
      PROVE  /\ d[k] \in Records /\ d[k].key \in Keys /\ d[k].key[1] \in Names
             /\ d[d[k].key] = Present
             /\ d[k].key # p
             /\ e[k] \in Records /\ Live(e, k)
             /\ e[k].view = d[k].view
             /\ e[k].key = IF d[k].key = q THEN p ELSE d[k].key
  <2>1. d[k] \in Records  BY <1>3 DEF Table, Live
  <2>2. d[k].key \in Keys /\ d[k].key[1] \in Names /\ d[d[k].key] = Present
    BY <1>3, <2>1, KeyParts DEF Good, Held
  <2>3. d[k].key # p  BY <2>2, KeyParts
  <2>4. CASE d[k].key = q
    <3>1. e[k] = [d[k] EXCEPT !.key = p]  BY <1>2, <1>3, <2>4 DEF Answers, Live
    <3>2. e[k] \in Records /\ e[k].key = p /\ e[k].view = d[k].view  BY <2>1, <3>1 DEF Records
    <3>. QED  BY <2>1, <2>2, <2>3, <2>4, <3>2, KeyParts DEF Live
  <2>5. CASE d[k].key # q
    <3>1. e[k] = d[k]  BY <1>2, <2>5 DEF Answers
    <3>. QED  BY <1>3, <2>1, <2>2, <2>3, <2>5, <3>1 DEF Live
  <2>. QED  BY <2>4, <2>5
<1>4. ASSUME NEW k \in Recids, ~Live(d, k)  PROVE e[k] = Absent
  BY <1>2, <1>4 DEF Answers, Live
<1>5. \A k \in Recids : Live(e, k) <=> Live(d, k)
  BY <1>3, <1>4 DEF Live
<1>6. Table(e)
  <2>1. \A x \in Keys : e[x] \in {Present, Absent}  BY <1>2 DEF Table
  <2>2. \A k \in Recids : e[k] \in Records \cup {Absent}  BY <1>3, <1>4
  <2>. QED  BY <1>2, <2>1, <2>2 DEF Table
<1>7. ASSUME NEW n \in Names  PROVE Good(e, n, {})
  <2>1. Held(e, n)
    BY <1>2, <1>3, <1>5 DEF Held
  <2>2. Alone(e, n)
    <3> SUFFICES ASSUME NEW a \in Keys, NEW b \in Keys, e[a] = Present, e[b] = Present,
                        a[1] = n, b[1] = n, a[2] = "CNAME", a # b
                 PROVE  FALSE
      BY DEF Alone
    <3>1. a # q /\ b # q  BY <1>2, KeyParts
    <3>2. CASE a # p /\ b # p
      BY <1>2, <3>1, <3>2 DEF Good, Alone
    <3>3. CASE a = p
      <4>1. d[b] = Present /\ b \in Keys \ {q} /\ b[1] = p[1]  BY <1>2, <3>1, <3>3
      <4>. QED  BY <3>3, <4>1 DEF Guard
    <3>4. CASE b = p
      <4>1. d[a] = Present /\ a \in Keys \ {q} /\ a[1] = p[1]  BY <1>2, <3>1, <3>4
      <4>2. a = <<p[1], "CNAME">> /\ p[2] # "CNAME"  BY <3>4, <4>1, KeyParts
      <4>. QED  BY <4>1, <4>2 DEF Guard
    <3>. QED  BY <3>2, <3>3, <3>4
  <2>3. ASSUME "CNAME" \notin ManualTypes  PROVE Single(e, n)
    <3>1. \A i, j \in Recids : Live(d, i) /\ Live(d, j) /\ Rivals(d[i], d[j]) => i = j
      BY <1>3, <2>3 DEF Good, Single
    <3> SUFFICES ASSUME NEW i \in Recids, NEW j \in Recids, Live(d, i), Live(d, j),
                        Rivals(e[i], e[j])
                 PROVE  i = j
      BY <1>5 DEF Single
    <3>2. CASE d[i].key # q
      <4>1. d[j].key # q /\ d[j].key = d[i].key  BY <1>3, <3>2 DEF Rivals
      <4>2. Rivals(d[i], d[j])  BY <1>3, <3>2, <4>1 DEF Rivals
      <4>. QED  BY <3>1, <4>2
    <3>3. CASE d[i].key = q
      <4>1. d[j].key = q /\ e[i].key = p  BY <1>3, <3>3 DEF Rivals
      <4>2. CASE p[2] = "CNAME"
        <5>1. q[2] = "CNAME"  BY <2>3, <4>2
        <5>2. Rivals(d[i], d[j])  BY <1>3, <3>3, <4>1, <4>2, <5>1 DEF Rivals
        <5>. QED  BY <3>1, <5>2
      <4>3. CASE p[2] = "SOA"
        <5>1. Cardinality(Answers(d, q)) <= 1  BY <4>3 DEF Guard
        <5>2. i \in Answers(d, q) /\ j \in Answers(d, q)  BY <3>3, <4>1 DEF Answers, Live
        <5>. QED  BY <5>1, <5>2, AtMostOne DEF Answers
      <4>. QED  BY <4>1, <4>2, <4>3 DEF Rivals
    <3>. QED  BY <3>2, <3>3
  <2>4. ASSUME SnapshotIsolation  PROVE Used(e, n, {})
    <3> SUFFICES ASSUME NEW x \in Keys, e[x] = Present
                 PROVE  \E k \in Recids : Live(e, k) /\ e[k].key = x
      BY DEF Used
    <3>1. \A y \in Keys : d[y] = Present => \E k \in Recids : Live(d, k) /\ d[k].key = y
      BY <2>4, KeyParts DEF Good, Used
    <3>2. CASE x = p
      <4>1. PICK k \in Recids : Live(d, k) /\ d[k].key = q  BY <3>1
      <4>. QED  BY <1>3, <3>2, <4>1
    <3>3. CASE x # p
      <4>1. d[x] = Present /\ x # q  BY <1>2, <3>3, KeyParts
      <4>2. PICK k \in Recids : Live(d, k) /\ d[k].key = x  BY <3>1, <4>1
      <4>. QED  BY <1>3, <4>1, <4>2
    <3>. QED  BY <3>2, <3>3
  <2>. QED  BY <2>1, <2>2, <2>3, <2>4 DEF Good
<1>. QED  BY <1>5, <1>6, <1>7 DEF e

-----------------------------------------------------------------------------
(* A transaction and the committed rows. *)

\* The rows rw with what a transaction wrote, o.
Combine(rw, o) == [x \in Rows |-> IF o[x] # Untouched THEN o[x] ELSE rw[x]]

OwnTyped(o) ==
  /\ o = [x \in Rows |-> o[x]]
  /\ \A q \in Keys : o[q] \in {Present, Absent, Untouched}
  /\ \A k \in Recids : o[k] \in Records \cup {Absent, Untouched}

LEMMA CombineTable ==
  ASSUME NEW rw, NEW o, Table(rw), OwnTyped(o)
  PROVE  /\ Table(Combine(rw, o))
         /\ \A x \in Rows : Combine(rw, o)[x] = IF o[x] # Untouched THEN o[x] ELSE rw[x]
BY KeyParts DEF Table, OwnTyped, Combine

\* Where a transaction wrote nothing it sees the committed rows.
LEMMA UnlockedSame ==
  ASSUME NEW rw, NEW o, NEW n, Table(rw), OwnTyped(o),
         \A q \in Keys : q[1] = n => o[q] = Untouched,
         \A k \in Recids : o[k] # Untouched =>
           /\ ~(o[k] # Absent /\ o[k].key[1] = n)
           /\ ~(Live(rw, k) /\ rw[k].key[1] = n)
  PROVE  Same(rw, Combine(rw, o), n)
<1> DEFINE e == Combine(rw, o)
<1>1. \A x \in Rows : e[x] = IF o[x] # Untouched THEN o[x] ELSE rw[x]
  BY CombineTable
<1> HIDE DEF e
<1>2. \A q \in Keys : q[1] = n => rw[q] = e[q]
  BY <1>1, KeyParts
<1>3. ASSUME NEW k \in Recids,
             (Live(rw, k) /\ rw[k].key[1] = n) \/ (Live(e, k) /\ e[k].key[1] = n)
      PROVE  rw[k] = e[k]
  BY <1>1, <1>3, KeyParts DEF Live
<1>4. Same(rw, e, n)  BY <1>2, <1>3 DEF Same
<1>. QED  BY <1>4 DEF e

\* What others commit leaves the names a transaction locks as they were.
LEMMA LockedSame ==
  ASSUME NEW rw, NEW new, NEW o, NEW n, Table(rw), Table(new), OwnTyped(o),
         \A q \in Keys : q[1] = n => new[q] = rw[q],
         \A k \in Recids : new[k] # rw[k] =>
           /\ o[k] = Untouched
           /\ ~(Live(rw, k) /\ rw[k].key[1] = n)
           /\ ~(Live(new, k) /\ new[k].key[1] = n)
  PROVE  Same(Combine(rw, o), Combine(new, o), n)
<1> DEFINE d == Combine(rw, o)
           e == Combine(new, o)
<1>1. /\ \A x \in Rows : d[x] = IF o[x] # Untouched THEN o[x] ELSE rw[x]
      /\ \A x \in Rows : e[x] = IF o[x] # Untouched THEN o[x] ELSE new[x]
  BY CombineTable
<1> HIDE DEF d, e
<1>2. \A q \in Keys : q[1] = n => d[q] = e[q]
  BY <1>1, KeyParts
<1>3. ASSUME NEW k \in Recids,
             (Live(d, k) /\ d[k].key[1] = n) \/ (Live(e, k) /\ e[k].key[1] = n)
      PROVE  d[k] = e[k]
  <2>1. CASE o[k] # Untouched  BY <1>1, <2>1, KeyParts
  <2>2. CASE o[k] = Untouched
    <3>1. d[k] = rw[k] /\ e[k] = new[k]  BY <1>1, <2>2, KeyParts
    <3>. QED  BY <1>3, <3>1 DEF Live
  <2>. QED  BY <2>1, <2>2
<1>4. Same(d, e, n)  BY <1>2, <1>3 DEF Same
<1>. QED  BY <1>4 DEF d, e

\* Types, as the lemmas below need them.
LEMMA OwnTypes ==
  ASSUME Typed, NEW s \in Sessions
  PROVE  OwnTyped(own[s]) /\ Current(s) = Combine(rows, own[s]) /\ Table(Current(s)) /\ Table(rows)
<1>1. OwnTyped(own[s])
  <2>1. own[s] = [x \in Rows |-> own[s][x]]  BY DEF Typed
  <2>2. \A q \in Keys : own[s][q] \in {Present, Absent, Untouched}
    BY KeyParts DEF Typed, TypeOK, States
  <2>3. \A k \in Recids : own[s][k] \in Records \cup {Absent, Untouched}
    BY KeyParts DEF Typed, TypeOK, States
  <2>. QED  BY <2>1, <2>2, <2>3 DEF OwnTyped
<1>2. Current(s) = Combine(rows, own[s])  BY DEF Current, Combine
<1>. QED  BY <1>1, <1>2, CombineTable DEF Typed

\* A statement turns what its transaction sees into d and leaves the others alone.
LEMMA Effect ==
  ASSUME Typed, NEW s \in Sessions, NEW N, NEW d, Table(d), Statement(s, N, d), rows' = rows
  PROVE  /\ own' = [t \in Sessions |-> [x \in Rows |-> own'[t][x]]]
         /\ \A t \in Sessions \ {s} : own'[t] = own[t] /\ Current(t)' = Current(t)
         /\ \A x \in Rows : own'[s][x] = IF d[x] # Current(s)[x] THEN d[x] ELSE own[s][x]
         /\ lock' = [n \in Names |-> IF n \in N THEN s ELSE lock[n]]
         /\ \A n \in N : lock[n] \in {Nobody, s}
         /\ Current(s)' = d
<1>1. own = [t \in Sessions |-> [x \in Rows |-> own[t][x]]]  BY DEF Typed
<1>2. own' = [own EXCEPT ![s] = [x \in Rows |-> IF d[x] # Current(s)[x] THEN d[x] ELSE @[x]]]
  BY DEF Statement
<1>3. /\ \A t \in Sessions \ {s} : own'[t] = own[t]
      /\ own'[s] = [x \in Rows |-> IF d[x] # Current(s)[x] THEN d[x] ELSE own[s][x]]
      /\ own' = [t \in Sessions |-> own'[t]]
  BY <1>1, <1>2
<1>4. own' = [t \in Sessions |-> [x \in Rows |-> own'[t][x]]]
  <2>1. \A t \in Sessions : own'[t] = [x \in Rows |-> own'[t][x]]
    BY <1>1, <1>3
  <2>. QED  BY <1>3, <2>1
<1>5. \A t \in Sessions \ {s} : Current(t)' = Current(t)
  BY <1>3 DEF Current
<1>6. Current(s)' = d
  <2>1. Current(s)' = [x \in Rows |-> IF own'[s][x] # Untouched THEN own'[s][x] ELSE rows[x]]
    BY DEF Current
  <2>2. \A x \in Rows : Current(s)[x] = IF own[s][x] # Untouched THEN own[s][x] ELSE rows[x]
    BY DEF Current
  <2>3. \A x \in Rows : d[x] # Untouched
    BY KeyParts DEF Table, Rows
  <2>4. \A x \in Rows : (IF own'[s][x] # Untouched THEN own'[s][x] ELSE rows[x]) = d[x]
    BY <1>3, <2>2, <2>3
  <2>. QED  BY <2>1, <2>4 DEF Table
<1>. QED  BY <1>3, <1>4, <1>5, <1>6 DEF Statement

-----------------------------------------------------------------------------
(* What a step of one session leaves right for another. *)

\* Session t and its locks are not part of the step.
Kept(t) ==
  /\ own'[t] = own[t] /\ pc'[t] = pc[t] /\ ids'[t] = ids[t]
  /\ post'[t] = post[t] /\ found'[t] = found[t]
  /\ \A n \in Names : lock[n] = t => lock'[n] = t

\* The step changes no row that t locked or wrote, and writes none it wrote.
Apart(t) ==
  /\ \A q \in Keys : rows'[q] # rows[q] => lock[q[1]] # t
  /\ \A k \in Recids : rows'[k] # rows[k] =>
       /\ own[t][k] = Untouched
       /\ Live(rows, k) => lock[rows[k].key[1]] # t
       /\ Live(rows', k) => lock[rows'[k].key[1]] # t
  /\ \A k \in Recids, u \in Sessions \ {t} :
       own'[u][k] # Untouched => own[u][k] # Untouched \/ own[t][k] = Untouched

\* t is told of what it read and others changed.
Told(t) ==
  \A k \in found[t] : /\ k \in newer[t] => k \in newer'[t]
                      /\ Live(rows, k) => Live(rows', k) \/ k \in newer'[t]

Fine(s) ==
  /\ OwnsKeys(s) /\ \A k \in Recids : OwnsRecord(s, k)
  /\ SaveOK(s) /\ FoundOK(s)
  /\ \A n \in Names : Good(Current(s), n, Pinned(s))

LEMMA Bystander ==
  ASSUME IInv, NEW t \in Sessions, Kept(t), Apart(t), Told(t), fresh' \subseteq fresh,
         Table(rows'), \A n \in Names : Good(rows', n, {})
  PROVE  Fine(t)'
<1> DEFINE o == own[t]
<1>1. /\ OwnTyped(o) /\ Current(t) = Combine(rows, o) /\ Table(Current(t)) /\ Table(rows)
  BY OwnTypes DEF IInv
<1>2. Current(t)' = Combine(rows', o)
  BY DEF Current, Combine, Kept
<1>3. /\ \A x \in Rows : Current(t)[x] = IF o[x] # Untouched THEN o[x] ELSE rows[x]
      /\ \A x \in Rows : Current(t)'[x] = IF o[x] # Untouched THEN o[x] ELSE rows'[x]
      /\ Table(Current(t)')
  BY <1>1, <1>2, CombineTable
<1>4. OwnsKeys(t) /\ \A k \in Recids : OwnsRecord(t, k)
  BY DEF IInv, Owns
<1>5. OwnsKeys(t)'
  BY <1>4, KeyParts DEF OwnsKeys, Kept
<1>6. ASSUME NEW k \in Recids  PROVE OwnsRecord(t, k)'
  <2> SUFFICES ASSUME o[k] # Untouched
               PROVE  /\ o[k] # Absent => lock'[o[k].key[1]] = t
                      /\ Live(rows', k) => lock'[rows'[k].key[1]] = t
                      /\ k \notin fresh'
                      /\ \A u \in Sessions \ {t} : own'[u][k] = Untouched
    BY DEF OwnsRecord, Kept
  <2>1. /\ o[k] # Absent => lock[o[k].key[1]] = t
        /\ Live(rows, k) => lock[rows[k].key[1]] = t
        /\ k \notin fresh
        /\ \A u \in Sessions \ {t} : own[u][k] = Untouched
    BY <1>4 DEF OwnsRecord
  <2>2. rows'[k] = rows[k]  BY DEF Apart
  <2>3. o[k] # Absent => o[k].key[1] \in Names
    BY <1>1, KeyParts DEF OwnTyped
  <2>4. Live(rows, k) => rows[k].key[1] \in Names
    BY <1>1, KeyParts DEF Table, Live
  <2>. QED  BY <2>1, <2>2, <2>3, <2>4 DEF Kept, Live, Apart
<1>7. SaveOK(t)'
  <2>1. SaveOK(t)  BY DEF IInv
  <2>2. ASSUME pc[t] \in Saving
        PROVE  lock'[post[t].key[1]] = t /\ Current(t)'[post[t].key] = Present
    <3>1. post[t] \in Records /\ lock[post[t].key[1]] = t /\ Current(t)[post[t].key] = Present
      BY <2>1, <2>2 DEF SaveOK
    <3>2. post[t].key \in Keys /\ post[t].key[1] \in Names  BY <3>1, KeyParts
    <3>3. rows'[post[t].key] = rows[post[t].key]  BY <3>1, <3>2 DEF Apart
    <3>. QED  BY <1>3, <3>1, <3>2, <3>3, KeyParts DEF Kept
  <2>. QED  BY <2>1, <2>2 DEF SaveOK, Kept
<1>8. FoundOK(t)'
  BY DEF IInv, FoundOK, Kept, Told
<1>9. Pinned(t)' = Pinned(t)
  BY DEF Pinned, Kept
<1>10. ASSUME NEW n \in Names  PROVE Good(Current(t)', n, Pinned(t))
  <2>1. Good(Current(t), n, Pinned(t))  BY DEF IInv
  <2>2. CASE lock[n] = t
    <3>1. Same(Combine(rows, o), Combine(rows', o), n)
      <4>1. \A q \in Keys : q[1] = n => rows'[q] = rows[q]  BY <2>2 DEF Apart
      <4>2. \A k \in Recids : rows'[k] # rows[k] =>
              /\ o[k] = Untouched
              /\ ~(Live(rows, k) /\ rows[k].key[1] = n)
              /\ ~(Live(rows', k) /\ rows'[k].key[1] = n)
        BY <2>2 DEF Apart
      <4>. QED  BY <1>1, <4>1, <4>2, LockedSame
    <3>2. Same(Current(t), Current(t)', n)  BY <1>1, <1>2, <3>1
    <3>. QED  BY <1>1, <1>3, <2>1, <3>2, SameGood
  <2>3. CASE lock[n] # t
    <3>1. Same(rows', Combine(rows', o), n)
      <4>1. \A q \in Keys : q[1] = n => o[q] = Untouched  BY <1>4, <2>3 DEF OwnsKeys
      <4>2. \A k \in Recids : o[k] # Untouched =>
              /\ ~(o[k] # Absent /\ o[k].key[1] = n)
              /\ ~(Live(rows', k) /\ rows'[k].key[1] = n)
        BY <1>4, <2>3 DEF OwnsRecord, Apart, Live
      <4>. QED  BY <1>1, <4>1, <4>2, UnlockedSame
    <3>2. Same(rows', Current(t)', n)  BY <1>2, <3>1
    <3>3. Good(Current(t)', n, {})  BY <1>3, <3>2, SameGood
    <3>. QED  BY <3>3, PinMore
  <2>. QED  BY <2>2, <2>3
<1>11. \A n \in Names : Good(Current(t)', n, Pinned(t)')
  BY <1>9, <1>10
<1>. QED  BY <1>5, <1>6, <1>7, <1>8, <1>11 DEF Fine

-----------------------------------------------------------------------------
(* The inductive step, one lemma an action. *)

Phases == {"idle", "save", "rrset", "rrset affected", "read back", "delete", "done"}

LEMMA TypedStep ==
  ASSUME Table(rows'), own' = [t \in Sessions |-> [x \in Rows |-> own'[t][x]]],
         \A t \in Sessions : OwnTyped(own'[t]),
         fresh' \subseteq Recids, lock' \in [Names -> Sessions \cup {Nobody}],
         pc' \in [Sessions -> Phases], ids' \in [Sessions -> SUBSET Recids],
         post' \in [Sessions -> Records \cup {Absent}],
         found' \in [Sessions -> SUBSET Recids], newer' \in [Sessions -> SUBSET Recids]
  PROVE  Typed'
<1>1. \A x \in Rows : rows'[x] \in States(x)
  BY KeyParts DEF Table, States, Rows
<1>2. \A t \in Sessions, x \in Rows : own'[t][x] \in States(x) \cup {Untouched}
  BY KeyParts DEF OwnTyped, States, Rows
<1>. QED  BY <1>1, <1>2 DEF Typed, TypeOK, Phases

LEMMA Whole ==
  ASSUME Typed', FreshOK', \A t \in Sessions : Fine(t)', \A n \in Names : Good(rows', n, {})
  PROVE  IInv'
BY DEF IInv, Owns, Fine

\* The parts of the types that the steps need.
LEMMA Shapes ==
  ASSUME IInv
  PROVE  /\ fresh \subseteq Recids /\ lock \in [Names -> Sessions \cup {Nobody}]
         /\ pc \in [Sessions -> Phases] /\ ids \in [Sessions -> SUBSET Recids]
         /\ post \in [Sessions -> Records \cup {Absent}]
         /\ found \in [Sessions -> SUBSET Recids] /\ newer \in [Sessions -> SUBSET Recids]
         /\ Table(rows)
         /\ own = [t \in Sessions |-> [x \in Rows |-> own[t][x]]]
         /\ Typed
         /\ \A n \in Names : Good(rows, n, {})
BY DEF IInv, Typed, TypeOK, Phases

\* A write by s: its rows become d, under its locks.
LEMMA StatementStep ==
  ASSUME IInv, NEW s \in Sessions, NEW N, NEW d, Table(d), Statement(s, N, d),
         rows' = rows, newer' = newer, found' = found, fresh' \subseteq fresh,
         pc' = [pc EXCEPT ![s] = pc'[s]], pc'[s] \in Phases,
         ids' = [ids EXCEPT ![s] = ids'[s]], ids'[s] \in SUBSET Recids,
         post' = [post EXCEPT ![s] = post'[s]], post'[s] \in Records \cup {Absent},
         \A q \in Keys : d[q] # Current(s)[q] => q[1] \in N \/ lock[q[1]] = s,
         \A k \in Recids : d[k] # Current(s)[k] =>
           /\ d[k] # Absent => d[k].key[1] \in N \/ lock[d[k].key[1]] = s
           /\ Live(rows, k) => rows[k].key[1] \in N \/ lock[rows[k].key[1]] = s
           /\ k \notin fresh'
           /\ \A t \in Sessions \ {s} : own[t][k] = Untouched,
         SaveOK(s)', \A n \in Names : Good(d, n, Pinned(s)')
  PROVE  IInv'
<1>1. Typed /\ Table(rows) /\ OwnTyped(own[s]) /\ \A n \in Names : Good(rows, n, {})
  BY Shapes, OwnTypes
<1>2. /\ own' = [t \in Sessions |-> [x \in Rows |-> own'[t][x]]]
      /\ \A t \in Sessions \ {s} : own'[t] = own[t] /\ Current(t)' = Current(t)
      /\ \A x \in Rows : own'[s][x] = IF d[x] # Current(s)[x] THEN d[x] ELSE own[s][x]
      /\ lock' = [n \in Names |-> IF n \in N THEN s ELSE lock[n]]
      /\ \A n \in N : lock[n] \in {Nobody, s}
      /\ Current(s)' = d
  BY <1>1, Effect
<1>3. Nobody \notin Sessions  BY RecordsAssumption
<1>4. \A n \in Names : n \in N \/ lock[n] = s => lock'[n] = s
  BY <1>2
<1>5. \A k \in Recids : own[s][k] # Untouched =>
        /\ own[s][k] # Absent => lock[own[s][k].key[1]] = s
        /\ Live(rows, k) => lock[rows[k].key[1]] = s
        /\ k \notin fresh
        /\ \A t \in Sessions \ {s} : own[t][k] = Untouched
  BY DEF IInv, Owns, OwnsRecord
<1>6. OwnsKeys(s)'
  <2>1. \A q \in Keys : own[s][q] # Untouched => lock[q[1]] = s  BY DEF IInv, Owns, OwnsKeys
  <2>. QED  BY <1>2, <1>4, <2>1, KeyParts DEF OwnsKeys
<1>7. ASSUME NEW k \in Recids  PROVE OwnsRecord(s, k)'
  <2>1. \A r \in Records : r.key[1] \in Names  BY KeyParts
  <2>2. d[k] \in Records \cup {Absent} /\ rows[k] \in Records \cup {Absent}
        /\ own[s][k] \in Records \cup {Absent, Untouched}
    BY <1>1 DEF Table, OwnTyped
  <2>3. CASE d[k] # Current(s)[k]
    <3>1. own'[s][k] = d[k]  BY <1>2, <2>3, KeyParts
    <3>2. d[k] # Absent => lock'[d[k].key[1]] = s  BY <1>4, <2>1, <2>2, <2>3
    <3>3. Live(rows, k) => lock'[rows[k].key[1]] = s  BY <1>4, <2>1, <2>2, <2>3 DEF Live
    <3>. QED  BY <1>2, <2>3, <3>1, <3>2, <3>3 DEF OwnsRecord, Live
  <2>4. CASE d[k] = Current(s)[k]
    <3>1. own'[s][k] = own[s][k]  BY <1>2, <2>4, KeyParts
    <3>2. own[s][k] # Untouched /\ own[s][k] # Absent => lock'[own[s][k].key[1]] = s
      BY <1>4, <1>5, <2>1, <2>2
    <3>3. own[s][k] # Untouched /\ Live(rows, k) => lock'[rows[k].key[1]] = s
      BY <1>4, <1>5, <2>1, <2>2 DEF Live
    <3>. QED  BY <1>2, <1>5, <3>1, <3>2, <3>3 DEF OwnsRecord, Live
  <2>. QED  BY <2>3, <2>4
<1>8. FoundOK(s)'
  BY DEF IInv, FoundOK, Live
<1>9. Fine(s)'
  BY <1>2, <1>6, <1>7, <1>8 DEF Fine
<1>10. ASSUME NEW t \in Sessions \ {s}  PROVE Fine(t)'
  <2>1. Kept(t)
    <3>1. \A n \in Names : lock[n] = t => lock'[n] = t  BY <1>2, <1>3
    <3>2. pc'[t] = pc[t] /\ ids'[t] = ids[t] /\ post'[t] = post[t]  BY Shapes
    <3>. QED  BY <1>2, <3>1, <3>2 DEF Kept
  <2>2. Apart(t)
    <3>1. ASSUME NEW k \in Recids, NEW u \in Sessions \ {t}, own'[u][k] # Untouched
          PROVE  own[u][k] # Untouched \/ own[t][k] = Untouched
      <4>1. CASE u # s  BY <1>2, <3>1, <4>1
      <4>2. CASE u = s /\ d[k] # Current(s)[k]  BY <4>2
      <4>3. CASE u = s /\ d[k] = Current(s)[k]  BY <1>2, <3>1, <4>3, KeyParts
      <4>. QED  BY <4>1, <4>2, <4>3
    <3>. QED  BY <3>1 DEF Apart
  <2>3. Told(t)  BY DEF Told
  <2>. QED  BY <1>1, <2>1, <2>2, <2>3, Bystander
<1>11. FreshOK'
  <2> SUFFICES ASSUME NEW k \in fresh', NEW t \in Sessions
               PROVE  rows'[k] = Absent /\ own'[t][k] = Untouched /\ k \notin found'[t]
    BY DEF FreshOK
  <2>1. k \in Recids /\ rows[k] = Absent /\ own[t][k] = Untouched /\ k \notin found[t]
    BY Shapes DEF IInv, FreshOK
  <2>2. t = s => d[k] = Current(s)[k]  BY <2>1
  <2>3. own'[t][k] = own[t][k]  BY <1>2, <2>1, <2>2, KeyParts
  <2>. QED  BY <2>1, <2>3
<1>12. Typed'
  <2>1. \A t \in Sessions : OwnTyped(own'[t])
    <3>1. ASSUME NEW t \in Sessions \ {s}  PROVE OwnTyped(own'[t])  BY <1>1, <1>2, OwnTypes
    <3>2. OwnTyped(own'[s])
      <4>1. own'[s] = [x \in Rows |-> own'[s][x]]  BY <1>2
      <4>. QED  BY <1>1, <1>2, <4>1, KeyParts DEF OwnTyped, Table
    <3>. QED  BY <3>1, <3>2
  <2>2. lock' \in [Names -> Sessions \cup {Nobody}]  BY <1>2, Shapes
  <2>3. /\ pc' \in [Sessions -> Phases] /\ ids' \in [Sessions -> SUBSET Recids]
        /\ post' \in [Sessions -> Records \cup {Absent}]
    BY Shapes
  <2>4. /\ found' \in [Sessions -> SUBSET Recids] /\ newer' \in [Sessions -> SUBSET Recids]
        /\ fresh' \subseteq Recids
    BY Shapes
  <2>. QED  BY <1>1, <1>2, <2>1, <2>2, <2>3, <2>4, TypedStep
<1>. QED  BY <1>1, <1>9, <1>10, <1>11, <1>12, Whole

\* What s sees, and a record it may write once it has the locks.
LEMMA Sees ==
  ASSUME IInv, NEW s \in Sessions
  PROVE  /\ Table(Current(s))
         /\ \A x \in Rows : Current(s)[x] = IF own[s][x] # Untouched THEN own[s][x] ELSE rows[x]
         /\ \A n \in Names : Good(Current(s), n, Pinned(s))
         /\ SaveOK(s) /\ FoundOK(s)
         /\ OwnsKeys(s) /\ \A k \in Recids : OwnsRecord(s, k)
         /\ own[s] = Nothing => Current(s) = rows
<1>1. OwnTyped(own[s]) /\ Current(s) = Combine(rows, own[s]) /\ Table(Current(s)) /\ Table(rows)
  BY OwnTypes DEF IInv
<1>2. \A x \in Rows : Current(s)[x] = IF own[s][x] # Untouched THEN own[s][x] ELSE rows[x]
  BY <1>1, CombineTable
<1>3. own[s] = Nothing => Current(s) = rows
  <2>1. own[s] = Nothing => \A x \in Rows : Current(s)[x] = rows[x]  BY <1>2 DEF Nothing
  <2>. QED  BY <1>1, <2>1 DEF Table
<1>. QED  BY <1>1, <1>2, <1>3 DEF IInv, Owns

LEMMA Taken ==
  ASSUME IInv, NEW s \in Sessions, NEW K \in SUBSET Recids, NEW k \in K,
         \A n \in NamesOf(s, K) : lock[n] \in {Nobody, s}, Current(s)[k] # Absent
  PROVE  /\ Current(s)[k].key[1] \in NamesOf(s, K)
         /\ Live(rows, k) => rows[k].key[1] \in NamesOf(s, K)
         /\ k \notin fresh
         /\ \A t \in Sessions \ {s} : own[t][k] = Untouched
<1>1. Current(s)[k] = IF own[s][k] # Untouched THEN own[s][k] ELSE rows[k]
  BY Sees, KeyParts
<1>2. k \notin fresh
  BY <1>1 DEF IInv, FreshOK
<1>3. ASSUME NEW t \in Sessions \ {s}, own[t][k] # Untouched  PROVE FALSE
  <2>1. own[s][k] = Untouched /\ (Live(rows, k) => lock[rows[k].key[1]] = t)
    BY <1>3 DEF IInv, Owns, OwnsRecord
  <2>2. Live(rows, k)  BY <1>1, <2>1 DEF Live
  <2>3. rows[k].key[1] \in NamesOf(s, K)  BY <2>2 DEF NamesOf, Live
  <2>. QED  BY <2>1, <2>2, <2>3, RecordsAssumption
<1>. QED  BY <1>2, <1>3 DEF NamesOf, Live

LEMMA UpsertStep ==
  ASSUME IInv, NEW s \in Sessions, NEW r \in Records, UpsertRrset(s, r)
  PROVE  IInv'
<1> DEFINE q == r.key
           d == Upserted(Current(s), q)
<1>1. q \in Keys /\ q[1] \in Names  BY KeyParts
<1>2. SaveOK(s) /\ own[s] = Nothing /\ Current(s) = rows /\ Table(rows)
      /\ (ids[s] = {} => found[s] = {})
  BY Sees, Shapes DEF UpsertRrset, SaveOK
<1>3. /\ Table(d)
      /\ \A n \in Names : Good(d, n, {q})
      /\ Current(s)[q] = Present => d = Current(s)
  <2>1. UpsertPasses(rows, q)  BY <1>2 DEF UpsertRrset
  <2>2. \A n \in Names : Good(rows, n, {})  BY Shapes
  <2>3. Table(d)  BY <1>1, <1>2, <2>1, <2>2, UpsertGood
  <2>4. ASSUME NEW n \in Names  PROVE Good(d, n, {q})
    BY <1>1, <1>2, <2>1, <2>2, UpsertGood
  <2>5. Current(s)[q] = Present => d = Current(s)
    BY <1>1, <1>2 DEF Table, Upserted
  <2>. QED  BY <2>3, <2>4, <2>5
<1>4. /\ d[q] = Present /\ \A x \in Rows \ {q} : d[x] = Current(s)[x]
  BY <1>1, <1>2, KeyParts DEF Table, Upserted
<1>5. Statement(s, {q[1]}, d)  BY DEF UpsertRrset
<1> HIDE DEF d
<1>6. /\ \A x \in Rows : own'[s][x] = IF d[x] # Current(s)[x] THEN d[x] ELSE own[s][x]
      /\ lock' = [n \in Names |-> IF n \in {q[1]} THEN s ELSE lock[n]]
      /\ Current(s)' = d
  <2>1. rows' = rows  BY DEF UpsertRrset
  <2>2. Typed  BY Shapes
  <2>3. Table(d)  BY <1>3
  <2>. QED  BY <1>5, <2>1, <2>2, <2>3, Effect
<1>7. pc'[s] \in Saving /\ post'[s] = r /\ ids' = ids /\ found' = found
  BY Shapes DEF UpsertRrset, Goto, Saving
<1>8. SaveOK(s)'
  <2>1. lock'[q[1]] = s  BY <1>1, <1>6
  <2>2. \A k \in Recids : own'[s][k] = Untouched
    BY <1>1, <1>2, <1>4, <1>6, KeyParts DEF Nothing
  <2>. QED  BY <1>2, <1>4, <1>6, <1>7, <2>1, <2>2 DEF SaveOK, Saving
<1>9. \A n \in Names : Good(d, n, Pinned(s)')
  <2>1. CASE pc'[s] = "rrset affected"
    <3>1. Pinned(s)' = {q}  BY <1>7, <2>1 DEF Pinned
    <3>. QED  BY <1>3, <3>1
  <2>2. CASE pc'[s] = "rrset"
    <3>1. Pinned(s)' = {}  BY <2>2 DEF Pinned
    <3>2. Current(s)[q] = Present
      BY <2>2, Shapes DEF UpsertRrset, Goto
    <3>3. d = rows  BY <1>2, <1>3, <3>2
    <3>. QED  BY <3>1, <3>3, Shapes
  <2>. QED  BY <1>7, <2>1, <2>2 DEF Saving
<1>10. \A p \in Keys : d[p] # Current(s)[p] => p[1] \in {q[1]} \/ lock[p[1]] = s
  BY <1>4, KeyParts
<1>11. \A k \in Recids : d[k] = Current(s)[k]
  BY <1>1, <1>4, KeyParts
<1>12. /\ pc' = [pc EXCEPT ![s] = pc'[s]] /\ pc'[s] \in Phases
       /\ ids' = [ids EXCEPT ![s] = ids'[s]] /\ ids'[s] \in SUBSET Recids
       /\ post' = [post EXCEPT ![s] = post'[s]] /\ post'[s] \in Records \cup {Absent}
  BY <1>7, Shapes DEF UpsertRrset, Goto, Saving, Phases
<1>13. rows' = rows /\ newer' = newer /\ found' = found /\ fresh' \subseteq fresh
  BY DEF UpsertRrset
<1>. QED  BY <1>3, <1>5, <1>8, <1>9, <1>10, <1>11, <1>12, <1>13, StatementStep

LEMMA DeleteStep ==
  ASSUME IInv, NEW s \in Sessions, DeleteRecords(s)
  PROVE  IInv'
<1> DEFINE K == found[s]
           d == Deleted(Current(s), K)
           N == NamesOf(s, K)
<1>1. K \in SUBSET Recids  BY Shapes
<1>2. Statement(s, N, d) /\ pc[s] = "delete"  BY DEF DeleteRecords
<1>3. Table(Current(s)) /\ \A n \in Names : Good(Current(s), n, {})
  <2>1. Pinned(s) = {}  BY <1>2 DEF Pinned
  <2>. QED  BY <2>1, Sees
<1>4. /\ Table(d)
      /\ \A j \in Recids : d[j] = IF j \in K THEN Absent ELSE Current(s)[j]
      /\ \A q \in Keys : d[q] = IF Answers(Current(s), q) # {} /\ Answers(Current(s), q) \subseteq K
                                THEN Absent ELSE Current(s)[q]
  BY <1>1, <1>3, DeletedRows
<1>5. \A n \in Names : Good(d, n, {})
  BY <1>1, <1>3, DeletedGood
<1> HIDE DEF d, N
<1>6. \A n \in N : lock[n] \in {Nobody, s}  BY <1>2 DEF Statement
<1>7. ASSUME NEW k \in K, Current(s)[k] # Absent
      PROVE  /\ Current(s)[k].key[1] \in N /\ (Live(rows, k) => rows[k].key[1] \in N)
             /\ k \notin fresh /\ \A t \in Sessions \ {s} : own[t][k] = Untouched
  BY <1>1, <1>6, <1>7, Taken DEF N
<1>8. /\ rows' = rows /\ newer' = newer /\ found' = found /\ fresh' = fresh
      /\ pc' = [pc EXCEPT ![s] = "done"] /\ ids' = ids /\ post' = post
      /\ pc'[s] = "done"
  BY Shapes DEF DeleteRecords, Goto, request
<1>9. \A q \in Keys : d[q] # Current(s)[q] => q[1] \in N
  <2> SUFFICES ASSUME NEW q \in Keys, d[q] # Current(s)[q]  PROVE q[1] \in N
    OBVIOUS
  <2>1. PICK k \in K : k \in Answers(Current(s), q)  BY <1>4
  <2>. QED  BY <1>7, <2>1 DEF Answers
<1>10. \A k \in Recids : d[k] # Current(s)[k] =>
         /\ d[k] = Absent
         /\ Live(rows, k) => rows[k].key[1] \in N
         /\ k \notin fresh' /\ \A t \in Sessions \ {s} : own[t][k] = Untouched
  BY <1>4, <1>7, <1>8
<1> HIDE DEF K
<1>11. SaveOK(s)'
  BY <1>8, Sees DEF SaveOK, Saving
<1>12. \A n \in Names : Good(d, n, Pinned(s)')
  <2>1. Pinned(s)' = {}  BY <1>8 DEF Pinned
  <2>. QED  BY <1>5, <2>1
<1>13. /\ pc' = [pc EXCEPT ![s] = pc'[s]] /\ pc'[s] \in Phases
       /\ ids' = [ids EXCEPT ![s] = ids'[s]] /\ ids'[s] \in SUBSET Recids
       /\ post' = [post EXCEPT ![s] = post'[s]] /\ post'[s] \in Records \cup {Absent}
  BY <1>8, Shapes DEF Phases
<1>14. \A q \in Keys : d[q] # Current(s)[q] => q[1] \in N \/ lock[q[1]] = s
  BY <1>9
<1>15. \A k \in Recids : d[k] # Current(s)[k] =>
         /\ d[k] # Absent => d[k].key[1] \in N \/ lock[d[k].key[1]] = s
         /\ Live(rows, k) => rows[k].key[1] \in N \/ lock[rows[k].key[1]] = s
         /\ k \notin fresh'
         /\ \A t \in Sessions \ {s} : own[t][k] = Untouched
  BY <1>10
<1>16. /\ Table(d) /\ Statement(s, N, d)
       /\ rows' = rows /\ newer' = newer /\ found' = found /\ fresh' \subseteq fresh
  BY <1>2, <1>4, <1>8
<1>. QED  BY <1>11, <1>12, <1>13, <1>14, <1>15, <1>16, StatementStep

LEMMA InsertStep ==
  ASSUME IInv, NEW s \in Sessions, InsertRecord(s)
  PROVE  IInv'
<1>1. PICK k \in fresh : /\ RecordPasses(Current(s), k, post[s])
                         /\ Statement(s, {}, Written(Current(s), k, post[s]))
                         /\ fresh' = fresh \ {k}
                         /\ ids' = [ids EXCEPT ![s] = {k}]
  BY DEF InsertRecord
<1> DEFINE r == post[s]
           d == Written(Current(s), k, r)
<1>2. /\ k \in Recids /\ rows[k] = Absent
      /\ \A t \in Sessions : own[t][k] = Untouched
  BY Shapes DEF IInv, FreshOK
<1>3. /\ pc[s] \in Saving /\ ids[s] = {} /\ found[s] = {}
      /\ r \in Records /\ lock[r.key[1]] = s /\ Current(s)[r.key] = Present
  BY Sees DEF InsertRecord, SaveOK, Saving
<1>4. Current(s)[k] = Absent  BY <1>2, Sees, KeyParts
<1>5. Table(Current(s)) /\ \A n \in Names : Good(Current(s), n, {r.key})
  <2>1. Pinned(s) \subseteq {r.key}  BY DEF Pinned
  <2>. QED  BY <2>1, Sees, PinMore
<1>6. /\ Table(d) /\ d[k] = r
      /\ \A j \in Recids : j # k => d[j] = Current(s)[j]
      /\ d[r.key] = Current(s)[r.key]
      /\ \A q \in Keys : q # r.key =>
           d[q] = IF Answers(Current(s), q) = {k} THEN Absent ELSE Current(s)[q]
  BY <1>2, <1>3, <1>5, WrittenRows
<1>7. \A n \in Names : Good(d, n, {})
  BY <1>1, <1>2, <1>3, <1>5, WrittenGood
<1>8. Statement(s, {}, d)  BY <1>1
<1> HIDE DEF d
<1>9. /\ rows' = rows /\ newer' = newer /\ found' = found /\ fresh' \subseteq fresh
      /\ k \notin fresh' /\ post' = post
      /\ pc'[s] = "read back" /\ ids'[s] = {k}
  BY <1>1, Shapes DEF InsertRecord, Goto
<1>10. /\ pc' = [pc EXCEPT ![s] = pc'[s]] /\ pc'[s] \in Phases
       /\ ids' = [ids EXCEPT ![s] = ids'[s]] /\ ids'[s] \in SUBSET Recids
       /\ post' = [post EXCEPT ![s] = post'[s]] /\ post'[s] \in Records \cup {Absent}
  BY <1>1, <1>2, <1>9, Shapes DEF InsertRecord, Goto, Phases
<1>11. \A q \in Keys : d[q] = Current(s)[q]
  <2>1. \A q \in Keys : Answers(Current(s), q) # {k}  BY <1>4 DEF Answers
  <2>. QED  BY <1>6, <2>1
<1>12. \A j \in Recids : d[j] # Current(s)[j] =>
         /\ d[j] # Absent => d[j].key[1] \in {} \/ lock[d[j].key[1]] = s
         /\ Live(rows, j) => rows[j].key[1] \in {} \/ lock[rows[j].key[1]] = s
         /\ j \notin fresh' /\ \A t \in Sessions \ {s} : own[t][j] = Untouched
  BY <1>2, <1>3, <1>6, <1>9 DEF Live
<1>13. SaveOK(s)'
  BY <1>3, <1>9 DEF SaveOK, Saving
<1>14. \A n \in Names : Good(d, n, Pinned(s)')
  BY <1>7, PinMore
<1>15. \A q \in Keys : d[q] # Current(s)[q] => q[1] \in {} \/ lock[q[1]] = s
  BY <1>11
<1>16. /\ Table(d) /\ rows' = rows /\ newer' = newer /\ found' = found /\ fresh' \subseteq fresh
  BY <1>6, <1>9
<1>. QED  BY <1>8, <1>10, <1>12, <1>13, <1>14, <1>15, <1>16, StatementStep

LEMMA UpdateStep ==
  ASSUME IInv, NEW s \in Sessions, NEW k \in Recids, UpdateRecord(s, k)
  PROVE  IInv'
<1> DEFINE r == post[s]
           d == Written(Current(s), k, r)
           N == NamesOf(s, {k})
<1>1. /\ RecordPasses(Current(s), k, r) /\ Statement(s, N, d)
      /\ Current(s)[k] # Absent
  BY DEF UpdateRecord
<1>2. /\ pc[s] \in Saving /\ r \in Records /\ lock[r.key[1]] = s /\ Current(s)[r.key] = Present
  BY Sees DEF UpdateRecord, SaveOK, Saving
<1>3. Table(Current(s)) /\ \A n \in Names : Good(Current(s), n, {r.key})
  <2>1. Pinned(s) \subseteq {r.key}  BY DEF Pinned
  <2>. QED  BY <2>1, Sees, PinMore
<1>4. /\ Table(d) /\ d[k] = r
      /\ \A j \in Recids : j # k => d[j] = Current(s)[j]
      /\ d[r.key] = Current(s)[r.key]
      /\ \A q \in Keys : q # r.key =>
           d[q] = IF Answers(Current(s), q) = {k} THEN Absent ELSE Current(s)[q]
  BY <1>2, <1>3, WrittenRows
<1>5. \A n \in Names : Good(d, n, {})
  BY <1>1, <1>2, <1>3, WrittenGood
<1> HIDE DEF d, N
<1>6. \A n \in N : lock[n] \in {Nobody, s}  BY <1>1 DEF Statement
<1>7. /\ Current(s)[k].key[1] \in N /\ (Live(rows, k) => rows[k].key[1] \in N)
      /\ k \notin fresh /\ \A t \in Sessions \ {s} : own[t][k] = Untouched
  BY <1>1, <1>6, Taken DEF N
<1>8. /\ rows' = rows /\ newer' = newer /\ found' = found /\ fresh' = fresh
      /\ ids' = ids /\ post' = post /\ pc'[s] \in {"read back", "done"}
      /\ ids[s] # {}
  BY Shapes DEF UpdateRecord, Goto, request
<1>9. \A q \in Keys : d[q] # Current(s)[q] => q[1] \in N
  <2> SUFFICES ASSUME NEW q \in Keys, d[q] # Current(s)[q]  PROVE q[1] \in N
    OBVIOUS
  <2>1. k \in Answers(Current(s), q)  BY <1>4
  <2>. QED  BY <1>7, <2>1 DEF Answers
<1>10. \A q \in Keys : d[q] # Current(s)[q] => q[1] \in N \/ lock[q[1]] = s
  BY <1>9
<1>11. \A j \in Recids : d[j] # Current(s)[j] =>
         /\ d[j] # Absent => d[j].key[1] \in N \/ lock[d[j].key[1]] = s
         /\ Live(rows, j) => rows[j].key[1] \in N \/ lock[rows[j].key[1]] = s
         /\ j \notin fresh' /\ \A t \in Sessions \ {s} : own[t][j] = Untouched
  BY <1>2, <1>4, <1>7, <1>8
<1>12. SaveOK(s)'
  BY <1>2, <1>8 DEF SaveOK, Saving
<1>13. \A n \in Names : Good(d, n, Pinned(s)')
  BY <1>5, PinMore
<1>14. /\ pc' = [pc EXCEPT ![s] = pc'[s]] /\ pc'[s] \in Phases
       /\ ids' = [ids EXCEPT ![s] = ids'[s]] /\ ids'[s] \in SUBSET Recids
       /\ post' = [post EXCEPT ![s] = post'[s]] /\ post'[s] \in Records \cup {Absent}
  BY <1>8, Shapes DEF UpdateRecord, Goto, Phases
<1>15. /\ Table(d) /\ rows' = rows /\ newer' = newer /\ found' = found /\ fresh' \subseteq fresh
  BY <1>4, <1>8
<1>16. Statement(s, N, d)  BY <1>1
<1>. QED  BY <1>10, <1>11, <1>12, <1>13, <1>14, <1>15, <1>16, StatementStep

\* A step of s that writes nothing.
LEMMA LocalStep ==
  ASSUME IInv, NEW s \in Sessions, UNCHANGED <<rows, own, lock, fresh, post>>,
         pc' = [pc EXCEPT ![s] = pc'[s]], pc'[s] \in Phases,
         ids' = [ids EXCEPT ![s] = ids'[s]], ids'[s] \in SUBSET Recids,
         found' = [found EXCEPT ![s] = found'[s]], found'[s] \in SUBSET Recids,
         newer' = [newer EXCEPT ![s] = newer'[s]], newer'[s] \in SUBSET Recids,
         found'[s] \cap fresh = {}, SaveOK(s)', FoundOK(s)',
         \A n \in Names : Good(Current(s), n, Pinned(s)')
  PROVE  IInv'
<1>1. /\ rows' = rows /\ own' = own /\ lock' = lock /\ fresh' = fresh
      /\ \A n \in Names : Good(rows, n, {})
  BY Shapes
<1>2. Fine(s)'
  <2>1. Current(s)' = Current(s)  BY <1>1 DEF Current
  <2>2. OwnsKeys(s)'  BY <1>1 DEF IInv, Owns, OwnsKeys
  <2>3. \A k \in Recids : OwnsRecord(s, k)'  BY <1>1 DEF IInv, Owns, OwnsRecord, Live
  <2>. QED  BY <2>1, <2>2, <2>3 DEF Fine
<1>3. ASSUME NEW t \in Sessions \ {s}  PROVE Fine(t)'
  <2>1. Kept(t)  BY <1>1, Shapes DEF Kept
  <2>2. Apart(t)  BY <1>1 DEF Apart
  <2>3. Told(t)  BY <1>1, Shapes DEF Told
  <2>. QED  BY <1>1, <2>1, <2>2, <2>3, Shapes, Bystander
<1>4. FreshOK'
  BY <1>1, Shapes DEF IInv, FreshOK
<1>5. Typed'
  <2>1. \A t \in Sessions : OwnTyped(own'[t])  BY <1>1, Shapes, OwnTypes
  <2>2. /\ own' = [t \in Sessions |-> [x \in Rows |-> own'[t][x]]] /\ Table(rows')
        /\ fresh' \subseteq Recids /\ lock' \in [Names -> Sessions \cup {Nobody}]
        /\ post' \in [Sessions -> Records \cup {Absent}]
    BY <1>1, Shapes
  <2>3. /\ pc' \in [Sessions -> Phases] /\ ids' \in [Sessions -> SUBSET Recids]
        /\ found' \in [Sessions -> SUBSET Recids] /\ newer' \in [Sessions -> SUBSET Recids]
    BY Shapes
  <2>. QED  BY <2>1, <2>2, <2>3, TypedStep
<1>. QED  BY <1>1, <1>2, <1>3, <1>4, <1>5, Whole

LEMMA BeginStep ==
  ASSUME IInv, NEW s \in Sessions, NEW command \in {"save", "delete"},
         NEW K \in SUBSET (Recids \ fresh), K # {}, BeginRead(s, command, K)
  PROVE  IInv'
<1>1. /\ UNCHANGED <<rows, own, lock, fresh, post>>
      /\ pc' = [pc EXCEPT ![s] = command] /\ pc'[s] = command
      /\ ids' = [ids EXCEPT ![s] = K] /\ ids'[s] = K
      /\ found' = [found EXCEPT ![s] = {k \in K : rows[k] # Absent}]
      /\ found'[s] = {k \in K : rows[k] # Absent}
      /\ newer' = [newer EXCEPT ![s] = {}] /\ newer'[s] = {}
  BY Shapes DEF BeginRead, Goto
<1>2. pc[s] = "idle" /\ own[s] = Nothing
  BY Sees DEF BeginRead, SaveOK
<1>3. SaveOK(s)'
  BY <1>1, <1>2 DEF SaveOK, Saving
<1>4. FoundOK(s)'
  BY <1>1 DEF FoundOK, Live
<1>5. \A n \in Names : Good(Current(s), n, Pinned(s)')
  <2>1. Pinned(s) = {}  BY <1>2 DEF Pinned
  <2>2. Pinned(s)' = {}  BY <1>1 DEF Pinned
  <2>. QED  BY <2>1, <2>2, Sees
<1>6. /\ pc' = [pc EXCEPT ![s] = pc'[s]] /\ pc'[s] \in Phases
      /\ ids' = [ids EXCEPT ![s] = ids'[s]] /\ ids'[s] \in SUBSET Recids
      /\ found' = [found EXCEPT ![s] = found'[s]] /\ found'[s] \in SUBSET Recids
      /\ newer' = [newer EXCEPT ![s] = newer'[s]] /\ newer'[s] \in SUBSET Recids
      /\ found'[s] \cap fresh = {}
  BY <1>1 DEF Phases
<1>7. UNCHANGED <<rows, own, lock, fresh, post>>  BY <1>1
<1>. QED  BY <1>3, <1>4, <1>5, <1>6, <1>7, LocalStep

LEMMA MissingStep ==
  ASSUME IInv, NEW s \in Sessions, NEW k \in Recids, UpdateMissing(s, k)
  PROVE  IInv'
<1>1. /\ UNCHANGED <<rows, own, lock, fresh, post>>
      /\ ids' = ids /\ found' = found /\ newer' = newer
      /\ pc' = [pc EXCEPT ![s] = IF pc[s] = "rrset" THEN "done" ELSE "read back"]
      /\ pc'[s] = IF pc[s] = "rrset" THEN "done" ELSE "read back"
  BY Shapes DEF UpdateMissing, Goto, request
<1>2. /\ pc[s] \in Saving /\ k \in ids[s] /\ own[s][k] = Untouched /\ rows[k] = Absent
  BY Sees, KeyParts DEF UpdateMissing, Saving
<1>3. SaveOK(s)'
  <2>1. post'[s] \in Records  BY <1>1, <1>2, Sees DEF SaveOK
  <2>2. pc'[s] \in {"done", "read back"} /\ ids'[s] # {}  BY <1>1, <1>2
  <2>. QED  BY <2>1, <2>2 DEF SaveOK, Saving
<1>4. FoundOK(s)'
  BY <1>1, Sees DEF FoundOK, Live
<1>5. ASSUME NEW n \in Names  PROVE Good(Current(s), n, Pinned(s)')
  <2>1. Good(Current(s), n, Pinned(s))  BY Sees
  <2>2. CASE pc[s] = "rrset"
    <3>1. Pinned(s) = {}  BY <2>2 DEF Pinned
    <3>2. pc'[s] = "done"  BY <1>1, <2>2
    <3>3. Pinned(s)' = {}  BY <3>2 DEF Pinned
    <3>. QED  BY <2>1, <3>1, <3>3
  <2>3. CASE pc[s] = "rrset affected" /\ SnapshotIsolation
    <3>1. k \notin newer[s]  BY <2>3 DEF UpdateMissing, Visible
    <3>2. k \notin found[s]  BY <1>2, <3>1, Sees DEF FoundOK, Live
    <3>3. Pinned(s) = {post[s].key} /\ Pinned(s)' = {post[s].key}
      BY <1>1, <1>2, <2>3, <3>2 DEF Pinned
    <3>. QED  BY <2>1, <3>3
  <2>4. CASE ~SnapshotIsolation
    BY <2>1, <2>4 DEF Good
  <2>. QED  BY <1>2, <2>2, <2>3, <2>4 DEF Saving
<1>6. /\ pc' = [pc EXCEPT ![s] = pc'[s]] /\ pc'[s] \in Phases
      /\ ids' = [ids EXCEPT ![s] = ids'[s]] /\ ids'[s] \in SUBSET Recids
      /\ found' = [found EXCEPT ![s] = found'[s]] /\ found'[s] \in SUBSET Recids
      /\ newer' = [newer EXCEPT ![s] = newer'[s]] /\ newer'[s] \in SUBSET Recids
  BY <1>1, Shapes DEF Phases
<1>7. found'[s] \cap fresh = {}  BY <1>1 DEF IInv, FreshOK
<1>8. UNCHANGED <<rows, own, lock, fresh, post>>  BY <1>1
<1>. QED  BY <1>3, <1>4, <1>5, <1>6, <1>7, <1>8, LocalStep

LEMMA ReadBackStep ==
  ASSUME IInv, NEW s \in Sessions, ReadBack(s)
  PROVE  IInv'
<1>1. /\ UNCHANGED <<rows, own, lock, fresh, post>>
      /\ ids' = ids /\ found' = found /\ newer' = newer
      /\ pc' = [pc EXCEPT ![s] = "done"] /\ pc'[s] = "done"
  BY Shapes DEF ReadBack, Goto, request
<1>2. SaveOK(s)'
  BY <1>1, Sees DEF SaveOK, Saving
<1>3. FoundOK(s)'
  BY <1>1, Sees DEF FoundOK, Live
<1>4. \A n \in Names : Good(Current(s), n, Pinned(s)')
  <2>1. Pinned(s) = {}  BY DEF Pinned, ReadBack
  <2>2. Pinned(s)' = {}  BY <1>1 DEF Pinned
  <2>. QED  BY <2>1, <2>2, Sees
<1>5. /\ pc' = [pc EXCEPT ![s] = pc'[s]] /\ pc'[s] \in Phases
      /\ ids' = [ids EXCEPT ![s] = ids'[s]] /\ ids'[s] \in SUBSET Recids
      /\ found' = [found EXCEPT ![s] = found'[s]] /\ found'[s] \in SUBSET Recids
      /\ newer' = [newer EXCEPT ![s] = newer'[s]] /\ newer'[s] \in SUBSET Recids
  BY <1>1, Shapes DEF Phases
<1>6. found'[s] \cap fresh = {}  BY <1>1 DEF IInv, FreshOK
<1>7. UNCHANGED <<rows, own, lock, fresh, post>>  BY <1>1
<1>. QED  BY <1>2, <1>3, <1>4, <1>5, <1>6, <1>7, LocalStep

\* Commit or rollback: s is idle and the rows of all are right.
LEMMA EndStep ==
  ASSUME IInv, NEW s \in Sessions, End(s), fresh' = fresh,
         Table(rows'), \A n \in Names : Good(rows', n, {}),
         \A k \in fresh : rows'[k] = Absent,
         newer' \in [Sessions -> SUBSET Recids],
         \A t \in Sessions \ {s} : Told(t) /\
           \A x \in Rows : rows'[x] # rows[x] => own[s][x] # Untouched /\ rows'[x] = own[s][x]
  PROVE  IInv'
<1>1. /\ lock' = [n \in Names |-> IF lock[n] = s THEN Nobody ELSE lock[n]]
      /\ own' = [own EXCEPT ![s] = Nothing] /\ own'[s] = Nothing
      /\ pc' = [pc EXCEPT ![s] = "idle"] /\ pc'[s] = "idle"
      /\ ids' = [ids EXCEPT ![s] = {}] /\ ids'[s] = {}
      /\ post' = [post EXCEPT ![s] = Absent]
      /\ found' = [found EXCEPT ![s] = {}] /\ found'[s] = {}
  BY Shapes DEF End, Goto
<1>2. Fine(s)'
  <2>1. \A x \in Rows : own'[s][x] = Untouched  BY <1>1 DEF Nothing
  <2>2. OwnsKeys(s)'  BY <2>1, KeyParts DEF OwnsKeys
  <2>3. \A k \in Recids : OwnsRecord(s, k)'  BY <2>1, KeyParts DEF OwnsRecord
  <2>4. SaveOK(s)'  BY <1>1 DEF SaveOK, Saving
  <2>5. FoundOK(s)'  BY <1>1 DEF FoundOK
  <2>6. Current(s)' = rows'
    <3>1. Current(s)' = [x \in Rows |-> rows'[x]]  BY <2>1 DEF Current
    <3>. QED  BY <3>1 DEF Table
  <2>7. Pinned(s)' = {}  BY <1>1 DEF Pinned
  <2>8. \A n \in Names : Good(Current(s)', n, Pinned(s)')  BY <2>6, <2>7
  <2>. QED  BY <2>2, <2>3, <2>4, <2>5, <2>8 DEF Fine
<1>3. ASSUME NEW t \in Sessions \ {s}  PROVE Fine(t)'
  <2>1. Kept(t)
    <3>1. /\ own'[t] = own[t] /\ pc'[t] = pc[t] /\ ids'[t] = ids[t]
          /\ post'[t] = post[t] /\ found'[t] = found[t]
      BY <1>1, Shapes
    <3>2. \A n \in Names : lock[n] = t => lock'[n] = t  BY <1>1
    <3>. QED  BY <3>1, <3>2 DEF Kept
  <2>2. Apart(t)
    <3>1. \A q \in Keys : rows'[q] # rows[q] => lock[q[1]] # t
      <4>1. \A q \in Keys : own[s][q] # Untouched => lock[q[1]] = s  BY Sees DEF OwnsKeys
      <4>. QED  BY <4>1, KeyParts
    <3>2. ASSUME NEW k \in Recids, rows'[k] # rows[k]
          PROVE  /\ own[t][k] = Untouched
                 /\ Live(rows, k) => lock[rows[k].key[1]] # t
                 /\ Live(rows', k) => lock[rows'[k].key[1]] # t
      <4>1. own[s][k] # Untouched /\ rows'[k] = own[s][k]  BY <3>2, KeyParts
      <4>. QED  BY <4>1, Sees DEF OwnsRecord, Live
    <3>3. \A u \in Sessions \ {t} : \A k \in Recids :
            own'[u][k] # Untouched => own[u][k] # Untouched
      BY <1>1, Shapes, KeyParts DEF Nothing
    <3>. QED  BY <3>1, <3>2, <3>3 DEF Apart
  <2>3. Told(t)  OBVIOUS
  <2>. QED  BY <2>1, <2>2, <2>3, Bystander
<1>4. FreshOK'
  <2> SUFFICES ASSUME NEW k \in fresh, NEW t \in Sessions
               PROVE  own'[t][k] = Untouched /\ k \notin found'[t]
    BY DEF FreshOK
  <2>1. k \in Recids /\ own[t][k] = Untouched /\ k \notin found[t]
    BY Shapes DEF IInv, FreshOK
  <2>. QED  BY <1>1, <2>1, Shapes, KeyParts DEF Nothing
<1>5. Typed'
  <2>1. /\ own' = [t \in Sessions |-> [x \in Rows |-> own'[t][x]]]
        /\ \A t \in Sessions : OwnTyped(own'[t])
    <3>1. ASSUME NEW t \in Sessions \ {s}  PROVE own'[t] = own[t]  BY <1>1, Shapes
    <3>2. OwnTyped(Nothing)  BY KeyParts DEF OwnTyped, Nothing
    <3>3. \A t \in Sessions : OwnTyped(own'[t])  BY <1>1, <3>1, <3>2, Shapes, OwnTypes
    <3>4. \A t \in Sessions : own'[t] = [x \in Rows |-> own'[t][x]]  BY <3>3 DEF OwnTyped
    <3>5. own' = [t \in Sessions |-> own'[t]]  BY <1>1, Shapes
    <3>. QED  BY <3>3, <3>4, <3>5
  <2>2. fresh' \subseteq Recids /\ lock' \in [Names -> Sessions \cup {Nobody}]  BY <1>1, Shapes
  <2>3. pc' \in [Sessions -> Phases]  BY <1>1, Shapes DEF Phases
  <2>4. /\ ids' \in [Sessions -> SUBSET Recids] /\ found' \in [Sessions -> SUBSET Recids]
        /\ post' \in [Sessions -> Records \cup {Absent}]
    BY <1>1, Shapes
  <2>. QED  BY <2>1, <2>2, <2>3, <2>4, TypedStep
<1>. QED  BY <1>2, <1>3, <1>4, <1>5, Whole

LEMMA CommitStep ==
  ASSUME IInv, NEW s \in Sessions, Commit(s)
  PROVE  IInv'
<1>1. rows' = Current(s) /\ End(s) /\ fresh' = fresh /\ pc[s] = "done"
  BY DEF Commit
<1>2. \A x \in Rows : rows'[x] = IF own[s][x] # Untouched THEN own[s][x] ELSE rows[x]
  BY <1>1, Sees
<1>3. Table(rows') /\ \A n \in Names : Good(rows', n, {})
  <2>1. Pinned(s) = {}  BY <1>1 DEF Pinned
  <2>. QED  BY <1>1, <2>1, Sees
<1>4. \A k \in fresh : rows'[k] = Absent
  BY <1>2, Shapes, KeyParts DEF IInv, FreshOK
<1>5. newer' = [t \in Sessions |->
                 IF t = s \/ ids[t] = {} THEN {}
                 ELSE newer[t] \cup {k \in Recids : own[s][k] # Untouched}]
  BY DEF Commit
<1>6. newer' \in [Sessions -> SUBSET Recids]
  BY <1>5, Shapes
<1>7. ASSUME NEW t \in Sessions \ {s}  PROVE Told(t)
  <2> SUFFICES ASSUME NEW k \in found[t]
               PROVE  /\ k \in newer[t] => k \in newer'[t]
                      /\ Live(rows, k) => Live(rows', k) \/ k \in newer'[t]
    BY DEF Told
  <2>1. ids[t] # {} /\ k \in Recids  BY Sees, Shapes DEF SaveOK
  <2>2. newer'[t] = newer[t] \cup {j \in Recids : own[s][j] # Untouched}  BY <1>5, <2>1
  <2>. QED  BY <1>2, <2>1, <2>2, KeyParts DEF Live
<1>. QED  BY <1>1, <1>2, <1>3, <1>4, <1>6, <1>7, EndStep

LEMMA FailStep ==
  ASSUME IInv, NEW s \in Sessions, Fail(s)
  PROVE  IInv'
<1>1. rows' = rows /\ End(s) /\ fresh' = fresh /\ newer' = [newer EXCEPT ![s] = {}]
  BY DEF Fail
<1>2. Table(rows') /\ \A n \in Names : Good(rows', n, {})
  BY <1>1, Shapes
<1>3. \A k \in fresh : rows'[k] = Absent
  BY <1>1 DEF IInv, FreshOK
<1>4. newer' \in [Sessions -> SUBSET Recids] /\ \A t \in Sessions \ {s} : newer'[t] = newer[t]
  BY <1>1, Shapes
<1>5. \A t \in Sessions \ {s} : Told(t)
  BY <1>1, <1>4 DEF Told
<1>. QED  BY <1>1, <1>2, <1>3, <1>4, <1>5, EndStep

\* An operator's statement with autocommit, at names nobody locks.
LEMMA ManualStep ==
  ASSUME IInv, UNCHANGED <<lock, pc, request, found, own>>, fresh' \subseteq fresh,
         Table(rows'), \A n \in Names : Good(rows', n, {}),
         \A k \in fresh' : rows'[k] = Absent,
         newer' \in [Sessions -> SUBSET Recids],
         \A q \in Keys : rows'[q] # rows[q] => lock[q[1]] = Nobody,
         \A k \in Recids : rows'[k] # rows[k] =>
           /\ k \in fresh \/ Live(rows, k)
           /\ Live(rows, k) => lock[rows[k].key[1]] = Nobody
           /\ Live(rows', k) /\ lock[rows'[k].key[1]] = Nobody,
         \A t \in Sessions : found[t] # {} => newer[t] \subseteq newer'[t]
  PROVE  IInv'
<1>1. /\ own' = own /\ lock' = lock /\ pc' = pc /\ ids' = ids /\ post' = post /\ found' = found
      /\ Nobody \notin Sessions
  BY RecordsAssumption DEF request
<1>2. ASSUME NEW t \in Sessions  PROVE Fine(t)'
  <2>1. Kept(t)  BY <1>1 DEF Kept
  <2>2. Apart(t)
    <3>1. \A k \in Recids : rows'[k] # rows[k] => own[t][k] = Untouched
      <4> SUFFICES ASSUME NEW k \in Recids, rows'[k] # rows[k], own[t][k] # Untouched
                   PROVE  FALSE
        OBVIOUS
      <4>1. k \notin fresh /\ (Live(rows, k) => lock[rows[k].key[1]] = t)
        BY Sees DEF OwnsRecord
      <4>. QED  BY <1>1, <4>1
    <3>. QED  BY <1>1, <3>1 DEF Apart
  <2>3. Told(t)
    <3>1. \A k \in found[t] : k \in Recids  BY Shapes
    <3>. QED  BY <3>1 DEF Told, Live
  <2>. QED  BY <2>1, <2>2, <2>3, Bystander
<1>3. FreshOK'
  BY <1>1, Shapes DEF IInv, FreshOK
<1>4. Typed'
  <2>1. \A t \in Sessions : OwnTyped(own'[t])  BY <1>1, Shapes, OwnTypes
  <2>2. own' = [t \in Sessions |-> [x \in Rows |-> own'[t][x]]]  BY <1>1, Shapes
  <2>3. /\ fresh' \subseteq Recids /\ lock' \in [Names -> Sessions \cup {Nobody}]
        /\ pc' \in [Sessions -> Phases] /\ ids' \in [Sessions -> SUBSET Recids]
        /\ post' \in [Sessions -> Records \cup {Absent}]
        /\ found' \in [Sessions -> SUBSET Recids]
    BY <1>1, Shapes
  <2>. QED  BY <2>1, <2>2, <2>3, TypedStep
<1>. QED  BY <1>2, <1>3, <1>4, Whole

\* What they change is free.
LEMMA ManualUpdateRows ==
  ASSUME IInv, NEW q \in Keys, NEW p \in Keys, ManualUpdate(q, p)
  PROVE  /\ Table(rows') /\ \A n \in Names : Good(rows', n, {})
         /\ \A x \in Keys : rows'[x] # rows[x] => lock[x[1]] = Nobody
         /\ \A k \in Recids : rows'[k] # rows[k] =>
              /\ Live(rows, k) /\ lock[rows[k].key[1]] = Nobody
              /\ Live(rows', k) /\ lock[rows'[k].key[1]] = Nobody
         /\ \A k \in Recids : Live(rows', k) <=> Live(rows, k)
<1> DEFINE d == Renamed(rows, q, p)
<1>1. /\ rows' = d
      /\ rows[q] = Present /\ rows[p] = Absent /\ p[2] \in ManualTypes \cup {q[2]}
      /\ lock[q[1]] = Nobody /\ lock[p[1]] = Nobody /\ Guard(rows, p, {q})
  BY DEF ManualUpdate, RenamePasses
<1>2. Table(rows) /\ \A n \in Names : Good(rows, n, {})
  BY Shapes
<1>3. /\ Table(d) /\ \A k \in Recids : Live(d, k) <=> Live(rows, k)
      /\ \A n \in Names : Good(d, n, {})
  BY <1>1, <1>2, RenamedGood
<1>4. /\ \A x \in Keys : x # q /\ x # p => d[x] = rows[x]
      /\ \A k \in Recids : d[k] = IF k \in Answers(rows, q) THEN [rows[k] EXCEPT !.key = p]
                                  ELSE rows[k]
  <2>1. \A x \in Keys : x \notin Answers(rows, q)  BY KeyParts DEF Answers
  <2>. QED  BY <2>1, KeyParts DEF Renamed
<1> HIDE DEF d
<1>5. \A x \in Keys : rows'[x] # rows[x] => lock[x[1]] = Nobody
  BY <1>1, <1>4
<1>6. ASSUME NEW k \in Recids, rows'[k] # rows[k]
      PROVE  /\ Live(rows, k) /\ lock[rows[k].key[1]] = Nobody
             /\ Live(rows', k) /\ lock[rows'[k].key[1]] = Nobody
  <2>1. rows[k] # Absent /\ rows[k].key = q /\ rows'[k] = [rows[k] EXCEPT !.key = p]
    BY <1>1, <1>4, <1>6 DEF Answers
  <2>2. rows[k] \in Records  BY <1>2, <2>1 DEF Table
  <2>3. rows'[k].key = p  BY <2>1, <2>2 DEF Records
  <2>. QED  BY <1>1, <1>3, <2>1, <2>3 DEF Live
<1>. QED  BY <1>1, <1>3, <1>5, <1>6

LEMMA ManualUpdateStep ==
  ASSUME IInv, NEW q \in Keys, NEW p \in Keys, ManualUpdate(q, p)
  PROVE  IInv'
<1>1. /\ fresh' = fresh /\ newer' = newer /\ UNCHANGED <<lock, pc, request, found, own>>
  BY DEF ManualUpdate
<1>2. /\ Table(rows') /\ \A n \in Names : Good(rows', n, {})
      /\ \A x \in Keys : rows'[x] # rows[x] => lock[x[1]] = Nobody
      /\ \A k \in Recids : rows'[k] # rows[k] =>
           /\ Live(rows, k) /\ lock[rows[k].key[1]] = Nobody
           /\ Live(rows', k) /\ lock[rows'[k].key[1]] = Nobody
      /\ \A k \in Recids : Live(rows', k) <=> Live(rows, k)
  BY ManualUpdateRows
<1>3. \A k \in fresh' : rows'[k] = Absent
  BY <1>1, <1>2, Shapes DEF IInv, FreshOK, Live
<1>4. newer' \in [Sessions -> SUBSET Recids] /\ fresh' \subseteq fresh
  BY <1>1, Shapes
<1>. QED  BY <1>1, <1>2, <1>3, <1>4, ManualStep

LEMMA ManualRecordRows ==
  ASSUME IInv, NEW k \in Recids, NEW r \in Records, ManualRecord(k, r)
  PROVE  /\ Table(rows') /\ \A n \in Names : Good(rows', n, {})
         /\ \A q \in Keys : rows'[q] # rows[q] => lock[q[1]] = Nobody
         /\ \A j \in Recids : rows'[j] # rows[j] =>
              /\ j \in fresh \/ Live(rows, j)
              /\ Live(rows, j) => lock[rows[j].key[1]] = Nobody
              /\ Live(rows', j) /\ lock[rows'[j].key[1]] = Nobody
         /\ rows'[k] = r /\ \A j \in Recids : j # k => rows'[j] = rows[j]
<1> DEFINE d == Written(rows, k, r)
<1>1. /\ rows' = d
      /\ k \in fresh \/ Live(rows, k)
      /\ rows[r.key] = Present /\ RecordPasses(rows, k, r)
      /\ lock[r.key[1]] = Nobody /\ (Live(rows, k) => lock[rows[k].key[1]] = Nobody)
  BY DEF ManualRecord, Live
<1>2. Table(rows) /\ \A n \in Names : Good(rows, n, {r.key})
  BY Shapes, PinMore
<1>3. /\ Table(d) /\ d[k] = r
      /\ \A j \in Recids : j # k => d[j] = rows[j]
      /\ d[r.key] = rows[r.key]
      /\ \A q \in Keys : q # r.key => d[q] = IF Answers(rows, q) = {k} THEN Absent ELSE rows[q]
  BY <1>2, WrittenRows
<1>4. \A n \in Names : Good(d, n, {})
  BY <1>1, <1>2, WrittenGood
<1> HIDE DEF d
<1>5. \A q \in Keys : rows'[q] # rows[q] => lock[q[1]] = Nobody
  <2> SUFFICES ASSUME NEW q \in Keys, d[q] # rows[q]  PROVE lock[q[1]] = Nobody
    BY <1>1
  <2>1. k \in Answers(rows, q)  BY <1>3
  <2>. QED  BY <1>1, <2>1 DEF Answers, Live
<1>6. \A j \in Recids : rows'[j] # rows[j] =>
        /\ j \in fresh \/ Live(rows, j)
        /\ Live(rows, j) => lock[rows[j].key[1]] = Nobody
        /\ Live(rows', j) /\ lock[rows'[j].key[1]] = Nobody
  BY <1>1, <1>3, KeyParts DEF Live
<1>. QED  BY <1>1, <1>3, <1>4, <1>5, <1>6

LEMMA ManualRecordStep ==
  ASSUME IInv, NEW k \in Recids, NEW r \in Records, ManualRecord(k, r)
  PROVE  IInv'
<1>1. /\ fresh' = fresh \ {k} /\ UNCHANGED <<lock, pc, request, found, own>>
  BY DEF ManualRecord
<1>2. /\ Table(rows') /\ \A n \in Names : Good(rows', n, {})
      /\ \A q \in Keys : rows'[q] # rows[q] => lock[q[1]] = Nobody
      /\ \A j \in Recids : rows'[j] # rows[j] =>
           /\ j \in fresh \/ Live(rows, j)
           /\ Live(rows, j) => lock[rows[j].key[1]] = Nobody
           /\ Live(rows', j) /\ lock[rows'[j].key[1]] = Nobody
      /\ rows'[k] = r /\ \A j \in Recids : j # k => rows'[j] = rows[j]
  BY ManualRecordRows
<1>3. \A j \in fresh' : rows'[j] = Absent
  BY <1>1, <1>2, Shapes DEF IInv, FreshOK
<1>4. newer' = [t \in Sessions |-> IF ids[t] = {} THEN {} ELSE newer[t] \cup {k}]
  BY DEF ManualRecord
<1>5. newer' \in [Sessions -> SUBSET Recids]
  BY <1>4, Shapes
<1>6. \A t \in Sessions : found[t] # {} => newer[t] \subseteq newer'[t]
  BY <1>4, Sees DEF SaveOK
<1>7. fresh' \subseteq fresh  BY <1>1
<1>. QED  BY <1>1, <1>2, <1>3, <1>5, <1>6, <1>7, ManualStep

LEMMA Start == Init => IInv
<1> SUFFICES ASSUME Init  PROVE IInv
  OBVIOUS
<1>1. Table(rows) /\ \A x \in Rows : rows[x] = Absent
  BY KeyParts DEF Init, Table
<1>2. own = [t \in Sessions |-> [x \in Rows |-> own[t][x]]]
      /\ \A t \in Sessions : own[t] = Nothing /\ \A x \in Rows : own[t][x] = Untouched
  BY DEF Init, Nothing
<1>3. \A n \in Names : Good(rows, n, {})
  BY <1>1, KeyParts DEF Good, Held, Alone, Single, Used, Live
<1>4. ASSUME NEW t \in Sessions
      PROVE  Current(t) = rows /\ Pinned(t) = {} /\ SaveOK(t) /\ FoundOK(t)
  <2>1. Current(t) = rows  BY <1>1, <1>2 DEF Current, Table
  <2>2. pc[t] = "idle" /\ ids[t] = {} /\ found[t] = {}  BY DEF Init
  <2>. QED  BY <1>2, <2>1, <2>2 DEF Pinned, SaveOK, FoundOK, Saving
<1>5. Owns
  BY <1>2, KeyParts DEF Owns, OwnsKeys, OwnsRecord
<1>6. FreshOK
  BY <1>1, <1>2, KeyParts DEF FreshOK, Init
<1>7. TypeOK
  <2>1. \A x \in Rows : rows[x] \in States(x)  BY <1>1 DEF States
  <2>2. \A t \in Sessions, x \in Rows : own[t][x] \in States(x) \cup {Untouched}  BY <1>2
  <2>. QED  BY <2>1, <2>2 DEF TypeOK, Init
<1>8. Typed  BY <1>1, <1>2, <1>7 DEF Typed
<1>. QED  BY <1>3, <1>4, <1>5, <1>6, <1>8 DEF IInv

LEMMA Step == IInv /\ [Next]_vars => IInv'
<1> SUFFICES ASSUME IInv, [Next]_vars  PROVE IInv'
  OBVIOUS
<1>1. ASSUME NEW s \in Sessions, Session(s)  PROVE IInv'
  <2>1. ASSUME NEW k \in Recids \ fresh, BeginRead(s, "save", {k})  PROVE IInv'
    <3>1. {k} \in SUBSET (Recids \ fresh) /\ {k} # {}  OBVIOUS
    <3>. QED  BY <2>1, <3>1, BeginStep
  <2>2. ASSUME NEW K \in SUBSET (Recids \ fresh), K # {}, BeginRead(s, "delete", K)  PROVE IInv'
    BY <2>2, BeginStep
  <2>3. ASSUME NEW r \in Records, UpsertRrset(s, r)  PROVE IInv'
    BY <2>3, UpsertStep
  <2>4. CASE InsertRecord(s)  BY <2>4, InsertStep
  <2>5. ASSUME NEW k \in Recids, UpdateRecord(s, k)  PROVE IInv'  BY <2>5, UpdateStep
  <2>6. ASSUME NEW k \in Recids, UpdateMissing(s, k)  PROVE IInv'  BY <2>6, MissingStep
  <2>7. CASE ReadBack(s)  BY <2>7, ReadBackStep
  <2>8. CASE DeleteRecords(s)  BY <2>8, DeleteStep
  <2>9. CASE Commit(s)  BY <2>9, CommitStep
  <2>10. CASE Fail(s)  BY <2>10, FailStep
  <2>. QED
    BY <1>1, <2>1, <2>2, <2>3, <2>4, <2>5, <2>6, <2>7, <2>8, <2>9, <2>10 DEF Session
<1>2. ASSUME NEW q \in Keys, NEW p \in Keys, ManualUpdate(q, p)  PROVE IInv'
  BY <1>2, ManualUpdateStep
<1>3. ASSUME NEW k \in Recids, NEW r \in Records, ManualRecord(k, r)  PROVE IInv'
  BY <1>3, ManualRecordStep
<1>4. CASE UNCHANGED vars
  <2>1. /\ rows' = rows /\ fresh' = fresh /\ lock' = lock /\ pc' = pc /\ ids' = ids
        /\ post' = post /\ found' = found /\ newer' = newer /\ own' = own
    BY <1>4 DEF vars
  <2>2. Typed'  BY <2>1 DEF IInv, Typed, TypeOK
  <2>3. FreshOK'  BY <2>1 DEF IInv, FreshOK
  <2>4. \A t \in Sessions : Fine(t)'
    <3> SUFFICES ASSUME NEW t \in Sessions  PROVE Fine(t)'
      OBVIOUS
    <3>1. Kept(t) /\ Apart(t) /\ Told(t)  BY <2>1 DEF Kept, Apart, Told
    <3>. QED  BY <2>1, <3>1, Shapes, Bystander
  <2>. QED  BY <2>1, <2>2, <2>3, <2>4, Shapes, Whole
<1>. QED  BY <1>1, <1>2, <1>3, <1>4 DEF Next

-----------------------------------------------------------------------------
(* What the operators look at: the rows of the names they concern. *)

\* The rows after a whole save.
After(d, k, r) == Written(Upserted(d, r.key), k, r)
MaySave(d, k, r) == UpsertPasses(d, r.key) /\ RecordPasses(Upserted(d, r.key), k, r)

LEMMA UpsertedRows ==
  ASSUME NEW d, NEW q \in Keys, Table(d)
  PROVE  /\ Table(Upserted(d, q))
         /\ Upserted(d, q)[q] = Present
         /\ \A x \in Rows : x # q => Upserted(d, q)[x] = d[x]
         /\ \A p \in Keys : Answers(Upserted(d, q), p) = Answers(d, p)
<1> DEFINE e == Upserted(d, q)
<1>1. e = [x \in Rows |-> e[x]] /\ e[q] = Present /\ \A x \in Rows : x # q => e[x] = d[x]
  BY KeyParts DEF Table, Upserted
<1> HIDE DEF e
<1>2. Table(e)  BY <1>1, KeyParts DEF Table
<1>3. \A k \in Recids : e[k] = d[k]  BY <1>1, KeyParts
<1>4. \A p \in Keys : Answers(e, p) = Answers(d, p)  BY <1>3 DEF Answers
<1>. QED  BY <1>1, <1>2, <1>4 DEF e

LEMMA AfterRows ==
  ASSUME NEW d, NEW k \in Recids, NEW r \in Records, Table(d)
  PROVE  LET e == After(d, k, r)
         IN /\ Table(e) /\ e[k] = r
            /\ \A j \in Recids : j # k => e[j] = d[j]
            /\ e[r.key] = Present
            /\ \A q \in Keys : q # r.key => e[q] = IF Answers(d, q) = {k} THEN Absent ELSE d[q]
<1> DEFINE u == Upserted(d, r.key)
           e == Written(u, k, r)
<1>1. r.key \in Keys  BY KeyParts
<1>2. /\ Table(u) /\ u[r.key] = Present /\ \A x \in Rows : x # r.key => u[x] = d[x]
      /\ \A p \in Keys : Answers(u, p) = Answers(d, p)
  BY <1>1, UpsertedRows
<1> HIDE DEF u
<1>3. /\ Table(e) /\ e[k] = r
      /\ \A j \in Recids : j # k => e[j] = u[j]
      /\ e[r.key] = u[r.key]
      /\ \A q \in Keys : q # r.key => e[q] = IF Answers(u, q) = {k} THEN Absent ELSE u[q]
  BY <1>2, WrittenRows
<1>4. \A j \in Recids : u[j] = d[j]  BY <1>1, <1>2, KeyParts
<1>5. \A q \in Keys : q # r.key => u[q] = d[q] /\ Answers(u, q) = Answers(d, q)  BY <1>2, KeyParts
<1> HIDE DEF e
<1>6. /\ Table(e) /\ e[k] = r
      /\ \A j \in Recids : j # k => e[j] = d[j]
      /\ e[r.key] = Present
      /\ \A q \in Keys : q # r.key => e[q] = IF Answers(d, q) = {k} THEN Absent ELSE d[q]
  BY <1>2, <1>3, <1>4, <1>5
<1>. QED  BY <1>6 DEF e, u, After

LEMMA SameAnswers ==
  ASSUME NEW d, NEW e, NEW q \in Keys, Same(d, e, q[1])
  PROVE  /\ Answers(d, q) = Answers(e, q)
         /\ \A k \in Answers(d, q) : d[k] = e[k]
BY DEF Same, Answers, Live

LEMMA SameGuard ==
  ASSUME NEW d, NEW e, NEW q \in Keys, Same(d, e, q[1]), NEW self \in SUBSET {q},
         Guard(d, q, self)
  PROVE  Guard(e, q, self)
<1>1. {p \in Keys \ self : d[p] = Present /\ p[1] = q[1]}
        = {p \in Keys \ self : e[p] = Present /\ p[1] = q[1]}
  BY DEF Same
<1>2. Answers(d, q) = Answers(e, q)  BY SameAnswers
<1>. QED  BY <1>1, <1>2 DEF Guard

LEMMA SameUpsert ==
  ASSUME NEW d, NEW e, NEW q \in Keys, Same(d, e, q[1]), UpsertPasses(d, q)
  PROVE  UpsertPasses(e, q)
<1>1. d[q] = e[q]  BY DEF Same
<1>2. {} \in SUBSET {q} /\ {q} \in SUBSET {q}  OBVIOUS
<1>3. Guard(d, q, {}) /\ (d[q] = Present => Guard(d, q, {q}))  BY DEF UpsertPasses
<1>4. Guard(e, q, {})  BY <1>2, <1>3, SameGuard
<1>5. ASSUME d[q] = Present  PROVE Guard(e, q, {q})  BY <1>2, <1>3, <1>5, SameGuard
<1>. QED  BY <1>1, <1>4, <1>5 DEF UpsertPasses

LEMMA SameSave ==
  ASSUME NEW d, NEW e, NEW k \in Recids, NEW r \in Records, Table(d), Table(e),
         Same(d, e, r.key[1]), d[k] = e[k], MaySave(d, k, r)
  PROVE  MaySave(e, k, r)
<1>1. r.key \in Keys  BY KeyParts
<1>2. UpsertPasses(e, r.key)  BY <1>1, SameUpsert DEF MaySave
<1>3. Answers(d, r.key) = Answers(e, r.key) /\ \A j \in Answers(d, r.key) : d[j] = e[j]
  BY <1>1, SameAnswers
<1> DEFINE u == Upserted(d, r.key)
           v == Upserted(e, r.key)
<1>4. /\ \A j \in Recids : u[j] = d[j] /\ v[j] = e[j]
      /\ Answers(u, r.key) = Answers(d, r.key) /\ Answers(v, r.key) = Answers(e, r.key)
  BY <1>1, UpsertedRows, KeyParts
<1>5. RecordPasses(u, k, r)  BY DEF MaySave
<1> HIDE DEF u, v
<1>6. \A j \in Answers(d, r.key) : j \in Recids  BY DEF Answers
<1>7. RecordPasses(v, k, r)  BY <1>3, <1>4, <1>5, <1>6 DEF RecordPasses
<1>. QED  BY <1>2, <1>7 DEF MaySave, v

-----------------------------------------------------------------------------
(* What a transaction wrote stays a whole request while others commit. *)

\* The rows become new, but not at the names L, where o was written.
Aside(rw, new, o, L) ==
  /\ Table(rw) /\ Table(new) /\ OwnTyped(o)
  /\ \A q \in Keys : q[1] \in L => new[q] = rw[q]
  /\ \A q \in Keys : o[q] # Untouched => q[1] \in L
  /\ \A k \in Recids : new[k] # rw[k] =>
       /\ o[k] = Untouched
       /\ Live(rw, k) => rw[k].key[1] \notin L
       /\ Live(new, k) => new[k].key[1] \notin L

\* The request that wrote o under the locks at L is a save.
SaveOf(rw, o, L, k, r) ==
  /\ r.key[1] \in L
  /\ Live(rw, k) => rw[k].key[1] \in L
  /\ Live(rw, k) \/ o[k] \in Records
  /\ MaySave(rw, k, r)
  /\ Combine(rw, o) = After(rw, k, r)

\* It is a delete.
DeleteOf(rw, o, L, K) ==
  /\ \A k \in K : Live(rw, k) /\ rw[k].key[1] \in L
  /\ Combine(rw, o) = Deleted(rw, K)

\* It is the first statement of a save.
UpsertOf(rw, o, L, q) ==
  /\ q[1] \in L
  /\ UpsertPasses(rw, q)
  /\ Combine(rw, o) = Upserted(rw, q)

LEMMA AsideSame ==
  ASSUME NEW rw, NEW new, NEW o, NEW L, Aside(rw, new, o, L)
  PROVE  /\ \A n \in L : Same(rw, new, n)
         /\ \A x \in Rows : Combine(rw, o)[x] = IF o[x] # Untouched THEN o[x] ELSE rw[x]
         /\ \A x \in Rows : Combine(new, o)[x] = IF o[x] # Untouched THEN o[x] ELSE new[x]
         /\ Table(Combine(new, o)) /\ Table(rw) /\ Table(new)
<1>1. \A n \in L : Same(rw, new, n)  BY DEF Aside, Same
<1>2. Table(rw) /\ Table(new) /\ OwnTyped(o)  BY DEF Aside
<1>. QED  BY <1>1, <1>2, CombineTable

LEMMA SameRows ==
  ASSUME NEW d, NEW e, Table(d), Table(e), \A q \in Keys : d[q] = e[q], \A k \in Recids : d[k] = e[k]
  PROVE  d = e
<1>1. \A x \in Rows : d[x] = e[x]  BY DEF Rows
<1>. QED  BY <1>1 DEF Table

LEMMA UpsertMoved ==
  ASSUME NEW rw, NEW new, NEW o, NEW L, Aside(rw, new, o, L), NEW q \in Keys, UpsertOf(rw, o, L, q)
  PROVE  UpsertOf(new, o, L, q)
<1> DEFINE c == Combine(rw, o)
           e == Combine(new, o)
           u == Upserted(rw, q)
           v == Upserted(new, q)
<1>1. /\ Same(rw, new, q[1]) /\ Table(e) /\ Table(rw) /\ Table(new) /\ q[1] \in L
      /\ \A x \in Rows : c[x] = IF o[x] # Untouched THEN o[x] ELSE rw[x]
      /\ \A x \in Rows : e[x] = IF o[x] # Untouched THEN o[x] ELSE new[x]
  BY AsideSame DEF UpsertOf
<1>2. UpsertPasses(new, q)  BY <1>1, SameUpsert DEF UpsertOf
<1>3. /\ u[q] = Present /\ \A x \in Rows : x # q => u[x] = rw[x]
      /\ v[q] = Present /\ \A x \in Rows : x # q => v[x] = new[x]
      /\ Table(v)
  BY <1>1, UpsertedRows
<1>4. c = u  BY DEF UpsertOf
<1> HIDE DEF c, e, u, v
<1>5. ASSUME NEW p \in Keys  PROVE e[p] = v[p]
  <2>1. p \in Rows /\ q \in Rows  BY KeyParts
  <2>2. CASE p[1] \in L
    <3>1. new[p] = rw[p]  BY <2>2 DEF Aside
    <3>. QED  BY <1>1, <1>3, <1>4, <2>1, <3>1
  <2>3. CASE p[1] \notin L
    <3>1. o[p] = Untouched /\ p # q  BY <1>1, <2>3 DEF Aside
    <3>. QED  BY <1>1, <1>3, <2>1, <3>1
  <2>. QED  BY <2>2, <2>3
<1>6. ASSUME NEW k \in Recids  PROVE e[k] = v[k]
  <2>1. k \in Rows /\ k # q  BY KeyParts
  <2>2. CASE o[k] = Untouched  BY <1>1, <1>3, <2>1, <2>2
  <2>3. CASE o[k] # Untouched
    <3>1. new[k] = rw[k]  BY <2>3 DEF Aside
    <3>. QED  BY <1>1, <1>3, <1>4, <2>1, <2>3, <3>1
  <2>. QED  BY <2>2, <2>3
<1>7. e = v  BY <1>1, <1>3, <1>5, <1>6, SameRows
<1>. QED  BY <1>1, <1>2, <1>7 DEF UpsertOf, e, v

LEMMA SaveMoved ==
  ASSUME NEW rw, NEW new, NEW o, NEW L, Aside(rw, new, o, L),
         NEW k \in Recids, NEW r \in Records, SaveOf(rw, o, L, k, r)
  PROVE  SaveOf(new, o, L, k, r)
<1> DEFINE c == Combine(rw, o)
           e == Combine(new, o)
           u == After(rw, k, r)
           v == After(new, k, r)
<1>1. /\ \A n \in L : Same(rw, new, n)
      /\ Table(e) /\ Table(rw) /\ Table(new) /\ r.key[1] \in L /\ r.key \in Keys
      /\ \A x \in Rows : c[x] = IF o[x] # Untouched THEN o[x] ELSE rw[x]
      /\ \A x \in Rows : e[x] = IF o[x] # Untouched THEN o[x] ELSE new[x]
  BY AsideSame, KeyParts DEF SaveOf
<1>2. /\ u[k] = r /\ \A j \in Recids : j # k => u[j] = rw[j]
      /\ u[r.key] = Present
      /\ \A q \in Keys : q # r.key => u[q] = IF Answers(rw, q) = {k} THEN Absent ELSE rw[q]
  BY <1>1, AfterRows
<1>3. /\ v[k] = r /\ \A j \in Recids : j # k => v[j] = new[j]
      /\ v[r.key] = Present
      /\ \A q \in Keys : q # r.key => v[q] = IF Answers(new, q) = {k} THEN Absent ELSE new[q]
      /\ Table(v)
  BY <1>1, AfterRows
<1>4. c = u  BY DEF SaveOf
<1> HIDE DEF c, e, u, v
<1>5. new[k] = rw[k]
  <2>1. CASE Live(rw, k)  BY <2>1 DEF Aside, SaveOf
  <2>2. CASE o[k] \in Records  BY <2>2, KeyParts DEF Aside
  <2>. QED  BY <2>1, <2>2 DEF SaveOf
<1>6. MaySave(new, k, r)
  <2>1. Same(rw, new, r.key[1])  BY <1>1
  <2>2. MaySave(rw, k, r)  BY DEF SaveOf
  <2>3. rw[k] = new[k]  BY <1>5
  <2>. QED  BY <1>1, <2>1, <2>2, <2>3, SameSave
<1>7. ASSUME NEW p \in Keys  PROVE e[p] = v[p]
  <2>1. p \in Rows  BY KeyParts
  <2>2. CASE p[1] \in L
    <3>1. new[p] = rw[p]  BY <2>2 DEF Aside
    <3>2. Answers(new, p) = Answers(rw, p)
      <4>1. Same(rw, new, p[1])  BY <1>1, <2>2
      <4>. QED  BY <4>1, SameAnswers
    <3>3. u[p] = v[p]
      <4>1. CASE p = r.key  BY <1>2, <1>3, <4>1
      <4>2. CASE p # r.key  BY <1>2, <1>3, <3>1, <3>2, <4>2
      <4>. QED  BY <4>1, <4>2
    <3>4. e[p] = c[p]  BY <1>1, <2>1, <3>1
    <3>. QED  BY <1>4, <3>3, <3>4
  <2>3. CASE p[1] \notin L
    <3>1. o[p] = Untouched /\ p # r.key  BY <1>1, <2>3 DEF Aside
    <3>2. Answers(new, p) # {k}
      BY <1>5, <2>3 DEF SaveOf, Answers, Live
    <3>. QED  BY <1>1, <1>3, <2>1, <3>1, <3>2
  <2>. QED  BY <2>2, <2>3
<1>8. ASSUME NEW j \in Recids  PROVE e[j] = v[j]
  <2>1. j \in Rows  BY KeyParts
  <2>2. CASE o[j] = Untouched /\ j # k  BY <1>1, <1>3, <2>1, <2>2
  <2>3. CASE o[j] # Untouched \/ j = k
    <3>1. new[j] = rw[j]  BY <1>5, <2>3 DEF Aside
    <3>2. e[j] = c[j]  BY <1>1, <2>1, <3>1
    <3>. QED  BY <1>2, <1>3, <1>4, <3>1, <3>2
  <2>. QED  BY <2>2, <2>3
<1>9. e = v  BY <1>1, <1>3, <1>7, <1>8, SameRows
<1>. QED  BY <1>5, <1>6, <1>9 DEF SaveOf, Live, e, v

LEMMA DeleteMoved ==
  ASSUME NEW rw, NEW new, NEW o, NEW L, Aside(rw, new, o, L),
         NEW K \in SUBSET Recids, DeleteOf(rw, o, L, K)
  PROVE  DeleteOf(new, o, L, K)
<1> DEFINE c == Combine(rw, o)
           e == Combine(new, o)
           u == Deleted(rw, K)
           v == Deleted(new, K)
<1>1. /\ \A n \in L : Same(rw, new, n)
      /\ Table(e) /\ Table(rw) /\ Table(new)
      /\ \A x \in Rows : c[x] = IF o[x] # Untouched THEN o[x] ELSE rw[x]
      /\ \A x \in Rows : e[x] = IF o[x] # Untouched THEN o[x] ELSE new[x]
  BY AsideSame
<1>2. /\ \A j \in Recids : u[j] = IF j \in K THEN Absent ELSE rw[j]
      /\ \A q \in Keys : u[q] = IF Answers(rw, q) # {} /\ Answers(rw, q) \subseteq K
                                THEN Absent ELSE rw[q]
  BY <1>1, DeletedRows
<1>3. /\ Table(v)
      /\ \A j \in Recids : v[j] = IF j \in K THEN Absent ELSE new[j]
      /\ \A q \in Keys : v[q] = IF Answers(new, q) # {} /\ Answers(new, q) \subseteq K
                                THEN Absent ELSE new[q]
  BY <1>1, DeletedRows
<1>4. c = u  BY DEF DeleteOf
<1> HIDE DEF c, e, u, v
<1>5. \A k \in K : new[k] = rw[k] /\ Live(new, k) /\ new[k].key[1] \in L
  BY DEF Aside, DeleteOf, Live
<1>6. ASSUME NEW p \in Keys  PROVE e[p] = v[p]
  <2>1. p \in Rows  BY KeyParts
  <2>2. CASE p[1] \in L
    <3>1. new[p] = rw[p]  BY <2>2 DEF Aside
    <3>2. Answers(new, p) = Answers(rw, p)
      <4>1. Same(rw, new, p[1])  BY <1>1, <2>2
      <4>. QED  BY <4>1, SameAnswers
    <3>3. u[p] = v[p]  BY <1>2, <1>3, <3>1, <3>2
    <3>4. e[p] = c[p]  BY <1>1, <2>1, <3>1
    <3>. QED  BY <1>4, <3>3, <3>4
  <2>3. CASE p[1] \notin L
    <3>1. o[p] = Untouched  BY <2>3 DEF Aside
    <3>2. ~(Answers(new, p) # {} /\ Answers(new, p) \subseteq K)
      BY <1>5, <2>3 DEF Answers
    <3>. QED  BY <1>1, <1>3, <2>1, <3>1, <3>2
  <2>. QED  BY <2>2, <2>3
<1>7. ASSUME NEW j \in Recids  PROVE e[j] = v[j]
  <2>1. j \in Rows  BY KeyParts
  <2>2. CASE o[j] = Untouched /\ j \notin K  BY <1>1, <1>3, <2>1, <2>2
  <2>3. CASE o[j] # Untouched \/ j \in K
    <3>1. new[j] = rw[j]  BY <1>5, <2>3 DEF Aside
    <3>2. e[j] = c[j]  BY <1>1, <2>1, <3>1
    <3>. QED  BY <1>2, <1>3, <1>4, <3>1, <3>2
  <2>. QED  BY <2>2, <2>3
<1>8. e = v  BY <1>1, <1>3, <1>6, <1>7, SameRows
<1>. QED  BY <1>5, <1>8 DEF DeleteOf, e, v

-----------------------------------------------------------------------------
(* The invariant: what a transaction has written by now is the request it  *)
(* carries out, on the committed rows of now.                              *)

HeldBy(s) == {n \in Names : lock[n] = s}

\* A save that misses its record, to be rolled back.
Stuck(s) == pc[s] = "read back" /\ \E k \in ids[s] : k \notin found[s] /\ own[s][k] = Untouched

Complete(s) ==
  \/ own[s] = Nothing
  \/ \E k \in Recids, r \in Records : SaveOf(rows, own[s], HeldBy(s), k, r)
  \/ \E K \in SUBSET Recids : DeleteOf(rows, own[s], HeldBy(s), K)

Acts(s) ==
  /\ pc[s] \in {"delete", "rrset"} => own[s] = Nothing
  /\ pc[s] \in Saving => UpsertOf(rows, own[s], HeldBy(s), post[s].key)
  /\ pc[s] \in {"read back", "done"} => Complete(s) \/ Stuck(s)

ActsInv == IInv /\ \A s \in Sessions : Acts(s)

\* The step changes no row that t locked or wrote.
NotHere(t) ==
  /\ \A q \in Keys : rows'[q] # rows[q] => lock[q[1]] # t
  /\ \A k \in Recids : rows'[k] # rows[k] =>
       /\ own[t][k] = Untouched
       /\ Live(rows, k) => lock[rows[k].key[1]] # t
       /\ Live(rows', k) => lock[rows'[k].key[1]] # t

LEMMA ActsKept ==
  ASSUME IInv, NEW t \in Sessions, Acts(t), Kept(t), NotHere(t), Table(rows')
  PROVE  Acts(t)'
<1> DEFINE o == own[t]
           L == HeldBy(t)
           M == HeldBy(t)'
<1>1. L \subseteq M  BY DEF HeldBy, Kept
<1>2. Aside(rows, rows', o, L)
  <2>1. Table(rows) /\ OwnTyped(o)  BY Shapes, OwnTypes
  <2>2. \A q \in Keys : o[q] # Untouched => q[1] \in L
    BY Sees, KeyParts DEF OwnsKeys, HeldBy
  <2>3. \A n \in L : lock[n] = t  BY DEF HeldBy
  <2> HIDE DEF o, L
  <2>. QED  BY <2>1, <2>2, <2>3 DEF Aside, NotHere, o
<1>3. own'[t] = o /\ pc'[t] = pc[t] /\ post'[t] = post[t] /\ ids'[t] = ids[t] /\ found'[t] = found[t]
  BY DEF Kept
<1> HIDE DEF o, L, M
<1>4. ASSUME pc[t] \in Saving  PROVE UpsertOf(rows', o, M, post[t].key)
  <2>1. UpsertOf(rows, o, L, post[t].key)  BY <1>4 DEF Acts, o, L
  <2>2. post[t].key \in Keys  BY <1>4, Sees, KeyParts DEF SaveOK
  <2>3. UpsertOf(rows', o, L, post[t].key)  BY <1>2, <2>1, <2>2, UpsertMoved
  <2>. QED  BY <1>1, <2>3 DEF UpsertOf
<1>5. ASSUME NEW k \in Recids, NEW r \in Records, SaveOf(rows, o, L, k, r)
      PROVE  SaveOf(rows', o, M, k, r)
  <2>1. SaveOf(rows', o, L, k, r)  BY <1>2, <1>5, SaveMoved
  <2>. QED  BY <1>1, <2>1 DEF SaveOf
<1>6. ASSUME NEW K \in SUBSET Recids, DeleteOf(rows, o, L, K)
      PROVE  DeleteOf(rows', o, M, K)
  <2>1. DeleteOf(rows', o, L, K)  BY <1>2, <1>6, DeleteMoved
  <2>. QED  BY <1>1, <2>1 DEF DeleteOf
<1>7. Complete(t) => Complete(t)'
  <2>1. CASE own[t] = Nothing  BY <1>3, <2>1 DEF Complete, o
  <2>2. ASSUME NEW k \in Recids, NEW r \in Records, SaveOf(rows, o, L, k, r)
        PROVE  Complete(t)'
    <3>1. SaveOf(rows', own'[t], M, k, r)  BY <1>3, <1>5, <2>2
    <3>. QED  BY <3>1 DEF Complete, M
  <2>3. ASSUME NEW K \in SUBSET Recids, DeleteOf(rows, o, L, K)
        PROVE  Complete(t)'
    <3>1. DeleteOf(rows', own'[t], M, K)  BY <1>3, <1>6, <2>3
    <3>. QED  BY <3>1 DEF Complete, M
  <2>. QED  BY <2>1, <2>2, <2>3 DEF Complete, o, L
<1>8. Stuck(t) => Stuck(t)'  BY <1>3 DEF Stuck, o
<1>9. pc[t] \in Saving => UpsertOf(rows', own'[t], M, post'[t].key)  BY <1>3, <1>4
<1>. QED  BY <1>3, <1>7, <1>8, <1>9 DEF Acts, M, o

\* A step of s that leaves the committed rows alone.
LEMMA ActsOthers ==
  ASSUME ActsInv, NEW s \in Sessions, rows' = rows,
         \A t \in Sessions \ {s} : Kept(t)
  PROVE  \A t \in Sessions \ {s} : Acts(t)'
<1> SUFFICES ASSUME NEW t \in Sessions \ {s}  PROVE Acts(t)'
  OBVIOUS
<1>1. NotHere(t)  BY DEF NotHere
<1>. QED  BY <1>1, Shapes, ActsKept DEF ActsInv

\* What a transaction wrote once it turned c into d.
Rewritten(o, c, d) == [x \in Rows |-> IF d[x] # c[x] THEN d[x] ELSE o[x]]

\* A statement of s leaves the others alone.
LEMMA StatementKept ==
  ASSUME IInv, NEW s \in Sessions, NEW N, NEW d, Table(d), Statement(s, N, d), rows' = rows,
         found' = found, pc' = [pc EXCEPT ![s] = pc'[s]],
         ids' = [ids EXCEPT ![s] = ids'[s]], post' = [post EXCEPT ![s] = post'[s]]
  PROVE  /\ \A t \in Sessions \ {s} : Kept(t)
         /\ \A n \in N \cap Names : n \in HeldBy(s)'
         /\ HeldBy(s) \subseteq HeldBy(s)'
         /\ Combine(rows', own'[s]) = d
         /\ own'[s] = Rewritten(own[s], Current(s), d)
<1>1. /\ own' = [t \in Sessions |-> [x \in Rows |-> own'[t][x]]]
      /\ \A t \in Sessions \ {s} : own'[t] = own[t]
      /\ \A x \in Rows : own'[s][x] = IF d[x] # Current(s)[x] THEN d[x] ELSE own[s][x]
      /\ lock' = [n \in Names |-> IF n \in N THEN s ELSE lock[n]]
      /\ \A n \in N : lock[n] \in {Nobody, s}
      /\ Current(s)' = d
  BY Shapes, Effect
<1>2. ASSUME NEW t \in Sessions \ {s}  PROVE Kept(t)
  <2>1. \A n \in Names : lock[n] = t => lock'[n] = t  BY <1>1, RecordsAssumption
  <2>2. pc'[t] = pc[t] /\ ids'[t] = ids[t] /\ post'[t] = post[t]  BY Shapes
  <2>. QED  BY <1>1, <2>1, <2>2 DEF Kept
<1>3. Combine(rows', own'[s]) = Current(s)'  BY DEF Combine, Current
<1>4. own'[s] = Rewritten(own[s], Current(s), d)
  <2>1. own'[s] = [x \in Rows |-> own'[s][x]]  BY <1>1
  <2>. QED  BY <1>1, <2>1 DEF Rewritten
<1>. QED  BY <1>1, <1>2, <1>3, <1>4 DEF HeldBy

-----------------------------------------------------------------------------
(* The inductive step for what transactions have written. *)

LEMMA ActsUpsert ==
  ASSUME ActsInv, NEW s \in Sessions, NEW r \in Records, UpsertRrset(s, r)
  PROVE  \A t \in Sessions : Acts(t)'
<1> DEFINE q == r.key
           d == Upserted(Current(s), q)
<1>1. q \in Keys /\ q[1] \in Names  BY KeyParts
<1>2. IInv /\ own[s] = Nothing /\ Current(s) = rows /\ Table(rows)
  BY Sees, Shapes DEF UpsertRrset, SaveOK, ActsInv
<1>3. Table(d)  BY <1>1, <1>2, UpsertedRows
<1>4. /\ Statement(s, {q[1]}, d) /\ rows' = rows /\ found' = found /\ ids' = ids
      /\ pc' = [pc EXCEPT ![s] = pc'[s]] /\ pc'[s] \in Saving
      /\ pc'[s] = "rrset" => Current(s)[q] = Present
      /\ post' = [post EXCEPT ![s] = r] /\ post'[s] = r
      /\ UpsertPasses(Current(s), q)
  BY <1>2, Shapes DEF UpsertRrset, Goto, Saving
<1>5. d = Upserted(rows, q)  BY <1>2
<1> HIDE DEF d
<1>6. /\ \A t \in Sessions \ {s} : Kept(t)
      /\ \A n \in {q[1]} \cap Names : n \in HeldBy(s)'
      /\ Combine(rows', own'[s]) = d
      /\ own'[s] = Rewritten(own[s], Current(s), d)
  <2>1. ids' = [ids EXCEPT ![s] = ids'[s]] /\ post' = [post EXCEPT ![s] = post'[s]]
    BY <1>2, <1>4, Shapes
  <2>. QED  BY <1>2, <1>3, <1>4, <2>1, StatementKept
<1>7. \A t \in Sessions \ {s} : Acts(t)'
  BY <1>4, <1>6, ActsOthers
<1>8. UpsertOf(rows', own'[s], HeldBy(s)', post'[s].key)
  BY <1>1, <1>2, <1>4, <1>5, <1>6 DEF UpsertOf
<1>9. pc'[s] = "rrset" => own'[s] = Nothing
  <2> SUFFICES ASSUME pc'[s] = "rrset"  PROVE own'[s] = Nothing
    OBVIOUS
  <2>1. \A x \in Rows : d[x] = rows[x]
    BY <1>1, <1>2, <1>4, <1>5, UpsertedRows, KeyParts
  <2>2. \A x \in Rows : own'[s][x] = Untouched
    BY <1>2, <1>6, <2>1 DEF Nothing, Rewritten
  <2>. QED  BY <1>6, <2>2 DEF Nothing, Rewritten
<1>10. Acts(s)'
  BY <1>4, <1>8, <1>9 DEF Acts, Saving
<1>. QED  BY <1>7, <1>10

\* In the second statement of a save, s sees its upsert on the committed rows.
LEMMA SavingSees ==
  ASSUME ActsInv, NEW s \in Sessions, pc[s] \in Saving
  PROVE  /\ post[s] \in Records /\ post[s].key \in Keys
         /\ post[s].key[1] \in HeldBy(s) /\ post[s].key[1] \in Names
         /\ UpsertPasses(rows, post[s].key)
         /\ Current(s) = Upserted(rows, post[s].key)
         /\ \A k \in Recids : own[s][k] = Untouched /\ Current(s)[k] = rows[k]
         /\ Table(Current(s)) /\ Table(rows)
<1>1. post[s] \in Records  BY Sees DEF ActsInv, SaveOK
<1>2. post[s].key \in Keys /\ post[s].key[1] \in Names  BY <1>1, KeyParts
<1>3. UpsertOf(rows, own[s], HeldBy(s), post[s].key)  BY DEF ActsInv, Acts
<1>4. Combine(rows, own[s]) = Current(s)  BY DEF Combine, Current
<1>5. \A k \in Recids : own[s][k] = Untouched  BY Sees DEF ActsInv, SaveOK
<1>6. /\ Table(Current(s)) /\ Table(rows)
      /\ \A x \in Rows : Current(s)[x] = IF own[s][x] # Untouched THEN own[s][x] ELSE rows[x]
  BY Sees, Shapes DEF ActsInv
<1>. QED  BY <1>1, <1>2, <1>3, <1>4, <1>5, <1>6, KeyParts DEF UpsertOf

LEMMA WrittenTable ==
  ASSUME NEW d, NEW k \in Recids, NEW r \in Records, Table(d)
  PROVE  Table(Written(d, k, r)) /\ Written(d, k, r)[k] = r
BY WrittenRows

LEMMA WrittenOthers ==
  ASSUME NEW d, NEW k \in Recids, NEW r \in Records, Table(d)
  PROVE  Table(Written(d, k, r)) /\ \A j \in Recids : j # k => Written(d, k, r)[j] = d[j]
BY WrittenRows

\* The second statement of a save of record k makes it whole.
LEMMA ActsWrite ==
  ASSUME ActsInv, NEW s \in Sessions, NEW k \in Recids, NEW N,
         pc[s] \in Saving, RecordPasses(Current(s), k, post[s]),
         Statement(s, N, Written(Current(s), k, post[s])),
         rows' = rows, found' = found, post' = post,
         pc' = [pc EXCEPT ![s] = pc'[s]], pc'[s] \in {"read back", "done"},
         ids' = [ids EXCEPT ![s] = ids'[s]],
         rows[k] = Absent \/ rows[k].key[1] \in N
  PROVE  \A t \in Sessions : Acts(t)'
<1> DEFINE r == post[s]
           d == Written(Current(s), k, r)
<1>1. /\ r \in Records /\ r.key \in Keys /\ r.key[1] \in HeldBy(s)
      /\ UpsertPasses(rows, r.key) /\ Current(s) = Upserted(rows, r.key)
      /\ \A j \in Recids : own[s][j] = Untouched /\ Current(s)[j] = rows[j]
      /\ Table(Current(s)) /\ Table(rows)
  BY SavingSees
<1>2. Table(d) /\ d[k] = r
  <2>1. Table(Current(s)) /\ r \in Records  BY <1>1
  <2>. QED  BY <2>1, WrittenTable
<1>3. d = After(rows, k, r)  BY <1>1 DEF After
<1>4. MaySave(rows, k, r)  BY <1>1 DEF MaySave
<1>5. Statement(s, N, d)  OBVIOUS
<1> HIDE DEF d
<1>6. /\ \A t \in Sessions \ {s} : Kept(t)
      /\ \A n \in N \cap Names : n \in HeldBy(s)'
      /\ HeldBy(s) \subseteq HeldBy(s)'
      /\ Combine(rows', own'[s]) = d
      /\ own'[s] = Rewritten(own[s], Current(s), d)
  <2>1. IInv /\ post' = [post EXCEPT ![s] = post'[s]]  BY Shapes DEF ActsInv
  <2>. QED  BY <1>2, <1>5, <2>1, StatementKept
<1>7. \A t \in Sessions \ {s} : Acts(t)'
  BY <1>6, ActsOthers
<1>8. SaveOf(rows', own'[s], HeldBy(s)', k, r)
  <2>1. Live(rows, k) => rows[k].key[1] \in HeldBy(s)'
    BY <1>1, <1>6, KeyParts DEF Table, Live
  <2>2. ~Live(rows, k) => own'[s][k] = r
    BY <1>1, <1>2, <1>6, KeyParts DEF Live, Rewritten
  <2>. QED  BY <1>1, <1>3, <1>4, <1>6, <2>1, <2>2 DEF SaveOf, Live
<1>9. Complete(s)'
  BY <1>1, <1>8 DEF Complete
<1>10. Acts(s)'
  BY <1>9 DEF Acts, Saving
<1>. QED  BY <1>7, <1>10

LEMMA ActsInsert ==
  ASSUME ActsInv, NEW s \in Sessions, InsertRecord(s)
  PROVE  \A t \in Sessions : Acts(t)'
<1>1. PICK k \in fresh : /\ RecordPasses(Current(s), k, post[s])
                         /\ Statement(s, {}, Written(Current(s), k, post[s]))
                         /\ fresh' = fresh \ {k}
                         /\ ids' = [ids EXCEPT ![s] = {k}]
  BY DEF InsertRecord
<1>2. k \in Recids /\ rows[k] = Absent  BY Shapes DEF ActsInv, IInv, FreshOK
<1>3. /\ pc[s] \in Saving /\ rows' = rows /\ found' = found /\ post' = post
      /\ pc' = [pc EXCEPT ![s] = pc'[s]] /\ pc'[s] \in {"read back", "done"}
      /\ ids' = [ids EXCEPT ![s] = ids'[s]]
  BY <1>1, Shapes DEF InsertRecord, Goto, ActsInv, Saving
<1>. QED  BY <1>1, <1>2, <1>3, ActsWrite

LEMMA ActsUpdate ==
  ASSUME ActsInv, NEW s \in Sessions, NEW k \in Recids, UpdateRecord(s, k)
  PROVE  \A t \in Sessions : Acts(t)'
<1>1. /\ pc[s] \in Saving /\ rows' = rows /\ found' = found /\ post' = post /\ ids' = ids
      /\ RecordPasses(Current(s), k, post[s])
      /\ Statement(s, NamesOf(s, {k}), Written(Current(s), k, post[s]))
  BY DEF UpdateRecord, Saving, request
<1>2. pc' = [pc EXCEPT ![s] = pc'[s]] /\ pc'[s] \in {"read back", "done"}
  BY Shapes DEF UpdateRecord, Goto, ActsInv
<1>3. rows[k] = Absent \/ rows[k].key[1] \in NamesOf(s, {k})
  BY DEF NamesOf
<1>4. ids' = [ids EXCEPT ![s] = ids'[s]]  BY <1>1, Shapes DEF ActsInv
<1>. QED  BY <1>1, <1>2, <1>3, <1>4, ActsWrite

LEMMA ActsDelete ==
  ASSUME ActsInv, SnapshotIsolation, NEW s \in Sessions, DeleteRecords(s)
  PROVE  \A t \in Sessions : Acts(t)'
<1> DEFINE K == found[s]
           N == NamesOf(s, K)
           d == Deleted(Current(s), K)
<1>1. K \in SUBSET Recids /\ IInv  BY Shapes DEF ActsInv
<1>2. /\ Statement(s, N, d) /\ pc[s] = "delete" /\ K \cap newer[s] = {}
      /\ rows' = rows /\ found' = found /\ post' = post /\ ids' = ids
      /\ pc' = [pc EXCEPT ![s] = "done"] /\ pc'[s] = "done"
  BY <1>1, Shapes DEF DeleteRecords, Goto, request, Visible
<1>3. own[s] = Nothing /\ Current(s) = rows /\ Table(rows)
  BY <1>1, <1>2, Sees, Shapes DEF ActsInv, Acts
<1>4. \A k \in K : Live(rows, k) /\ rows[k].key[1] \in N \cap Names
  <2> SUFFICES ASSUME NEW k \in K  PROVE Live(rows, k) /\ rows[k].key[1] \in N \cap Names
    OBVIOUS
  <2>1. Live(rows, k)  BY <1>1, <1>2, Sees DEF FoundOK
  <2>2. rows[k].key[1] \in Names  BY <1>1, <1>3, <2>1, KeyParts DEF Table, Live
  <2>3. rows[k].key[1] \in N  BY <2>1 DEF NamesOf, Live
  <2>. QED  BY <2>1, <2>2, <2>3
<1>5. Table(d)  BY <1>1, <1>3, DeletedRows
<1>6. d = Deleted(rows, K)  BY <1>3
<1> HIDE DEF d, N
<1>7. /\ \A t \in Sessions \ {s} : Kept(t)
      /\ \A n \in N \cap Names : n \in HeldBy(s)'
      /\ Combine(rows', own'[s]) = d
  <2>1. /\ pc' = [pc EXCEPT ![s] = pc'[s]]
        /\ ids' = [ids EXCEPT ![s] = ids'[s]] /\ post' = [post EXCEPT ![s] = post'[s]]
    BY <1>1, <1>2, Shapes
  <2>. QED  BY <1>1, <1>2, <1>5, <2>1, StatementKept
<1>8. \A t \in Sessions \ {s} : Acts(t)'
  BY <1>2, <1>7, ActsOthers
<1>9. DeleteOf(rows', own'[s], HeldBy(s)', K)
  BY <1>2, <1>4, <1>6, <1>7 DEF DeleteOf
<1> HIDE DEF K
<1>10. Complete(s)'
  BY <1>1, <1>9 DEF Complete
<1>11. Acts(s)'
  BY <1>2, <1>10 DEF Acts, Saving
<1>. QED  BY <1>8, <1>11

\* A step of s that writes nothing.
LEMMA ActsLocal ==
  ASSUME ActsInv, NEW s \in Sessions, UNCHANGED <<rows, own, lock, post>>,
         pc' = [pc EXCEPT ![s] = pc'[s]], ids' = [ids EXCEPT ![s] = ids'[s]],
         found' = [found EXCEPT ![s] = found'[s]], Acts(s)'
  PROVE  \A t \in Sessions : Acts(t)'
<1>1. \A t \in Sessions \ {s} : Kept(t)
  BY Shapes DEF ActsInv, Kept
<1>. QED  BY <1>1, ActsOthers

LEMMA ActsBegin ==
  ASSUME ActsInv, NEW s \in Sessions, NEW command \in {"save", "delete"}, NEW K,
         BeginRead(s, command, K)
  PROVE  \A t \in Sessions : Acts(t)'
<1>1. /\ UNCHANGED <<rows, own, lock, post>>
      /\ pc' = [pc EXCEPT ![s] = pc'[s]] /\ pc'[s] = command
      /\ ids' = [ids EXCEPT ![s] = ids'[s]] /\ found' = [found EXCEPT ![s] = found'[s]]
  BY Shapes DEF BeginRead, Goto, ActsInv
<1>2. own[s] = Nothing  BY Sees DEF BeginRead, SaveOK, ActsInv
<1>3. Acts(s)'  BY <1>1, <1>2 DEF Acts, Saving
<1>. QED  BY <1>1, <1>3, ActsLocal

LEMMA ActsMissing ==
  ASSUME ActsInv, SnapshotIsolation, NEW s \in Sessions, NEW k \in Recids, UpdateMissing(s, k)
  PROVE  \A t \in Sessions : Acts(t)'
<1>1. /\ UNCHANGED <<rows, own, lock, post>>
      /\ ids' = ids /\ found' = found
      /\ pc' = [pc EXCEPT ![s] = pc'[s]]
      /\ pc'[s] = IF pc[s] = "rrset" THEN "done" ELSE "read back"
  BY Shapes DEF UpdateMissing, Goto, request, ActsInv
<1>2. pc[s] \in Saving /\ k \in ids[s] /\ k \notin newer[s] /\ Current(s)[k] = Absent
  BY DEF UpdateMissing, Saving, Visible
<1>3. own[s][k] = Untouched /\ rows[k] = Absent
  BY <1>2, SavingSees
<1>4. k \notin found[s]
  BY <1>2, <1>3, Sees DEF FoundOK, Live, ActsInv
<1>5. Acts(s)'
  <2>1. CASE pc[s] = "rrset"
    <3>1. own'[s] = Nothing  BY <1>1, <2>1 DEF ActsInv, Acts
    <3>2. Complete(s)'  BY <3>1 DEF Complete
    <3>. QED  BY <1>1, <2>1, <3>1, <3>2 DEF Acts, Saving
  <2>2. CASE pc[s] # "rrset"
    <3>1. pc'[s] = "read back"  BY <1>1, <2>2
    <3>2. Stuck(s)'  BY <1>1, <1>2, <1>3, <1>4, <3>1 DEF Stuck
    <3>. QED  BY <3>1, <3>2 DEF Acts, Saving
  <2>. QED  BY <2>1, <2>2
<1>6. ids' = [ids EXCEPT ![s] = ids'[s]] /\ found' = [found EXCEPT ![s] = found'[s]]
  BY <1>1, Shapes DEF ActsInv
<1>. QED  BY <1>1, <1>5, <1>6, ActsLocal

LEMMA ActsReadBack ==
  ASSUME ActsInv, NEW s \in Sessions, ReadBack(s)
  PROVE  \A t \in Sessions : Acts(t)'
<1>1. /\ UNCHANGED <<rows, own, lock, post>>
      /\ ids' = ids /\ found' = found
      /\ pc' = [pc EXCEPT ![s] = pc'[s]] /\ pc'[s] = "done"
  BY Shapes DEF ReadBack, Goto, request, ActsInv
<1>2. pc[s] = "read back" /\ ~Stuck(s)
  BY DEF ReadBack, Stuck
<1>3. Complete(s)  BY <1>2 DEF ActsInv, Acts
<1>4. Complete(s)'  BY <1>1, <1>3 DEF Complete, HeldBy
<1>5. Acts(s)'  BY <1>1, <1>4 DEF Acts, Saving
<1>6. ids' = [ids EXCEPT ![s] = ids'[s]] /\ found' = [found EXCEPT ![s] = found'[s]]
  BY <1>1, Shapes DEF ActsInv
<1>. QED  BY <1>1, <1>5, <1>6, ActsLocal

\* The end of a transaction that changes at most the rows it wrote.
LEMMA ActsEnd ==
  ASSUME ActsInv, NEW s \in Sessions, End(s), Table(rows'),
         \A x \in Rows : rows'[x] # rows[x] => own[s][x] # Untouched /\ rows'[x] = own[s][x]
  PROVE  \A t \in Sessions : Acts(t)'
<1>1. /\ lock' = [n \in Names |-> IF lock[n] = s THEN Nobody ELSE lock[n]]
      /\ \A t \in Sessions \ {s} : /\ own'[t] = own[t] /\ pc'[t] = pc[t] /\ ids'[t] = ids[t]
                                   /\ post'[t] = post[t] /\ found'[t] = found[t]
      /\ pc'[s] = "idle"
  BY Shapes DEF End, Goto, ActsInv
<1>2. Acts(s)'  BY <1>1 DEF Acts, Saving
<1>3. ASSUME NEW t \in Sessions \ {s}  PROVE Acts(t)'
  <2>1. Kept(t)
    <3>1. \A n \in Names : lock[n] = t => lock'[n] = t  BY <1>1
    <3>. QED  BY <1>1, <3>1 DEF Kept
  <2>2. NotHere(t)
    <3>1. \A q \in Keys : rows'[q] # rows[q] => lock[q[1]] # t
      <4>1. \A q \in Keys : own[s][q] # Untouched => lock[q[1]] = s
        BY Sees DEF OwnsKeys, ActsInv
      <4>. QED  BY <4>1, KeyParts
    <3>2. ASSUME NEW k \in Recids, rows'[k] # rows[k]
          PROVE  /\ own[t][k] = Untouched
                 /\ Live(rows, k) => lock[rows[k].key[1]] # t
                 /\ Live(rows', k) => lock[rows'[k].key[1]] # t
      <4>1. own[s][k] # Untouched /\ rows'[k] = own[s][k]  BY <3>2, KeyParts
      <4>. QED  BY <4>1, Sees DEF OwnsRecord, Live, ActsInv
    <3>. QED  BY <3>1, <3>2 DEF NotHere
  <2>3. IInv /\ Acts(t)  BY DEF ActsInv
  <2>. QED  BY <2>1, <2>2, <2>3, ActsKept
<1>. QED  BY <1>2, <1>3

LEMMA ActsCommit ==
  ASSUME ActsInv, NEW s \in Sessions, Commit(s)
  PROVE  \A t \in Sessions : Acts(t)'
<1>1. rows' = Current(s) /\ End(s)  BY DEF Commit
<1>2. /\ Table(Current(s))
      /\ \A x \in Rows : Current(s)[x] = IF own[s][x] # Untouched THEN own[s][x] ELSE rows[x]
  BY Sees DEF ActsInv
<1>. QED  BY <1>1, <1>2, ActsEnd

LEMMA ActsFail ==
  ASSUME ActsInv, NEW s \in Sessions, Fail(s)
  PROVE  \A t \in Sessions : Acts(t)'
<1>1. rows' = rows /\ End(s)  BY DEF Fail
<1>2. Table(rows')  BY <1>1, Shapes DEF ActsInv
<1>. QED  BY <1>1, <1>2, ActsEnd

\* An operator's statement, at names nobody locks.
LEMMA ActsManual ==
  ASSUME ActsInv, UNCHANGED <<lock, pc, request, found, own>>, Table(rows'),
         \A q \in Keys : rows'[q] # rows[q] => lock[q[1]] = Nobody,
         \A k \in Recids : rows'[k] # rows[k] =>
           /\ k \in fresh \/ Live(rows, k)
           /\ Live(rows, k) => lock[rows[k].key[1]] = Nobody
           /\ Live(rows', k) => lock[rows'[k].key[1]] = Nobody
  PROVE  \A t \in Sessions : Acts(t)'
<1> SUFFICES ASSUME NEW t \in Sessions  PROVE Acts(t)'
  OBVIOUS
<1>1. Nobody # t  BY RecordsAssumption
<1>2. Kept(t)  BY DEF Kept, request
<1>3. NotHere(t)
  <2>1. ASSUME NEW k \in Recids, rows'[k] # rows[k], own[t][k] # Untouched  PROVE FALSE
    <3>1. k \notin fresh /\ (Live(rows, k) => lock[rows[k].key[1]] = t)
      BY <2>1, Sees DEF OwnsRecord, ActsInv
    <3>. QED  BY <1>1, <2>1, <3>1
  <2>. QED  BY <1>1, <2>1 DEF NotHere
<1>4. IInv /\ Acts(t)  BY DEF ActsInv
<1>. QED  BY <1>2, <1>3, <1>4, ActsKept

LEMMA ActsStart == Init => ActsInv
<1> SUFFICES ASSUME Init  PROVE \A s \in Sessions : Acts(s)
  BY Start DEF ActsInv
<1>. QED  BY DEF Init, Acts, Saving

LEMMA ActsStep == SnapshotIsolation /\ ActsInv /\ [Next]_vars => ActsInv'
<1> SUFFICES ASSUME SnapshotIsolation, ActsInv, [Next]_vars
             PROVE  \A t \in Sessions : Acts(t)'
  BY Step DEF ActsInv
<1>1. ASSUME NEW s \in Sessions, Session(s)  PROVE \A t \in Sessions : Acts(t)'
  <2>1. ASSUME NEW k \in Recids \ fresh, BeginRead(s, "save", {k})  PROVE \A t \in Sessions : Acts(t)'
    BY <2>1, ActsBegin
  <2>2. ASSUME NEW K \in SUBSET (Recids \ fresh), BeginRead(s, "delete", K)
        PROVE  \A t \in Sessions : Acts(t)'
    BY <2>2, ActsBegin
  <2>3. ASSUME NEW r \in Records, UpsertRrset(s, r)  PROVE \A t \in Sessions : Acts(t)'
    BY <2>3, ActsUpsert
  <2>4. CASE InsertRecord(s)  BY <2>4, ActsInsert
  <2>5. ASSUME NEW k \in Recids, UpdateRecord(s, k)  PROVE \A t \in Sessions : Acts(t)'
    BY <2>5, ActsUpdate
  <2>6. ASSUME NEW k \in Recids, UpdateMissing(s, k)  PROVE \A t \in Sessions : Acts(t)'
    BY <2>6, ActsMissing
  <2>7. CASE ReadBack(s)  BY <2>7, ActsReadBack
  <2>8. CASE DeleteRecords(s)  BY <2>8, ActsDelete
  <2>9. CASE Commit(s)  BY <2>9, ActsCommit
  <2>10. CASE Fail(s)  BY <2>10, ActsFail
  <2>. QED
    BY <1>1, <2>1, <2>2, <2>3, <2>4, <2>5, <2>6, <2>7, <2>8, <2>9, <2>10 DEF Session
<1>2. ASSUME NEW q \in Keys, NEW p \in Keys, ManualUpdate(q, p)  PROVE \A t \in Sessions : Acts(t)'
  <2>1. UNCHANGED <<lock, pc, request, found, own>>  BY <1>2 DEF ManualUpdate
  <2>2. IInv  BY DEF ActsInv
  <2>3. /\ Table(rows')
        /\ \A x \in Keys : rows'[x] # rows[x] => lock[x[1]] = Nobody
        /\ \A k \in Recids : rows'[k] # rows[k] =>
             /\ Live(rows, k) /\ lock[rows[k].key[1]] = Nobody
             /\ Live(rows', k) /\ lock[rows'[k].key[1]] = Nobody
    BY <1>2, <2>2, ManualUpdateRows
  <2>. QED  BY <2>1, <2>3, ActsManual
<1>3. ASSUME NEW k \in Recids, NEW r \in Records, ManualRecord(k, r)
      PROVE  \A t \in Sessions : Acts(t)'
  <2>1. UNCHANGED <<lock, pc, request, found, own>>  BY <1>3 DEF ManualRecord
  <2>2. IInv  BY DEF ActsInv
  <2>3. /\ Table(rows')
        /\ \A q \in Keys : rows'[q] # rows[q] => lock[q[1]] = Nobody
        /\ \A j \in Recids : rows'[j] # rows[j] =>
             /\ j \in fresh \/ Live(rows, j)
             /\ Live(rows, j) => lock[rows[j].key[1]] = Nobody
             /\ Live(rows', j) /\ lock[rows'[j].key[1]] = Nobody
    BY <1>3, <2>2, ManualRecordRows
  <2>. QED  BY <2>1, <2>3, ActsManual
<1>4. CASE UNCHANGED vars
  <2>1. rows' = rows /\ \A t \in Sessions : Kept(t) /\ NotHere(t)
    BY <1>4 DEF vars, Kept, NotHere
  <2>2. Table(rows')  BY <2>1, Shapes DEF ActsInv
  <2>. QED  BY <2>1, <2>2, ActsKept DEF ActsInv
<1>. QED  BY <1>1, <1>2, <1>3, <1>4 DEF Next

-----------------------------------------------------------------------------
(* Each step is one of the promise. *)

Unused == fresh \cup {k \in Recids : rows[k] = Absent /\ \E s \in Sessions : own[s][k] \in Records}

\* The promise speaks of the same rows and operators.
LEMMA PromiseOps ==
  /\ Promise!Keys = Keys /\ Promise!Records = Records /\ Promise!Rows = Rows
  /\ \A d, k, r : Promise!Saved(d, k, r) = After(d, k, r)
  /\ \A d, k, r : Promise!SavePasses(d, k, r) <=> MaySave(d, k, r)
  /\ \A d, k, r : Promise!Written(d, k, r) = Written(d, k, r)
  /\ \A d, k, r : Promise!RecordPasses(d, k, r) <=> RecordPasses(d, k, r)
  /\ \A d, K : Promise!Deleted(d, K) = Deleted(d, K)
  /\ \A d, q, p : Promise!Renamed(d, q, p) = Renamed(d, q, p)
  /\ \A d, q, p : Promise!RenamePasses(d, q, p) <=> RenamePasses(d, q, p)
<1>1. Promise!Types = Types  BY DEF Promise!Types, Types
<1>2. Promise!Keys = Keys  BY <1>1 DEF Promise!Keys, Keys
<1>3. Promise!Records = Records  BY <1>2 DEF Promise!Records, Records
<1>4. Promise!Rows = Rows  BY <1>2 DEF Promise!Rows, Rows
<1>5. \A d, q : Promise!Answers(d, q) = Answers(d, q)  BY DEF Promise!Answers, Answers
<1>6. \A S : Promise!Cardinality(S) = Cardinality(S)  BY DEF Promise!Cardinality, Cardinality
<1>7. \A d, q, S : Promise!Guard(d, q, S) <=> Guard(d, q, S)
  BY <1>2, <1>5, <1>6 DEF Promise!Guard, Guard
<1>8. \A d, q : Promise!UpsertPasses(d, q) <=> UpsertPasses(d, q)
  BY <1>7 DEF Promise!UpsertPasses, UpsertPasses
<1>9. \A d, k, r : Promise!RecordPasses(d, k, r) <=> RecordPasses(d, k, r)
  BY <1>5 DEF Promise!RecordPasses, RecordPasses
<1>10. \A d, k, r : Promise!Written(d, k, r) = Written(d, k, r)
  BY <1>2, <1>4, <1>5 DEF Promise!Written, Written
<1>11. \A d, K : Promise!Deleted(d, K) = Deleted(d, K)
  BY <1>2, <1>4, <1>5 DEF Promise!Deleted, Deleted
<1>12. \A d, q : Promise!Upserted(d, q) = Upserted(d, q)
  BY DEF Promise!Upserted, Upserted
<1>13. \A d, q, p : Promise!Renamed(d, q, p) = Renamed(d, q, p)
  BY <1>4, <1>5 DEF Promise!Renamed, Renamed
<1>14. \A d, q, p : Promise!RenamePasses(d, q, p) <=> RenamePasses(d, q, p)
  BY <1>7 DEF Promise!RenamePasses, RenamePasses
<1>15. \A d, k, r : Promise!Saved(d, k, r) = After(d, k, r)
  BY <1>10, <1>12 DEF Promise!Saved, After
<1>16. \A d, k, r : Promise!SavePasses(d, k, r) <=> MaySave(d, k, r)
  BY <1>8, <1>9, <1>12 DEF Promise!SavePasses, MaySave
<1>. QED  BY <1>2, <1>3, <1>4, <1>9, <1>10, <1>11, <1>13, <1>14, <1>15, <1>16

LEMMA UnusedGone == IInv => \A k \in Unused : k \in Recids /\ rows[k] = Absent
BY Shapes DEF IInv, FreshOK, Unused

\* The committed rows stay, and no new record appears but under a fresh key.
LEMMA PromiseGap ==
  ASSUME rows' = rows, fresh' \subseteq fresh,
         \A t \in Sessions, k \in Recids : rows[k] = Absent /\ own'[t][k] \in Records =>
           own[t][k] \in Records \/ k \in fresh
  PROVE  Promise!SpecNext
<1>1. Unused' \subseteq Unused  BY DEF Unused
<1>2. Unused' \in SUBSET Unused /\ rows' = rows  BY <1>1
<1>3. Promise!SpecGap  BY <1>2 DEF Unused, Promise!SpecGap
<1>. QED  BY <1>3 DEF Promise!SpecNext

\* A statement of s makes records only out of those it sees, or fresh ones.
LEMMA PromiseStatement ==
  ASSUME ActsInv, NEW s \in Sessions, NEW N, NEW d, Table(d), Statement(s, N, d),
         rows' = rows, fresh' \subseteq fresh,
         \A k \in Recids : d[k] # Current(s)[k] /\ d[k] # Absent => rows[k] # Absent \/ k \in fresh
  PROVE  Promise!SpecNext
<1>1. /\ \A t \in Sessions \ {s} : own'[t] = own[t]
      /\ \A x \in Rows : own'[s][x] = IF d[x] # Current(s)[x] THEN d[x] ELSE own[s][x]
  BY Shapes, Effect DEF ActsInv
<1>2. ASSUME NEW t \in Sessions, NEW k \in Recids, rows[k] = Absent, own'[t][k] \in Records
      PROVE  own[t][k] \in Records \/ k \in fresh
  <2>1. CASE t # s  BY <1>1, <1>2, <2>1
  <2>2. CASE t = s
    <3>1. own'[s][k] = IF d[k] # Current(s)[k] THEN d[k] ELSE own[s][k]  BY <1>1, KeyParts
    <3>. QED  BY <1>2, <2>2, <3>1, KeyParts
  <2>. QED  BY <2>1, <2>2
<1>. QED  BY <1>2, PromiseGap

LEMMA PromiseUpsert ==
  ASSUME ActsInv, NEW s \in Sessions, NEW r \in Records, UpsertRrset(s, r)
  PROVE  Promise!SpecNext
<1>1. r.key \in Keys /\ Table(Current(s))  BY Sees, KeyParts DEF ActsInv
<1>2. /\ Table(Upserted(Current(s), r.key))
      /\ \A k \in Recids : Upserted(Current(s), r.key)[k] = Current(s)[k]
  BY <1>1, UpsertedRows, KeyParts
<1>3. Statement(s, {r.key[1]}, Upserted(Current(s), r.key)) /\ rows' = rows /\ fresh' \subseteq fresh
  BY DEF UpsertRrset
<1>. QED  BY <1>2, <1>3, PromiseStatement

\* The rows after the second statement of a save of record k.
LEMMA PromiseWrite ==
  ASSUME ActsInv, NEW s \in Sessions, NEW k \in Recids, NEW N, pc[s] \in Saving,
         Statement(s, N, Written(Current(s), k, post[s])), rows' = rows, fresh' \subseteq fresh,
         rows[k] # Absent \/ k \in fresh
  PROVE  Promise!SpecNext
<1> DEFINE d == Written(Current(s), k, post[s])
<1>1. post[s] \in Records /\ Table(Current(s))  BY SavingSees
<1>2. Table(d) /\ \A j \in Recids : j # k => d[j] = Current(s)[j]
  BY <1>1, WrittenOthers
<1>3. Statement(s, N, d)  OBVIOUS
<1> HIDE DEF d
<1>. QED  BY <1>2, <1>3, PromiseStatement

LEMMA PromiseDelete ==
  ASSUME ActsInv, NEW s \in Sessions, DeleteRecords(s)
  PROVE  Promise!SpecNext
<1> DEFINE d == Deleted(Current(s), found[s])
<1>1. found[s] \in SUBSET Recids /\ Table(Current(s))  BY Sees, Shapes DEF ActsInv
<1>2. Table(d) /\ \A j \in Recids : d[j] = IF j \in found[s] THEN Absent ELSE Current(s)[j]
  BY <1>1, DeletedRows
<1>3. Statement(s, NamesOf(s, found[s]), d) /\ rows' = rows /\ fresh' \subseteq fresh
  BY DEF DeleteRecords
<1> HIDE DEF d
<1>4. \A k \in Recids : d[k] # Current(s)[k] /\ d[k] # Absent => rows[k] # Absent \/ k \in fresh
  BY <1>2
<1>. QED  BY <1>2, <1>3, <1>4, PromiseStatement

\* A commit is the whole request, on the committed rows of that moment.
LEMMA PromiseCommit ==
  ASSUME ActsInv, NEW s \in Sessions, Commit(s)
  PROVE  Promise!SpecNext
<1>1. /\ rows' = Current(s) /\ fresh' = fresh /\ pc[s] = "done"
      /\ own' = [own EXCEPT ![s] = Nothing]
  BY DEF Commit, End
<1>2. /\ Combine(rows, own[s]) = rows'
      /\ \A x \in Rows : rows'[x] = IF own[s][x] # Untouched THEN own[s][x] ELSE rows[x]
      /\ Table(rows) /\ Table(rows')
      /\ \A k \in Recids : OwnsRecord(s, k)
      /\ own[s] = Nothing => rows' = rows
  BY <1>1, Sees, Shapes DEF ActsInv, Combine, Current
<1>3. Complete(s)  BY <1>1 DEF ActsInv, Acts, Stuck
<1>4. /\ \A t \in Sessions \ {s} : own'[t] = own[t]
      /\ \A k \in Recids : own'[s][k] = Untouched
  BY <1>1, Shapes, KeyParts DEF ActsInv, Nothing
<1>5. Unused' = {k \in Unused : rows'[k] = Absent}
  <2>1. ASSUME NEW k \in Unused, rows'[k] = Absent  PROVE k \in Unused'
    <3>1. k \in Recids /\ k \in Rows  BY UnusedGone, KeyParts DEF ActsInv
    <3>2. CASE k \in fresh  BY <1>1, <3>2 DEF Unused
    <3>3. ASSUME NEW t \in Sessions, own[t][k] \in Records  PROVE k \in Unused'
      <4>1. t # s  BY <1>2, <2>1, <3>1, <3>3, KeyParts
      <4>2. own'[t][k] \in Records  BY <1>4, <3>3, <4>1
      <4>. QED  BY <2>1, <3>1, <4>2 DEF Unused
    <3>. QED  BY <3>2, <3>3 DEF Unused
  <2>2. ASSUME NEW k \in Unused'  PROVE k \in Unused /\ rows'[k] = Absent
    <3>1. CASE k \in fresh
      <4>1. k \in Recids /\ rows[k] = Absent /\ own[s][k] = Untouched
        BY <3>1, Shapes DEF ActsInv, IInv, FreshOK
      <4>. QED  BY <1>2, <3>1, <4>1, KeyParts DEF Unused
    <3>2. CASE k \notin fresh
      <4>1. k \in Recids /\ rows'[k] = Absent  BY <1>1, <2>2, <3>2 DEF Unused
      <4>2. PICK t \in Sessions : own'[t][k] \in Records  BY <1>1, <2>2, <3>2 DEF Unused
      <4>3. t # s /\ own[t][k] \in Records  BY <1>4, <4>1, <4>2, KeyParts
      <4>4. own[s][k] = Untouched  BY <1>2, <4>1, <4>3, KeyParts DEF OwnsRecord
      <4>5. rows[k] = Absent  BY <1>2, <4>1, <4>4, KeyParts
      <4>. QED  BY <4>1, <4>3, <4>5 DEF Unused
    <3>. QED  BY <3>1, <3>2
  <2>. QED  BY <2>1, <2>2
<1>6. \A k \in Unused : k \in Recids /\ rows[k] = Absent  BY UnusedGone DEF ActsInv
<1>7. CASE own[s] = Nothing
  <2>1. rows' = rows /\ Unused' \in SUBSET Unused  BY <1>2, <1>5, <1>7
  <2>2. Promise!SpecGap  BY <2>1 DEF Unused, Promise!SpecGap
  <2>. QED  BY <2>2 DEF Promise!SpecNext
<1>8. ASSUME NEW k \in Recids, NEW r \in Records, SaveOf(rows, own[s], HeldBy(s), k, r)
      PROVE  Promise!SpecNext
  <2>1. MaySave(rows, k, r) /\ rows' = After(rows, k, r)
    BY <1>2, <1>8 DEF SaveOf
  <2>2. rows'[k] = r /\ \A j \in Recids : j # k => rows'[j] = rows[j]
    BY <1>2, <2>1, AfterRows
  <2>3. Unused' = Unused \ {k}
    BY <1>5, <1>6, <2>2, KeyParts
  <2>4. CASE Live(rows, k)
    <3>1. Unused' = Unused  BY <1>6, <2>3, <2>4 DEF Live
    <3>2. Promise!SpecUpdate(k, r)
      BY <2>1, <2>4, <3>1, PromiseOps DEF Live, Unused, Promise!SpecUpdate
    <3>. QED  BY <3>2, PromiseOps DEF Promise!SpecNext
  <2>5. CASE ~Live(rows, k)
    <3>1. k \in Unused  BY <1>8, <2>5 DEF SaveOf, Live, Unused
    <3>2. Promise!SpecInsert(k, r)
      BY <2>1, <2>3, <3>1, PromiseOps DEF Unused, Promise!SpecInsert
    <3>. QED  BY <3>2, PromiseOps DEF Promise!SpecNext
  <2>. QED  BY <2>4, <2>5
<1>9. ASSUME NEW K \in SUBSET Recids, DeleteOf(rows, own[s], HeldBy(s), K)
      PROVE  Promise!SpecNext
  <2>1. rows' = Deleted(rows, K) /\ \A k \in K : rows[k] # Absent
    BY <1>2, <1>9 DEF DeleteOf, Live
  <2>2. \A j \in Recids : rows[j] = Absent => rows'[j] = Absent
    BY <1>2, <2>1, DeletedRows
  <2>3. Unused' = Unused  BY <1>5, <1>6, <2>2
  <2>4. Promise!SpecDelete(K)
    BY <2>1, <2>3, PromiseOps DEF Unused, Promise!SpecDelete
  <2>. QED  BY <2>4 DEF Promise!SpecNext
<1>. QED  BY <1>3, <1>7, <1>8, <1>9 DEF Complete

LEMMA PromiseInsert ==
  ASSUME ActsInv, NEW s \in Sessions, InsertRecord(s)
  PROVE  Promise!SpecNext
<1>1. PICK k \in fresh : /\ Statement(s, {}, Written(Current(s), k, post[s]))
                         /\ fresh' = fresh \ {k}
  BY DEF InsertRecord
<1>2. k \in Recids  BY Shapes DEF ActsInv, IInv, FreshOK
<1>3. pc[s] \in Saving /\ rows' = rows /\ fresh' \subseteq fresh
  BY <1>1 DEF InsertRecord, Saving
<1>. QED  BY <1>1, <1>2, <1>3, PromiseWrite

LEMMA PromiseUpdate ==
  ASSUME ActsInv, NEW s \in Sessions, NEW k \in Recids, UpdateRecord(s, k)
  PROVE  Promise!SpecNext
<1>1. /\ pc[s] \in Saving /\ rows' = rows /\ fresh' \subseteq fresh
      /\ Statement(s, NamesOf(s, {k}), Written(Current(s), k, post[s]))
      /\ Current(s)[k] # Absent
  BY DEF UpdateRecord, Saving
<1>2. rows[k] # Absent  BY <1>1, SavingSees
<1>. QED  BY <1>1, <1>2, PromiseWrite

\* The other steps of a transaction write nothing, or drop what it wrote.
LEMMA PromiseNothing ==
  ASSUME ActsInv, rows' = rows, fresh' = fresh,
         own' = own \/ \E s \in Sessions : own' = [own EXCEPT ![s] = Nothing]
  PROVE  Promise!SpecNext
<1>1. \A k \in Recids : Nothing[k] = Untouched /\ Untouched \notin Records
  BY KeyParts, RecordsAssumption DEF Nothing
<1>2. CASE own' = own  BY <1>2, PromiseGap
<1>3. ASSUME NEW s \in Sessions, own' = [own EXCEPT ![s] = Nothing]  PROVE Promise!SpecNext
  <2>1. \A t \in Sessions : own'[t] = IF t = s THEN Nothing ELSE own[t]
    BY <1>3, Shapes DEF ActsInv
  <2>2. \A t \in Sessions, k \in Recids : own'[t][k] \in Records => own[t][k] \in Records
    BY <1>1, <2>1
  <2>. QED  BY <2>2, PromiseGap
<1>. QED  BY <1>2, <1>3

LEMMA PromiseManualUpdate ==
  ASSUME ActsInv, NEW q \in Keys, NEW p \in Keys, ManualUpdate(q, p)
  PROVE  Promise!SpecNext
<1>1. fresh' = fresh /\ own' = own /\ RenamePasses(rows, q, p) /\ rows' = Renamed(rows, q, p)
  BY DEF ManualUpdate
<1>2. \A k \in Recids : rows'[k] = Absent <=> rows[k] = Absent
  BY ManualUpdateRows DEF ActsInv, Live
<1>3. Unused' = Unused  BY <1>1, <1>2 DEF Unused
<1>4. Promise!SpecManualUpdate(q, p)
  BY <1>1, <1>3, PromiseOps DEF Unused, Promise!SpecManualUpdate
<1>. QED  BY <1>4, PromiseOps DEF Promise!SpecNext

LEMMA PromiseManualRecord ==
  ASSUME ActsInv, NEW k \in Recids, NEW r \in Records, ManualRecord(k, r)
  PROVE  Promise!SpecNext
<1>1. /\ fresh' = fresh \ {k} /\ own' = own /\ rows' = Written(rows, k, r)
      /\ rows[r.key] = Present /\ RecordPasses(rows, k, r)
      /\ k \in fresh \/ rows[k] # Absent
  BY DEF ManualRecord
<1>2. rows'[k] = r /\ \A j \in Recids : j # k => rows'[j] = rows[j]
  BY ManualRecordRows DEF ActsInv
<1>3. Unused' = Unused \ {k}
  BY <1>1, <1>2, KeyParts DEF Unused
<1>4. k \in Unused \/ rows[k] # Absent  BY <1>1 DEF Unused
<1>5. Promise!SpecManualRecord(k, r)
  BY <1>1, <1>3, <1>4, PromiseOps DEF Unused, Promise!SpecManualRecord
<1>. QED  BY <1>5, PromiseOps DEF Promise!SpecNext

LEMMA PromiseStart == Init => Promise!SpecInit
<1> SUFFICES ASSUME Init  PROVE Promise!SpecInit
  OBVIOUS
<1>1. rows = [x \in Rows |-> Absent] /\ fresh = Recids  BY DEF Init
<1>2. Unused = Recids  BY <1>1 DEF Unused
<1>. QED  BY <1>1, <1>2, PromiseOps DEF Unused, Promise!SpecInit

\* Every step is one of the promise, or none of its business.
LEMMA PromiseStep == ActsInv /\ [Next]_vars => [Promise!SpecNext]_Promise!specVars
<1> SUFFICES ASSUME ActsInv, [Next]_vars  PROVE [Promise!SpecNext]_Promise!specVars
  OBVIOUS
<1>1. ASSUME NEW s \in Sessions, Session(s)  PROVE Promise!SpecNext
  <2>1. ASSUME NEW c, NEW K, BeginRead(s, c, K)  PROVE Promise!SpecNext
    BY <2>1, PromiseNothing DEF BeginRead
  <2>2. ASSUME NEW r \in Records, UpsertRrset(s, r)  PROVE Promise!SpecNext
    BY <2>2, PromiseUpsert
  <2>3. CASE InsertRecord(s)  BY <2>3, PromiseInsert
  <2>4. ASSUME NEW k \in Recids, UpdateRecord(s, k)  PROVE Promise!SpecNext
    BY <2>4, PromiseUpdate
  <2>5. ASSUME NEW k \in Recids, UpdateMissing(s, k)  PROVE Promise!SpecNext
    BY <2>5, PromiseNothing DEF UpdateMissing
  <2>6. CASE ReadBack(s)  BY <2>6, PromiseNothing DEF ReadBack
  <2>7. CASE DeleteRecords(s)  BY <2>7, PromiseDelete
  <2>8. CASE Commit(s)  BY <2>8, PromiseCommit
  <2>9. CASE Fail(s)
    <3>1. rows' = rows /\ fresh' = fresh /\ own' = [own EXCEPT ![s] = Nothing]
      BY <2>9 DEF Fail, End
    <3>. QED  BY <3>1, PromiseNothing
  <2>. QED  BY <1>1, <2>1, <2>2, <2>3, <2>4, <2>5, <2>6, <2>7, <2>8, <2>9 DEF Session
<1>2. ASSUME NEW q \in Keys, NEW p \in Keys, ManualUpdate(q, p)  PROVE Promise!SpecNext
  BY <1>2, PromiseManualUpdate
<1>3. ASSUME NEW k \in Recids, NEW r \in Records, ManualRecord(k, r)  PROVE Promise!SpecNext
  BY <1>3, PromiseManualRecord
<1>4. CASE UNCHANGED vars
  BY <1>4 DEF vars, Promise!specVars
<1>. QED  BY <1>1, <1>2, <1>3, <1>4 DEF Next

-----------------------------------------------------------------------------
(* Single answers, statement by statement. *)

\* A record that the triggers let pass joins no rival.
LEMMA WrittenSingle ==
  ASSUME NEW d, NEW k \in Recids, NEW r \in Records, Table(d), RecordPasses(d, k, r),
         NEW q \in Keys, SingleAnswer(d, q)
  PROVE  SingleAnswer(Written(d, k, r), q)
<1> DEFINE e == Written(d, k, r)
<1>1. e[k] = r /\ \A j \in Recids : j # k => e[j] = d[j]
  BY WrittenRows
<1> HIDE DEF e
<1>2. \A j \in Answers(e, q) : j # k => j \in Answers(d, q) /\ e[j] = d[j]
  BY <1>1 DEF Answers
<1>3. k \in Answers(e, q) => r.key = q
  BY <1>1 DEF Answers
<1>4. ASSUME NEW j \in Answers(d, q), j # k, r.key = q,
             q[2] = "SOA" \/ (q[2] = "CNAME" /\ d[j].view = r.view)
      PROVE  FALSE
  <2>1. CASE q[2] = "SOA" /\ (d[k] = Absent \/ d[k].key # q)
    BY <1>4, <2>1 DEF RecordPasses
  <2>2. CASE q[2] = "SOA" /\ d[k] # Absent /\ d[k].key = q
    <3>1. k \in Answers(d, q)  BY <2>2 DEF Answers
    <3>. QED  BY <1>4, <2>2, <3>1 DEF SingleAnswer
  <2>3. CASE q[2] = "CNAME" /\ d[k] # r
    BY <1>4, <2>3 DEF RecordPasses
  <2>4. CASE q[2] = "CNAME" /\ d[k] = r
    <3>1. k \in Answers(d, q)  BY <1>4, <2>4, KeyParts DEF Answers
    <3>. QED  BY <1>4, <2>4, <3>1 DEF SingleAnswer
  <2>. QED  BY <1>4, <2>1, <2>2, <2>3, <2>4
<1>5. ASSUME NEW i \in Answers(e, q), NEW j \in Answers(e, q),
             q[2] = "SOA" \/ (q[2] = "CNAME" /\ e[i].view = e[j].view)
      PROVE  i = j
  <2>1. CASE i # k /\ j # k
    <3>1. i \in Answers(d, q) /\ j \in Answers(d, q) /\ e[i] = d[i] /\ e[j] = d[j]
      BY <1>2, <2>1
    <3>. QED  BY <1>5, <3>1 DEF SingleAnswer
  <2>2. CASE i = k /\ j # k
    <3>1. j \in Answers(d, q) /\ e[j] = d[j] /\ r.key = q /\ e[i] = r  BY <1>1, <1>2, <1>3, <2>2
    <3>. QED  BY <1>4, <1>5, <2>2, <3>1
  <2>3. CASE i # k /\ j = k
    <3>1. i \in Answers(d, q) /\ e[i] = d[i] /\ r.key = q /\ e[j] = r  BY <1>1, <1>2, <1>3, <2>3
    <3>. QED  BY <1>4, <1>5, <2>3, <3>1
  <2>. QED  BY <2>1, <2>2, <2>3
<1>. QED  BY <1>5 DEF SingleAnswer, e

\* A whole save: its rrset has the records it had.
LEMMA SavedSingle ==
  ASSUME NEW d, NEW k \in Recids, NEW r \in Records, Table(d), MaySave(d, k, r),
         NEW q \in Keys, SingleAnswer(d, q)
  PROVE  SingleAnswer(After(d, k, r), q)
<1> DEFINE u == Upserted(d, r.key)
<1>1. r.key \in Keys  BY KeyParts
<1>2. /\ Table(u) /\ \A x \in Rows : x # r.key => u[x] = d[x]
      /\ \A p \in Keys : Answers(u, p) = Answers(d, p)
  BY <1>1, UpsertedRows
<1>3. RecordPasses(u, k, r)  BY DEF MaySave
<1> HIDE DEF u
<1>4. \A j \in Recids : u[j] = d[j]  BY <1>1, <1>2, KeyParts
<1>5. SingleAnswer(u, q)
  <2>1. Answers(u, q) = Answers(d, q) /\ \A j \in Answers(d, q) : u[j] = d[j]
    BY <1>2, <1>4 DEF Answers
  <2>. QED  BY <2>1 DEF SingleAnswer
<1>6. SingleAnswer(Written(u, k, r), q)  BY <1>2, <1>3, <1>5, WrittenSingle
<1>. QED  BY <1>6 DEF u, After

LEMMA DeletedSingle ==
  ASSUME NEW d, NEW K \in SUBSET Recids, Table(d), NEW q \in Keys, SingleAnswer(d, q)
  PROVE  SingleAnswer(Deleted(d, K), q)
<1> DEFINE e == Deleted(d, K)
<1>1. \A j \in Recids : e[j] = IF j \in K THEN Absent ELSE d[j]
  BY DeletedRows
<1> HIDE DEF e
<1>2. \A j \in Answers(e, q) : j \in Answers(d, q) /\ e[j] = d[j]
  BY <1>1 DEF Answers
<1>3. SingleAnswer(e, q)  BY <1>2 DEF SingleAnswer
<1>. QED  BY <1>3 DEF e

\* rrset_guard counts the records of an rrset that becomes an SOA, and of no other.
LEMMA RenamedSingle ==
  ASSUME NEW d, NEW p \in Keys, NEW n \in Keys, Table(d), \A m \in Names : Good(d, m, {}),
         RenamePasses(d, p, n), NEW q \in Keys, SingleAnswer(d, q),
         ~SingleAnswer(Renamed(d, p, n), q)
  PROVE  n = q /\ q[2] = "CNAME" /\ (p[2] = "CNAME" => ~SingleAnswer(d, p))
<1> DEFINE e == Renamed(d, p, n)
<1>1. \A k \in Recids : e[k] = IF k \in Answers(d, p) THEN [d[k] EXCEPT !.key = n] ELSE d[k]
  BY KeyParts DEF Renamed
<1> HIDE DEF e
<1>2. PICK i \in Answers(e, q), j \in Answers(e, q) :
        (q[2] = "SOA" \/ (q[2] = "CNAME" /\ e[i].view = e[j].view)) /\ i # j
  BY DEF SingleAnswer, e
<1>3. ASSUME NEW k \in Answers(e, q)
      PROVE  \/ k \in Answers(d, q) /\ k \notin Answers(d, p) /\ e[k] = d[k]
             \/ k \in Answers(d, p) /\ n = q /\ e[k].view = d[k].view
  <2>1. CASE k \in Answers(d, p)
    <3>1. d[k] \in Records /\ e[k] = [d[k] EXCEPT !.key = n]
      BY <1>1, <2>1 DEF Answers, Table
    <3>2. e[k].key = n /\ e[k].view = d[k].view  BY <3>1 DEF Records
    <3>. QED  BY <1>3, <2>1, <3>2 DEF Answers
  <2>2. CASE k \notin Answers(d, p)
    BY <1>1, <1>3, <2>2 DEF Answers
  <2>. QED  BY <2>1, <2>2
<1>4. ASSUME n = q, NEW k \in Answers(d, q)  PROVE FALSE
  <2>1. k \in Recids /\ d[k] # Absent /\ d[k].key = q  BY <1>4 DEF Answers
  <2>2. q[1] \in Names  BY KeyParts
  <2>3. Held(d, q[1])  BY <2>2 DEF Good
  <2>4. d[q] = Present  BY <2>1, <2>3 DEF Held, Live
  <2>. QED  BY <1>4, <2>4, KeyParts DEF RenamePasses
<1>5. n = q
  BY <1>2, <1>3 DEF SingleAnswer
<1>6. /\ i \in Answers(d, p) /\ j \in Answers(d, p)
      /\ e[i].view = d[i].view /\ e[j].view = d[j].view
  BY <1>3, <1>4, <1>5
<1>7. q[2] # "SOA"
  <2> SUFFICES ASSUME q[2] = "SOA"  PROVE FALSE
    OBVIOUS
  <2>1. Cardinality(Answers(d, p)) <= 1  BY <1>5 DEF RenamePasses, Guard
  <2>. QED  BY <1>2, <1>6, <2>1, AtMostOne DEF Answers
<1>8. q[2] = "CNAME"  BY <1>2, <1>7
<1>9. p[2] = "CNAME" => ~SingleAnswer(d, p)
  BY <1>2, <1>6, <1>7 DEF SingleAnswer
<1>. QED  BY <1>5, <1>8, <1>9

\* Each step of the promise, and so each step of the sessions and the operator.
LEMMA SingleStep ==
  ASSUME IInv, Promise!SpecNext, NEW q \in Keys, SingleAnswer(rows, q), ~SingleAnswer(rows', q)
  PROVE  q[2] = "CNAME" /\ Retyped(q)
<1>1. Table(rows) /\ \A n \in Names : Good(rows, n, {})  BY Shapes
<1>2. ASSUME NEW k \in Recids, NEW r \in Records,
             Promise!SpecInsert(k, r) \/ Promise!SpecUpdate(k, r) \/ Promise!SpecManualRecord(k, r)
      PROVE  FALSE
  <2>1. CASE Promise!SpecInsert(k, r) \/ Promise!SpecUpdate(k, r)
    <3>1. MaySave(rows, k, r) /\ rows' = After(rows, k, r)
      BY <2>1, PromiseOps DEF Promise!SpecInsert, Promise!SpecUpdate
    <3>. QED  BY <1>1, <3>1, SavedSingle
  <2>2. CASE Promise!SpecManualRecord(k, r)
    <3>1. RecordPasses(rows, k, r) /\ rows' = Written(rows, k, r)
      BY <2>2, PromiseOps DEF Promise!SpecManualRecord
    <3>. QED  BY <1>1, <3>1, WrittenSingle
  <2>. QED  BY <1>2, <2>1, <2>2
<1>3. ASSUME NEW K \in SUBSET Recids, Promise!SpecDelete(K)  PROVE FALSE
  <2>1. rows' = Deleted(rows, K)  BY <1>3, PromiseOps DEF Promise!SpecDelete
  <2>. QED  BY <1>1, <2>1, DeletedSingle
<1>4. ASSUME NEW p \in Keys, NEW n \in Keys, Promise!SpecManualUpdate(p, n)
      PROVE  q[2] = "CNAME" /\ Retyped(q)
  <2>1. RenamePasses(rows, p, n) /\ rows' = Renamed(rows, p, n)
    BY <1>4, PromiseOps DEF Promise!SpecManualUpdate
  <2>2. n = q /\ q[2] = "CNAME" /\ (p[2] = "CNAME" => ~SingleAnswer(rows, p))
    BY <1>1, <2>1, RenamedSingle
  <2>. QED  BY <2>1, <2>2 DEF Retyped
<1>5. CASE Promise!SpecGap
  BY <1>5 DEF Promise!SpecGap, SingleAnswer, Answers
<1>. QED  BY <1>2, <1>3, <1>4, <1>5, PromiseOps DEF Promise!SpecNext

-----------------------------------------------------------------------------
(* The theorems. *)

(***************************************************************************)
(* What a transaction wrote is under locks it holds until its end, so each *)
(* of the transactions running at once finds right what it may change      *)
(* (the gap and row locks of rrset_guard and its foreign key, InnoDB).     *)
(***************************************************************************)
THEOREM Inductive == Spec => []IInv
BY Start, Step, PTL DEF Spec

(***************************************************************************)
(* The variables keep their types (scheme.sql: columns and foreign key).   *)
(***************************************************************************)
THEOREM TypeCorrect == Spec => []TypeOK
<1>1. IInv => TypeOK  BY DEF IInv, Typed
<1>. QED  BY <1>1, Inductive, PTL

(***************************************************************************)
(* A CNAME rrset is alone at its name whatever saves, deletes and manual   *)
(* updates interleave there (rrset_guard), under any isolation.            *)
(***************************************************************************)
THEOREM CnameAlone == Spec => []CnameExclusive
<1>1. IInv => CnameExclusive
  BY KeyParts DEF IInv, Good, Alone, CnameExclusive
<1>. QED  BY <1>1, Inductive, PTL

(***************************************************************************)
(* If nobody retypes an rrset to CNAME by hand, SOA rrsets have one record *)
(* and CNAME rrsets one for each view (records_before_insert, _update),    *)
(* under any isolation.                                                    *)
(***************************************************************************)
THEOREM NoSecondAnswer == "CNAME" \notin ManualTypes => (Spec => []OneAnswer)
<1> SUFFICES ASSUME "CNAME" \notin ManualTypes  PROVE Spec => []OneAnswer
  OBVIOUS
<1>1. IInv => OneAnswer
  <2> SUFFICES ASSUME IInv, NEW k \in Recids, NEW j \in Recids,
                      rows[k] # Absent, rows[j] # Absent, rows[k].key = rows[j].key,
                      \/ rows[k].key[2] = "SOA"
                      \/ rows[k].key[2] = "CNAME" /\ rows[k].view = rows[j].view
               PROVE  k = j
    BY DEF OneAnswer, SingleAnswer, Answers
  <2>1. rows[k].key[1] \in Names  BY Shapes, KeyParts DEF Table
  <2>2. Single(rows, rows[k].key[1])  BY <2>1, Shapes DEF Good
  <2>. QED  BY <2>2 DEF Single, Rivals, Live
<1>. QED  BY <1>1, Inductive, PTL

(***************************************************************************)
(* With snapshot isolation no rrset outlives its last record, and no       *)
(* record its rrset (records_after_update, records_after_delete and the    *)
(* read-back of Records.save).                                             *)
(***************************************************************************)
THEOREM EveryRrsetUsed == SnapshotIsolation => (Spec => []NoOrphans)
<1> SUFFICES ASSUME SnapshotIsolation  PROVE Spec => []NoOrphans
  OBVIOUS
<1>1. IInv => NoOrphans
  <2> SUFFICES ASSUME IInv, NEW q \in Keys  PROVE rows[q] = Present <=> Answers(rows, q) # {}
    BY DEF NoOrphans
  <2>1. q[1] \in Names  BY KeyParts
  <2>2. Held(rows, q[1]) /\ Used(rows, q[1], {})  BY <2>1, Shapes DEF Good
  <2>3. rows[q] = Present => Answers(rows, q) # {}  BY <2>2 DEF Used, Answers, Live
  <2>4. Answers(rows, q) # {} => rows[q] = Present  BY <2>2 DEF Held, Answers, Live
  <2>. QED  BY <2>3, <2>4
<1>. QED  BY <1>1, Inductive, PTL

(***************************************************************************)
(* Whoever else writes in between, every save or delete takes effect as a  *)
(* whole when it commits, on the rows of that moment, and never brings a   *)
(* deleted record back (Records.save and remove: two statements in one     *)
(* transaction, under snapshot isolation).                                 *)
(***************************************************************************)
THEOREM RequestsActWhole == SnapshotIsolation => (Spec => ActsWhole)
<1> SUFFICES ASSUME SnapshotIsolation  PROVE Spec => ActsWhole
  OBVIOUS
<1>1. ActsInv /\ [Next]_vars => ActsInv'  BY ActsStep
<1>. QED
  BY <1>1, ActsStart, PromiseStart, PromiseStep, PTL DEF Spec, ActsWhole, Promise!WholeRequests

(***************************************************************************)
(* Operators who retype rrsets to CNAME included, nothing else than such a *)
(* statement gives an rrset a second answer: rrset_guard, called by it,    *)
(* counts no records for a CNAME; the triggers of records and the saves    *)
(* and deletes of any number of connections keep single what is single     *)
(* (records_before_insert, records_before_update), under snapshot          *)
(* isolation.                                                              *)
(***************************************************************************)
THEOREM OnlyRetypingBreaks == SnapshotIsolation => (Spec => OneAnswerKept)
<1> SUFFICES ASSUME SnapshotIsolation  PROVE Spec => OneAnswerKept
  OBVIOUS
<1> DEFINE Keeps ==
      \A q \in Keys :
        SingleAnswer(rows, q) => SingleAnswer(rows', q) \/ (q[2] = "CNAME" /\ Retyped(q))
<1>1. ActsInv /\ [Next]_vars => ActsInv'  BY ActsStep
<1>2. ActsInv /\ [Next]_vars => Keeps
  <2> SUFFICES ASSUME ActsInv, [Next]_vars, NEW q \in Keys, SingleAnswer(rows, q)
               PROVE  SingleAnswer(rows', q) \/ (q[2] = "CNAME" /\ Retyped(q))
    OBVIOUS
  <2>1. CASE Promise!SpecNext
    BY <2>1, SingleStep DEF ActsInv
  <2>2. CASE UNCHANGED Promise!specVars
    BY <2>2 DEF Promise!specVars, SingleAnswer, Answers
  <2>. QED  BY <2>1, <2>2, PromiseStep
<1>. QED
  BY <1>1, <1>2, ActsStart, PTL DEF Spec, OneAnswerKept

(***************************************************************************)
(* A CNAME rrset that exists is never upserted again, whatever else is in  *)
(* the tables: rrsets_before_insert passes rrset_guard no id, and the      *)
(* guard finds the rrset itself (scheme.sql:135, Records.save).            *)
(***************************************************************************)
LEMMA CnameRefused ==
  ASSUME NEW d, NEW q \in Keys, q[2] = "CNAME", d[q] = Present
  PROVE  ~UpsertPasses(d, q)
<1>1. q \in {p \in Keys \ {} : d[p] = Present /\ p[1] = q[1]}  OBVIOUS
<1>. QED  BY <1>1 DEF UpsertPasses, Guard
=============================================================================
