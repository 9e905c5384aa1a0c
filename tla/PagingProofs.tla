----------------------------- MODULE PagingProofs ------------------------------
(***************************************************************************)
(* What a listing shows, for any records, requests, collation and LIKE,    *)
(* and for any parser with which ParserAssumption holds.                   *)
(***************************************************************************)
EXTENDS Paging, FiniteSetTheorems, SequenceTheorems, TLAPS

-----------------------------------------------------------------------------
(* The operators of the model. *)

LEMMA LocalIn ==
  /\ "recid" \in LocalFields /\ "recid" \in Fields
  /\ LocalFields \subseteq Fields
  /\ "status" \in LocalFields <=> Status
  /\ "status" \in Fields <=> Status
  /\ "recid" \in Shape /\ Shape \subseteq Fields
  /\ "status" \in Shape <=> Status
  BY DEF LocalFields, Fields, Shape

LEMMA RowShape ==
  ASSUME NEW i, NEW F
  PROVE  /\ DOMAIN Row(i, F) = F
         /\ "recid" \in F => Row(i, F).recid = i
         /\ \A G : \A f \in F \cap G : Row(i, F)[f] = Row(i, G)[f]
         /\ Row(i, F) = [f \in F |-> Row(i, F)[f]]
  BY Zenon DEF Row

LEMMA IdsFinite == IsFiniteSet(Ids) /\ Ids \subseteq Nat
<1>1. Ids \subseteq 1..MaxNumber /\ MaxNumber \in Nat
  BY PagingAssumption
<1>2. IsFiniteSet(1..MaxNumber)
  BY <1>1, FS_Interval
<1>3. Ids \subseteq Nat
  BY <1>1
<1>4. Ids \in SUBSET (1..MaxNumber)
  BY <1>1
<1>. QED  BY ONLY <1>2, <1>3, <1>4, FS_Subset

\* Rows correspond to the records that are there.
LEMMA MatchingIds ==
  ASSUME NEW F, "recid" \in F
  PROVE  /\ IsFiniteSet(Matching(F))
         /\ \A row \in Matching(F) :
              /\ row.recid \in Ids /\ records[row.recid] # Absent
              /\ row = Row(row.recid, F) /\ DOMAIN row = F /\ Selected(row)
<1>1. \A row \in Matching(F) :
              /\ row.recid \in Ids /\ records[row.recid] # Absent
              /\ row = Row(row.recid, F) /\ DOMAIN row = F /\ Selected(row)
  <2>. SUFFICES ASSUME NEW row \in Matching(F)
                PROVE /\ row.recid \in Ids /\ records[row.recid] # Absent
                      /\ row = Row(row.recid, F) /\ DOMAIN row = F /\ Selected(row)
    OBVIOUS
  <2>1. PICK i \in Ids : records[i] # Absent /\ row = Row(i, F)
    BY DEF Matching, Stored
  <2>. QED  BY <2>1, RowShape DEF Matching
<1>2. IsFiniteSet(Matching(F))
  <2>. DEFINE g == [row \in Matching(F) |-> row.recid]
  <2>1. g \in [Matching(F) -> Ids]
    BY <1>1
  <2>2. \A a, b \in Matching(F) : g[a] = g[b] => a = b
    BY <1>1
  <2>3. g \in Injection(Matching(F), Ids)
    BY <2>1, <2>2 DEF Injection, IsInjective
  <2>. QED  BY <2>3, IdsFinite, FS_Injection
<1>. QED  BY <1>1, <1>2

\* An order of rows lists each of them once.
LEMMA OrderLists ==
  ASSUME NEW S, IsFiniteSet(S), NEW s \in Orders(S)
  PROVE  /\ s \in Seq(S) /\ Len(s) = Cardinality(S) /\ Cardinality(S) \in Nat
         /\ \A h, j \in 1..Len(s) : s[h] = s[j] => h = j
         /\ \A x \in S : \E j \in 1..Len(s) : s[j] = x
         /\ \A h, j \in 1..Len(s) : h < j => ~Before(s[j], s[h])
<1>1. Cardinality(S) \in Nat
  BY FS_CardinalityType
<1>2. /\ s \in [1..Cardinality(S) -> S]
      /\ \A h, j \in 1..Cardinality(S) : h # j => s[h] # s[j]
      /\ \A h, j \in DOMAIN s : h < j => ~Before(s[j], s[h])
  BY DEF Orders, SetToSeqs
<1>3. s \in Seq(S) /\ Len(s) = Cardinality(S)
  BY <1>1, <1>2
<1>4. s \in Injection(1..Cardinality(S), S)
  BY <1>2 DEF Injection, IsInjective
<1>5. Cardinality(1..Cardinality(S)) = Cardinality(S)
  BY <1>1, FS_Interval
<1>6. s \in Surjection(1..Cardinality(S), S)
  BY <1>4, <1>5, FS_Injection
<1>7. \A x \in S : \E j \in 1..Cardinality(S) : s[j] = x
  BY <1>6 DEF Surjection
<1>. QED  BY <1>1, <1>2, <1>3, <1>7

\* What a LIMIT and an OFFSET can be.
PageNumbers ==
  /\ {page.limit, page.offset} \subseteq Nat \cup {None}
  /\ page.offset # None => page.limit # None

LEMMA CutIs ==
  ASSUME NEW S, NEW s \in Seq(S), PageNumbers
  PROVE  /\ Cut(s) \in Seq(S) /\ Skipped \in Nat
         /\ page.limit = None => Len(Cut(s)) = Len(s)
         /\ page.limit # None =>
              Len(Cut(s)) = IF Len(s) <= Skipped THEN 0
                            ELSE IF Len(s) <= Skipped + page.limit THEN Len(s) - Skipped ELSE page.limit
         /\ \A j \in 1..Len(Cut(s)) : Skipped + j \in 1..Len(s) /\ Cut(s)[j] = s[Skipped + j]
<1>. DEFINE last == IF page.limit = None \/ Skipped + page.limit > Len(s) THEN Len(s) ELSE Skipped + page.limit
<1>1. /\ Skipped \in Nat /\ Len(s) \in Nat /\ None \notin Nat
      /\ page.limit = None => Skipped = 0
      /\ page.limit # None => page.limit \in Nat
  BY PagingAssumption DEF PageNumbers, Skipped
<1>2. last \in Nat /\ last <= Len(s)
  BY <1>1
<1>3. \A j \in Skipped + 1..last : j \in 1..Len(s) /\ s[j] \in S
  BY <1>1, <1>2
<1>4. /\ Cut(s) \in Seq(S)
      /\ Len(Cut(s)) = IF Skipped + 1 <= last THEN last - (Skipped + 1) + 1 ELSE 0
      /\ \A j \in 1..last - (Skipped + 1) + 1 : Cut(s)[j] = s[Skipped + 1 + j - 1]
  <2>. HIDE DEF last
  <2>1. Cut(s) = SubSeq(s, Skipped + 1, last)
    BY DEF Cut, last
  <2>. QED  BY <1>1, <1>2, <1>3, <2>1, SubSeqProperties
<1>. QED  BY <1>1, <1>2, <1>3, <1>4

\* A page that is not full tells how many rows match.
LEMMA ShortTells ==
  ASSUME NEW S, NEW s \in Seq(S), PageNumbers, page.offset # None, Short(Cut(s))
  PROVE  Len(Cut(s)) + page.offset = Len(s)
<1>1. /\ page.offset \in Nat /\ page.limit \in Nat /\ Skipped = page.offset /\ page.limit # None
  BY PagingAssumption DEF PageNumbers, Skipped
<1>2. Cut(s) # <<>> => Len(Cut(s)) # 0
  BY CutIs, EmptySeq
<1>. QED  BY <1>1, <1>2, CutIs DEF Short

\* The positions in K are numbered from 1 to their number, in their order.
LEMMA Ranks ==
  ASSUME NEW n \in Nat, NEW K \in SUBSET (1..n)
  PROVE  /\ Cardinality(K) \in Nat
         /\ \A m \in 1..Cardinality(K) : \E j \in K : Cardinality({h \in K : h <= j}) = m
<1>. DEFINE UpTo(j) == {h \in K : h <= j}
            rank == [j \in K |-> Cardinality(UpTo(j))]
<1>1. IsFiniteSet(K) /\ Cardinality(K) \in Nat /\ K \subseteq Nat
  <2>1. IsFiniteSet(1..n) /\ K \subseteq Nat
    BY FS_Interval
  <2>2. IsFiniteSet(K)
    BY ONLY <2>1, K \in SUBSET (1..n), FS_Subset
  <2>. QED  BY <2>1, <2>2, FS_CardinalityType
<1>2. \A j \in K : /\ IsFiniteSet(UpTo(j)) /\ Cardinality(UpTo(j)) \in 1..Cardinality(K)
  <2>. TAKE j \in K
  <2>1. UpTo(j) \in SUBSET K /\ j \in UpTo(j)
    BY <1>1
  <2>. HIDE DEF UpTo
  <2>2. /\ IsFiniteSet(UpTo(j)) /\ Cardinality(UpTo(j)) <= Cardinality(K)
        /\ Cardinality(UpTo(j)) \in Nat /\ Cardinality(UpTo(j)) # 0
    BY <1>1, <2>1, FS_Subset, FS_CardinalityType, FS_EmptySet
  <2>. QED  BY <1>1, <2>2
<1>3. \A a, b \in K : a < b => Cardinality(UpTo(a)) # Cardinality(UpTo(b))
  <2>. SUFFICES ASSUME NEW a \in K, NEW b \in K, a < b, Cardinality(UpTo(a)) = Cardinality(UpTo(b))
                PROVE FALSE
    OBVIOUS
  <2>0. a \in Nat /\ b \in Nat /\ \A h \in K : h \in Nat
    BY <1>1
  <2>1. UpTo(a) \in SUBSET UpTo(b) /\ b \in UpTo(b) /\ b \notin UpTo(a)
    <3>1. \A h \in UpTo(a) : h \in UpTo(b)
      BY <2>0
    <3>2. b \in UpTo(b) /\ b \notin UpTo(a)
      BY <2>0
    <3>. QED  BY <3>1, <3>2
  <2>2. IsFiniteSet(UpTo(b))
    BY <1>2
  <2>. HIDE DEF UpTo
  <2>3. UpTo(b) = UpTo(a)
    BY <2>1, <2>2, FS_Subset
  <2>. QED  BY <2>1, <2>3
<1>4. rank \in Injection(K, 1..Cardinality(K))
  <2>1. rank \in [K -> 1..Cardinality(K)]
    BY <1>2
  <2>2. \A a, b \in K : rank[a] = rank[b] => ~(a < b) /\ ~(b < a)
    BY <1>3
  <2>3. \A a, b \in K : rank[a] = rank[b] => a = b
    BY <1>1, <2>2
  <2>. QED  BY <2>1, <2>3 DEF Injection, IsInjective
<1>5. IsFiniteSet(1..Cardinality(K)) /\ Cardinality(1..Cardinality(K)) = Cardinality(K)
  BY <1>1, FS_Interval
<1>6. rank \in Surjection(K, 1..Cardinality(K))
  BY <1>4, <1>5, FS_Injection
<1>7. \A m \in 1..Cardinality(K) : \E j \in K : rank[j] = m
  BY <1>6 DEF Surjection
<1>. QED  BY <1>1, <1>7

\* A sequence of elements of s, at positions in K.
From(t, s, K) ==
  \E n \in Nat : DOMAIN t = 1..n /\ \A m \in 1..n : \E j \in K : t[m] = s[j]

\* Kept keeps the elements at the positions in K, in a sequence.
LEMMA KeptIs ==
  ASSUME NEW n \in Nat, NEW K \in SUBSET (1..n), NEW s
  PROVE  From(Kept(s, K), s, K)
<1>. DEFINE Nth(m) == CHOOSE j \in K : Cardinality({h \in K : h <= j}) = m
<1>1. Cardinality(K) \in Nat
  BY Ranks
<1>2. ASSUME NEW m \in 1..Cardinality(K)  PROVE Nth(m) \in K
  <2>1. \E j \in K : Cardinality({h \in K : h <= j}) = m
    BY Ranks
  <2>. QED  BY <2>1, Zenon
<1>3. Kept(s, K) = [m \in 1..Cardinality(K) |-> s[Nth(m)]]
  BY Zenon DEF Kept
<1>. HIDE DEF Nth
<1>. QED  BY <1>1, <1>2, <1>3 DEF From

\* It keeps all at all the positions.
LEMMA KeptAll ==
  ASSUME NEW n \in Nat, NEW s
  PROVE  Kept(s, 1..n) = [j \in 1..n |-> s[j]]
<1>. DEFINE Nth(m) == CHOOSE j \in 1..n : Cardinality({h \in 1..n : h <= j}) = m
<1>1. \A j \in 1..n : Cardinality({h \in 1..n : h <= j}) = j
  <2>. TAKE j \in 1..n
  <2>1. {h \in 1..n : h <= j} = 1..j
    OBVIOUS
  <2>2. Cardinality(1..j) = j
    BY FS_Interval
  <2>. QED  BY <2>1, <2>2
<1>2. ASSUME NEW m \in 1..n  PROVE Nth(m) = m
  <2>1. \E j \in 1..n : Cardinality({h \in 1..n : h <= j}) = m
    BY <1>1
  <2>2. Nth(m) \in 1..n /\ Cardinality({h \in 1..n : h <= Nth(m)}) = m
    BY <2>1, Zenon
  <2>. HIDE DEF Nth
  <2>. QED  BY <1>1, <2>2
<1>3. Cardinality(1..n) = n
  BY FS_Interval
<1>4. Kept(s, 1..n) = [m \in 1..Cardinality(1..n) |-> s[Nth(m)]]
  BY Zenon DEF Kept
<1>. HIDE DEF Nth
<1>. QED  BY <1>2, <1>3, <1>4

-----------------------------------------------------------------------------
(* The invariant. *)

\* A list of rows with the fields F.
ListOf(rows, F) ==
  \E n \in Nat : /\ DOMAIN rows = 1..n
                 /\ \A j \in 1..n : DOMAIN rows[j] = F /\ rows[j].recid \in Ids

\* The handler knows what was asked for, and a statement which page it reads.
Phase ==
  /\ pc \in {"idle", "handle", "page", "count", "join"}
  /\ reply.kind # "none" => pc = "idle"
  /\ pc # "idle" \/ reply.kind # "none" => asked \in Asks
  /\ pc \in {"count", "join"} \/ reply.kind = "records" => page # None
  /\ page # None => PageNumbers /\ page.sorts \in Seq([field : STRING, desc : BOOLEAN])

Typed ==
  /\ records \in [Ids -> Written] /\ {down, downIds} \subseteq SUBSET Ids
  /\ total \in Nat /\ still \in BOOLEAN /\ shown \in Seq(Ids)

\* What is kept of the page statement.
Found ==
  /\ pc \in {"count", "join"} => ListOf(found, Shape) /\ \A j \in DOMAIN found : Selected(found[j])
  /\ pc = "join" => IsLocal /\ total \in moments

\* Rows show the status that the page's clauses ask for.
Carries(rows) ==
  ~page.or =>
    \A j \in DOMAIN rows, h \in DOMAIN page.searches :
      page.searches[h].field = "status" /\ Status /\ Usable(page.searches[h])
        => Matches(page.searches[h], rows[j])

Replied ==
  /\ Listed => ListOf(reply.rows, Fields)
  /\ TotalOfAMoment /\ StatusAsSearched

IInv == Phase /\ Typed /\ Found /\ Replied

\* What depends on the request only.
LEMMA SameRequest ==
  ASSUME UNCHANGED <<asked, page>>
  PROVE  /\ Status' = Status /\ Fields' = Fields /\ LocalFields' = LocalFields
         /\ IsLocal' = IsLocal /\ Shape' = Shape
         /\ PageNumbers' = PageNumbers
         /\ \A s, row : Matches(s, row)' = Matches(s, row)
         /\ \A row : Selected(row)' = Selected(row)
<1>1. Status' = Status /\ Fields' = Fields /\ LocalFields' = LocalFields
  BY DEF Status, Fields, LocalFields
<1>2. IsLocal' = IsLocal
  BY <1>1 DEF IsLocal
<1>3. Shape' = Shape
  BY <1>1, <1>2 DEF Shape
<1>4. PageNumbers' = PageNumbers
  BY DEF PageNumbers
<1>5. \A s, row : Matches(s, row)' = Matches(s, row)
  BY <1>1 DEF Matches
<1>6. \A row : Selected(row)' = Selected(row)
  BY <1>5 DEF Selected
<1>. QED  BY <1>1, <1>2, <1>3, <1>4, <1>5, <1>6

LEMMA InitHolds == Init => IInv
<1>. SUFFICES ASSUME Init  PROVE IInv
  OBVIOUS
<1>1. Phase
  BY DEF Init, Phase, NoReply
<1>2. Typed
  BY PagingAssumption DEF Init, Typed
<1>3. Found /\ Replied
  BY DEF Init, Found, Replied, Listed, NoReply, TotalOfAMoment, StatusAsSearched
<1>. QED  BY <1>1, <1>2, <1>3 DEF IInv

\* Between the statements, others change only what the statements read.
LEMMA QuietStep ==
  ASSUME IInv, UNCHANGED <<pc, reading, reply, moments, shown>>,
         records' \in [Ids -> Written], down' \subseteq Ids, still' \in BOOLEAN
  PROVE  IInv'
<1>0. UNCHANGED <<pc, asked, page, downIds, found, total, reply, moments, shown>>
  BY DEF reading
<1>1. Phase'
  BY <1>0, SameRequest DEF IInv, Phase
<1>2. Typed'
  BY <1>0 DEF IInv, Typed
<1>3. Found'
  BY <1>0, SameRequest DEF IInv, Found, ListOf
<1>4. Replied'
  <2>1. Listed' = Listed
    BY <1>0 DEF Listed
  <2>2. TotalOfAMoment'
    BY <1>0, <2>1 DEF IInv, Replied, TotalOfAMoment
  <2>3. StatusAsSearched'
    BY <1>0, <2>1, SameRequest DEF IInv, Replied, StatusAsSearched
  <2>. QED  BY <1>0, <2>1, <2>2, <2>3, SameRequest DEF IInv, Replied, ListOf
<1>. QED  BY <1>1, <1>2, <1>3, <1>4 DEF IInv

\* A form for the next page is one that may be asked for.
LEMMA NextAsked ==
  ASSUME NEW q \in Asks, NEW n \in 0..MaxNumber
  PROVE  [q EXCEPT !.offset = ToString(n)] \in Asks
<1>1. CASE q \in Asked
  BY <1>1 DEF Asks
<1>2. CASE \E r \in Asked, m \in 0..MaxNumber : q = [r EXCEPT !.offset = ToString(m)]
  <2>1. PICK r \in Asked, m \in 0..MaxNumber : q = [r EXCEPT !.offset = ToString(m)]
    BY <1>2
  <2>2. [q EXCEPT !.offset = ToString(n)] = [r EXCEPT !.offset = ToString(n)]
    BY <2>1
  <2>. QED  BY <2>2 DEF Asks
<1>. QED  BY <1>1, <1>2 DEF Asks

LEMMA RequestStep ==
  ASSUME IInv, \/ \E q \in Asked : Ask(q)
               \/ AskNext
  PROVE  IInv'
<1>1. /\ pc' = "handle" /\ reply' = NoReply /\ total' = 0
      /\ UNCHANGED <<records, down>>
      /\ still' \in BOOLEAN /\ shown' \in Seq(Ids) /\ downIds' \in SUBSET Ids
  <2>1. CASE \E q \in Asked : Ask(q)
    <3>1. PICK q \in Asked : Ask(q)
      BY <2>1
    <3>. QED  BY <3>1 DEF IInv, Typed, Ask, Request, database
  <2>2. CASE AskNext
    <3>1. /\ pc' = "handle" /\ reply' = NoReply /\ total' = 0
          /\ UNCHANGED database /\ UNCHANGED <<downIds, still, shown>>
      BY <2>2, Zenon DEF AskNext, Request
    <3>. QED  BY <3>1 DEF IInv, Typed, database
  <2>. QED  BY <2>1, <2>2
<1>2. asked' \in Asks
  <2>1. CASE \E q \in Asked : Ask(q)
    BY <2>1 DEF Ask, Request, Asks
  <2>2. CASE AskNext
    <3>1. asked \in Asks /\ page.limit \in Nat /\ page.offset \in Nat
      BY <2>2 DEF IInv, Phase, PageNumbers, AskNext
    <3>2. page.offset + page.limit \in 0..MaxNumber
      BY <3>1, <2>2, PagingAssumption DEF AskNext
    <3>. QED  BY <3>1, <3>2, <2>2, NextAsked DEF AskNext, Request
  <2>. QED  BY <2>1, <2>2
<1>3. page' = None \/ page' = page
  BY DEF Ask, AskNext
<1>4. Phase'
  BY <1>1, <1>2, <1>3 DEF IInv, Phase, PageNumbers, NoReply
<1>5. Typed'
  BY <1>1 DEF IInv, Typed
<1>6. Found' /\ Replied'
  BY <1>1 DEF Found, Replied, Listed, TotalOfAMoment, StatusAsSearched
<1>. QED  BY <1>4, <1>5, <1>6 DEF IInv

\* The page of a query is one that ParserAssumption speaks of.
LEMMA PageIs ==
  ASSUME asked \in Asks, ~PagingInvalid(Query)
  PROVE  LET p == FromQuery(Query)
         IN /\ {p.limit, p.offset} \subseteq Nat \cup {None}
            /\ p.offset # None => p.limit # None
            /\ p.sorts \in Seq([field : STRING, desc : BOOLEAN])
<1>1. FromQuery(Query) = PageOf(asked)
  BY DEF Query, PageOf
<1>2. /\ {PageOf(asked).limit, PageOf(asked).offset} \subseteq Nat \cup {None}
      /\ PageOf(asked).sorts \in Seq([field : STRING, desc : BOOLEAN])
  BY ParserAssumption
<1>3. FromQuery(Query).limit = Limit(Query) /\ FromQuery(Query).offset = Offset(Query)
  BY DEF FromQuery
<1>4. Offset(Query) # None => Limit(Query) # None
  BY DEF PagingInvalid, Offset
<1>. QED  BY <1>1, <1>2, <1>3, <1>4

\* The ways the handler goes on.
LEMMA HandleAnswers ==
  ASSUME Handle
  PROVE  /\ pc = "handle" /\ UNCHANGED <<database, asked, found, total, still, moments, shown>>
         /\ downIds' = IF Value(Query, "data") = Str("status") THEN down ELSE {}
         /\ \/ pc' = "page" /\ reply' = reply
            \/ pc' = "idle" /\ reply' = Failure
         /\ page' = None \/ (~PagingInvalid(Query) /\ page' = FromQuery(Query))
<1>1. /\ pc = "handle" /\ UNCHANGED <<database, asked, found, total, still, moments, shown>>
      /\ downIds' = IF Value(Query, "data") = Str("status") THEN down ELSE {}
  BY Zenon DEF Handle
<1>2. /\ \/ pc' = "page" /\ reply' = reply
         \/ pc' = "idle" /\ reply' = Failure
      /\ page' = None \/ (~PagingInvalid(Query) /\ page' = FromQuery(Query))
  <2>1. CASE /\ page' = None
             /\ IF AsInt(Value(Query, "recid")) = None THEN Answer(Failure) ELSE pc' = "page" /\ UNCHANGED reply
    BY <2>1 DEF Answer
  <2>2. CASE page' = None /\ Answer(Failure)
    BY <2>2 DEF Answer
  <2>3. CASE /\ ~PagingInvalid(Query) /\ page' = FromQuery(Query)
             /\ pc' = "page" /\ UNCHANGED reply
    BY <2>3
  <2>. QED  BY <2>1, <2>2, <2>3, Zenon DEF Handle
<1>. QED  BY <1>1, <1>2

LEMMA HandleStep ==
  ASSUME IInv, Handle
  PROVE  IInv'
<1>1. /\ pc = "handle" /\ UNCHANGED <<database, asked, found, total, still, moments, shown>>
      /\ downIds' = IF Value(Query, "data") = Str("status") THEN down ELSE {}
      /\ \/ pc' = "page" /\ reply' = reply
         \/ pc' = "idle" /\ reply' = Failure
      /\ page' = None \/ (~PagingInvalid(Query) /\ page' = FromQuery(Query))
  BY HandleAnswers
<1>2. asked \in Asks /\ reply.kind = "none"
  BY <1>1 DEF IInv, Phase
<1>3. reply'.kind \in {"none", "error"} /\ (reply'.kind # "none" => pc' = "idle")
  BY <1>1, <1>2 DEF Failure
<1>4. page' # None => PageNumbers' /\ page'.sorts \in Seq([field : STRING, desc : BOOLEAN])
  BY <1>1, <1>2, PageIs DEF PageNumbers
<1>5. Phase'
  BY <1>1, <1>2, <1>3, <1>4 DEF Phase
<1>6. Typed'
  BY <1>1 DEF IInv, Typed, database
<1>7. Found' /\ Replied'
  BY <1>1, <1>3 DEF Found, Replied, Listed, TotalOfAMoment, StatusAsSearched
<1>. QED  BY <1>5, <1>6, <1>7 DEF IInv

\* An answer that lists no records.
LEMMA OtherAnswer ==
  ASSUME IInv, NEW r, Answer(r), r.kind \notin {"none", "records"}, pc # "idle",
         UNCHANGED <<database, reading, still, moments, shown>>
  PROVE  IInv'
<1>1. /\ pc' = "idle" /\ reply'.kind \notin {"none", "records"}
      /\ UNCHANGED <<records, down, asked, page, downIds, total, still, shown>>
  BY DEF Answer, database, reading
<1>2. Phase'
  BY <1>1 DEF IInv, Phase, PageNumbers
<1>3. Typed'
  BY <1>1 DEF IInv, Typed
<1>4. Found' /\ Replied'
  BY <1>1 DEF Found, Replied, Listed, TotalOfAMoment, StatusAsSearched
<1>. QED  BY <1>2, <1>3, <1>4 DEF IInv

LEMMA FailureStep ==
  ASSUME IInv, StatementFails
  PROVE  IInv'
<1>1. Failure.kind = "error"
  BY DEF Failure
<1>. QED  BY <1>1, OtherAnswer DEF StatementFails

LEMMA RecordAnswers ==
  ASSUME ReadRecord
  PROVE  \E r : Answer(r) /\ r.kind \in {"error", "record"}
<1>. DEFINE recid == AsInt(Value(Query, "recid"))
            rows == {row \in Stored(Fields) : recid = 0 \/ row.recid = recid}
<1>1. IF rows = {} THEN Answer(Failure)
      ELSE \E row \in rows : Answer([kind |-> "record", row |-> row])
  BY DEF ReadRecord
<1>. HIDE DEF rows
<1>2. CASE Answer(Failure)
  BY <1>2 DEF Failure
<1>3. CASE \E row : Answer([kind |-> "record", row |-> row])
  <2>1. PICK row : Answer([kind |-> "record", row |-> row])
    BY <1>3
  <2>2. [kind |-> "record", row |-> row].kind \in {"error", "record"}
    OBVIOUS
  <2>. QED  BY <2>1, <2>2
<1>. QED  BY <1>1, <1>2, <1>3

LEMMA RecordStep ==
  ASSUME IInv, ReadRecord
  PROVE  IInv'
<1>1. PICK r : Answer(r) /\ r.kind \in {"error", "record"}
  BY RecordAnswers
<1>. QED  BY <1>1, OtherAnswer DEF ReadRecord

LEMMA SelectedCarries ==
  ASSUME NEW rows, \A j \in DOMAIN rows : Selected(rows[j])
  PROVE  Carries(rows)
  BY DEF Carries, Selected

\* The rows of the page statement.
LEMMA PageRows ==
  ASSUME PageNumbers, NEW order \in Orders(Matching(Shape))
  PROVE  /\ ListOf(Cut(order), Shape) /\ Len(Cut(order)) \in Nat
         /\ \A j \in DOMAIN Cut(order) : Selected(Cut(order)[j])
         /\ Cut(order) = <<>> => ListOf(Cut(order), Fields)
<1>. DEFINE S == Matching(Shape)
<1>1. /\ IsFiniteSet(S)
      /\ \A row \in S : row.recid \in Ids /\ DOMAIN row = Shape /\ Selected(row)
  BY MatchingIds, LocalIn
<1>. HIDE DEF S
<1>2. order \in Seq(S)
  BY <1>1, OrderLists DEF S
<1>3. Cut(order) \in Seq(S)
  BY <1>2, CutIs
<1>4. Len(Cut(order)) \in Nat /\ DOMAIN Cut(order) = 1..Len(Cut(order))
      /\ \A j \in 1..Len(Cut(order)) : Cut(order)[j] \in S
  BY <1>3, LenProperties, ElementOfSeq
<1>5. Cut(order) = <<>> => DOMAIN Cut(order) = 1..0
  OBVIOUS
<1>6. ListOf(Cut(order), Shape)
  BY <1>1, <1>4 DEF ListOf
<1>7. Cut(order) = <<>> => ListOf(Cut(order), Fields)
  BY <1>5 DEF ListOf
<1>. QED  BY <1>1, <1>4, <1>6, <1>7

\* The answer with the rows.
LEMMA RowsStep ==
  ASSUME IInv, NEW rows, NEW n, Rows(rows, n), pc \in {"page", "count", "join"}, page # None,
         ListOf(rows, Fields), Carries(rows), n \in moments', total' \in Nat,
         UNCHANGED <<records, down, asked, page, downIds, still>>
  PROVE  IInv'
<1>1. /\ pc' = "idle"
      /\ reply'.kind \in {"items", "records"}
      /\ reply'.kind = "records" => reply'.rows = rows /\ reply'.total = n
  BY DEF Rows, Answer
<1>2. asked \in Asks
  BY DEF IInv, Phase
<1>3. Phase'
  BY <1>1, <1>2 DEF IInv, Phase, PageNumbers
<1>4. shown' \in Seq(Ids)
  <2>1. PICK m \in Nat : DOMAIN rows = 1..m /\ \A j \in 1..m : rows[j].recid \in Ids
    BY DEF ListOf
  <2>2. [j \in 1..m |-> rows[j].recid] \in Seq(Ids)
    BY <2>1
  <2>. QED  BY <2>1, <2>2, ConcatProperties DEF Rows, IInv, Typed
<1>5. Typed'
  BY <1>4 DEF IInv, Typed
<1>6. Found'
  BY <1>1 DEF Found
<1>7. Replied'
  <2>. SUFFICES ASSUME Listed'  PROVE ListOf(reply.rows, Fields)' /\ TotalOfAMoment' /\ StatusAsSearched'
    BY DEF Replied, TotalOfAMoment, StatusAsSearched
  <2>1. reply'.rows = rows /\ reply'.total = n /\ n \in moments'
    BY <1>1 DEF Listed
  <2>2. ListOf(reply.rows, Fields)'
    BY <2>1, SameRequest DEF ListOf
  <2>3. StatusAsSearched'
    BY <2>1, SameRequest DEF StatusAsSearched, Carries
  <2>. QED  BY <2>1, <2>2, <2>3 DEF TotalOfAMoment
<1>. QED  BY <1>3, <1>5, <1>6, <1>7 DEF IInv

\* The page statement or the COUNT is followed by another statement.
LEMMA GoesOn ==
  ASSUME IInv, pc \in {"page", "count"}, pc' \in {"count", "join"}, page # None,
         ListOf(found', Shape), \A j \in DOMAIN found' : Selected(found'[j]), total' \in Nat,
         pc' = "join" => IsLocal /\ total' \in moments',
         UNCHANGED <<records, down, asked, page, downIds, still, reply, shown>>
  PROVE  IInv'
<1>1. Phase'
  BY SameRequest DEF IInv, Phase
<1>2. Typed'
  BY DEF IInv, Typed
<1>3. Found'
  BY SameRequest DEF Found, ListOf
<1>4. Replied'
  BY DEF Replied, Listed, TotalOfAMoment, StatusAsSearched
<1>. QED  BY <1>1, <1>2, <1>3, <1>4 DEF IInv

LEMMA ReadPageStep ==
  ASSUME IInv, ReadPage
  PROVE  IInv'
<1>. DEFINE known == page.limit = None \/ page.offset = None
<1>1. pc = "page" /\ page # None /\ UNCHANGED <<records, down, changes, asked, page, downIds, still>>
  BY Zenon DEF ReadPage, database
<1>2. PageNumbers /\ None \notin Nat
  BY <1>1, PagingAssumption DEF IInv, Phase
<1>3. PICK order \in Orders(Matching(Shape)) :
        LET rows == Cut(order)
            short == ~known /\ Short(rows)
            n == Len(rows) + IF short THEN page.offset ELSE 0
        IN /\ moments' = {IF known THEN Len(rows) ELSE Cardinality(Matching(Shape))}
           /\ found' = rows
           /\ total' = n
           /\ IF ~known /\ ~short THEN pc' = "count" /\ UNCHANGED <<reply, shown>>
              ELSE IF IsLocal /\ rows # <<>> THEN pc' = "join" /\ UNCHANGED <<reply, shown>>
              ELSE Rows(rows, n)
  BY Zenon DEF ReadPage
<1>. DEFINE rows == Cut(order)
            short == ~known /\ Short(rows)
<1>4. /\ ListOf(rows, Shape) /\ Len(rows) \in Nat /\ \A j \in DOMAIN rows : Selected(rows[j])
      /\ Carries(rows) /\ (rows = <<>> \/ ~IsLocal => ListOf(rows, Fields))
  BY <1>2, PageRows, SelectedCarries DEF Shape
<1>5. order \in Seq(Matching(Shape)) /\ Len(order) = Cardinality(Matching(Shape))
  BY LocalIn, MatchingIds, OrderLists
<1>6. short => Len(rows) + page.offset = Len(order)
  BY <1>2, <1>5, ShortTells
<1>. HIDE DEF rows
<1>7. total' \in Nat /\ (known \/ short => total' \in moments')
  <2>1. CASE short
    <3>1. page.offset \in Nat
      BY <1>2, <2>1 DEF PageNumbers
    <3>. QED  BY <1>3, <1>4, <1>5, <1>6, <2>1, <3>1 DEF rows
  <2>2. CASE ~short
    BY <1>3, <1>4, <2>2 DEF rows
  <2>. QED  BY <2>1, <2>2
<1>8. CASE ~known /\ ~short
  <2>1. pc' = "count" /\ found' = rows /\ UNCHANGED <<reply, shown>>
    BY <1>3, <1>8 DEF rows
  <2>. QED  BY <1>1, <1>4, <1>7, <2>1, GoesOn
<1>9. CASE (known \/ short) /\ IsLocal /\ rows # <<>>
  <2>1. pc' = "join" /\ found' = rows /\ UNCHANGED <<reply, shown>>
    BY <1>3, <1>9 DEF rows
  <2>. QED  BY <1>1, <1>4, <1>7, <1>9, <2>1, GoesOn
<1>10. CASE (known \/ short) /\ ~(IsLocal /\ rows # <<>>)
  <2>1. Rows(rows, total')
    BY <1>3, <1>10 DEF rows
  <2>2. total' \in moments'
    BY <1>7, <1>10
  <2>. QED  BY <1>1, <1>4, <1>7, <1>10, <2>1, <2>2, RowsStep
<1>. QED  BY <1>8, <1>9, <1>10

LEMMA CountStep ==
  ASSUME IInv, Count
  PROVE  IInv'
<1>. DEFINE n == Cardinality(Matching(Shape))
<1>1. /\ pc = "count" /\ UNCHANGED <<records, down, asked, page, downIds, found, still>>
      /\ total' = n /\ moments' = moments \cup {n}
      /\ IF IsLocal /\ found # <<>> THEN pc' = "join" /\ UNCHANGED <<reply, shown>> ELSE Rows(found, n)
  BY Zenon DEF Count, database
<1>2. page # None /\ ListOf(found, Shape) /\ (\A j \in DOMAIN found : Selected(found[j])) /\ Carries(found)
  BY <1>1, SelectedCarries DEF IInv, Phase, Found
<1>3. n \in Nat
  BY LocalIn, MatchingIds, FS_CardinalityType
<1>. HIDE DEF n
<1>4. CASE IsLocal /\ found # <<>>
  BY <1>1, <1>2, <1>3, <1>4, GoesOn
<1>5. CASE ~(IsLocal /\ found # <<>>)
  <2>1. ListOf(found, Fields)
    <3>1. found = <<>> => DOMAIN found = 1..0
      OBVIOUS
    <3>2. CASE found = <<>>
      BY <3>1, <3>2 DEF ListOf
    <3>. QED  BY <1>2, <1>5, <3>2 DEF Shape
  <2>. QED  BY <1>1, <1>2, <1>3, <1>5, <2>1, RowsStep
<1>. QED  BY <1>4, <1>5

\* The joined rows are those of the page that are still there.
LEMMA JoinedIs ==
  ASSUME ListOf(found, Shape)
  PROVE  /\ \E n \in Nat : DOMAIN StillThere = 1..n
         /\ DOMAIN Joined = DOMAIN StillThere
         /\ \A j \in DOMAIN StillThere : \E h \in DOMAIN found : StillThere[j] = found[h]
         /\ \A j \in DOMAIN StillThere :
              /\ DOMAIN Joined[j] = Fields
              /\ Joined[j].recid = StillThere[j].recid
              /\ Status => Joined[j].status = StillThere[j].status
<1>. DEFINE K == {j \in DOMAIN found : records[found[j].recid] # Absent}
<1>1. PICK m \in Nat : DOMAIN found = 1..m
  BY DEF ListOf
<1>2. StillThere = Kept(found, K) /\ K \in SUBSET (1..m)
  BY <1>1, Zenon DEF StillThere
<1>3. \A j \in K : j \in DOMAIN found
  OBVIOUS
<1>. HIDE DEF K
<1>4. From(StillThere, found, K)
  BY <1>2, KeptIs
<1>5. /\ \E n \in Nat : DOMAIN StillThere = 1..n
      /\ \A j \in DOMAIN StillThere : \E h \in DOMAIN found : StillThere[j] = found[h]
  BY <1>3, <1>4 DEF From
<1>6. Joined = [j \in DOMAIN StillThere |->
                  [f \in Fields |-> IF f = "status" THEN StillThere[j].status
                                    ELSE Row(StillThere[j].recid, Fields)[f]]]
  BY Zenon DEF Joined
<1>7. ASSUME NEW j \in DOMAIN StillThere
      PROVE  /\ DOMAIN Joined[j] = Fields
             /\ Joined[j].recid = StillThere[j].recid
             /\ Status => Joined[j].status = StillThere[j].status
  <2>1. Joined[j] = [f \in Fields |-> IF f = "status" THEN StillThere[j].status
                                      ELSE Row(StillThere[j].recid, Fields)[f]]
    BY <1>6
  <2>2. Row(StillThere[j].recid, Fields).recid = StillThere[j].recid
    BY LocalIn, RowShape
  <2>. QED  BY <2>1, <2>2, LocalIn
<1>8. DOMAIN Joined = DOMAIN StillThere
  BY <1>6
<1>. QED  BY <1>5, <1>7, <1>8

LEMMA JoinStep ==
  ASSUME IInv, Join
  PROVE  IInv'
<1>1. /\ pc = "join" /\ Rows(Joined, total)
      /\ UNCHANGED <<records, down, asked, page, downIds, found, total, still, moments>>
  BY DEF Join, database, reading
<1>2. /\ page # None /\ ListOf(found, Shape) /\ \A j \in DOMAIN found : Selected(found[j])
      /\ total \in Nat /\ total \in moments
  BY <1>1 DEF IInv, Phase, Found, Typed
<1>3. /\ \E n \in Nat : DOMAIN Joined = 1..n
      /\ \A j \in DOMAIN Joined : \E h \in DOMAIN found :
           /\ DOMAIN Joined[j] = Fields
           /\ Joined[j].recid = found[h].recid
           /\ Status => Joined[j].status = found[h].status
  <2>1. \E n \in Nat : DOMAIN Joined = 1..n
    BY <1>2, JoinedIs
  <2>2. ASSUME NEW j \in DOMAIN Joined
        PROVE  \E h \in DOMAIN found : /\ DOMAIN Joined[j] = Fields
                                       /\ Joined[j].recid = found[h].recid
                                       /\ Status => Joined[j].status = found[h].status
    <3>1. PICK h \in DOMAIN found : StillThere[j] = found[h]
      BY <1>2, <2>2, JoinedIs
    <3>2. /\ DOMAIN Joined[j] = Fields /\ Joined[j].recid = StillThere[j].recid
          /\ Status => Joined[j].status = StillThere[j].status
      BY <1>2, <2>2, JoinedIs
    <3>. QED  BY <3>1, <3>2
  <2>. QED  BY <2>1, <2>2
<1>4. ListOf(Joined, Fields)
  <2>1. \A j \in DOMAIN found : found[j].recid \in Ids
    BY <1>2 DEF ListOf
  <2>2. \A j \in DOMAIN Joined : DOMAIN Joined[j] = Fields /\ Joined[j].recid \in Ids
    BY <1>3, <2>1
  <2>. QED  BY <1>3, <2>2 DEF ListOf
<1>5. Carries(Joined)
  <2>. SUFFICES ASSUME ~page.or, NEW j \in DOMAIN Joined, NEW h \in DOMAIN page.searches,
                       page.searches[h].field = "status", Status, Usable(page.searches[h])
                PROVE  Matches(page.searches[h], Joined[j])
    BY DEF Carries
  <2>1. PICK k \in DOMAIN found : Joined[j].status = found[k].status
    BY <1>3
  <2>2. Matches(page.searches[h], found[k])
    BY <1>2, SelectedCarries DEF Carries
  <2>. QED  BY <2>1, <2>2 DEF Matches
<1>. QED  BY <1>1, <1>2, <1>4, <1>5, RowsStep

LEMMA StepHolds == IInv /\ [Next]_vars => IInv'
<1>. SUFFICES ASSUME IInv, [Next]_vars  PROVE IInv'
  OBVIOUS
<1>1. CASE \/ \E q \in Asked : Ask(q)
           \/ AskNext
  BY <1>1, RequestStep
<1>2. ASSUME NEW i \in Ids, NEW r \in Written, Write(i, r)  PROVE IInv'
  <2>1. UNCHANGED <<pc, reading, reply, moments, shown>> /\ still' \in BOOLEAN
    BY <1>2 DEF Write
  <2>2. records' \in [Ids -> Written] /\ down' \subseteq Ids
    BY <1>2 DEF Write, IInv, Typed
  <2>. QED  BY <2>1, <2>2, QuietStep
<1>3. ASSUME NEW i \in Ids, Flip(i)  PROVE IInv'
  <2>1. UNCHANGED <<pc, reading, reply, moments, shown>> /\ still' \in BOOLEAN
    BY <1>3 DEF Flip
  <2>2. records' \in [Ids -> Written] /\ down' \subseteq Ids
    BY <1>3 DEF Flip, IInv, Typed
  <2>. QED  BY <2>1, <2>2, QuietStep
<1>4. CASE Handle \/ StatementFails \/ ReadRecord
  BY <1>4, HandleStep, FailureStep, RecordStep
<1>5. CASE ReadPage \/ Count \/ Join
  BY <1>5, ReadPageStep, CountStep, JoinStep
<1>6. CASE UNCHANGED vars
  <2>1. UNCHANGED <<pc, reading, reply, moments, shown>> /\ UNCHANGED <<records, down, still>>
    BY <1>6 DEF vars, reading
  <2>2. records' \in [Ids -> Written] /\ down' \subseteq Ids /\ still' \in BOOLEAN
    BY <2>1 DEF IInv, Typed
  <2>. QED  BY <2>1, <2>2, QuietStep
<1>. QED  BY <1>1, <1>2, <1>3, <1>4, <1>5, <1>6 DEF Next

LEMMA Invariance == Spec => []IInv
<1>. QED  BY InitHolds, StepHolds, PTL DEF Spec

\* Rows of a reply have every field of the table, whether Records.get read the
\* full join or joined a page that was read locally.
THEOREM TypeCorrect == Spec => []TypeOK
<1>1. IInv => TypeOK
  BY DEF IInv, Phase, Typed, Replied, ListOf, TypeOK
<1>. QED  BY <1>1, Invariance, PTL

\* The total that Table._read returns is the number of matches at one of its
\* statements, though other connections write between them.
THEOREM TotalIsOfAMoment == Spec => []TotalOfAMoment
<1>1. IInv => TotalOfAMoment
  BY DEF IInv, Replied
<1>. QED  BY <1>1, Invariance, PTL

\* A row is shown with the status it was selected by: Status._join_page carries
\* it over to the joined row.
THEOREM StatusIsAsSearched == Spec => []StatusAsSearched
<1>1. IInv => StatusAsSearched
  BY DEF IInv, Replied
<1>. QED  BY <1>1, Invariance, PTL

-----------------------------------------------------------------------------
(* Both shapes of a read give the same rows. *)

\* What depends on the request and the rows.
LEMMA SameView ==
  ASSUME UNCHANGED <<records, asked, page, downIds>>
  PROVE  /\ Fields' = Fields /\ Shape' = Shape
         /\ \A i, F : Row(i, F)' = Row(i, F)
         /\ \A a, b : Before(a, b)' = Before(a, b)
         /\ \A S : Orders(S)' = Orders(S)
         /\ \A s : Cut(s)' = Cut(s)
         /\ \A F : Matching(F)' = Matching(F)
         /\ Matching(Fields)' = Matching(Fields) /\ Matching(Shape)' = Matching(Shape)
<1>1. /\ Fields' = Fields /\ Shape' = Shape /\ \A row : Selected(row)' = Selected(row)
  BY SameRequest
<1>2. \A i, F : Row(i, F)' = Row(i, F)
  BY DEF Row
<1>3. OrderBy' = OrderBy
  BY DEF OrderBy
<1>4. Sorting' = Sorting
  BY <1>1, <1>3 DEF Sorting
<1>5. \A a, b : Before(a, b)' = Before(a, b)
  BY <1>3, <1>4 DEF Before
<1>6. \A S : Orders(S)' = Orders(S)
  BY <1>5 DEF Orders
<1>7. \A s : Cut(s)' = Cut(s)
  <2>1. Skipped' = Skipped
    BY DEF Skipped
  <2>. QED  BY <2>1 DEF Cut
<1>8. \A F : Stored(F)' = Stored(F)
  BY <1>2 DEF Stored
<1>9. \A F : Matching(F)' = Matching(F)
  BY <1>1, <1>8 DEF Matching
<1>. QED  BY <1>1, <1>2, <1>5, <1>6, <1>7, <1>9

\* Two rows compare by the fields they are sorted by.
LEMMA SortFields ==
  ASSUME page.sorts \in Seq([field : STRING, desc : BOOLEAN]), IsLocal
  PROVE  \A h \in DOMAIN OrderBy : OrderBy[h].field \in LocalFields
<1>1. \A h \in DOMAIN page.sorts : page.sorts[h].field \in LocalFields
  BY DEF IsLocal
<1>2. CASE OrderBy = page.sorts
  BY <1>1, <1>2
<1>3. CASE OrderBy = Append(page.sorts, [field |-> "recid", desc |-> FALSE])
  <2>1. ASSUME NEW h \in DOMAIN OrderBy
        PROVE  \/ h \in DOMAIN page.sorts /\ OrderBy[h] = page.sorts[h]
               \/ OrderBy[h].field = "recid"
    BY <1>3
  <2>. QED  BY <1>1, <2>1, LocalIn
<1>. QED  BY <1>2, <1>3 DEF OrderBy

LEMMA BeforeByFields ==
  ASSUME NEW a, NEW b, NEW c, NEW d,
         \A h \in Sorting : a[OrderBy[h].field] = c[OrderBy[h].field] /\ b[OrderBy[h].field] = d[OrderBy[h].field]
  PROVE  Before(a, b) <=> Before(c, d)
  BY DEF Before, SortKey

\* A local page selects and orders the rows as the full join does.
LEMMA LocalRows ==
  ASSUME IsLocal, page.sorts \in Seq([field : STRING, desc : BOOLEAN])
  PROVE  /\ \A i : Selected(Row(i, LocalFields)) <=> Selected(Row(i, Fields))
         /\ \A i, k : Before(Row(i, LocalFields), Row(k, LocalFields)) <=> Before(Row(i, Fields), Row(k, Fields))
<1>1. \A i : \A f \in LocalFields : Row(i, LocalFields)[f] = Row(i, Fields)[f]
  BY LocalIn, RowShape
<1>2. ASSUME NEW i  PROVE Selected(Row(i, LocalFields)) <=> Selected(Row(i, Fields))
  <2>1. \A j \in DOMAIN page.searches : page.searches[j].field \in LocalFields
    BY DEF IsLocal
  <2>2. \A j \in DOMAIN page.searches :
          Matches(page.searches[j], Row(i, LocalFields)) <=> Matches(page.searches[j], Row(i, Fields))
    BY <1>1, <2>1 DEF Matches
  <2>. QED  BY <2>2 DEF Selected
<1>3. ASSUME NEW i, NEW k
      PROVE  Before(Row(i, LocalFields), Row(k, LocalFields)) <=> Before(Row(i, Fields), Row(k, Fields))
  <2>1. \A h \in Sorting : OrderBy[h].field \in LocalFields
    BY SortFields DEF Sorting
  <2>. QED  BY <1>1, <2>1, BeforeByFields
<1>. QED  BY <1>2, <1>3

\* The order of a local page, with the rows of the full join.
Widened(s) == [j \in DOMAIN s |-> Row(s[j].recid, Fields)]

LEMMA WidenedOrder ==
  ASSUME IsLocal, page.sorts \in Seq([field : STRING, desc : BOOLEAN]), PageNumbers,
         NEW s \in Orders(Matching(LocalFields))
  PROVE  /\ Widened(s) \in Orders(Matching(Fields))
         /\ Cut(Widened(s)) = Widened(Cut(s))
         /\ Cardinality(Matching(Fields)) = Cardinality(Matching(LocalFields))
<1>. DEFINE L == Matching(LocalFields)
            M == Matching(Fields)
            wide == Widened(s)
<1>1. /\ IsFiniteSet(L)
      /\ \A row \in L : /\ row.recid \in Ids /\ records[row.recid] # Absent
                        /\ row = Row(row.recid, LocalFields) /\ Selected(row)
  BY LocalIn, MatchingIds
<1>2. /\ IsFiniteSet(M)
      /\ \A row \in M : /\ row.recid \in Ids /\ records[row.recid] # Absent
                        /\ row = Row(row.recid, Fields) /\ Selected(row)
  BY LocalIn, MatchingIds
<1>3. \A row \in L : Row(row.recid, Fields) \in M /\ Row(row.recid, Fields).recid = row.recid
  BY <1>1, LocalIn, RowShape, LocalRows DEF Matching, Stored
<1>4. \A row \in M : Row(row.recid, LocalFields) \in L /\ Row(row.recid, LocalFields).recid = row.recid
  BY <1>2, LocalIn, RowShape, LocalRows DEF Matching, Stored
<1>5. /\ s \in Seq(L) /\ Len(s) = Cardinality(L) /\ Cardinality(L) \in Nat
      /\ \A h, j \in 1..Len(s) : s[h] = s[j] => h = j
      /\ \A h, j \in 1..Len(s) : h < j => ~Before(s[j], s[h])
  BY <1>1, OrderLists
<1>. HIDE DEF L, M
<1>6. Cardinality(M) = Cardinality(L)
  <2>. DEFINE g == [row \in L |-> Row(row.recid, Fields)]
  <2>1. g \in [L -> M]
    BY <1>3
  <2>2. \A a, b \in L : g[a] = g[b] => a = b
    BY <1>1, <1>3
  <2>3. \A c \in M : \E a \in L : g[a] = c
    BY <1>2, <1>4
  <2>4. g \in Bijection(L, M)
    BY <2>1, <2>2, <2>3 DEF Bijection, Injection, Surjection, IsInjective
  <2>. QED  BY <1>1, <2>4, FS_Bijection DEF ExistsBijection
<1>7. /\ DOMAIN s = 1..Cardinality(L) /\ \A j \in 1..Cardinality(L) : s[j] \in L
  BY <1>5
<1>8. wide = [j \in 1..Cardinality(L) |-> Row(s[j].recid, Fields)]
  BY <1>7 DEF Widened
<1>9. wide \in [1..Cardinality(M) -> M]
  BY <1>3, <1>6, <1>7, <1>8
<1>10. \A h, j \in 1..Cardinality(M) : h # j => wide[h] # wide[j]
  <2>. SUFFICES ASSUME NEW h \in 1..Cardinality(L), NEW j \in 1..Cardinality(L), wide[h] = wide[j]
                PROVE  h = j
    BY <1>6
  <2>1. s[h].recid = s[j].recid
    BY <1>3, <1>7, <1>8
  <2>. QED  BY <1>1, <1>5, <1>7, <2>1
<1>11. \A h, j \in DOMAIN wide : h < j => ~Before(wide[j], wide[h])
  <2>. SUFFICES ASSUME NEW h \in 1..Cardinality(L), NEW j \in 1..Cardinality(L), h < j
                PROVE  ~Before(wide[j], wide[h])
    BY <1>8
  <2>1. ~Before(Row(s[j].recid, LocalFields), Row(s[h].recid, LocalFields))
    BY <1>1, <1>5, <1>7
  <2>. QED  BY <1>8, <2>1, LocalRows
<1>12. wide \in Orders(M)
  BY <1>9, <1>10, <1>11 DEF Orders, SetToSeqs
<1>13. Cut(wide) = Widened(Cut(s))
  <2>1. wide \in Seq(M) /\ Len(wide) = Len(s)
    BY <1>5, <1>6, <1>9
  <2>2. /\ Cut(wide) \in Seq(M) /\ Cut(s) \in Seq(L) /\ Skipped \in Nat /\ Len(Cut(wide)) = Len(Cut(s))
        /\ \A j \in 1..Len(Cut(wide)) : Skipped + j \in 1..Len(wide) /\ Cut(wide)[j] = wide[Skipped + j]
        /\ \A j \in 1..Len(Cut(s)) : Skipped + j \in 1..Len(s) /\ Cut(s)[j] = s[Skipped + j]
    BY <1>5, <2>1, CutIs
  <2>3. \A j \in 1..Len(Cut(s)) : Cut(wide)[j] = Row(Cut(s)[j].recid, Fields)
    BY <1>5, <1>8, <2>2
  <2>4. Cut(wide) = [j \in 1..Len(Cut(wide)) |-> Cut(wide)[j]] /\ DOMAIN Cut(s) = 1..Len(Cut(s))
    BY <2>2, LenProperties
  <2>. QED  BY <2>2, <2>3, <2>4 DEF Widened
<1>. QED  BY <1>6, <1>12, <1>13 DEF L, M

\* While nothing changes, what the page statement returned is still so.
ReadStill ==
  still /\ pc \in {"count", "join"} =>
    /\ \E order \in Orders(Matching(Shape)) : found = Cut(order)
    /\ (pc = "join" /\ page.offset # None) => total = Cardinality(Matching(Shape))

Both == ReadStill /\ BothShapes

\* The join finds every row of the page, and gives the rows of the full join.
LEMMA JoinedStill ==
  ASSUME IInv, ReadStill, still, pc = "join"
  PROVE  /\ \E order \in Orders(Matching(Fields)) : Joined = Cut(order)
         /\ page.offset # None => total = Cardinality(Matching(Fields))
<1>1. /\ IsLocal /\ Shape = LocalFields /\ PageNumbers
      /\ page.sorts \in Seq([field : STRING, desc : BOOLEAN])
  BY DEF IInv, Found, Phase, Shape
<1>2. PICK order \in Orders(Matching(LocalFields)) : found = Cut(order)
  BY <1>1 DEF ReadStill
<1>3. /\ Widened(order) \in Orders(Matching(Fields)) /\ Cut(Widened(order)) = Widened(found)
      /\ Cardinality(Matching(Fields)) = Cardinality(Matching(LocalFields))
  BY <1>1, <1>2, WidenedOrder
<1>4. /\ IsFiniteSet(Matching(LocalFields))
      /\ \A row \in Matching(LocalFields) :
           records[row.recid] # Absent /\ row = Row(row.recid, LocalFields)
  BY LocalIn, MatchingIds
<1>5. order \in Seq(Matching(LocalFields))
  BY <1>4, OrderLists
<1>6. found \in Seq(Matching(LocalFields))
  BY <1>1, <1>2, <1>5, CutIs
<1>7. /\ Len(found) \in Nat /\ DOMAIN found = 1..Len(found)
      /\ \A j \in 1..Len(found) : found[j] \in Matching(LocalFields)
      /\ found = [j \in 1..Len(found) |-> found[j]]
  BY <1>6, LenProperties, ElementOfSeq
<1>8. StillThere = found
  <2>. DEFINE K == {j \in DOMAIN found : records[found[j].recid] # Absent}
  <2>1. K = 1..Len(found)
    BY <1>4, <1>7
  <2>2. StillThere = Kept(found, K)
    BY Zenon DEF StillThere
  <2>. HIDE DEF K
  <2>3. StillThere = Kept(found, 1..Len(found))
    BY <2>1, <2>2
  <2>4. Kept(found, 1..Len(found)) = [j \in 1..Len(found) |-> found[j]]
    BY <1>7, KeptAll
  <2>. QED  BY <1>7, <2>3, <2>4
<1>9. Joined = [j \in DOMAIN found |->
                  [f \in Fields |-> IF f = "status" THEN found[j].status ELSE Row(found[j].recid, Fields)[f]]]
  BY <1>8, Zenon DEF Joined
<1>10. ASSUME NEW j \in DOMAIN found
       PROVE  [f \in Fields |-> IF f = "status" THEN found[j].status ELSE Row(found[j].recid, Fields)[f]]
                = Row(found[j].recid, Fields)
  <2>1. found[j] = Row(found[j].recid, LocalFields)
    BY <1>4, <1>7
  <2>2. "status" \in Fields => found[j].status = Row(found[j].recid, Fields)["status"]
    BY <2>1, LocalIn, RowShape
  <2>3. Row(found[j].recid, Fields) = [f \in Fields |-> Row(found[j].recid, Fields)[f]]
    BY RowShape
  <2>. QED  BY <2>2, <2>3
<1>11. Joined = Widened(found)
  BY <1>9, <1>10 DEF Widened
<1>12. page.offset # None => total = Cardinality(Matching(LocalFields))
  BY <1>1 DEF ReadStill
<1>. QED  BY <1>3, <1>11, <1>12

\* The reply to a listing.
LEMMA RowsBoth ==
  ASSUME NEW rows, NEW n, Rows(rows, n), UNCHANGED <<records, asked, page, downIds, still>>,
         still => /\ \E order \in Orders(Matching(Fields)) : rows = Cut(order)
                  /\ page.offset # None => n = Cardinality(Matching(Fields))
  PROVE  Both'
<1>1. /\ pc' = "idle"
      /\ reply'.kind = "records" => reply'.rows = rows /\ reply'.total = n
  BY DEF Rows, Answer
<1>2. ReadStill'
  BY <1>1 DEF ReadStill
<1>3. BothShapes'
  BY <1>1, SameView DEF BothShapes, Listed
<1>. QED  BY <1>2, <1>3 DEF Both

LEMMA ReadPageBoth ==
  ASSUME IInv, ReadPage
  PROVE  Both'
<1>. DEFINE known == page.limit = None \/ page.offset = None
<1>1. pc = "page" /\ page # None /\ UNCHANGED <<records, down, asked, page, downIds, still>>
  BY Zenon DEF ReadPage, database
<1>2. PageNumbers /\ (known => page.offset = None)
  BY <1>1 DEF IInv, Phase, PageNumbers
<1>3. PICK order \in Orders(Matching(Shape)) :
        LET rows == Cut(order)
            short == ~known /\ Short(rows)
            n == Len(rows) + IF short THEN page.offset ELSE 0
        IN /\ moments' = {IF known THEN Len(rows) ELSE Cardinality(Matching(Shape))}
           /\ found' = rows
           /\ total' = n
           /\ IF ~known /\ ~short THEN pc' = "count" /\ UNCHANGED <<reply, shown>>
              ELSE IF IsLocal /\ rows # <<>> THEN pc' = "join" /\ UNCHANGED <<reply, shown>>
              ELSE Rows(rows, n)
  BY Zenon DEF ReadPage
<1>. DEFINE rows == Cut(order)
            short == ~known /\ Short(rows)
<1>4. Len(order) = Cardinality(Matching(Shape)) /\ (short => Len(rows) + page.offset = Len(order))
  BY <1>2, LocalIn, MatchingIds, OrderLists, ShortTells
<1>. HIDE DEF rows
<1>5. (known \/ short) /\ page.offset # None => total' = Cardinality(Matching(Shape))
  BY <1>2, <1>3, <1>4 DEF rows
<1>6. CASE (known \/ short) /\ ~(IsLocal /\ rows # <<>>)
  <2>1. Rows(rows, total')
    BY <1>3, <1>6 DEF rows
  <2>2. CASE ~IsLocal
    <3>1. /\ \E o \in Orders(Matching(Fields)) : rows = Cut(o)
          /\ page.offset # None => total' = Cardinality(Matching(Fields))
      BY <1>5, <1>6, <2>2 DEF Shape, rows
    <3>. QED  BY <1>1, <2>1, <3>1, RowsBoth
  <2>3. CASE IsLocal /\ rows = <<>>
    <3>1. /\ Shape = LocalFields /\ page.sorts \in Seq([field : STRING, desc : BOOLEAN])
      BY <1>1, <2>3 DEF Shape, IInv, Phase
    <3>2. /\ Widened(order) \in Orders(Matching(Fields)) /\ Cut(Widened(order)) = Widened(rows)
          /\ Cardinality(Matching(Fields)) = Cardinality(Matching(LocalFields))
      BY <1>2, <2>3, <3>1, WidenedOrder DEF rows
    <3>3. Widened(rows) = rows
      BY <2>3 DEF Widened
    <3>4. /\ \E o \in Orders(Matching(Fields)) : rows = Cut(o)
          /\ page.offset # None => total' = Cardinality(Matching(Fields))
      BY <1>5, <1>6, <3>1, <3>2, <3>3
    <3>. QED  BY <1>1, <2>1, <3>4, RowsBoth
  <2>. QED  BY <1>6, <2>2, <2>3
<1>7. CASE ~((known \/ short) /\ ~(IsLocal /\ rows # <<>>))
  <2>1. /\ pc' \in {"count", "join"} /\ found' = rows
        /\ pc' = "join" /\ page.offset # None => total' = Cardinality(Matching(Shape))
    BY <1>3, <1>5, <1>7 DEF rows
  <2>2. \E o \in Orders(Matching(Shape)) : found' = Cut(o)
    BY <2>1 DEF rows
  <2>3. ReadStill'
    BY <1>1, <2>1, <2>2, SameView DEF ReadStill
  <2>4. BothShapes'
    BY <2>1 DEF BothShapes, Listed
  <2>. QED  BY <2>3, <2>4 DEF Both
<1>. QED  BY <1>6, <1>7

LEMMA CountBoth ==
  ASSUME IInv, Both, Count
  PROVE  Both'
<1>. DEFINE n == Cardinality(Matching(Shape))
<1>1. /\ pc = "count" /\ UNCHANGED <<records, down, asked, page, downIds, found, still>>
      /\ total' = n
      /\ IF IsLocal /\ found # <<>> THEN pc' = "join" /\ UNCHANGED <<reply, shown>> ELSE Rows(found, n)
  BY Zenon DEF Count, database
<1>2. still => \E order \in Orders(Matching(Shape)) : found = Cut(order)
  BY <1>1 DEF Both, ReadStill
<1>. HIDE DEF n
<1>3. CASE IsLocal /\ found # <<>>
  <2>1. ReadStill'
    BY <1>1, <1>2, <1>3, SameView DEF ReadStill, n
  <2>2. BothShapes'
    BY <1>1, <1>3 DEF BothShapes, Listed
  <2>. QED  BY <2>1, <2>2 DEF Both
<1>4. CASE ~(IsLocal /\ found # <<>>)
  <2>1. ASSUME still
        PROVE  (\E o \in Orders(Matching(Fields)) : found = Cut(o)) /\ n = Cardinality(Matching(Fields))
    <3>1. PICK order \in Orders(Matching(Shape)) : found = Cut(order)
      BY <1>2, <2>1
    <3>2. CASE ~IsLocal
      BY <3>1, <3>2 DEF Shape, n
    <3>3. CASE IsLocal /\ found = <<>>
      <4>1. /\ Shape = LocalFields /\ PageNumbers
            /\ page.sorts \in Seq([field : STRING, desc : BOOLEAN])
        BY <1>1, <3>3 DEF Shape, IInv, Phase
      <4>2. /\ Widened(order) \in Orders(Matching(Fields)) /\ Cut(Widened(order)) = Widened(found)
            /\ Cardinality(Matching(Fields)) = Cardinality(Matching(LocalFields))
        BY <3>1, <3>3, <4>1, WidenedOrder
      <4>3. Widened(found) = found
        BY <3>3 DEF Widened
      <4>. QED  BY <4>1, <4>2, <4>3 DEF n
    <3>. QED  BY <1>4, <3>2, <3>3
  <2>. QED  BY <1>1, <1>4, <2>1, RowsBoth
<1>. QED  BY <1>3, <1>4

LEMMA JoinBoth ==
  ASSUME IInv, Both, Join
  PROVE  Both'
<1>1. /\ pc = "join" /\ Rows(Joined, total)
      /\ UNCHANGED <<records, asked, page, downIds, still>>
  BY DEF Join, database, reading
<1>2. still => /\ \E order \in Orders(Matching(Fields)) : Joined = Cut(order)
               /\ page.offset # None => total = Cardinality(Matching(Fields))
  BY <1>1, JoinedStill DEF Both
<1>. QED  BY <1>1, <1>2, RowsBoth

LEMMA BothStep == IInv /\ Both /\ [Next]_vars => Both'
<1>. SUFFICES ASSUME IInv, Both, [Next]_vars  PROVE Both'
  OBVIOUS
<1>1. CASE still' = FALSE
  BY <1>1 DEF Both, ReadStill, BothShapes
<1>2. CASE pc' \in {"idle", "handle", "page"} /\ reply'.kind # "records"
  BY <1>2 DEF Both, ReadStill, BothShapes, Listed
<1>3. CASE UNCHANGED vars
  <2>1. UNCHANGED <<records, pc, asked, page, downIds, found, total, reply, still>>
    BY <1>3 DEF vars
  <2>2. ReadStill'
    BY <2>1, SameView DEF Both, ReadStill
  <2>3. BothShapes'
    BY <2>1, SameView DEF Both, BothShapes, Listed
  <2>. QED  BY <2>2, <2>3 DEF Both
<1>4. ASSUME NEW q \in Asked, Ask(q)  PROVE Both'
  BY <1>2, <1>4 DEF Ask, Request, NoReply
<1>5. CASE AskNext
  <2>1. pc' = "handle" /\ reply' = NoReply
    BY <1>5, Zenon DEF AskNext, Request
  <2>. QED  BY <1>2, <2>1 DEF NoReply
<1>6. CASE Handle
  <2>1. pc = "handle" /\ ((pc' = "page" /\ reply' = reply) \/ (pc' = "idle" /\ reply' = Failure))
    BY <1>6, HandleAnswers
  <2>2. reply.kind # "records"
    BY <2>1 DEF IInv, Phase
  <2>. QED  BY <1>2, <2>1, <2>2 DEF Failure
<1>7. ASSUME NEW i \in Ids, NEW r \in Written, Write(i, r)  PROVE Both'
  BY <1>1, <1>7 DEF Write
<1>8. ASSUME NEW i \in Ids, Flip(i)  PROVE Both'
  BY <1>1, <1>8 DEF Flip
<1>9. CASE StatementFails
  BY <1>2, <1>9 DEF StatementFails, Answer, Failure
<1>10. CASE ReadRecord
  <2>1. PICK r : Answer(r) /\ r.kind \in {"error", "record"}
    BY <1>10, RecordAnswers
  <2>. QED  BY <1>2, <2>1 DEF Answer
<1>11. CASE ReadPage \/ Count \/ Join
  BY <1>11, ReadPageBoth, CountBoth, JoinBoth
<1>. QED  BY <1>3, <1>4, <1>5, <1>6, <1>7, <1>8, <1>9, <1>10, <1>11 DEF Next

\* While nothing changes, the records-only page of Records.get, its COUNT and its
\* join give the rows, order and total of the full join.
THEOREM ShapesAgree == Spec => []BothShapes
<1>1. Init => Both
  BY DEF Init, Both, ReadStill, BothShapes, Listed, NoReply
<1>2. Both => BothShapes
  BY DEF Both
<1>. QED  BY <1>1, <1>2, BothStep, Invariance, PTL DEF Spec

-----------------------------------------------------------------------------
(* The pages of a listing are in order.                                     *)

LEMMA LeastExists ==
  ASSUME NEW n \in Nat, NEW D \in SUBSET (1..n), D # {}
  PROVE  \E j \in D : \A h \in D : j <= h
<1>1. IsFiniteSet(D) /\ Cardinality(D) \in Nat /\ D \subseteq Nat
  <2>1. IsFiniteSet(1..n) /\ D \subseteq Nat
    BY FS_Interval
  <2>2. IsFiniteSet(D)
    BY ONLY <2>1, D \in SUBSET (1..n), FS_Subset
  <2>. QED  BY <2>1, <2>2, FS_CardinalityType
<1>2. 1 \in 1..Cardinality(D)
  BY <1>1, FS_EmptySet
<1>3. PICK j \in D : Cardinality({h \in D : h <= j}) = 1
  BY <1>2, Ranks
<1>. DEFINE S == {h \in D : h <= j}
<1>4. S \in SUBSET D /\ j \in S
  BY <1>1
<1>5. IsFiniteSet(S)
  BY <1>1, <1>4, FS_Subset
<1>6. PICK x : S = {x}
  BY <1>3, <1>5, FS_Singleton
<1>7. \A h \in D : j <= h
  BY <1>1, <1>4, <1>6
<1>. QED  BY <1>7

\* Every field that a row is sorted by has an order.
LEMMA KeysAreNumbers ==
  ASSUME Typed, NEW row \in Matching(Fields), NEW f \in Fields
  PROVE  SortKey(f, row) \in Int
<1>1. PICK i \in Ids : records[i] # Absent /\ row = Row(i, Fields)
  BY DEF Matching, Stored
<1>2. /\ records[i] \in [disabled : {0, 1}, content : DOMAIN Collate, name : DOMAIN Collate]
      /\ {"Off", "On"} \subseteq DOMAIN Collate /\ Collate \in [DOMAIN Collate -> Int]
      /\ i \in Nat
  BY <1>1, PagingAssumption, IdsFinite DEF Typed
<1>3. /\ Row(i, Fields)["recid"] = i
      /\ f = "disabled" => Row(i, Fields)[f] = records[i].disabled
      /\ f = "status" => Row(i, Fields)[f] \in {"Off", "On"}
      /\ f = "content" => Row(i, Fields)[f] = records[i].content
      /\ f = "name" => Row(i, Fields)[f] = records[i].name
  BY LocalIn, Zenon DEF Row
<1>4. f \in {"recid", "disabled", "content", "status", "name"}
  BY DEF Fields, LocalFields
<1>. QED  BY <1>1, <1>2, <1>3, <1>4 DEF SortKey

\* A LIMIT sorts by recid too, so that no two rows are equal.
LEMMA StrictOrder ==
  ASSUME Typed, page.limit # None, page.sorts \in Seq([field : STRING, desc : BOOLEAN])
  PROVE  /\ \A a \in Matching(Fields) : ~Before(a, a)
         /\ \A a, b \in Matching(Fields) : a # b => Before(a, b) \/ Before(b, a)
<1>. DEFINE Key(h, row) == SortKey(OrderBy[h].field, row)
<1>1. /\ Len(OrderBy) \in Nat /\ DOMAIN OrderBy = 1..Len(OrderBy)
      /\ \E h \in DOMAIN OrderBy : OrderBy[h].field = "recid"
  <2>1. CASE \E j \in DOMAIN page.sorts : page.sorts[j].field = "recid"
    BY <2>1 DEF OrderBy
  <2>2. CASE ~\E j \in DOMAIN page.sorts : page.sorts[j].field = "recid"
    <3>. DEFINE e == [field |-> "recid", desc |-> FALSE]
    <3>1. OrderBy = Append(page.sorts, e) /\ e.field = "recid"
      BY <2>2 DEF OrderBy
    <3>. HIDE DEF e
    <3>2. /\ Len(OrderBy) = Len(page.sorts) + 1 /\ Len(page.sorts) \in Nat
          /\ DOMAIN OrderBy = 1..Len(OrderBy) /\ OrderBy[Len(OrderBy)] = e
      BY <3>1
    <3>. QED  BY <3>1, <3>2
  <2>. QED  BY <2>1, <2>2
<1>2. PICK r \in Sorting : OrderBy[r].field = "recid"
  BY <1>1, LocalIn DEF Sorting
<1>3. /\ Len(OrderBy) \in Nat /\ Sorting \in SUBSET (1..Len(OrderBy))
      /\ \A h \in Sorting : OrderBy[h].field \in Fields
  BY <1>1 DEF Sorting
<1>4. \A h \in Sorting, row \in Matching(Fields) : Key(h, row) \in Int
  BY <1>3, KeysAreNumbers
<1>. HIDE DEF Key
<1>5. \A a, b : Before(a, b) <=>
        \E j \in Sorting : /\ IF OrderBy[j].desc THEN Key(j, a) > Key(j, b) ELSE Key(j, a) < Key(j, b)
                           /\ \A h \in Sorting : h < j => Key(h, a) = Key(h, b)
  BY Zenon DEF Before, Key
<1>6. ASSUME NEW a \in Matching(Fields)  PROVE ~Before(a, a)
  BY <1>4, <1>5
<1>7. ASSUME NEW a \in Matching(Fields), NEW b \in Matching(Fields), a # b
      PROVE  Before(a, b) \/ Before(b, a)
  <2>. DEFINE D == {h \in Sorting : Key(h, a) # Key(h, b)}
  <2>1. a.recid # b.recid
    BY <1>7, LocalIn, MatchingIds
  <2>2. r \in D
    BY <1>2, <2>1 DEF Key, SortKey
  <2>3. PICK j \in D : \A h \in D : j <= h
    BY <1>3, <2>2, LeastExists
  <2>4. /\ j \in Sorting /\ Key(j, a) # Key(j, b)
        /\ \A h \in Sorting : h < j => Key(h, a) = Key(h, b)
    BY <1>3, <2>3
  <2>5. Key(j, a) < Key(j, b) \/ Key(j, b) < Key(j, a)
    BY <1>4, <2>4
  <2>. QED  BY <1>4, <1>5, <2>4, <2>5
<1>. QED  BY <1>6, <1>7

\* So there is one order: the position of a row is the number of rows before it.
LEMMA Position ==
  ASSUME Typed, page.limit # None, page.sorts \in Seq([field : STRING, desc : BOOLEAN]),
         NEW s \in Orders(Matching(Fields)), NEW j \in 1..Len(s)
  PROVE  Cardinality({row \in Matching(Fields) : Before(row, s[j])}) = j - 1
<1>. DEFINE M == Matching(Fields)
            Earlier == {row \in M : Before(row, s[j])}
            g == [h \in 1..(j - 1) |-> s[h]]
<1>1. IsFiniteSet(M)
  BY LocalIn, MatchingIds
<1>2. /\ \A a \in M : ~Before(a, a)
      /\ \A a, b \in M : a # b => Before(a, b) \/ Before(b, a)
  BY StrictOrder
<1>. HIDE DEF M
<1>3. /\ s \in Seq(M) /\ Len(s) \in Nat
      /\ \A h, k \in 1..Len(s) : s[h] = s[k] => h = k
      /\ \A x \in M : \E k \in 1..Len(s) : s[k] = x
      /\ \A h, k \in 1..Len(s) : h < k => ~Before(s[k], s[h])
  BY <1>1, OrderLists DEF M
<1>4. \A h \in 1..Len(s) : s[h] \in M
  BY <1>3
<1>5. ASSUME NEW h \in 1..Len(s)  PROVE Before(s[h], s[j]) <=> h < j
  <2>1. CASE h < j
    <3>1. s[h] # s[j] /\ ~Before(s[j], s[h])
      BY <1>3, <2>1
    <3>. QED  BY <1>2, <1>4, <2>1, <3>1
  <2>2. CASE h = j
    BY <1>2, <1>4, <2>2
  <2>3. CASE j < h
    BY <1>3, <2>3
  <2>. QED  BY <1>3, <2>1, <2>2, <2>3
<1>6. g \in [1..(j - 1) -> Earlier]
  <2>. SUFFICES ASSUME NEW h \in 1..(j - 1)  PROVE s[h] \in M /\ Before(s[h], s[j])
    OBVIOUS
  <2>1. Len(s) \in Nat
    BY <1>3
  <2>2. h \in 1..Len(s) /\ h < j
    BY <2>1
  <2>. QED  BY <1>4, <1>5, <2>2
<1>7. \A h, k \in 1..(j - 1) : g[h] = g[k] => h = k
  <2>. SUFFICES ASSUME NEW h \in 1..(j - 1), NEW k \in 1..(j - 1), s[h] = s[k]  PROVE h = k
    OBVIOUS
  <2>1. Len(s) \in Nat
    BY <1>3
  <2>2. h \in 1..Len(s) /\ k \in 1..Len(s)
    BY <2>1
  <2>. QED  BY <1>3, <2>2
<1>8. \A x \in Earlier : \E h \in 1..(j - 1) : g[h] = x
  <2>. SUFFICES ASSUME NEW x \in M, Before(x, s[j])  PROVE \E h \in 1..(j - 1) : g[h] = x
    OBVIOUS
  <2>1. PICK h \in 1..Len(s) : s[h] = x
    BY <1>3
  <2>2. h \in 1..(j - 1)
    BY <1>3, <1>5, <2>1
  <2>. QED  BY <2>1, <2>2
<1>. HIDE DEF Earlier
<1>9. g \in Bijection(1..(j - 1), Earlier)
  BY <1>6, <1>7, <1>8 DEF Bijection, Injection, Surjection, IsInjective
<1>10. IsFiniteSet(1..(j - 1)) /\ Cardinality(1..(j - 1)) = j - 1
  <2>1. j - 1 \in Int /\ 1 \in Int /\ 0 <= j - 1
    BY <1>3
  <2>. DEFINE i == j - 1
  <2>2. i \in Int /\ 0 <= i /\ (1 > i => i = 0)
    BY <2>1
  <2>. HIDE DEF i
  <2>3. IsFiniteSet(1..i) /\ Cardinality(1..i) = IF 1 > i THEN 0 ELSE i - 1 + 1
    BY <2>2, FS_Interval
  <2>4. Cardinality(1..i) = i
    BY <2>2, <2>3
  <2>. QED  BY <2>3, <2>4 DEF i
<1>11. Cardinality(Earlier) = j - 1
  <2>. HIDE DEF g
  <2>. QED  BY <1>9, <1>10, FS_Bijection DEF ExistsBijection
<1>. QED  BY <1>11 DEF Earlier, M

LEMMA OneOrder ==
  ASSUME Typed, page.limit # None, page.sorts \in Seq([field : STRING, desc : BOOLEAN]),
         NEW s \in Orders(Matching(Fields)), NEW t \in Orders(Matching(Fields))
  PROVE  s = t
<1>. DEFINE M == Matching(Fields)
<1>1. IsFiniteSet(M)
  BY LocalIn, MatchingIds
<1>2. /\ s \in Seq(M) /\ t \in Seq(M) /\ Len(s) = Len(t) /\ Len(s) \in Nat
      /\ \A x \in M : \E k \in 1..Len(s) : s[k] = x
  BY <1>1, OrderLists
<1>3. ASSUME NEW j \in 1..Len(s)  PROVE s[j] = t[j]
  <2>1. t[j] \in M
    BY <1>2
  <2>2. PICK k \in 1..Len(s) : s[k] = t[j]
    BY <1>2, <2>1
  <2>3. /\ Cardinality({row \in M : Before(row, s[k])}) = k - 1
        /\ Cardinality({row \in M : Before(row, t[j])}) = j - 1
    BY <1>2, Position
  <2>4. k - 1 = j - 1
    BY <2>2, <2>3
  <2>. QED  BY <1>2, <2>2, <2>4
<1>. HIDE DEF M
<1>. QED  BY <1>2, <1>3, SeqEqual

\* The ids seq are those of the rows of order that end before the row next.
Lists(seq, order, next) ==
  \E base \in Nat :
    /\ base + Len(seq) = IF next < Len(order) THEN next ELSE Len(order)
    /\ \A h \in 1..Len(seq) : seq[h] = order[base + h].recid

Scrolled(next) == shown = <<>> \/ \E order \in Orders(Matching(Fields)) : Lists(shown, order, next)

DownFor == IF Status THEN down ELSE {}

\* While nothing changes, the pages so far are consecutive rows of one order, and
\* the page that is asked for next begins where they end.
Scrolling ==
  still =>
    /\ pc \in {"page", "count", "join"} /\ page # None =>
         page = PageOf(asked) /\ downIds = DownFor /\ (page.limit # None => Scrolled(Skipped))
    /\ Listed =>
         page = PageOf(asked) /\ downIds = DownFor /\ (page.limit # None => Scrolled(Skipped + page.limit))
    /\ pc = "handle" /\ shown # <<>> =>
         /\ page # None /\ page.limit # None /\ page.offset # None
         /\ PageOf(asked).searches = page.searches /\ PageOf(asked).or = page.or
         /\ PageOf(asked).sorts = page.sorts /\ PageOf(asked).limit = page.limit
         /\ PageOf(asked).offset = page.offset + page.limit
         /\ downIds = DownFor /\ Scrolled(page.offset + page.limit)

\* A page follows the pages before it.
LEMMA Extended ==
  ASSUME NEW S, NEW order \in Seq(S), PageNumbers, page.limit # None,
         NEW T, NEW seq \in Seq(T), seq = <<>> \/ Lists(seq, order, Skipped),
         NEW ids, ids = [j \in DOMAIN Cut(order) |-> Cut(order)[j].recid]
  PROVE  seq \o ids = <<>> \/ Lists(seq \o ids, order, Skipped + page.limit)
<1>. DEFINE c == Len(Cut(order))
            more == seq \o ids
<1>1. /\ page.limit \in Nat /\ Skipped \in Nat /\ Len(order) \in Nat /\ Len(seq) \in Nat
      /\ Cut(order) \in Seq(S) /\ c \in Nat
      /\ c = IF Len(order) <= Skipped THEN 0
             ELSE IF Len(order) <= Skipped + page.limit THEN Len(order) - Skipped ELSE page.limit
  BY CutIs, PagingAssumption DEF PageNumbers
<1>2. \A j \in 1..c : Cut(order)[j] = order[Skipped + j]
  BY CutIs
<1>3. DOMAIN Cut(order) = 1..c
  BY <1>1
<1>. HIDE DEF c
<1>4. /\ ids = [j \in 1..c |-> order[Skipped + j].recid]
  BY <1>2, <1>3
<1>. DEFINE X == {order[Skipped + j].recid : j \in 1..c}
            U == T \cup X
<1>5. \A j \in 1..c : order[Skipped + j].recid \in X
  OBVIOUS
<1>6. T \subseteq U /\ X \subseteq U
  OBVIOUS
<1>. HIDE DEF X, U
<1>7. Len(ids) = c /\ ids \in Seq(U) /\ \A j \in 1..c : ids[j] = order[Skipped + j].recid
  <2>1. ids \in [1..c -> U]
    BY <1>4, <1>5, <1>6
  <2>2. c \in Nat
    BY <1>1
  <2>3. ids \in Seq(U) /\ Len(ids) = c
    BY ONLY <2>1, <2>2
  <2>. QED  BY <1>4, <2>3
<1>8. seq \in Seq(U)
  BY <1>6
<1>9. /\ Len(more) = Len(seq) + c
      /\ \A h \in 1..(Len(seq) + c) : more[h] = IF h <= Len(seq) THEN seq[h] ELSE ids[h - Len(seq)]
  BY <1>7, <1>8, ConcatProperties
<1>. HIDE DEF more
<1>10. Len(more) = Len(seq) + c
  BY <1>9
<1>11. \A h \in 1..Len(seq) : more[h] = seq[h]
  BY <1>1, <1>9
<1>12. \A h \in 1..c : more[Len(seq) + h] = order[Skipped + h].recid
  <2>. SUFFICES ASSUME NEW h \in 1..c  PROVE more[Len(seq) + h] = order[Skipped + h].recid
    OBVIOUS
  <2>1. /\ Len(seq) + h \in 1..(Len(seq) + c) /\ ~(Len(seq) + h <= Len(seq)) /\ (Len(seq) + h) - Len(seq) = h
    BY <1>1
  <2>2. more[Len(seq) + h] = ids[(Len(seq) + h) - Len(seq)]
    BY <1>9, <2>1
  <2>. QED  BY <1>7, <2>1, <2>2
<1>13. CASE seq = <<>> /\ c = 0
  BY <1>4, <1>13 DEF more
<1>14. CASE seq = <<>> /\ c # 0
  <2>1. Len(seq) = 0 /\ \A h \in 1..c : Len(seq) + h = h
    BY <1>14
  <2>2. Skipped + Len(more) = IF Skipped + page.limit < Len(order) THEN Skipped + page.limit ELSE Len(order)
    BY <1>1, <1>10, <1>14, <2>1
  <2>3. \A h \in 1..Len(more) : more[h] = order[Skipped + h].recid
    BY <1>1, <1>10, <1>12, <2>1
  <2>. QED  BY <1>1, <2>2, <2>3 DEF Lists, more
<1>15. CASE seq # <<>>
  <2>1. PICK base \in Nat :
          /\ base + Len(seq) = IF Skipped < Len(order) THEN Skipped ELSE Len(order)
          /\ \A h \in 1..Len(seq) : seq[h] = order[base + h].recid
    BY <1>15 DEF Lists
  <2>2. base + Len(more) = IF Skipped + page.limit < Len(order) THEN Skipped + page.limit ELSE Len(order)
    BY <1>1, <1>10, <2>1
  <2>3. c # 0 => base + Len(seq) = Skipped
    BY <1>1, <2>1
  <2>4. ASSUME NEW h \in 1..Len(more)  PROVE more[h] = order[base + h].recid
    <3>1. CASE h <= Len(seq)
      <4>1. h \in 1..Len(seq)
        BY <1>1, <1>10, <3>1
      <4>. QED  BY <1>11, <2>1, <4>1
    <3>2. CASE Len(seq) < h
      <4>. DEFINE k == h - Len(seq)
      <4>1. k \in 1..c /\ h = Len(seq) + k
        BY <1>1, <1>10, <3>2
      <4>2. Skipped + k = base + h
        <5>1. c # 0 /\ k \in Nat
          BY <1>1, <4>1
        <5>2. Skipped = base + Len(seq) /\ h = Len(seq) + k
          BY <2>3, <4>1, <5>1
        <5>. HIDE DEF k
        <5>. QED  BY <1>1, <2>1, <5>1, <5>2
      <4>. HIDE DEF k
      <4>. QED  BY <1>12, <4>1, <4>2
    <3>. QED  BY <1>1, <1>10, <3>1, <3>2
  <2>. QED  BY <2>2, <2>4 DEF Lists, more
<1>. QED  BY <1>13, <1>14, <1>15

\* The rows and their orders do not depend on the offset.
LEMMA SameRows ==
  ASSUME UNCHANGED <<records, downIds>>, Status' = Status,
         page'.searches = page.searches, page'.or = page.or, page'.sorts = page.sorts, page'.limit = page.limit
  PROVE  /\ Fields' = Fields /\ Matching(Fields)' = Matching(Fields)
         /\ Orders(Matching(Fields))' = Orders(Matching(Fields))
<1>1. Fields' = Fields
  BY DEF Fields, LocalFields
<1>2. \A s, row : Matches(s, row)' = Matches(s, row)
  BY <1>1 DEF Matches
<1>3. \A row : Selected(row)' = Selected(row)
  BY <1>2 DEF Selected
<1>4. \A i, F : Row(i, F)' = Row(i, F)
  BY DEF Row
<1>5. \A F : Stored(F)' = Stored(F)
  BY <1>4 DEF Stored
<1>6. \A F : Matching(F)' = Matching(F)
  BY <1>3, <1>5 DEF Matching
<1>7. Matching(Fields)' = Matching(Fields)
  BY <1>1, <1>6
<1>8. OrderBy' = OrderBy
  BY DEF OrderBy
<1>9. Sorting' = Sorting
  BY <1>1, <1>8 DEF Sorting
<1>10. \A a, b : Before(a, b)' = Before(a, b)
  BY <1>8, <1>9 DEF Before
<1>11. \A S : Orders(S)' = Orders(S)
  BY <1>10 DEF Orders
<1>. QED  BY <1>1, <1>7, <1>11

\* A form for another offset is for the same table.
LEMMA SameTable ==
  ASSUME NEW q \in Asks, NEW v
  PROVE  [q EXCEPT !.offset = v].data = q.data
<1>1. \A r \in AskSpace : "data" \in DOMAIN r
  BY DEF AskSpace
<1>2. Asked \subseteq AskSpace
  BY PagingAssumption
<1>3. "data" \in DOMAIN q
  <2>1. CASE q \in Asked
    BY <1>1, <1>2, <2>1
  <2>2. CASE \E r \in Asked, n \in 0..MaxNumber : q = [r EXCEPT !.offset = ToString(n)]
    <3>1. PICK r \in Asked, n \in 0..MaxNumber : q = [r EXCEPT !.offset = ToString(n)]
      BY <2>2
    <3>. QED  BY <1>1, <1>2, <3>1
  <2>. QED  BY <2>1, <2>2 DEF Asks
<1>. QED  BY <1>3

LEMMA NextScrolls ==
  ASSUME IInv, Scrolling, AskNext
  PROVE  Scrolling'
<1>1. /\ pc = "idle" /\ reply.kind = "records" /\ page.limit # None /\ page.offset # None
      /\ page.offset + page.limit <= MaxNumber
      /\ asked' = [asked EXCEPT !.offset = ToString(page.offset + page.limit)]
      /\ pc' = "handle" /\ reply' = NoReply
      /\ UNCHANGED <<database, page, downIds, still, shown>>
  BY Zenon DEF AskNext, Request
<1>2. UNCHANGED <<records, down>>
  BY <1>1 DEF database
<1>3. asked \in Asks /\ page # None /\ PageNumbers
  BY <1>1 DEF IInv, Phase
<1>. SUFFICES ASSUME still, shown # <<>>
              PROVE  /\ PageOf(asked').searches = page.searches /\ PageOf(asked').or = page.or
                     /\ PageOf(asked').sorts = page.sorts /\ PageOf(asked').limit = page.limit
                     /\ PageOf(asked').offset = page.offset + page.limit
                     /\ downIds = DownFor' /\ Scrolled(page.offset + page.limit)'
  BY <1>1, <1>3 DEF Scrolling, Listed, NoReply
<1>4. page = PageOf(asked) /\ downIds = DownFor /\ Scrolled(page.offset + page.limit)
  BY <1>1 DEF Scrolling, Listed, Skipped
<1>. DEFINE n == page.offset + page.limit
<1>5. n \in 0..MaxNumber
  BY <1>1, <1>3, PagingAssumption DEF PageNumbers
<1>. HIDE DEF n
<1>6. PageOf(asked') = [PageOf(asked) EXCEPT !.offset = n]
  <2>1. PageOf([asked EXCEPT !.offset = ToString(n)]) = [PageOf(asked) EXCEPT !.offset = n]
    BY <1>1, <1>3, <1>4, <1>5, ParserAssumption
  <2>. QED  BY <1>1, <2>1 DEF n
<1>7. {"searches", "or", "sorts", "limit", "offset"} \subseteq DOMAIN PageOf(asked)
  BY Zenon DEF PageOf, FromQuery
<1>8. /\ PageOf(asked').searches = page.searches /\ PageOf(asked').or = page.or
      /\ PageOf(asked').sorts = page.sorts /\ PageOf(asked').limit = page.limit
      /\ PageOf(asked').offset = n
  BY <1>4, <1>6, <1>7
<1>9. Status' = Status
  BY <1>1, <1>3, SameTable DEF Status
<1>10. downIds = DownFor'
  BY <1>2, <1>4, <1>9 DEF DownFor
<1>11. Orders(Matching(Fields))' = Orders(Matching(Fields))
  BY <1>1, <1>2, <1>9, SameRows
<1>12. Scrolled(page.offset + page.limit)'
  BY <1>1, <1>4, <1>11 DEF Scrolled
<1>. QED  BY <1>8, <1>10, <1>12 DEF n

LEMMA HandleScrolls ==
  ASSUME IInv, Scrolling, Handle
  PROVE  Scrolling'
<1>1. /\ pc = "handle" /\ UNCHANGED <<records, down, asked, still, shown>>
      /\ downIds' = IF Value(Query, "data") = Str("status") THEN down ELSE {}
      /\ \/ pc' = "page" /\ reply' = reply
         \/ pc' = "idle" /\ reply' = Failure
      /\ page' = None \/ page' = PageOf(asked)
  BY HandleAnswers DEF database, Query, PageOf
<1>2. asked \in Asks /\ reply.kind = "none"
  BY <1>1 DEF IInv, Phase
<1>3. Status' = Status
  BY <1>1 DEF Status
<1>4. downIds' = DownFor /\ DownFor' = DownFor
  <2>1. Value(Query, "data") = Str(asked.data)
    BY <1>2, ParserAssumption DEF Query
  <2>2. Str(asked.data) = Str("status") <=> Status
    BY DEF Str, Status
  <2>. QED  BY <1>1, <1>3, <2>1, <2>2 DEF DownFor
<1>. SUFFICES ASSUME still, page' # None, page'.limit # None, pc' = "page"
              PROVE  Scrolled(Skipped)'
  BY <1>1, <1>2, <1>4 DEF Scrolling, Listed, Failure
<1>5. CASE shown = <<>>
  BY <1>1, <1>5 DEF Scrolled
<1>6. CASE shown # <<>>
  <2>1. /\ PageOf(asked).searches = page.searches /\ PageOf(asked).or = page.or
        /\ PageOf(asked).sorts = page.sorts /\ PageOf(asked).limit = page.limit
        /\ PageOf(asked).offset = page.offset + page.limit
        /\ downIds = DownFor /\ Scrolled(page.offset + page.limit)
        /\ page # None /\ page.limit # None /\ page.offset # None
    BY <1>1, <1>6 DEF Scrolling
  <2>2. Orders(Matching(Fields))' = Orders(Matching(Fields))
    BY <1>1, <1>3, <1>4, <2>1, SameRows
  <2>3. Skipped' = page.offset + page.limit
    <3>1. PageNumbers /\ None \notin Nat
      BY <2>1, PagingAssumption DEF IInv, Phase
    <3>2. page.offset + page.limit # None
      BY <2>1, <3>1 DEF PageNumbers
    <3>. QED  BY <1>1, <2>1, <3>2 DEF Skipped
  <2>. QED  BY <1>1, <1>6, <2>1, <2>2, <2>3 DEF Scrolled
<1>. QED  BY <1>5, <1>6

\* A statement that shows no row.
LEMMA QuietScrolls ==
  ASSUME Scrolling, UNCHANGED <<records, down, asked, page, downIds, still, shown>>,
         \/ pc \in {"page", "count", "join"} /\ pc' \in {"count", "join"}
         \/ pc' = pc /\ reply' = reply
  PROVE  Scrolling'
<1>1. /\ Orders(Matching(Fields))' = Orders(Matching(Fields)) /\ Matching(Fields)' = Matching(Fields)
      /\ Status' = Status
  BY SameRows DEF Status
<1>2. Skipped' = Skipped /\ DownFor' = DownFor /\ PageOf(asked)' = PageOf(asked)
  BY <1>1 DEF Skipped, DownFor
<1>3. Scrolled(Skipped)' = Scrolled(Skipped)
  BY <1>1, <1>2 DEF Scrolled
<1>4. Scrolled(Skipped + page.limit)' = Scrolled(Skipped + page.limit)
  BY <1>1, <1>2 DEF Scrolled
<1>5. Scrolled(page.offset + page.limit)' = Scrolled(page.offset + page.limit)
  BY <1>1 DEF Scrolled
<1>. QED  BY <1>2, <1>3, <1>4, <1>5 DEF Scrolling, Listed

\* A statement that ends the read: its rows follow those that were shown.
LEMMA RowsScroll ==
  ASSUME IInv, Scrolling, Both', NEW rows, NEW n, Rows(rows, n), page # None, pc \in {"page", "count", "join"},
         UNCHANGED <<records, down, asked, page, downIds, still>>
  PROVE  Scrolling'
<1>1. /\ pc' = "idle"
      /\ reply'.kind = "records" => reply'.rows = rows
      /\ shown' = shown \o [j \in DOMAIN rows |-> rows[j].recid]
  BY DEF Rows, Answer
<1>2. Status' = Status /\ DownFor' = DownFor /\ PageOf(asked)' = PageOf(asked) /\ Skipped' = Skipped
  BY DEF Status, DownFor, Skipped
<1>. SUFFICES ASSUME still, Listed', page.limit # None
              PROVE  Scrolled(Skipped + page.limit)'
  BY <1>1, <1>2 DEF Scrolling
<1>3. /\ Orders(Matching(Fields))' = Orders(Matching(Fields)) /\ Matching(Fields)' = Matching(Fields)
      /\ \A s : Cut(s)' = Cut(s)
  BY SameView
<1>4. PICK order \in Orders(Matching(Fields)) : rows = Cut(order)
  <2>1. (\E order \in Orders(Matching(Fields)) : reply.rows = Cut(order))'
    BY DEF Both, BothShapes
  <2>2. reply'.rows = rows
    BY <1>1 DEF Listed
  <2>. QED  BY <1>3, <2>1, <2>2
<1>5. /\ Typed /\ PageNumbers /\ page.sorts \in Seq([field : STRING, desc : BOOLEAN])
      /\ shown \in Seq(Ids)
  BY DEF IInv, Phase, Typed
<1>6. order \in Seq(Matching(Fields))
  BY LocalIn, MatchingIds, OrderLists
<1>7. shown = <<>> \/ Lists(shown, order, Skipped)
  <2>1. Scrolled(Skipped)
    BY DEF Scrolling
  <2>2. \A s \in Orders(Matching(Fields)) : s = order
    BY <1>5, OneOrder
  <2>. QED  BY <2>1, <2>2 DEF Scrolled
<1>8. shown' = <<>> \/ Lists(shown', order, Skipped + page.limit)
  <2>. DEFINE ids == [j \in DOMAIN Cut(order) |-> Cut(order)[j].recid]
  <2>1. shown' = shown \o ids
    BY <1>1, <1>4
  <2>2. ids = [j \in DOMAIN Cut(order) |-> Cut(order)[j].recid]
    OBVIOUS
  <2>. HIDE DEF ids
  <2>. QED  BY <1>5, <1>6, <1>7, <2>1, <2>2, Extended
<1>. QED  BY <1>2, <1>3, <1>8 DEF Scrolled

LEMMA StatementsScroll ==
  ASSUME IInv, Scrolling, Both', ReadPage \/ Count \/ Join
  PROVE  Scrolling'
<1>1. CASE ReadPage
  <2>1. pc = "page" /\ page # None /\ UNCHANGED <<records, down, asked, page, downIds, still>>
    BY <1>1, Zenon DEF ReadPage, database
  <2>2. PICK order \in Orders(Matching(Shape)) :
          LET rows == Cut(order)
              known == page.limit = None \/ page.offset = None
              short == ~known /\ Short(rows)
              n == Len(rows) + IF short THEN page.offset ELSE 0
          IN IF ~known /\ ~short THEN pc' = "count" /\ UNCHANGED <<reply, shown>>
             ELSE IF IsLocal /\ rows # <<>> THEN pc' = "join" /\ UNCHANGED <<reply, shown>>
             ELSE Rows(rows, n)
    BY <1>1, Zenon DEF ReadPage
  <2>3. \/ pc' \in {"count", "join"} /\ UNCHANGED shown
        \/ \E rows, n : Rows(rows, n)
    BY <2>2
  <2>. QED  BY <2>1, <2>3, QuietScrolls, RowsScroll
<1>2. CASE Count
  <2>1. /\ pc = "count" /\ UNCHANGED <<records, down, asked, page, downIds, still>>
        /\ IF IsLocal /\ found # <<>> THEN pc' = "join" /\ UNCHANGED <<reply, shown>>
           ELSE Rows(found, Cardinality(Matching(Shape)))
    BY <1>2, Zenon DEF Count, database
  <2>2. page # None
    BY <2>1 DEF IInv, Phase
  <2>3. \/ pc' = "join" /\ UNCHANGED shown
        \/ \E rows, n : Rows(rows, n)
    BY <2>1
  <2>. QED  BY <2>1, <2>2, <2>3, QuietScrolls, RowsScroll
<1>3. CASE Join
  <2>1. pc = "join" /\ Rows(Joined, total) /\ UNCHANGED <<records, down, asked, page, downIds, still>>
    BY <1>3 DEF Join, database, reading
  <2>2. page # None
    BY <2>1 DEF IInv, Phase
  <2>. QED  BY <2>1, <2>2, RowsScroll
<1>. QED  BY <1>1, <1>2, <1>3

LEMMA ScrollStep == IInv /\ Both /\ Scrolling /\ [Next]_vars => Scrolling'
<1>. SUFFICES ASSUME IInv, Both, Scrolling, [Next]_vars  PROVE Scrolling'
  OBVIOUS
<1>1. CASE still' = FALSE
  BY <1>1 DEF Scrolling
<1>2. CASE pc' = "idle" /\ reply'.kind # "records"
  BY <1>2 DEF Scrolling, Listed
<1>3. CASE UNCHANGED vars
  <2>1. UNCHANGED <<records, down, asked, page, downIds, still, shown, pc, reply>>
    BY <1>3 DEF vars
  <2>. QED  BY <2>1, QuietScrolls
<1>4. ASSUME NEW q \in Asked, Ask(q)  PROVE Scrolling'
  <2>1. pc' = "handle" /\ shown' = <<>>
    BY <1>4 DEF Ask, Request
  <2>. QED  BY <2>1 DEF Scrolling, Listed
<1>5. CASE AskNext \/ Handle
  BY <1>5, NextScrolls, HandleScrolls
<1>6. ASSUME NEW i \in Ids, NEW r \in Written, Write(i, r)  PROVE Scrolling'
  BY <1>1, <1>6 DEF Write
<1>7. ASSUME NEW i \in Ids, Flip(i)  PROVE Scrolling'
  BY <1>1, <1>7 DEF Flip
<1>8. CASE StatementFails
  BY <1>2, <1>8 DEF StatementFails, Answer, Failure
<1>9. CASE ReadRecord
  <2>1. PICK r : Answer(r) /\ r.kind \in {"error", "record"}
    BY <1>9, RecordAnswers
  <2>. QED  BY <1>2, <2>1 DEF Answer
<1>10. CASE ReadPage \/ Count \/ Join
  BY <1>10, BothStep, StatementsScroll
<1>. QED  BY <1>3, <1>4, <1>5, <1>6, <1>7, <1>8, <1>9, <1>10 DEF Next

\* Consecutive rows of an order are in order, and each of them is there once.
LEMMA ScrolledInOrder ==
  ASSUME IInv, page.limit # None, page # None, Scrolled(Skipped + page.limit)
  PROVE  /\ IsInjective(shown)
         /\ \A h, j \in DOMAIN shown : h < j => ~Before(Row(shown[j], Fields), Row(shown[h], Fields))
<1>1. CASE shown = <<>>
  BY <1>1 DEF IsInjective
<1>2. CASE shown # <<>>
  <2>. DEFINE next == Skipped + page.limit
  <2>1. PICK order \in Orders(Matching(Fields)) : Lists(shown, order, next)
    BY <1>2 DEF Scrolled
  <2>2. PICK base \in Nat :
          /\ base + Len(shown) = IF next < Len(order) THEN next ELSE Len(order)
          /\ \A h \in 1..Len(shown) : shown[h] = order[base + h].recid
    BY <2>1 DEF Lists
  <2>3. next \in Nat /\ Len(shown) \in Nat /\ DOMAIN shown = 1..Len(shown)
    BY CutIs, PagingAssumption DEF IInv, Phase, PageNumbers, Typed, Skipped
  <2>. HIDE DEF next
  <2>4. IsFiniteSet(Matching(Fields)) /\ \A row \in Matching(Fields) : row = Row(row.recid, Fields)
    BY LocalIn, MatchingIds
  <2>5. /\ order \in Seq(Matching(Fields)) /\ Len(order) \in Nat
        /\ \A h, j \in 1..Len(order) : order[h] = order[j] => h = j
        /\ \A h, j \in 1..Len(order) : h < j => ~Before(order[j], order[h])
    BY <2>4, OrderLists
  <2>6. ASSUME NEW h \in 1..Len(shown)
        PROVE  base + h \in 1..Len(order) /\ Row(shown[h], Fields) = order[base + h]
    <3>1. base + h \in 1..Len(order)
      BY <2>2, <2>3, <2>5
    <3>2. order[base + h] \in Matching(Fields)
      BY <2>5, <3>1
    <3>. QED  BY <2>2, <2>4, <3>1, <3>2
  <2>7. IsInjective(shown)
    <3>. SUFFICES ASSUME NEW h \in 1..Len(shown), NEW j \in 1..Len(shown), shown[h] = shown[j]
                  PROVE  h = j
      BY <2>3 DEF IsInjective
    <3>1. order[base + h] = order[base + j] /\ base + h \in 1..Len(order) /\ base + j \in 1..Len(order)
      BY <2>6
    <3>2. base + h = base + j
      BY <2>5, <3>1
    <3>. QED  BY <2>3, <3>2
  <2>8. ASSUME NEW h \in 1..Len(shown), NEW j \in 1..Len(shown), h < j
        PROVE  ~Before(Row(shown[j], Fields), Row(shown[h], Fields))
    <3>1. /\ base + h \in 1..Len(order) /\ Row(shown[h], Fields) = order[base + h]
          /\ base + j \in 1..Len(order) /\ Row(shown[j], Fields) = order[base + j]
      BY <2>6
    <3>2. base + h < base + j
      BY <2>8
    <3>3. ~Before(order[base + j], order[base + h])
      BY <2>5, <3>1, <3>2
    <3>. QED  BY <3>1, <3>3
  <2>. QED  BY <2>3, <2>7, <2>8
<1>. QED  BY <1>1, <1>2

\* While nothing changes, the pages of a listing show no row twice and keep the
\* order that was asked for over their bounds: the recid that Table._order adds
\* to a LIMIT leaves one order only.
THEOREM PagesFollow == Spec => []PagesInOrder
<1>1. Init => Both /\ Scrolling
  BY DEF Init, Both, ReadStill, BothShapes, Scrolling, Listed, NoReply
<1>2. IInv /\ Scrolling => PagesInOrder
  <2>. SUFFICES ASSUME IInv, Scrolling, Listed, still, page.limit # None
                PROVE  /\ IsInjective(shown)
                       /\ \A h, j \in DOMAIN shown :
                            h < j => ~Before(Row(shown[j], Fields), Row(shown[h], Fields))
    BY DEF PagesInOrder
  <2>1. page # None /\ Scrolled(Skipped + page.limit)
    BY DEF Scrolling, Listed, IInv, Phase
  <2>. QED  BY <2>1, ScrolledInOrder
<1>. QED  BY <1>1, <1>2, BothStep, ScrollStep, Invariance, PTL DEF Spec
=============================================================================
