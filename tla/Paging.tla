-------------------------------- MODULE Paging ---------------------------------
(***************************************************************************)
(* One admin connection that reads the records or the status table: a grid *)
(* that lists it page by page, a drop-down, a form.                        *)
(*                                                                         *)
(* Source: powergslb/database/page.py, database/mysql/tables.py (Table     *)
(* reads, Records, Status) and server/http/handler/admin.py (get-records,  *)
(* get-items, get-record).                                                 *)
(*                                                                         *)
(* A read is up to three statements outside a transaction: the page, the   *)
(* COUNT of what matches, and the join of the page; other connections      *)
(* write between them.  A record has two local columns, disabled and       *)
(* content, and name stands for the columns of the joined tables.  Texts   *)
(* compare by Collate; the types of clauses and columns agree.             *)
(***************************************************************************)
EXTENDS QueryValues, SequencesExt, FiniteSets

CONSTANTS
  Ids,            \* ids of records
  Tables,         \* the tables to start with
  Written,        \* what another connection may write: a record or Absent
  MaxChanges,     \* bound: changes of the tables and of statuses
  Asked,          \* what the client asks for
  Parse(_),       \* the value that a form parses to
  Collate,        \* texts to numbers: the collation, equal for equal texts
  Like(_, _, _),  \* the operator, a value and a text: LIKE, the value escaped
  Absent,         \* no record
  None            \* not a value

\* A clause of a form is <<field, type, operator, items>>, its value posted as an
\* array unless it has one item; a sort is <<field, direction>>.
AskSpace ==
  LET Maybe == {None} \cup STRING
  IN [cmd : STRING, data : STRING, limit : Maybe, offset : Maybe, max : Maybe, recid : Maybe, field : Maybe,
      combo : Maybe, logic : Maybe, search : Seq(STRING \X STRING \X STRING \X Seq(STRING)),
      sort : Seq(STRING \X STRING)]

ASSUME PagingAssumption ==
  /\ MaxNumber \in Nat /\ Ids \subseteq 1..MaxNumber /\ None \notin Nat
  /\ Collate \in [DOMAIN Collate -> Int] /\ {"Off", "On"} \subseteq DOMAIN Collate
  /\ Written \ {Absent} \subseteq [disabled : {0, 1}, content : DOMAIN Collate, name : DOMAIN Collate]
  /\ Tables \subseteq [Ids -> Written]
  /\ Asked \subseteq AskSpace

VARIABLES
  records,   \* [Ids -> record or Absent]: the records table
  down,      \* the status registry: content ids that are down
  pc,        \* "idle", "handle", "page", "count", "join"
  asked,     \* what the client asked for last
  page,      \* the PageRequest, or None for a whole read
  downIds,   \* the down-id snapshot the read was given
  found,     \* the rows of the page statement
  total,     \* the total match count
  reply,     \* the reply: kind, rows or items, total
  changes,   \* the number of changes
  still,     \* history: records and down are those of the listing's begin
  moments,   \* history: the numbers of matches the read's statements saw
  shown      \* history: the ids of the listing's pages

database == <<records, down, changes>>
reading == <<asked, page, downIds, found, total>>
vars == <<records, down, changes, pc, asked, page, downIds, found, total, reply, still, moments, shown>>

-----------------------------------------------------------------------------
(* The client: what it asks for and the form that w2ui makes of it.        *)

\* An array posts its elements as a[], an object its fields as a[f].
Param(q) ==
  LET Pair(path, v) == IF v = None THEN <<>> ELSE <<[path |-> path, val |-> v]>>
      Clause(j) ==
        LET items == q.search[j][4]
            at == <<"search", ToString(j - 1)>>
            value == IF Len(items) = 1 THEN <<"value">> ELSE <<"value", "">>
        IN Pair(at \o <<"field">>, q.search[j][1]) \o Pair(at \o <<"type">>, q.search[j][2])
           \o Pair(at \o <<"operator">>, q.search[j][3])
           \o [h \in DOMAIN items |-> [path |-> at \o value, val |-> items[h]]]
      Sort(j) ==
        LET at == <<"sort", ToString(j - 1)>>
        IN Pair(at \o <<"field">>, q.sort[j][1]) \o Pair(at \o <<"direction">>, q.sort[j][2])
  IN FlattenSeq(<<Pair(<<"cmd">>, q.cmd), Pair(<<"data">>, q.data),
                  Pair(<<"limit">>, q.limit), Pair(<<"offset">>, q.offset), Pair(<<"max">>, q.max),
                  Pair(<<"recid">>, q.recid), Pair(<<"field">>, q.field), Pair(<<"search">>, q.combo),
                  Pair(<<"searchLogic">>, q.logic)>>
                \o [j \in DOMAIN q.search |-> Clause(j)] \o [j \in DOMAIN q.sort |-> Sort(j)])

-----------------------------------------------------------------------------
(* page.py: the query becomes a PageRequest. *)

Value(query, key) == Get(query, Str(key))

\* int(): a number, or text that is one.
AsInt(v) == CASE Is("int", v) -> v[2] [] Is("str", v) /\ IsNumber(v[2]) -> NumberOf(v[2]) [] OTHER -> None

\* str(): of a value that is missing or no scalar, no text that is stored.
AsText(v) == CASE Is("int", v) -> ToString(v[2]) [] Is("str", v) -> v[2] [] OTHER -> "None"

\* _text: an identifier that is no string is empty.
Text(v) == IF Is("str", v) THEN v[2] ELSE ""

Clauses(v) == IF Is("list", v) THEN SelectSeq(v[2], LAMBDA c : Is("dict", c)) ELSE <<>>

Wildcards == {"*", "+", ".", "?", "^", "$"}

\* A grid posts a list of clauses, a drop-down the text that was typed.
Searches(query) ==
  LET search == Value(query, "search")
  IN IF Is("str", search)
     THEN IF search[2] \in Wildcards THEN <<>>
          ELSE <<[field |-> Text(Value(query, "field")), type |-> "text", operator |-> "contains", value |-> search]>>
     ELSE [j \in DOMAIN Clauses(search) |->
             LET c == Clauses(search)[j]
             IN [field |-> Text(Value(c, "field")), type |-> Text(Value(c, "type")),
                 operator |-> Text(Value(c, "operator")), value |-> Value(c, "value")]]

Sorts(query) ==
  LET cs == Clauses(Value(query, "sort"))
  IN [j \in DOMAIN cs |-> [field |-> Text(Value(cs[j], "field")), desc |-> Value(cs[j], "direction") = Str("desc")]]

\* limit with offset wins over max.
Paged(query) == Has(query, Str("limit")) /\ Has(query, Str("offset"))
Limit(query) ==
  IF Paged(query) THEN AsInt(Value(query, "limit"))
  ELSE IF Has(query, Str("max")) THEN AsInt(Value(query, "max")) ELSE None
Offset(query) == IF Paged(query) THEN AsInt(Value(query, "offset")) ELSE None

\* A paging value that does not parse as an int is an error.
PagingInvalid(query) ==
  \/ Paged(query) /\ None \in {Limit(query), Offset(query)}
  \/ ~Paged(query) /\ Has(query, Str("max")) /\ Limit(query) = None

FromQuery(query) ==
  [searches |-> Searches(query), or |-> Value(query, "searchLogic") = Str("OR"),
   sorts |-> Sorts(query), limit |-> Limit(query), offset |-> Offset(query)]

\* What holds of the parser for all that is asked: a page is found in the form
\* that asks for it, and scrolling changes its offset only.
PageOf(q) == FromQuery(Parse(Param(q)))
Asks == Asked \cup {[q EXCEPT !.offset = ToString(n)] : q \in Asked, n \in 0..MaxNumber}

ASSUME ParserAssumption ==
  \A q \in Asks :
    /\ Value(Parse(Param(q)), "data") = Str(q.data)
    /\ PageOf(q).sorts \in Seq([field : STRING, desc : BOOLEAN])
    /\ {PageOf(q).limit, PageOf(q).offset} \subseteq Nat \cup {None}
    /\ PageOf(q).offset # None =>
         \A n \in 0..MaxNumber : PageOf([q EXCEPT !.offset = ToString(n)]) = [PageOf(q) EXCEPT !.offset = n]

-----------------------------------------------------------------------------
(* tables.py: what a page selects, and in which order. *)

Status == asked.data = "status"

LocalFields == {"recid", "disabled", "content"} \cup (IF Status THEN {"status"} ELSE {})
Fields == LocalFields \cup {"name"}

\* A row as a SELECT of the fields shows it: status is computed.
Row(i, fields) ==
  [f \in fields |->
     CASE f = "recid" -> i
       [] f = "status" -> IF records[i].disabled = 1 \/ i \in downIds THEN "Off" ELSE "On"
       [] OTHER -> records[i][f]]

Stored(fields) == {Row(i, fields) : i \in {j \in Ids : records[j] # Absent}}

Operators == [text |-> {"is", "begins", "contains", "ends"}, int |-> {"is", "in", "not in", "between"}]

\* _search_clause skips a clause of an unknown type or operator.
Usable(s) == s.type \in DOMAIN Operators /\ s.operator \in Operators[s.type]

Items(v) == IF Is("list", v) THEN v[2] ELSE <<v>>

TextMatches(s, x) ==
  IF s.operator = "is"
  THEN AsText(s.value) \in DOMAIN Collate /\ Collate[AsText(s.value)] = Collate[x]
  ELSE Like(s.operator, AsText(s.value), x)

\* A malformed value matches nothing, not even under "not in".
IntMatches(s, x) ==
  LET ns == [j \in DOMAIN Items(s.value) |-> AsInt(Items(s.value)[j])]
      wellFormed == None \notin {ns[j] : j \in DOMAIN ns}
      among == x \in {ns[j] : j \in DOMAIN ns}
  IN CASE s.operator = "is" -> AsInt(s.value) # None /\ x = AsInt(s.value)
       [] s.operator = "in" -> wellFormed /\ among
       [] s.operator = "not in" -> wellFormed /\ ~among
       [] s.operator = "between" ->
            /\ Is("list", s.value) /\ Len(ns) >= 2 /\ None \notin {ns[1], ns[2]}
            /\ ns[1] <= x /\ x <= ns[2]

\* A field that is not one of the table's matches nothing.
Matches(s, row) ==
  /\ s.field \in Fields
  /\ IF s.type = "text" THEN TextMatches(s, row[s.field]) ELSE IntMatches(s, row[s.field])

\* Zero usable clauses select everything, unless searches were combined by OR.
Selected(row) ==
  LET usable == {j \in DOMAIN page.searches : Usable(page.searches[j])}
  IN IF usable = {} THEN page.searches = <<>> \/ ~page.or
     ELSE IF page.or THEN \E j \in usable : Matches(page.searches[j], row)
     ELSE \A j \in usable : Matches(page.searches[j], row)

SortKey(f, row) == IF f \in {"recid", "disabled"} THEN row[f] ELSE Collate[row[f]]

\* Fault: no tiebreak.
OrderBy_NoTiebreak == page.sorts

\* ORDER BY: a LIMIT adds recid, which breaks ties; unknown fields are skipped.
OrderBy ==
  IF page.limit # None /\ ~\E j \in DOMAIN page.sorts : page.sorts[j].field = "recid"
  THEN Append(page.sorts, [field |-> "recid", desc |-> FALSE])
  ELSE page.sorts

Sorting == {j \in DOMAIN OrderBy : OrderBy[j].field \in Fields}

Before(a, b) ==
  \E j \in Sorting :
    LET Key(h, row) == SortKey(OrderBy[h].field, row)
    IN /\ IF OrderBy[j].desc THEN Key(j, a) > Key(j, b) ELSE Key(j, a) < Key(j, b)
       /\ \A h \in Sorting : h < j => Key(h, a) = Key(h, b)

\* The orders SQL may return the rows in.
Orders(rows) ==
  {s \in SetToSeqs(rows) : \A h, j \in DOMAIN s : h < j => ~Before(s[j], s[h])}

Skipped == IF page.offset = None THEN 0 ELSE page.offset
Cut(s) ==
  SubSeq(s, Skipped + 1,
         IF page.limit = None \/ Skipped + page.limit > Len(s) THEN Len(s) ELSE Skipped + page.limit)

\* Every field the page refers to is in the records table.
IsLocal ==
  {page.searches[j].field : j \in DOMAIN page.searches} \cup {page.sorts[j].field : j \in DOMAIN page.sorts}
    \subseteq LocalFields

\* What a page is selected from: records alone, or the full join.
Shape == IF IsLocal THEN LocalFields ELSE Fields

Matching(fields) == {row \in Stored(fields) : Selected(row)}

-----------------------------------------------------------------------------
(* The read. *)

NoReply == [kind |-> "none"]
Failure == [kind |-> "error"]

Init ==
  /\ records \in Tables /\ down \in SUBSET Ids
  /\ pc = "idle"
  /\ asked = None /\ page = None /\ downIds = {} /\ found = <<>> /\ total = 0
  /\ reply = NoReply
  /\ changes = 0
  /\ still = TRUE /\ moments = {} /\ shown = <<>>

\* A request, of which the handler holds nothing yet; page and downIds are those
\* of the last one until it is parsed.
Request(q) ==
  /\ asked' = q
  /\ pc' = "handle"
  /\ found' = <<>> /\ total' = 0 /\ reply' = NoReply
  /\ moments' = {}

\* The client begins a listing, or asks something else.
Ask(q) ==
  /\ pc = "idle"
  /\ Request(q)
  /\ page' = None /\ downIds' = {}
  /\ still' = TRUE /\ shown' = <<>>
  /\ UNCHANGED database

\* It scrolls on to the next page.
AskNext ==
  /\ pc = "idle" /\ reply.kind = "records" /\ page.limit # None /\ page.offset # None
  /\ page.offset + page.limit <= MaxNumber /\ page.offset < Cardinality(Ids)
  /\ Request([asked EXCEPT !.offset = ToString(page.offset + page.limit)])
  /\ UNCHANGED <<database, page, downIds, still, shown>>

\* A statement of another connection.
Write(i, r) ==
  /\ records[i] # r
  /\ records' = [records EXCEPT ![i] = r]
  /\ changes < MaxChanges /\ changes' = changes + 1
  /\ still' = FALSE
  /\ UNCHANGED <<down, pc, reading, reply, moments, shown>>

\* A check thread sets or clears a status.
Flip(i) ==
  /\ down' = IF i \in down THEN down \ {i} ELSE down \cup {i}
  /\ changes < MaxChanges /\ changes' = changes + 1
  /\ still' = FALSE
  /\ UNCHANGED <<records, pc, reading, reply, moments, shown>>

Query == Parse(Param(asked))

\* The reply goes out, and what the handler held is gone.
Answer(r) ==
  /\ reply' = r
  /\ pc' = "idle"

\* The query is parsed and the command dispatched; for the status table the
\* down-id snapshot is taken.
Handle ==
  /\ pc = "handle"
  /\ downIds' = IF Value(Query, "data") = Str("status") THEN down ELSE {}
  /\ \/ /\ asked.cmd = "get-record" /\ page' = None
        /\ IF AsInt(Value(Query, "recid")) = None THEN Answer(Failure) ELSE pc' = "page" /\ UNCHANGED reply
     \/ /\ asked.cmd # "get-record" /\ PagingInvalid(Query)
        /\ page' = None /\ Answer(Failure)
     \/ /\ asked.cmd # "get-record" /\ ~PagingInvalid(Query)
        /\ page' = FromQuery(Query) /\ pc' = "page" /\ UNCHANGED reply
  /\ UNCHANGED <<database, asked, found, total, still, moments, shown>>

\* A statement raises: content() answers with an error.
StatementFails ==
  /\ pc \in {"page", "count", "join"}
  /\ Answer(Failure)
  /\ UNCHANGED <<database, reading, still, moments, shown>>

\* get-record: the row of one recid; 0 is no recid and reads every row.
ReadRecord ==
  /\ pc = "page" /\ page = None
  /\ LET recid == AsInt(Value(Query, "recid"))
         rows == {row \in Stored(Fields) : recid = 0 \/ row.recid = recid}
     IN IF rows = {} THEN Answer(Failure)
        ELSE \E row \in rows : Answer([kind |-> "record", row |-> row])
  /\ UNCHANGED <<database, reading, still, moments, shown>>

\* The reply to get-records or get-items, from the rows of the read.
Rows(rows, n) ==
  /\ Answer(IF asked.cmd = "get-items"
            THEN [kind |-> "items",
                  items |-> IF asked.field \in Fields THEN [j \in DOMAIN rows |-> rows[j][asked.field]] ELSE <<>>]
            ELSE [kind |-> "records", rows |-> rows, total |-> n])
  /\ shown' = shown \o [j \in DOMAIN rows |-> rows[j].recid]

\* Fault: a page behind the last row is taken for the last.
Short_Empty(rows) == Len(rows) < page.limit

\* A page that is not full tells the total, unless it is empty and not the first.
Short(rows) == Len(rows) < page.limit /\ (rows # <<>> \/ page.offset = 0)

\* The page statement.
ReadPage ==
  /\ pc = "page" /\ page # None
  /\ LET matching == Matching(Shape)
     IN \E order \in Orders(matching) :
          LET rows == Cut(order)
              known == page.limit = None \/ page.offset = None
              short == ~known /\ Short(rows)
              n == Len(rows) + IF short THEN page.offset ELSE 0
          IN /\ moments' = {IF known THEN Len(rows) ELSE Cardinality(matching)}
             /\ found' = rows
             /\ total' = n
             /\ IF ~known /\ ~short THEN pc' = "count" /\ UNCHANGED <<reply, shown>>
                ELSE IF IsLocal /\ rows # <<>> THEN pc' = "join" /\ UNCHANGED <<reply, shown>>
                ELSE Rows(rows, n)
  /\ UNCHANGED <<database, asked, page, downIds, still>>

\* The COUNT of what matches now.
Count ==
  /\ pc = "count"
  /\ LET n == Cardinality(Matching(Shape))
     IN /\ total' = n
        /\ moments' = moments \cup {n}
        /\ IF IsLocal /\ found # <<>> THEN pc' = "join" /\ UNCHANGED <<reply, shown>> ELSE Rows(found, n)
  /\ UNCHANGED <<database, asked, page, downIds, found, still>>

\* The elements of s at the positions K, in their order.
Kept(s, K) ==
  LET Nth(n) == CHOOSE j \in K : Cardinality({h \in K : h <= j}) = n
  IN [n \in 1..Cardinality(K) |-> s[Nth(n)]]

\* The rows of the page that still exist when the join runs, in the page's order.
StillThere == Kept(found, {j \in DOMAIN found : records[found[j].recid] # Absent})

\* Fault: the order of the join.
Joined_Unordered == SetToSeq({row \in Stored(Fields) : \E j \in DOMAIN found : found[j].recid = row.recid})

\* Fault: the status of the joined row.
Joined_Fresh ==
  [j \in DOMAIN StillThere |-> Row(StillThere[j].recid, Fields)]

\* Fault: the fields of the row that was paged.
Joined_Merged ==
  [j \in DOMAIN StillThere |->
     LET row == StillThere[j]
     IN [f \in Fields \cup {"status"} |-> IF f \in DOMAIN row THEN row[f]
                                          ELSE IF f = "name" THEN records[row.recid].name ELSE None]]

\* _join_page: with the status they were selected by.
Joined ==
  [j \in DOMAIN StillThere |->
     [f \in Fields |-> IF f = "status" THEN StillThere[j].status ELSE Row(StillThere[j].recid, Fields)[f]]]

Join ==
  /\ pc = "join"
  /\ Rows(Joined, total)
  /\ UNCHANGED <<database, reading, still, moments>>

Next ==
  \/ \E q \in Asked : Ask(q)
  \/ AskNext
  \/ \E i \in Ids, r \in Written : Write(i, r)
  \/ \E i \in Ids : Flip(i)
  \/ Handle \/ StatementFails
  \/ ReadRecord \/ ReadPage \/ Count \/ Join

Spec == Init /\ [][Next]_vars

-----------------------------------------------------------------------------

Listed == pc = "idle" /\ reply.kind = "records"

(* Rows of a reply have every field of the table, whatever path read them. *)
TypeOK ==
  /\ records \in [Ids -> Written] /\ {down, downIds} \subseteq SUBSET Ids
  /\ pc \in {"idle", "handle", "page", "count", "join"}
  /\ Listed => \A j \in DOMAIN reply.rows : DOMAIN reply.rows[j] = Fields
  /\ total \in Nat /\ still \in BOOLEAN /\ shown \in Seq(Ids)

(***************************************************************************)
(* The page that is read is the one that was asked for: every clause,      *)
(* value and sort survives the form, and arrays of one element, the parser *)
(* and the narrowing, and so do limit and offset, which win over max       *)
(* (queryparser.py:129, page.py:120).                                      *)
(***************************************************************************)
Understood ==
  pc = "page" /\ page # None =>
    /\ page.or = (asked.logic = "OR")
    /\ LET Number(text) == IF text = None THEN None ELSE NumberOf(text)
       IN <<page.limit, page.offset>> =
            IF None \notin {asked.limit, asked.offset} THEN <<Number(asked.limit), Number(asked.offset)>>
            ELSE <<Number(asked.max), None>>
    /\ page.sorts = [j \in DOMAIN asked.sort |->
                       [field |-> asked.sort[j][1], desc |-> asked.sort[j][2] = "desc"]]
    /\ asked.combo = None =>
         /\ Len(page.searches) = Len(asked.search)
         /\ \A j \in DOMAIN asked.search :
              LET clause == page.searches[j]
                  items == Items(clause.value)
              IN <<clause.field, clause.type, clause.operator, [h \in DOMAIN items |-> AsText(items[h])]>>
                   = asked.search[j]

(***************************************************************************)
(* The total of a reply is the number of rows that matched at one of the   *)
(* read's statements, also when rows come and go between them              *)
(* (tables.py:331).                                                        *)
(***************************************************************************)
TotalOfAMoment == Listed => reply.total \in moments

(***************************************************************************)
(* While nothing changes, the pages of a listing show no row twice and     *)
(* keep the order that was asked for over their bounds, however SQL orders *)
(* equal rows (tables.py:288: "consecutive pages could overlap or skip     *)
(* rows").                                                                 *)
(***************************************************************************)
PagesInOrder ==
  Listed /\ still /\ page.limit # None =>
    /\ IsInjective(shown)
    /\ \A h, j \in DOMAIN shown : h < j => ~Before(Row(shown[j], Fields), Row(shown[h], Fields))

(***************************************************************************)
(* While nothing changes, the reply is what the full join has: "Both       *)
(* shapes return identical rows, order and total" (tables.py:548).         *)
(***************************************************************************)
BothShapes ==
  Listed /\ still =>
    /\ \E order \in Orders(Matching(Fields)) : reply.rows = Cut(order)
    /\ page.offset # None => reply.total = Cardinality(Matching(Fields))

(***************************************************************************)
(* A list of what is Off shows nothing that is On, and the reverse, though *)
(* the record is changed before the join reads it ("carry each row's       *)
(* computed status across", tables.py:651).                                *)
(***************************************************************************)
StatusAsSearched ==
  Listed /\ ~page.or =>
    \A j \in DOMAIN reply.rows, h \in DOMAIN page.searches :
      LET clause == page.searches[h]
      IN clause.field = "status" /\ Status /\ Usable(clause) => Matches(clause, reply.rows[j])
=============================================================================
