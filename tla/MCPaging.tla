------------------------------- MODULE MCPaging --------------------------------
(* Instances of Paging for TLC. *)
EXTENDS Paging, QueryParser

MCCollate == [a |-> 1, A |-> 1, b |-> 2, Off |-> 3, On |-> 4]

\* No text but "Off" and "On" is a part of another.
MCLike(operator, value, text) == value = text \/ (value = "O" /\ operator # "ends" /\ text \in {"Off", "On"})

Record(disabled, content, name) == [disabled |-> disabled, content |-> content, name |-> name]

MCWritten == {Absent, Record(0, "a", "b"), Record(1, "A", "a"), Record(0, "b", "a")}

\* All there; and one that leaves an id free.
MCTables ==
  {<<Record(0, "b", "a"), Record(1, "A", "a"), Record(0, "a", "b")>>,
   <<Record(0, "a", "b"), Absent, Record(0, "a", "b")>>}

Ask0 == [cmd |-> "get-records", data |-> "records", limit |-> "2", offset |-> "0", max |-> None, recid |-> None,
         field |-> None, combo |-> None, logic |-> None, search |-> <<>>, sort |-> <<>>]

Clause(f, t, o, items) == <<f, t, o, items>>
Asc(f) == <<f, "asc">>
Desc(f) == <<f, "desc">>

OnId(o, items) == Clause("recid", "int", o, items)

MCAsked ==
  {\* Grids: local, joined and tied sorts, whole and cut.
   Ask0,
   [Ask0 EXCEPT !.sort = <<Desc("content")>>],
   [Ask0 EXCEPT !.limit = "1", !.sort = <<Asc("name"), Desc("content")>>],
   [Ask0 EXCEPT !.sort = <<Desc("recid")>>, !.search = <<OnId("not in", <<"2", "4">>)>>],
   [Ask0 EXCEPT !.data = "status", !.sort = <<Asc("status"), Asc("recid")>>],
   [Ask0 EXCEPT !.data = "status", !.search = <<Clause("status", "text", "is", <<"Off">>)>>],
   [Ask0 EXCEPT !.data = "status", !.limit = "1", !.logic = "OR",
      !.search = <<Clause("status", "text", "begins", <<"O">>), Clause("name", "text", "is", <<"A">>)>>],
   [Ask0 EXCEPT !.offset = "3"],
   \* Searches of every kind, good and bad.
   [Ask0 EXCEPT !.limit = None, !.search = <<OnId("in", <<"1", "3">>), OnId("is", <<"x">>)>>, !.logic = "OR"],
   [Ask0 EXCEPT !.limit = None, !.search = <<OnId("between", <<"2", "3">>), Clause("none", "text", "is", <<"a">>)>>],
   [Ask0 EXCEPT !.limit = None, !.search = <<OnId("in", <<"2">>), Clause("content", "list", "is", <<"a">>)>>],
   [Ask0 EXCEPT !.limit = None, !.search = <<Clause("content", "list", "is", <<"a">>)>>, !.logic = "OR"],
   [Ask0 EXCEPT !.limit = "x"],
   \* Drop-downs and forms.
   [Ask0 EXCEPT !.cmd = "get-items", !.field = "content", !.combo = "a", !.limit = None, !.max = "2"],
   [Ask0 EXCEPT !.cmd = "get-items", !.field = "name", !.combo = "*", !.limit = None, !.max = "2"],
   [Ask0 EXCEPT !.cmd = "get-items", !.field = "none", !.limit = None],
   [Ask0 EXCEPT !.cmd = "get-record", !.recid = "2"],
   [Ask0 EXCEPT !.cmd = "get-record", !.data = "status", !.recid = "0"],
   [Ask0 EXCEPT !.cmd = "get-record"]}

Pair(path, val) == [path |-> path, val |-> val]

\* The parser's unit tests, and the errors that no form of w2ui meets.
ASSUME ParserExamples ==
  /\ ParseQuery(<<>>) = Dict(<<>>)
  /\ ParseQuery(<<Pair(<<"sort", "0", "field">>, "a"), Pair(<<"sort", "0", "direction">>, "asc")>>)
       = Dict(<<<<Str("sort"), List(<<Dict(<<<<Str("field"), Str("a")>>, <<Str("direction"), Str("asc")>>>>)>>)>>>>)
  /\ ParseQuery(<<Pair(<<"x", "">>, "1"), Pair(<<"y">>, "")>>) = Dict(<<<<Str("x"), Num(1)>>>>)
  /\ ParseQuery(<<Pair(<<"a", Open>>, "v")>>) = SyntaxError
  /\ ParseQuery(<<Pair(<<"a", "0", Open>>, "v")>>) = Dict(<<<<Str("a"), List(<<Str("v")>>)>>>>)
  /\ ParseQuery(<<Pair(<<"a">>, "1"), Pair(<<"a", "b">>, "2")>>) = TypeError
  /\ ParseQuery(<<Pair(<<"a", "0", "0">>, "x")>>) = Dict(<<<<Str("a"), List(<<Dict(<<<<Num(0), Str("x")>>>>)>>)>>>>)
=============================================================================
