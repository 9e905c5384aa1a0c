------------------------------ MODULE QueryParser ------------------------------
(***************************************************************************)
(* What a form-encoded w2ui query parses to.                               *)
(*                                                                         *)
(* Source: powergslb/server/http/handler/queryparser.py.                   *)
(*                                                                         *)
(* A form is a sequence of pairs [path, val]: the key a[b][0][] has the    *)
(* path <<"a", "b", "0", "">>, and one with a bracket left open ends in    *)
(* Open.  Left out: quoted and signed keys, and a group under a key that   *)
(* holds a list already.                                                   *)
(***************************************************************************)
EXTENDS QueryValues, SequencesExt

Open == "["

SyntaxError == <<"error", "syntax">>
TypeError == <<"error", "type">>

\* tempdict[k] = v keeps the place of a key that is there.
Set(d, k, v) ==
  IF Has(d, k)
  THEN Dict([j \in DOMAIN d[2] |-> IF d[2][j][1] = k THEN <<k, v>> ELSE d[2][j]])
  ELSE Dict(Append(d[2], <<k, v>>))

-----------------------------------------------------------------------------

\* Only the first bracket has to be closed: what follows one left open later is
\* dropped.
Closed(path) == IF Len(path) > 2 /\ Last(path) = Open THEN Front(path) ELSE path

\* The keys of a pair: a name before a bracket stays text.
Keys(path) ==
  [j \in DOMAIN Closed(path) |->
     IF j = 1 /\ Len(path) > 1 THEN Str(path[1]) ELSE NumberOrText(path[j])]

\* The value: a number only as an element of an array, a[]=v.
Leaf(p) == IF Last(p.path) = "" THEN NumberOrText(p.val) ELSE Str(p.val)

Nested(keys, leaf) == FoldRight(LAMBDA k, inner : Dict(<<<<k, inner>>>>), keys, leaf)

\* Fault: the last of repeated keys wins.
Collect_Last(old, v) == v

\* A key that is there and takes no group: its values collect in a list.
Collect(old, v) == IF Is("list", old) THEN List(Append(old[2], v)) ELSE List(<<old, v>>)

\* The branch of one pair, merged into the dict of the pairs before it.
RECURSIVE Merge(_, _, _)
Merge(d, keys, leaf) ==
  LET k == Head(keys)
      rest == Tail(keys)
  IN IF ~Has(d, k) THEN Set(d, k, Nested(rest, leaf))
     ELSE IF rest = <<>> THEN Set(d, k, Collect(Get(d, k), leaf))
     ELSE IF ~Is("dict", Get(d, k)) THEN TypeError
     ELSE LET inner == Merge(Get(d, k), rest, leaf)
          IN IF Is("error", inner) THEN inner ELSE Set(d, k, inner)

\* Dicts with an int for their first key become lists, and a[] its values.  A
\* list directly inside a list stays a dict.
RECURSIVE Normalize(_)
Normalize(v) ==
  IF ~Is("dict", v) THEN v
  ELSE Dict([j \in DOMAIN v[2] |->
         LET k == v[2][j][1]
             w == v[2][j][2]
         IN <<k, IF ~Is("dict", w) THEN w
                 ELSE IF Is("int", w[2][1][1]) THEN List([h \in DOMAIN w[2] |-> Normalize(w[2][h][2])])
                 ELSE IF w[2][1][1] = Str("") THEN w[2][1][2]
                 ELSE Normalize(w)>>])

\* parse_qsl drops pairs without a value.
Pairs(form) == SelectSeq(form, LAMBDA p : p.val # "")

ParseQuery(form) ==
  LET Step(p, d) ==
        IF Is("error", d) THEN d
        ELSE IF Last(Closed(p.path)) = Open THEN SyntaxError
        ELSE Merge(d, Keys(p.path), Leaf(p))
      parsed == FoldLeft(LAMBDA d, p : Step(p, d), Dict(<<>>), Pairs(form))
  IN Normalize(parsed)
=============================================================================
