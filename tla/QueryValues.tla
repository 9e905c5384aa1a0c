------------------------------ MODULE QueryValues ------------------------------
(***************************************************************************)
(* The values of a parsed w2ui query: a string, an int, a list, or a dict  *)
(* (its entries in the order of insertion, which decides what a list       *)
(* holds), each with its tag.                                              *)
(*                                                                         *)
(* Source: powergslb/server/http/handler/queryparser.py.                   *)
(***************************************************************************)
EXTENDS Naturals, Sequences, TLC

CONSTANTS MaxNumber   \* bound: the number literals of a form are 0..MaxNumber

Str(s) == <<"str", s>>
Num(n) == <<"int", n>>
List(vs) == <<"list", vs>>
Dict(es) == <<"dict", es>>

Is(tag, v) == v[1] = tag

IsNumber(s) == \E n \in 0..MaxNumber : s = ToString(n)
NumberOf(s) == CHOOSE n \in 0..MaxNumber : s = ToString(n)
NumberOrText(s) == IF IsNumber(s) THEN Num(NumberOf(s)) ELSE Str(s)

Has(d, k) == \E j \in DOMAIN d[2] : d[2][j][1] = k
Get(d, k) == IF Has(d, k) THEN (SelectSeq(d[2], LAMBDA e : e[1] = k))[1][2] ELSE <<"none">>
=============================================================================
