----------------------------- MODULE MCAdminTxn ------------------------------
(* Instances of AdminTxn for TLC. *)
EXTENDS AdminTxn, TLC

CONSTANTS v1, v2

\* Two rows to begin with.
MCInitial == [k \in Recids |-> IF k <= 2 THEN v1 ELSE Absent]

Interchangeable == Permutations(Sessions)
=============================================================================
