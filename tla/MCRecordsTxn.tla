---------------------------- MODULE MCRecordsTxn -----------------------------
(* Instances of RecordsTxn for TLC. *)
EXTENDS RecordsTxn, TLC

Interchangeable == Permutations(Sessions) \cup Permutations(Recids) \cup Permutations(Views)
=============================================================================
