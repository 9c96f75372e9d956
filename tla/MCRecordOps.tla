---------------------------- MODULE MCRecordOps ----------------------------
(* Small instances of RecordOps: clients, keys and fields are model values.  *)
EXTENDS RecordOps, TLC

Symmetric == Permutations(Clients) \cup Permutations(Fields)
=============================================================================
