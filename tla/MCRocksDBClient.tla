--------------------------- MODULE MCRocksDBClient ---------------------------
(* Small instances of RocksDBClient: clients are model values, tables names.  *)
EXTENDS RocksDBClient, TLC

Symmetric == Permutations(Clients)
=============================================================================
