--------------------------- MODULE MCMongoDbClient ---------------------------
(* Small instances of MongoDbClient.                                         *)
EXTENDS MongoDbClient, TLC

Symmetric == Permutations(Clients)
=============================================================================
