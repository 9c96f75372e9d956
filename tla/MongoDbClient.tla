---------------------------- MODULE MongoDbClient ----------------------------
(***************************************************************************)
(* The MongoDbClients of one JVM: the connection they share, opened by an  *)
(* init() that finds none and closed by the cleanup() that counts down to  *)
(* zero, and the documents that each of them collects for a bulk write.    *)
(* INIT_COUNT is counted outside the lock of init(), and cleanup() takes   *)
(* no lock at all.                                                         *)
(***************************************************************************)
EXTENDS Integers, FiniteSets, Sequences

CONSTANTS
  Clients,     \* the client threads, each with its MongoDbClient
  BatchSizes,  \* the values of batchsize
  MaxDocs,     \* BOUND: documents a client inserts
  MaxRetries,  \* core_workload_insertion_retry_limit
  MaxFaults    \* BOUND: failures

ASSUME MongoAssumption ==
  /\ IsFiniteSet(Clients)
  /\ BatchSizes \subseteq Nat
  /\ {MaxDocs, MaxRetries, MaxFaults} \subseteq Nat

Docs == 1 .. MaxDocs

VARIABLES
  batchSize, useUpsert,  \* the static fields of those names
  initCount,             \* INIT_COUNT
  mongoClient, database, \* which connection they are of, 0 when null
  opened,                \* connections opened so far
  live,                  \* the connections not closed
  pc,                    \* where each client is
  collection,            \* the connection its operation got its collection from
  next, retries,         \* the document to insert, and its retries so far
  bulkInserts,           \* bulkInserts of each client
  status,                \* what the last insert() of a document returned
  stored,                \* the documents of each client in the database
  faults,                \* failures so far
  exposed                \* clients whose init() met a closing or an exception

config == <<batchSize, useUpsert>>
connection == <<mongoClient, database, opened, live>>
documents == <<next, retries, bulkInserts, status, stored>>
vars == <<config, initCount, connection, pc, collection, documents, faults, exposed>>

Goto(c, to) == pc' = [pc EXCEPT ![c] = to]
Fault == faults < MaxFaults /\ faults' = faults + 1

\* The definitions marked (wrong) are variants of the definition after them,
\* with which the properties are tested.

Init ==
  /\ batchSize \in BatchSizes /\ useUpsert \in BOOLEAN
  /\ initCount = 0
  /\ mongoClient = 0 /\ database = 0 /\ opened = 0 /\ live = {}
  /\ pc = [c \in Clients |-> "new"]
  /\ collection = [c \in Clients |-> 0]
  /\ next = [c \in Clients |-> 1]
  /\ retries = [c \in Clients |-> 0]
  /\ bulkInserts = [c \in Clients |-> <<>>]
  /\ status = [c \in Clients |-> [d \in Docs |-> "none"]]
  /\ stored = [c \in Clients |-> {}]
  /\ faults = 0 /\ exposed = {}

\* Clients between the count of init() and that of cleanup(), and those that
\* never reach the latter.
Counted == {c \in Clients : pc[c] \in {"init", "inited", "ready", "insert", "leave", "left"}}

\* Clients in the part of cleanup() that closes the connection.
Closing == {c \in Clients : pc[c] \in {"close", "forget", "forgotten"}}

-----------------------------------------------------------------------------
(* init()                                                                   *)

\* INIT_COUNT.incrementAndGet()
OneMore == initCount + 1

InitCount(c) ==
  /\ pc[c] = "new"
  /\ initCount' = OneMore
  /\ exposed' = IF Closing = {} THEN exposed ELSE exposed \cup {c}
  /\ Goto(c, "init")
  /\ UNCHANGED <<config, connection, collection, documents, faults>>

\* The synchronized part; nothing in it waits.
InitFinds(c) ==
  /\ pc[c] = "init"
  /\ mongoClient # 0
  /\ Goto(c, "inited")
  /\ UNCHANGED <<config, initCount, connection, collection, documents, faults, exposed>>

InitOpens(c) ==
  /\ pc[c] = "init"
  /\ mongoClient = 0
  /\ opened' = opened + 1
  /\ mongoClient' = opened + 1 /\ database' = opened + 1
  /\ live' = live \cup {opened + 1}
  /\ Goto(c, "inited")
  /\ UNCHANGED <<config, initCount, collection, documents, faults, exposed>>

\* An exception is printed, and init() returns as if it had worked.
InitFails(c) ==
  /\ pc[c] = "init"
  /\ mongoClient = 0
  /\ Fault
  /\ exposed' = exposed \cup {c}
  /\ Goto(c, "inited")
  /\ UNCHANGED <<config, initCount, connection, collection, documents>>

\* workload.initThread(): if it fails, the thread ends without cleanup().
InitThread(c) ==
  /\ pc[c] = "inited"
  /\ \/ Goto(c, "ready") /\ UNCHANGED faults
     \/ Goto(c, "left") /\ Fault
  /\ UNCHANGED <<config, initCount, connection, collection, documents, exposed>>

-----------------------------------------------------------------------------
(* insert()                                                                 *)

Report(c, s) == status' = [status EXCEPT ![c][next[c]] = s]

\* doInsert() goes on to the next document, or has failed for good.
Reported(c, s) ==
  /\ Report(c, s)
  /\ IF s \in {"OK", "BATCHED_OK"}
     THEN /\ next' = [next EXCEPT ![c] = @ + 1]
          /\ retries' = [retries EXCEPT ![c] = 0]
          /\ Goto(c, "ready")
     ELSE /\ retries' = [retries EXCEPT ![c] = @ + 1]
          /\ Goto(c, IF retries[c] < MaxRetries THEN "ready" ELSE "leave")
          /\ UNCHANGED next

\* database.getCollection(table); a null pointer is caught.
GetCollection(c) ==
  /\ pc[c] = "ready" /\ next[c] \in Docs
  /\ IF database # 0
     THEN /\ collection' = [collection EXCEPT ![c] = database]
          /\ Goto(c, "insert")
          /\ UNCHANGED documents
     ELSE /\ Reported(c, "ERROR")
          /\ UNCHANGED <<collection, bulkInserts, stored>>
  /\ UNCHANGED <<config, initCount, connection, faults, exposed>>

Elements(docs) == {docs[i] : i \in DOMAIN docs}
Keep(c, docs) == bulkInserts' = [bulkInserts EXCEPT ![c] = docs]

\* The documents reach the database, unless one of them is there already or
\* twice in the list.
Writes(c, docs) ==
  /\ collection[c] \in live
  /\ \/ useUpsert
     \/ /\ Elements(docs) \cap stored[c] = {}
        /\ Cardinality(Elements(docs)) = Len(docs)
  /\ stored' = [stored EXCEPT ![c] = @ \cup Elements(docs)]
  /\ UNCHANGED faults

\* An exception: the connection is closed, a document is there already, or a
\* failure, and any part of the documents is written.
WriteFails(c, docs) ==
  \/ collection[c] \notin live /\ UNCHANGED <<stored, faults>>
  \/ /\ collection[c] \in live
     /\ \/ Fault
        \/ /\ ~useUpsert /\ UNCHANGED faults
           /\ \/ Elements(docs) \cap stored[c] # {}
              \/ Cardinality(Elements(docs)) < Len(docs)
     /\ \E some \in SUBSET Elements(docs) :
          stored' = [stored EXCEPT ![c] = @ \cup some]

InsertOne(c) ==
  /\ batchSize = 1
  /\ \/ Writes(c, <<next[c]>>) /\ Reported(c, "OK")
     \/ WriteFails(c, <<next[c]>>) /\ Reported(c, "ERROR")
  /\ UNCHANGED bulkInserts

\* bulkInserts.add(toInsert), and whether it is the time to write
Added(c) == Append(bulkInserts[c], next[c])
Complete(c) == Len(Added(c)) = batchSize

AddToBulk(c) ==
  /\ batchSize # 1 /\ ~Complete(c)
  /\ Keep(c, Added(c))
  /\ Reported(c, "BATCHED_OK")
  /\ UNCHANGED <<stored, faults>>

\* bulkInserts.clear() comes after the write: an exception leaves the list.

Emptied(c) == <<>>                                                 \* (wrong)
LeftByFailure(c) == Added(c)

InsertMany(c) ==
  /\ batchSize # 1 /\ Complete(c)
  /\ \/ Writes(c, Added(c)) /\ Keep(c, <<>>) /\ Reported(c, "OK")
     \/ WriteFails(c, Added(c)) /\ Keep(c, LeftByFailure(c)) /\ Reported(c, "ERROR")

Insert(c) ==
  /\ pc[c] = "insert"
  /\ InsertOne(c) \/ AddToBulk(c) \/ InsertMany(c)
  /\ UNCHANGED <<config, initCount, connection, collection, exposed>>

-----------------------------------------------------------------------------
(* cleanup()                                                                *)

\* INIT_COUNT.decrementAndGet() == 0
Lower == 1                                                         \* (wrong)
CountedBefore == -1                                                \* (wrong)
Zero == 0

\* After the last operation, at a stop request, or after a failed insert.
CleanupCount(c) ==
  /\ pc[c] \in {"ready", "leave"}
  /\ initCount' = initCount - 1
  /\ Goto(c, IF initCount - 1 = Zero THEN "close" ELSE "done")
  /\ UNCHANGED <<config, connection, collection, documents, faults, exposed>>

\* mongoClient.close(); a null pointer is caught.
CleanupClose(c) ==
  /\ pc[c] = "close"
  /\ live' = live \ {mongoClient}
  /\ Goto(c, "forget")
  /\ UNCHANGED <<config, initCount, mongoClient, database, opened, collection, documents,
                 faults, exposed>>

CleanupForget(c) ==
  /\ pc[c] = "forget"
  /\ database' = 0
  /\ Goto(c, "forgotten")
  /\ UNCHANGED <<config, initCount, mongoClient, opened, live, collection, documents,
                 faults, exposed>>

CleanupEnds(c) ==
  /\ pc[c] = "forgotten"
  /\ mongoClient' = 0
  /\ Goto(c, "done")
  /\ UNCHANGED <<config, initCount, database, opened, live, collection, documents, faults,
                 exposed>>

InitDB(c) == InitCount(c) \/ InitFinds(c) \/ InitOpens(c) \/ InitFails(c) \/ InitThread(c)
Operation(c) == GetCollection(c) \/ Insert(c)
Cleanup(c) == CleanupCount(c) \/ CleanupClose(c) \/ CleanupForget(c) \/ CleanupEnds(c)

Next == \E c \in Clients : InitDB(c) \/ Operation(c) \/ Cleanup(c)

Spec == Init /\ [][Next]_vars

-----------------------------------------------------------------------------
PCs == {"new", "init", "inited", "ready", "insert", "leave", "left", "close", "forget",
        "forgotten", "done"}

TypeOK ==
  /\ batchSize \in BatchSizes /\ useUpsert \in BOOLEAN
  /\ initCount \in Nat
  /\ opened \in Nat /\ {mongoClient, database} \subseteq 0 .. opened
  /\ live \subseteq 1 .. opened
  /\ pc \in [Clients -> PCs]
  /\ collection \in [Clients -> 0 .. opened]
  /\ next \in [Clients -> 1 .. MaxDocs + 1]
  /\ retries \in [Clients -> 0 .. MaxRetries + 1]
  /\ bulkInserts \in [Clients -> Seq(Docs)]
  /\ status \in [Clients -> [Docs -> {"none", "OK", "BATCHED_OK", "ERROR"}]]
  /\ stored \in [Clients -> SUBSET Docs]
  /\ faults \in Nat
  /\ exposed \subseteq Clients

\* A client works on the one connection there is and on no closed one, however
\* the init() and the cleanup() of the others interleave, unless its own init()
\* began while a cleanup() that had counted to zero was still closing, or failed.
Connected ==
  \A c \in Clients \ exposed :
    /\ pc[c] \in {"inited", "ready", "insert"} => database = mongoClient /\ database \in live
    /\ pc[c] = "insert" => collection[c] = database

\* Nothing is left open behind mongoClient, and nothing at all when every client
\* has cleaned up, unless an init() was exposed.
OneConnection ==
  exposed = {} =>
    /\ live \subseteq {mongoClient}
    /\ (\A c \in Clients : pc[c] = "done") => live = {} /\ initCount = 0

ReportedOk(c) == {d \in Docs : status[c][d] \in {"OK", "BATCHED_OK"}}

\* A document reported as inserted is in the database, or still in the list of its
\* client: through failed bulk writes, retries and lost connections.  OK is only
\* reported when the whole list was written, so it covers earlier BATCHED_OKs.
Accounted ==
  \A c \in Clients :
    /\ ReportedOk(c) \subseteq stored[c] \cup Elements(bulkInserts[c])
    /\ \A d \in Docs : status[c][d] = "OK" => 1 .. d \subseteq stored[c]

\* What cleanup() drops is less than one batch, unless a bulk write has failed.
BatchBounded ==
  faults = 0 /\ exposed = {} /\ batchSize > 0 =>
    \A c \in Clients : Len(bulkInserts[c]) < batchSize
=============================================================================
