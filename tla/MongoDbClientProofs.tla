------------------------- MODULE MongoDbClientProofs -------------------------
(***************************************************************************)
(* MongoDbClient for any number of clients, documents and batch sizes:     *)
(* the shared connection is open for every client whose init() did not     *)
(* meet a closing, none is left open, and no reported document is lost     *)
(* before cleanup().                                                       *)
(***************************************************************************)
EXTENDS MongoDbClient, FiniteSetTheorems, TLAPS

-----------------------------------------------------------------------------
(* The inductive invariant                                                 *)

\* INIT_COUNT is right; a client that counts while another one is closing is exposed.
CountInv ==
  /\ initCount = Cardinality(Counted)
  /\ Closing # {} => Counted \subseteq exposed

\* When nobody is closing, mongoClient is null or of the open connection.
ConnectionInv ==
  /\ Closing = {} /\ mongoClient # 0 => database = mongoClient /\ database \in live
  /\ \A c \in Clients \ exposed :
       /\ pc[c] \in {"inited", "ready", "insert"} => mongoClient # 0
       /\ pc[c] = "insert" => collection[c] = database

\* With no client exposed there is at most one connection, and one that closes it.
LiveInv ==
  exposed = {} =>
    /\ live \subseteq {mongoClient}
    /\ \A c, d \in Closing : c = d
    /\ \A c \in Clients : pc[c] \in {"forget", "forgotten"} => live = {}
    /\ Counted = {} /\ Closing = {} => live = {}

\* The documents before the next one are written or in the list.
DocumentsInv ==
  \A c \in Clients :
    /\ 1 .. next[c] - 1 \subseteq stored[c] \cup Elements(bulkInserts[c])
    /\ \A d \in Docs :
         /\ status[c][d] \in {"OK", "BATCHED_OK"} => d < next[c]
         /\ status[c][d] = "OK" => 1 .. d \subseteq stored[c]
    /\ batchSize = 1 => bulkInserts[c] = <<>>
    /\ pc[c] = "insert" => next[c] \in Docs
    /\ pc[c] \in {"new", "init", "inited", "ready", "insert"} => retries[c] <= MaxRetries

\* Until something fails, the list has each document once, and none that is written.
ListInv ==
  faults = 0 /\ exposed = {} =>
    \A c \in Clients :
      /\ stored[c] \cup Elements(bulkInserts[c]) \subseteq 1 .. next[c] - 1
      /\ stored[c] \cap Elements(bulkInserts[c]) = {}
      /\ Cardinality(Elements(bulkInserts[c])) = Len(bulkInserts[c])
      /\ batchSize > 0 => Len(bulkInserts[c]) < batchSize

IInv ==
  /\ TypeOK
  /\ CountInv
  /\ ConnectionInv
  /\ LiveInv
  /\ DocumentsInv
  /\ ListInv

-----------------------------------------------------------------------------
(* Who is counted                                                          *)

InCount == {"init", "inited", "ready", "insert", "leave", "left"}

LEMMA CountedFinite == IsFiniteSet(Counted) /\ Cardinality(Counted) \in Nat
<1>1. IsFiniteSet(Clients) /\ Counted \subseteq Clients
  BY MongoAssumption DEF Counted
<1> QED
  BY <1>1, FS_Subset, FS_CardinalityType

\* A client that moves between two places inside, or two outside.
LEMMA CountedStay ==
  ASSUME TypeOK, NEW c \in Clients, NEW x, Goto(c, x), pc[c] \in InCount <=> x \in InCount
  PROVE  Counted' = Counted
BY DEF TypeOK, Counted, Goto, InCount

LEMMA CountedJoin ==
  ASSUME TypeOK, NEW c \in Clients, Goto(c, "init"), pc[c] = "new"
  PROVE  /\ Counted' = Counted \cup {c}
         /\ Cardinality(Counted') = Cardinality(Counted) + 1
<1>1. Counted' = Counted \cup {c} /\ c \notin Counted
  BY DEF TypeOK, Counted, Goto
<1> QED
  BY <1>1, CountedFinite, FS_AddElement

\* A client in cleanup().
LEMMA CountedLeave ==
  ASSUME TypeOK, NEW c \in Clients, NEW x \in {"close", "done"}, Goto(c, x), pc[c] \in {"ready", "leave"}
  PROVE  /\ Counted' = Counted \ {c}
         /\ Cardinality(Counted') = Cardinality(Counted) - 1
<1>1. Counted' = Counted \ {c} /\ c \in Counted
  BY DEF TypeOK, Counted, Goto
<1> QED
  BY <1>1, CountedFinite, FS_RemoveElement

LEMMA NoneCounted == Cardinality(Counted) = 0 => Counted = {}
BY CountedFinite, FS_EmptySet

-----------------------------------------------------------------------------
(* What insert() does                                                      *)

LEMMA AddedElements ==
  ASSUME TypeOK, NEW c \in Clients, next[c] \in Docs
  PROVE  /\ Added(c) \in Seq(Docs) /\ Len(Added(c)) = Len(bulkInserts[c]) + 1
         /\ Elements(Added(c)) = Elements(bulkInserts[c]) \cup {next[c]}
<1>1. bulkInserts[c] \in Seq(Docs)
  BY DEF TypeOK
<1>2. /\ Added(c) \in Seq(Docs) /\ DOMAIN Added(c) = 1 .. Len(bulkInserts[c]) + 1
      /\ \A i \in 1 .. Len(bulkInserts[c]) : Added(c)[i] = bulkInserts[c][i]
      /\ Added(c)[Len(bulkInserts[c]) + 1] = next[c]
  BY <1>1 DEF Added
<1>3. DOMAIN bulkInserts[c] = 1 .. Len(bulkInserts[c]) /\ Len(bulkInserts[c]) \in Nat
  BY <1>1
<1>4. Len(Added(c)) = Len(bulkInserts[c]) + 1
  BY <1>1 DEF Added
<1>5. Elements(Added(c)) \subseteq Elements(bulkInserts[c]) \cup {next[c]}
  BY <1>2, <1>3 DEF Elements
<1>6. Elements(bulkInserts[c]) \cup {next[c]} \subseteq Elements(Added(c))
  BY <1>2, <1>3 DEF Elements
<1> QED
  BY <1>2, <1>4, <1>5, <1>6

LEMMA ListElements ==
  ASSUME TypeOK, NEW c \in Clients
  PROVE  Elements(bulkInserts[c]) \subseteq Docs /\ IsFiniteSet(Elements(bulkInserts[c]))
<1>1. Elements(bulkInserts[c]) \subseteq Docs
  BY DEF TypeOK, Elements
<1>2. IsFiniteSet(Docs)
  BY MongoAssumption, FS_Interval DEF Docs
<1> QED
  BY <1>1, <1>2, FS_Subset

LEMMA OneElement == \A d : Elements(<<d>>) = {d} /\ Cardinality({d}) = 1
<1>1. ASSUME NEW d PROVE Elements(<<d>>) = {d}
  BY DOMAIN <<d>> = {1}, <<d>>[1] = d DEF Elements
<1> QED
  BY <1>1, FS_Singleton

LEMMA NoElement == Elements(<<>>) = {} /\ Cardinality({}) = 0 /\ Len(<<>>) = 0
BY FS_EmptySet DEF Elements

-----------------------------------------------------------------------------
(* Every step keeps each part of the invariant                             *)

Steps(c) ==
  \/ InitCount(c) \/ InitFinds(c) \/ InitOpens(c) \/ InitFails(c) \/ InitThread(c)
  \/ GetCollection(c) \/ Insert(c)
  \/ CleanupCount(c) \/ CleanupClose(c) \/ CleanupForget(c) \/ CleanupEnds(c)

LEMMA NextSteps == Next => \E c \in Clients : Steps(c)
BY DEF Next, InitDB, Operation, Cleanup, Steps

\* An insert() leaves the connection alone, and its client goes on or leaves.
LEMMA OperationControl ==
  ASSUME IInv, NEW c \in Clients, GetCollection(c) \/ Insert(c)
  PROVE  /\ pc[c] \in {"ready", "insert"} /\ next[c] \in Docs
         /\ \E x \in {"ready", "insert", "leave"} :
              Goto(c, x) /\ (x = "insert" => collection'[c] = database /\ next'[c] \in Docs)
         /\ UNCHANGED <<config, initCount, connection, exposed>>
         /\ faults' \in Nat /\ (faults' = 0 => faults = 0)
         /\ \A d \in Clients \ {c} : collection'[d] = collection[d]
<1> USE DEF config, connection, documents
<1>1. TypeOK /\ DocumentsInv /\ MaxFaults \in Nat
  BY MongoAssumption DEF IInv
<1>2. CASE GetCollection(c)
  BY <1>1, <1>2 DEF GetCollection, Reported, TypeOK
<1>3. CASE Insert(c)
  <2>1. pc[c] = "insert" /\ next[c] \in Docs
    BY <1>1, <1>3 DEF Insert, DocumentsInv
  <2>2. \E s \in {"OK", "BATCHED_OK", "ERROR"} : Reported(c, s)
    BY <1>3 DEF Insert, InsertOne, AddToBulk, InsertMany
  <2>3. \E x \in {"ready", "leave"} : Goto(c, x)
    BY <2>2 DEF Reported
  <2>4. faults' = faults \/ Fault
    BY <1>3 DEF Insert, InsertOne, AddToBulk, InsertMany, Writes, WriteFails
  <2>5. faults' \in Nat /\ (faults' = 0 => faults = 0)
    BY <1>1, <2>4 DEF Fault, TypeOK
  <2>6. UNCHANGED <<config, initCount, connection, collection, exposed>>
    BY <1>3 DEF Insert
  <2> QED
    BY <2>1, <2>3, <2>5, <2>6
<1> QED
  BY <1>2, <1>3

LEMMA OpenIsClosed == \A c \in Clients : c \in Closing <=> pc[c] \in {"close", "forget", "forgotten"}
BY DEF Closing

\* INIT_COUNT stays the number of those who have counted up and not down.
LEMMA CountStep == IInv /\ [Next]_vars => CountInv'
<1> SUFFICES ASSUME IInv, [Next]_vars PROVE CountInv'
  OBVIOUS
<1> USE DEF config, connection, documents
<1>1. TypeOK /\ CountInv
  BY DEF IInv
<1>2. ASSUME NEW c \in Clients, InitCount(c) PROVE CountInv'
  <2>1. Counted' = Counted \cup {c} /\ Cardinality(Counted') = Cardinality(Counted) + 1
    BY <1>1, <1>2, CountedJoin DEF InitCount
  <2>2. Closing' = Closing
    BY <1>1, <1>2 DEF InitCount, Goto, Closing, TypeOK
  <2>3. initCount' = initCount + 1 /\ exposed' = IF Closing = {} THEN exposed ELSE exposed \cup {c}
    BY <1>2 DEF InitCount, OneMore
  <2> QED
    BY <1>1, <2>1, <2>2, <2>3 DEF CountInv
<1>3. ASSUME NEW c \in Clients, InitFinds(c) \/ InitOpens(c) \/ InitFails(c) \/ InitThread(c)
      PROVE  CountInv'
  <2>1. Counted' = Counted
    BY <1>1, <1>3, CountedStay DEF InitFinds, InitOpens, InitFails, InitThread, InCount
  <2>2. Closing' = Closing
    BY <1>1, <1>3 DEF InitFinds, InitOpens, InitFails, InitThread, Goto, Closing, TypeOK
  <2>3. initCount' = initCount /\ exposed \subseteq exposed'
    BY <1>3 DEF InitFinds, InitOpens, InitFails, InitThread
  <2> QED
    BY <1>1, <2>1, <2>2, <2>3 DEF CountInv
<1>4. ASSUME NEW c \in Clients, GetCollection(c) \/ Insert(c) PROVE CountInv'
  <2>1. PICK x \in {"ready", "insert", "leave"} : Goto(c, x)
    BY <1>4, OperationControl
  <2>2. pc[c] \in {"ready", "insert"} /\ UNCHANGED <<initCount, exposed>>
    BY <1>4, OperationControl
  <2>3. Counted' = Counted
    BY <1>1, <2>1, <2>2, CountedStay DEF InCount
  <2>4. Closing' = Closing
    BY <1>1, <2>1, <2>2 DEF Goto, Closing, TypeOK
  <2> QED
    BY <1>1, <2>2, <2>3, <2>4 DEF CountInv
<1>5. ASSUME NEW c \in Clients, CleanupCount(c) PROVE CountInv'
  <2>1. PICK x \in {"close", "done"} : Goto(c, x) /\ (x = "close" <=> initCount - 1 = 0)
    BY <1>5 DEF CleanupCount, Zero
  <2>2. pc[c] \in {"ready", "leave"} /\ initCount' = initCount - 1 /\ exposed' = exposed
    BY <1>5 DEF CleanupCount
  <2>3. Counted' = Counted \ {c} /\ Cardinality(Counted') = Cardinality(Counted) - 1
    BY <1>1, <2>1, <2>2, CountedLeave
  <2>4. CASE x = "close"
    <3>1. Cardinality(Counted') = 0 /\ IsFiniteSet(Counted')
      BY <1>1, <2>1, <2>3, <2>4, CountedFinite, FS_Subset DEF CountInv
    <3>2. Counted' = {}
      BY <3>1, FS_EmptySet
    <3> QED
      BY <1>1, <2>2, <2>3, <3>2 DEF CountInv
  <2>5. CASE x = "done"
    <3>1. Closing' = Closing
      BY <1>1, <2>1, <2>2, <2>5 DEF Goto, Closing, TypeOK
    <3> QED
      BY <1>1, <2>2, <2>3, <3>1 DEF CountInv
  <2> QED
    BY <2>4, <2>5
<1>6. ASSUME NEW c \in Clients, CleanupClose(c) \/ CleanupForget(c) \/ CleanupEnds(c) PROVE CountInv'
  <2>1. Counted' = Counted
    BY <1>1, <1>6, CountedStay DEF CleanupClose, CleanupForget, CleanupEnds, InCount
  <2>2. c \in Closing /\ initCount' = initCount /\ exposed' = exposed
    BY <1>6 DEF CleanupClose, CleanupForget, CleanupEnds, Closing
  <2> QED
    BY <1>1, <2>1, <2>2 DEF CountInv
<1>7. CASE UNCHANGED vars
  BY <1>1, <1>7 DEF vars, CountInv, Counted, Closing
<1> QED
  BY <1>2, <1>3, <1>4, <1>5, <1>6, <1>7, NextSteps DEF Steps

\* What doInsert() makes of an outcome keeps the types.
LEMMA ReportedTypes ==
  ASSUME TypeOK, NEW c \in Clients, NEW s \in {"OK", "BATCHED_OK", "ERROR"}, Reported(c, s),
         next[c] \in Docs, retries[c] <= MaxRetries
  PROVE  /\ next' \in [Clients -> 1 .. MaxDocs + 1] /\ retries' \in [Clients -> 0 .. MaxRetries + 1]
         /\ status' \in [Clients -> [Docs -> {"none", "OK", "BATCHED_OK", "ERROR"}]]
         /\ pc' \in [Clients -> PCs]
<1>1. MaxDocs \in Nat /\ MaxRetries \in Nat
  BY MongoAssumption
<1>2. status' \in [Clients -> [Docs -> {"none", "OK", "BATCHED_OK", "ERROR"}]]
  BY DEF Reported, Report, TypeOK
<1>3. next' \in [Clients -> 1 .. MaxDocs + 1] /\ retries' \in [Clients -> 0 .. MaxRetries + 1]
  <2>1. \/ next' = [next EXCEPT ![c] = @ + 1] /\ retries' = [retries EXCEPT ![c] = 0]
        \/ next' = next /\ retries' = [retries EXCEPT ![c] = @ + 1]
    BY DEF Reported
  <2>2. next[c] + 1 \in 1 .. MaxDocs + 1
    BY <1>1 DEF Docs
  <2>3. retries[c] \in 0 .. MaxRetries /\ retries[c] + 1 \in 0 .. MaxRetries + 1 /\ 0 \in 0 .. MaxRetries + 1
    BY <1>1 DEF TypeOK
  <2>4. CASE next' = [next EXCEPT ![c] = @ + 1] /\ retries' = [retries EXCEPT ![c] = 0]
    BY <2>2, <2>3, <2>4 DEF TypeOK
  <2>5. CASE next' = next /\ retries' = [retries EXCEPT ![c] = @ + 1]
    BY <2>3, <2>5 DEF TypeOK
  <2> QED
    BY <2>1, <2>4, <2>5
<1>4. pc' \in [Clients -> PCs]
  BY DEF Reported, Goto, TypeOK, PCs
<1> QED
  BY <1>2, <1>3, <1>4

\* What a bulk write does keeps the types.
LEMMA WriteTypes ==
  ASSUME TypeOK, NEW c \in Clients, NEW docs \in Seq(Docs), Writes(c, docs) \/ WriteFails(c, docs)
  PROVE  stored' \in [Clients -> SUBSET Docs] /\ faults' \in Nat
<1>1. Elements(docs) \subseteq Docs /\ MaxFaults \in Nat
  BY MongoAssumption DEF Elements
<1>2. CASE Writes(c, docs)
  BY <1>1, <1>2 DEF Writes, TypeOK
<1>3. CASE WriteFails(c, docs)
  <2>1. faults' = faults \/ Fault
    BY <1>3 DEF WriteFails
  <2>2. stored' = stored \/ \E some \in SUBSET Elements(docs) : stored' = [stored EXCEPT ![c] = @ \cup some]
    BY <1>3 DEF WriteFails
  <2>3. stored' \in [Clients -> SUBSET Docs]
    BY <1>1, <2>2 DEF TypeOK
  <2>4. faults' \in Nat
    BY <2>1 DEF TypeOK, Fault
  <2> QED
    BY <2>3, <2>4
<1> QED
  BY <1>2, <1>3

\* Every variable keeps its type.
LEMMA TypeStep == IInv /\ [Next]_vars => TypeOK'
<1> SUFFICES ASSUME IInv, [Next]_vars PROVE TypeOK'
  OBVIOUS
<1> USE DEF config, connection, documents
<1>1. TypeOK /\ DocumentsInv /\ MaxFaults \in Nat
  BY MongoAssumption DEF IInv
<1>2. initCount' \in Nat
  <2>1. IsFiniteSet(Clients) /\ Counted' \subseteq Clients
    BY MongoAssumption DEF Counted
  <2>2. Cardinality(Counted') \in Nat
    BY <2>1, FS_Subset, FS_CardinalityType
  <2> QED
    BY <2>2, CountStep DEF CountInv
<1>3. ASSUME NEW c \in Clients, InitCount(c) PROVE TypeOK'
  BY <1>1, <1>2, <1>3 DEF InitCount, Goto, TypeOK, PCs
<1>4. ASSUME NEW c \in Clients, InitFinds(c) PROVE TypeOK'
  BY <1>1, <1>2, <1>4 DEF InitFinds, Goto, TypeOK, PCs
<1>5. ASSUME NEW c \in Clients, InitOpens(c) PROVE TypeOK'
  BY <1>1, <1>2, <1>5 DEF InitOpens, Goto, TypeOK, PCs
<1>6. ASSUME NEW c \in Clients, InitFails(c) PROVE TypeOK'
  BY <1>1, <1>2, <1>6 DEF InitFails, Fault, Goto, TypeOK, PCs
<1>7. ASSUME NEW c \in Clients, InitThread(c) PROVE TypeOK'
  <2>1. \E x \in {"ready", "left"} : Goto(c, x)
    BY <1>7 DEF InitThread
  <2>2. pc' \in [Clients -> PCs]
    BY <1>1, <2>1 DEF Goto, TypeOK, PCs
  <2>3. faults' \in Nat
    BY <1>1, <1>7 DEF InitThread, Fault, TypeOK
  <2> QED
    BY <1>1, <1>2, <1>7, <2>2, <2>3 DEF InitThread, TypeOK
<1>8. ASSUME NEW c \in Clients, GetCollection(c) PROVE TypeOK'
  <2>1. next[c] \in Docs /\ retries[c] <= MaxRetries
    BY <1>1, <1>8 DEF GetCollection, DocumentsInv
  <2>2. CASE database = 0
    <3>1. Reported(c, "ERROR") /\ UNCHANGED <<config, initCount, connection, collection, bulkInserts, stored, faults, exposed>>
      BY <1>8, <2>2 DEF GetCollection
    <3> QED
      BY <1>1, <1>2, <2>1, <3>1, ReportedTypes DEF TypeOK
  <2>3. CASE database # 0
    BY <1>1, <1>2, <1>8, <2>3, ZenonT(60) DEF GetCollection, Goto, TypeOK, PCs
  <2> QED
    BY <2>2, <2>3
<1>9. ASSUME NEW c \in Clients, Insert(c) PROVE TypeOK'
  <2>1. next[c] \in Docs /\ retries[c] <= MaxRetries
    BY <1>1, <1>9 DEF Insert, DocumentsInv
  <2>2. PICK s \in {"OK", "BATCHED_OK", "ERROR"} : Reported(c, s)
    BY <1>9 DEF Insert, InsertOne, AddToBulk, InsertMany
  <2>3. Added(c) \in Seq(Docs) /\ <<next[c]>> \in Seq(Docs) /\ <<>> \in Seq(Docs)
    BY <1>1, <2>1, AddedElements
  <2>4. stored' \in [Clients -> SUBSET Docs] /\ faults' \in Nat
    <3>1. \/ stored' = stored /\ faults' = faults
          \/ \E docs \in Seq(Docs) : Writes(c, docs) \/ WriteFails(c, docs)
      BY <1>9, <2>3 DEF Insert, InsertOne, AddToBulk, InsertMany
    <3> QED
      BY <1>1, <3>1, WriteTypes DEF TypeOK
  <2>5. bulkInserts' \in [Clients -> Seq(Docs)]
    BY <1>1, <1>9, <2>3 DEF Insert, InsertOne, AddToBulk, InsertMany, Keep, LeftByFailure, TypeOK
  <2>6. UNCHANGED <<config, initCount, connection, collection, exposed>>
    BY <1>9 DEF Insert
  <2> QED
    BY <1>1, <1>2, <2>1, <2>2, <2>4, <2>5, <2>6, ReportedTypes DEF TypeOK
<1>10. ASSUME NEW c \in Clients, CleanupCount(c) PROVE TypeOK'
  BY <1>1, <1>2, <1>10 DEF CleanupCount, Goto, TypeOK, PCs
<1>11. ASSUME NEW c \in Clients, CleanupClose(c) PROVE TypeOK'
  BY <1>1, <1>2, <1>11 DEF CleanupClose, Goto, TypeOK, PCs
<1>12. ASSUME NEW c \in Clients, CleanupForget(c) PROVE TypeOK'
  BY <1>1, <1>2, <1>12 DEF CleanupForget, Goto, TypeOK, PCs
<1>13. ASSUME NEW c \in Clients, CleanupEnds(c) PROVE TypeOK'
  BY <1>1, <1>2, <1>13 DEF CleanupEnds, Goto, TypeOK, PCs
<1>14. CASE UNCHANGED vars
  BY <1>1, <1>14 DEF vars, TypeOK
<1> QED
  BY <1>3, <1>4, <1>5, <1>6, <1>7, <1>8, <1>9, <1>10, <1>11, <1>12, <1>13, <1>14, NextSteps DEF Steps

\* The connection of those whose init() met no closing stays.
LEMMA ConnectionStep == IInv /\ [Next]_vars => ConnectionInv'
<1> SUFFICES ASSUME IInv, [Next]_vars PROVE ConnectionInv'
  OBVIOUS
<1> USE DEF config, connection, documents
<1>1. TypeOK /\ CountInv /\ ConnectionInv
  BY DEF IInv
<1>2. ASSUME NEW c \in Clients, InitCount(c) PROVE ConnectionInv'
  BY <1>1, <1>2 DEF InitCount, Goto, TypeOK, ConnectionInv, Closing
<1>3. ASSUME NEW c \in Clients, InitFinds(c) PROVE ConnectionInv'
  BY <1>1, <1>3 DEF InitFinds, Goto, TypeOK, ConnectionInv, Closing
<1>4. ASSUME NEW c \in Clients, InitOpens(c) PROVE ConnectionInv'
  BY <1>1, <1>4 DEF InitOpens, Goto, TypeOK, ConnectionInv, Closing
<1>5. ASSUME NEW c \in Clients, InitFails(c) PROVE ConnectionInv'
  BY <1>1, <1>5 DEF InitFails, Goto, TypeOK, ConnectionInv, Closing
<1>6. ASSUME NEW c \in Clients, InitThread(c) PROVE ConnectionInv'
  <2>1. PICK x \in {"ready", "left"} : Goto(c, x)
    BY <1>6 DEF InitThread
  <2> QED
    BY <1>1, <1>6, <2>1 DEF InitThread, Goto, TypeOK, ConnectionInv, Closing
<1>7. ASSUME NEW c \in Clients, GetCollection(c) \/ Insert(c) PROVE ConnectionInv'
  <2>1. PICK x \in {"ready", "insert", "leave"} : Goto(c, x) /\ (x = "insert" => collection'[c] = database)
    BY <1>7, OperationControl
  <2>2. /\ pc[c] \in {"ready", "insert"}
        /\ UNCHANGED <<mongoClient, database, live, exposed>>
        /\ \A d \in Clients \ {c} : collection'[d] = collection[d]
    BY <1>7, OperationControl
  <2>3. Closing' = Closing
    BY <1>1, <2>1, <2>2 DEF Goto, Closing, TypeOK
  <2>4. \A d \in Clients : pc'[d] = IF d = c THEN x ELSE pc[d]
    BY <1>1, <2>1 DEF Goto, TypeOK
  <2> QED
    BY <1>1, <2>1, <2>2, <2>3, <2>4 DEF ConnectionInv
<1>8. ASSUME NEW c \in Clients, CleanupCount(c) PROVE ConnectionInv'
  <2>1. PICK x \in {"close", "done"} : Goto(c, x)
    BY <1>8 DEF CleanupCount
  <2> QED
    BY <1>1, <1>8, <2>1 DEF CleanupCount, Goto, TypeOK, ConnectionInv, Closing
<1>9. ASSUME NEW c \in Clients, CleanupClose(c) \/ CleanupForget(c) \/ CleanupEnds(c)
      PROVE  ConnectionInv'
  <2>1. c \in Closing /\ exposed' = exposed /\ collection' = collection
    BY <1>9 DEF CleanupClose, CleanupForget, CleanupEnds, Closing
  <2>2. \A d \in Clients \ exposed : pc[d] \notin {"inited", "ready", "insert"}
    BY <1>1, <2>1 DEF CountInv, Counted
  <2>3. \A d \in Clients : pc'[d] \in {"inited", "ready", "insert"} => pc'[d] = pc[d]
    BY <1>1, <1>9 DEF CleanupClose, CleanupForget, CleanupEnds, Goto, TypeOK
  <2>4. c \in Closing' \/ mongoClient' = 0
    BY <1>1, <1>9 DEF CleanupClose, CleanupForget, CleanupEnds, Goto, Closing, TypeOK
  <2> QED
    BY <2>1, <2>2, <2>3, <2>4 DEF ConnectionInv
<1>10. CASE UNCHANGED vars
  BY <1>1, <1>10 DEF vars, ConnectionInv, Closing
<1> QED
  BY <1>2, <1>3, <1>4, <1>5, <1>6, <1>7, <1>8, <1>9, <1>10, NextSteps DEF Steps

\* One connection, closed by one client.
LEMMA LiveStep == IInv /\ [Next]_vars => LiveInv'
<1> SUFFICES ASSUME IInv, [Next]_vars, exposed' = {} PROVE LiveInv'
  BY DEF LiveInv
<1> USE DEF config, connection, documents
<1>1. TypeOK /\ CountInv /\ LiveInv
  BY DEF IInv
<1>2. exposed = {}
  <2>1. ASSUME NEW c \in Clients, Steps(c) PROVE exposed \subseteq exposed'
    <3>1. CASE GetCollection(c) \/ Insert(c)
      BY <3>1, OperationControl
    <3> QED
      BY <2>1, <3>1 DEF Steps, InitCount, InitFinds, InitOpens, InitFails, InitThread,
        CleanupCount, CleanupClose, CleanupForget, CleanupEnds
  <2> QED
    BY <2>1, NextSteps DEF vars
<1>3. Closing # {} => Counted = {}
  BY <1>1, <1>2 DEF CountInv
<1>4. ASSUME NEW c \in Clients, InitCount(c) \/ InitFinds(c) \/ InitThread(c) PROVE LiveInv'
  <2>1. PICK x \in {"init", "inited", "ready", "left"} : Goto(c, x)
    BY <1>4 DEF InitCount, InitFinds, InitThread
  <2>2. UNCHANGED <<live, mongoClient>> /\ pc[c] \in {"new", "init", "inited"}
    BY <1>4 DEF InitCount, InitFinds, InitThread
  <2>3. Closing' = Closing /\ Counted' # {}
    BY <1>1, <2>1, <2>2 DEF Goto, Closing, Counted, TypeOK
  <2>4. \A d \in Clients : pc'[d] = IF d = c THEN x ELSE pc[d]
    BY <1>1, <2>1 DEF Goto, TypeOK
  <2> QED
    BY <1>1, <1>2, <2>1, <2>2, <2>3, <2>4 DEF LiveInv
<1>5. ASSUME NEW c \in Clients, InitOpens(c) PROVE LiveInv'
  <2>1. live = {}
    BY <1>1, <1>2, <1>5 DEF InitOpens, LiveInv, TypeOK
  <2>2. c \in Counted /\ Closing = {}
    BY <1>3, <1>5 DEF InitOpens, Counted
  <2>3. Closing' = {} /\ c \in Counted'
    BY <1>1, <1>5, <2>2 DEF InitOpens, Goto, Closing, Counted, TypeOK
  <2>4. live' = {mongoClient'}
    BY <1>5, <2>1 DEF InitOpens
  <2> QED
    BY <2>3, <2>4 DEF LiveInv, Closing
<1>6. ASSUME NEW c \in Clients, InitFails(c) PROVE LiveInv'
  BY <1>6 DEF InitFails
<1>7. ASSUME NEW c \in Clients, GetCollection(c) \/ Insert(c) PROVE LiveInv'
  <2>1. PICK x \in {"ready", "insert", "leave"} : Goto(c, x)
    BY <1>7, OperationControl
  <2>2. pc[c] \in {"ready", "insert"} /\ UNCHANGED <<live, mongoClient>>
    BY <1>7, OperationControl
  <2>3. Closing' = Closing /\ Counted' = Counted
    BY <1>1, <2>1, <2>2 DEF Goto, Closing, Counted, TypeOK
  <2>4. \A d \in Clients : pc'[d] = IF d = c THEN x ELSE pc[d]
    BY <1>1, <2>1 DEF Goto, TypeOK
  <2> QED
    BY <1>1, <1>2, <2>1, <2>2, <2>3, <2>4 DEF LiveInv
<1>8. ASSUME NEW c \in Clients, CleanupCount(c) PROVE LiveInv'
  <2>1. PICK x \in {"close", "done"} : Goto(c, x) /\ (x = "close" <=> initCount - 1 = 0)
    BY <1>8 DEF CleanupCount, Zero
  <2>2. pc[c] \in {"ready", "leave"} /\ UNCHANGED <<live, mongoClient>> /\ c \in Counted
    BY <1>8 DEF CleanupCount, Counted
  <2>3. Closing = {}
    BY <1>3, <2>2
  <2>4. \A d \in Clients : pc'[d] = IF d = c THEN x ELSE pc[d]
    BY <1>1, <2>1 DEF Goto, TypeOK
  <2>5. Closing' \subseteq {c} /\ \A d \in Clients : pc'[d] \notin {"forget", "forgotten"}
    BY <2>1, <2>3, <2>4 DEF Closing
  <2>6. Counted' = {} => x = "close"
    <3>1. Counted' = Counted \ {c} /\ Cardinality(Counted') = Cardinality(Counted) - 1
      BY <1>1, <2>1, <2>2, CountedLeave
    <3> QED
      BY <1>1, <2>1, <3>1, FS_EmptySet DEF CountInv
  <2>7. x = "close" => Closing' # {}
    BY <2>4 DEF Closing
  <2> QED
    BY <1>1, <1>2, <2>2, <2>5, <2>6, <2>7 DEF LiveInv
<1>9. ASSUME NEW c \in Clients, CleanupClose(c) \/ CleanupForget(c) \/ CleanupEnds(c) PROVE LiveInv'
  <2>1. PICK x \in {"forget", "forgotten", "done"} : Goto(c, x)
    BY <1>9 DEF CleanupClose, CleanupForget, CleanupEnds
  <2>2. c \in Closing
    BY <1>9 DEF CleanupClose, CleanupForget, CleanupEnds, Closing
  <2>3. live' = {}
    BY <1>1, <1>2, <1>9 DEF CleanupClose, CleanupForget, CleanupEnds, LiveInv
  <2>4. \A d \in Closing : d = c
    BY <1>1, <1>2, <2>2 DEF LiveInv
  <2>5. Closing' \subseteq {c}
    BY <1>1, <2>1, <2>4 DEF Goto, Closing, TypeOK
  <2> QED
    BY <2>3, <2>5 DEF LiveInv
<1>10. CASE UNCHANGED vars
  BY <1>1, <1>2, <1>10 DEF vars, LiveInv, Closing, Counted
<1> QED
  BY <1>4, <1>5, <1>6, <1>7, <1>8, <1>9, <1>10, NextSteps DEF Steps

\* init() and cleanup() leave the documents alone, and whoever is ready has been before.
LEMMA OtherSteps ==
  ASSUME IInv, NEW c \in Clients, Steps(c), ~(GetCollection(c) \/ Insert(c))
  PROVE  /\ UNCHANGED <<batchSize, useUpsert, documents>>
         /\ \A d \in Clients : pc'[d] = "insert" => pc[d] = "insert"
         /\ \A d \in Clients : pc'[d] \in {"new", "init", "inited", "ready", "insert"}
              => pc[d] \in {"new", "init", "inited", "ready", "insert"}
         /\ exposed \subseteq exposed' /\ faults <= faults'
<1> USE DEF config, connection
<1>1. TypeOK
  BY DEF IInv
<1>2. PICK x \in {"init", "inited", "ready", "left", "close", "done", "forget", "forgotten"} :
        Goto(c, x) /\ (x \in {"init", "inited", "ready"} => pc[c] \in {"new", "init", "inited"})
  BY DEF Steps, InitCount, InitFinds, InitOpens, InitFails, InitThread, CleanupCount, CleanupClose,
    CleanupForget, CleanupEnds
<1>3. \A d \in Clients : pc'[d] = IF d = c THEN x ELSE pc[d]
  BY <1>1, <1>2 DEF Goto, TypeOK
<1>4. UNCHANGED <<batchSize, useUpsert, documents>> /\ exposed \subseteq exposed'
  BY DEF Steps, InitCount, InitFinds, InitOpens, InitFails, InitThread, CleanupCount, CleanupClose,
    CleanupForget, CleanupEnds
<1>5. faults' = faults \/ Fault
  BY DEF Steps, InitCount, InitFinds, InitOpens, InitFails, InitThread, CleanupCount, CleanupClose,
    CleanupForget, CleanupEnds
<1>6. faults <= faults'
  BY <1>1, <1>5 DEF Fault, TypeOK
<1> QED
  BY <1>2, <1>3, <1>4, <1>6

\* An insert() that is reported, and where its document is then.
LEMMA Outcomes ==
  ASSUME IInv, NEW c \in Clients, Insert(c)
  PROVE  /\ next[c] \in Docs
         /\ \A d \in Clients \ {c} : stored'[d] = stored[d] /\ bulkInserts'[d] = bulkInserts[d]
         /\ stored[c] \subseteq stored'[c] /\ batchSize' = batchSize
         /\ batchSize = 1 => bulkInserts'[c] = bulkInserts[c]
         /\ \/ /\ Reported(c, "BATCHED_OK") /\ stored' = stored /\ bulkInserts'[c] = Added(c)
               /\ ~Complete(c)
            \/ /\ Reported(c, "OK") /\ bulkInserts'[c] = <<>>
               /\ stored'[c] = stored[c] \cup Elements(bulkInserts[c]) \cup {next[c]}
            \/ /\ Reported(c, "ERROR")
               /\ bulkInserts'[c] = bulkInserts[c] \/ bulkInserts'[c] = Added(c)
<1> USE DEF config, connection, documents
<1>1. TypeOK /\ DocumentsInv
  BY DEF IInv
<1>2. next[c] \in Docs
  BY <1>1 DEF Insert, DocumentsInv
<1>3. Elements(Added(c)) = Elements(bulkInserts[c]) \cup {next[c]}
  BY <1>1, <1>2, AddedElements
<1>4. stored \in [Clients -> SUBSET Docs] /\ bulkInserts \in [Clients -> Seq(Docs)]
  BY <1>1 DEF TypeOK
<1>5. CASE InsertOne(c)
  <2>1. bulkInserts' = bulkInserts /\ bulkInserts[c] = <<>>
    BY <1>1, <1>5 DEF InsertOne, DocumentsInv
  <2>2. Elements(<<next[c]>>) = {next[c]} /\ Elements(bulkInserts[c]) = {}
    BY <2>1, OneElement, NoElement
  <2>3. CASE Writes(c, <<next[c]>>) /\ Reported(c, "OK")
    BY <1>2, <1>4, <2>1, <2>2, <2>3 DEF Writes, Insert
  <2>4. CASE WriteFails(c, <<next[c]>>) /\ Reported(c, "ERROR")
    BY <1>2, <1>4, <2>1, <2>4 DEF WriteFails, Insert
  <2> QED
    BY <1>5, <2>3, <2>4 DEF InsertOne
<1>6. CASE AddToBulk(c)
  BY <1>2, <1>4, <1>6 DEF AddToBulk, Keep, Insert
<1>7. CASE InsertMany(c)
  <2>1. CASE Writes(c, Added(c)) /\ Keep(c, <<>>) /\ Reported(c, "OK")
    BY <1>2, <1>3, <1>4, <1>7, <2>1 DEF InsertMany, Writes, Keep, Insert
  <2>2. CASE WriteFails(c, Added(c)) /\ Keep(c, LeftByFailure(c)) /\ Reported(c, "ERROR")
    BY <1>2, <1>4, <1>7, <2>2 DEF InsertMany, WriteFails, Keep, LeftByFailure, Insert
  <2> QED
    BY <1>7, <2>1, <2>2 DEF InsertMany
<1> QED
  BY <1>5, <1>6, <1>7 DEF Insert

\* What a report changes of the client that is told, and of the others.
LEMMA ReportEffect ==
  ASSUME TypeOK, NEW c \in Clients, NEW s \in {"OK", "BATCHED_OK", "ERROR"}, Reported(c, s),
         next[c] \in Docs, retries[c] <= MaxRetries
  PROVE  /\ \A d \in Clients \ {c} :
              /\ status'[d] = status[d] /\ next'[d] = next[d] /\ retries'[d] = retries[d]
              /\ pc'[d] = pc[d]
         /\ \A n \in Docs : status'[c][n] = IF n = next[c] THEN s ELSE status[c][n]
         /\ next'[c] = IF s = "ERROR" THEN next[c] ELSE next[c] + 1
         /\ pc'[c] \in {"ready", "leave"} /\ (pc'[c] = "ready" => retries'[c] <= MaxRetries)
<1>1. MaxRetries \in Nat /\ retries[c] \in Nat
  BY MongoAssumption DEF TypeOK
<1>2. status' = [status EXCEPT ![c][next[c]] = s]
  BY DEF Reported, Report
<1>3. CASE s = "ERROR"
  <2>1. next' = next /\ retries' = [retries EXCEPT ![c] = @ + 1]
    BY <1>3 DEF Reported
  <2>2. Goto(c, IF retries[c] < MaxRetries THEN "ready" ELSE "leave")
    BY <1>3 DEF Reported
  <2> QED
    BY <1>1, <1>2, <1>3, <2>1, <2>2 DEF Goto, TypeOK
<1>4. CASE s # "ERROR"
  <2>1. next' = [next EXCEPT ![c] = @ + 1] /\ retries' = [retries EXCEPT ![c] = 0] /\ Goto(c, "ready")
    BY <1>4 DEF Reported
  <2> QED
    BY <1>1, <1>2, <1>4, <2>1 DEF Goto, TypeOK
<1> QED
  BY <1>3, <1>4

\* A document that was reported is written, or in the list.
LEMMA DocumentsStep == IInv /\ [Next]_vars => DocumentsInv'
<1> SUFFICES ASSUME IInv, [Next]_vars PROVE DocumentsInv'
  OBVIOUS
<1>1. TypeOK /\ DocumentsInv
  BY DEF IInv
<1>2. ASSUME NEW c \in Clients, Steps(c), ~(GetCollection(c) \/ Insert(c)) PROVE DocumentsInv'
  BY <1>1, <1>2, OtherSteps DEF DocumentsInv, documents, Elements
<1>3. ASSUME NEW c \in Clients, GetCollection(c) PROVE DocumentsInv'
  <2>1. next[c] \in Docs /\ retries[c] <= MaxRetries
    BY <1>1, <1>3 DEF GetCollection, DocumentsInv
  <2>2. UNCHANGED <<batchSize, stored, bulkInserts>>
    BY <1>3 DEF GetCollection, documents, config
  <2>3. CASE database = 0
    <3>1. Reported(c, "ERROR")
      BY <1>3, <2>3 DEF GetCollection
    <3> QED
      BY <1>1, <2>1, <2>2, <3>1, ReportEffect DEF DocumentsInv, Elements
  <2>4. CASE database # 0
    <3>1. UNCHANGED documents /\ Goto(c, "insert") /\ pc[c] = "ready"
      BY <1>3, <2>4 DEF GetCollection
    <3>2. \A d \in Clients : pc'[d] = IF d = c THEN "insert" ELSE pc[d]
      BY <1>1, <3>1 DEF Goto, TypeOK
    <3> QED
      BY <1>1, <2>1, <2>2, <3>1, <3>2 DEF DocumentsInv, documents, Elements
  <2> QED
    BY <2>3, <2>4
<1>4. ASSUME NEW c \in Clients, Insert(c) PROVE DocumentsInv'
  <2>1. next[c] \in Docs /\ retries[c] <= MaxRetries /\ next[c] \in Nat
    BY <1>1, <1>4 DEF Insert, DocumentsInv, Docs
  <2>2. batchSize' = batchSize /\ \A d \in Clients \ {c} : stored'[d] = stored[d] /\ bulkInserts'[d] = bulkInserts[d]
    BY <1>4, Outcomes
  <2>3. PICK s \in {"OK", "BATCHED_OK", "ERROR"} : Reported(c, s)
    BY <1>4, Outcomes
  <2>4. ASSUME NEW d \in Clients \ {c}
        PROVE  /\ 1 .. next'[d] - 1 \subseteq stored'[d] \cup Elements(bulkInserts'[d])
               /\ \A n \in Docs :
                    /\ status'[d][n] \in {"OK", "BATCHED_OK"} => n < next'[d]
                    /\ status'[d][n] = "OK" => 1 .. n \subseteq stored'[d]
               /\ batchSize' = 1 => bulkInserts'[d] = <<>>
               /\ pc'[d] = "insert" => next'[d] \in Docs
               /\ pc'[d] \in {"new", "init", "inited", "ready", "insert"} => retries'[d] <= MaxRetries
    <3>1. status'[d] = status[d] /\ next'[d] = next[d] /\ retries'[d] = retries[d] /\ pc'[d] = pc[d]
      BY <1>1, <2>1, <2>3, ReportEffect
    <3> QED
      BY <1>1, <2>2, <3>1 DEF DocumentsInv
  <2>5. /\ batchSize' = 1 => bulkInserts'[c] = <<>>
        /\ pc'[c] = "insert" => next'[c] \in Docs
        /\ pc'[c] \in {"new", "init", "inited", "ready", "insert"} => retries'[c] <= MaxRetries
    <3>1. batchSize = 1 => bulkInserts'[c] = bulkInserts[c]
      BY <1>4, Outcomes
    <3>2. pc'[c] \in {"ready", "leave"} /\ (pc'[c] = "ready" => retries'[c] <= MaxRetries)
      BY <1>1, <2>1, <2>3, ReportEffect
    <3> QED
      BY <1>1, <2>2, <3>1, <3>2 DEF DocumentsInv
  <2>6. /\ 1 .. next'[c] - 1 \subseteq stored'[c] \cup Elements(bulkInserts'[c])
        /\ \A n \in Docs :
             /\ status'[c][n] \in {"OK", "BATCHED_OK"} => n < next'[c]
             /\ status'[c][n] = "OK" => 1 .. n \subseteq stored'[c]
    <3>1. Elements(Added(c)) = Elements(bulkInserts[c]) \cup {next[c]}
      BY <1>1, <2>1, AddedElements
    <3>2. stored[c] \subseteq stored'[c]
      BY <1>4, Outcomes
    <3>3. /\ 1 .. next[c] - 1 \subseteq stored[c] \cup Elements(bulkInserts[c])
          /\ \A n \in Docs :
               /\ status[c][n] \in {"OK", "BATCHED_OK"} => n < next[c]
               /\ status[c][n] = "OK" => 1 .. n \subseteq stored[c]
      BY <1>1 DEF DocumentsInv
    <3>4. 1 .. (next[c] + 1) - 1 = 1 .. next[c] - 1 \cup {next[c]} /\ Docs \subseteq Nat
      BY <2>1 DEF Docs
    <3>5. CASE /\ Reported(c, "BATCHED_OK") /\ stored' = stored /\ bulkInserts'[c] = Added(c)
      <4>1. /\ \A n \in Docs : status'[c][n] = IF n = next[c] THEN "BATCHED_OK" ELSE status[c][n]
            /\ next'[c] = next[c] + 1
        BY <1>1, <2>1, <3>5, ReportEffect
      <4> QED
        BY <2>1, <3>1, <3>3, <3>4, <3>5, <4>1
    <3>6. CASE /\ Reported(c, "OK") /\ bulkInserts'[c] = <<>>
               /\ stored'[c] = stored[c] \cup Elements(bulkInserts[c]) \cup {next[c]}
      <4>1. /\ \A n \in Docs : status'[c][n] = IF n = next[c] THEN "OK" ELSE status[c][n]
            /\ next'[c] = next[c] + 1
        BY <1>1, <2>1, <3>6, ReportEffect
      <4>2. 1 .. next[c] \subseteq stored'[c]
        BY <2>1, <3>3, <3>4, <3>6
      <4>3. 1 .. next'[c] - 1 \subseteq stored'[c]
        BY <2>1, <4>1, <4>2
      <4> QED
        BY <2>1, <3>2, <3>3, <3>4, <4>1, <4>2, <4>3
    <3>7. CASE /\ Reported(c, "ERROR")
               /\ bulkInserts'[c] = bulkInserts[c] \/ bulkInserts'[c] = Added(c)
      <4>1. /\ \A n \in Docs : status'[c][n] = IF n = next[c] THEN "ERROR" ELSE status[c][n]
            /\ next'[c] = next[c]
        BY <1>1, <2>1, <3>7, ReportEffect
      <4>2. Elements(bulkInserts[c]) \subseteq Elements(bulkInserts'[c])
        BY <3>1, <3>7
      <4> QED
        BY <3>2, <3>3, <4>1, <4>2
    <3> QED
      BY <1>4, <3>5, <3>6, <3>7, Outcomes
  <2> QED
    BY <2>4, <2>5, <2>6 DEF DocumentsInv, Elements
<1>5. CASE UNCHANGED vars
  BY <1>1, <1>5 DEF vars, config, documents, DocumentsInv, Elements
<1> QED
  BY <1>2, <1>3, <1>4, <1>5, NextSteps

\* Until something fails, the next document is in no list and not written.
LEMMA AddedFresh ==
  ASSUME IInv, NEW c \in Clients, next[c] \in Docs, faults = 0, exposed = {}
  PROVE  /\ Elements(Added(c)) \cap stored[c] = {} /\ next[c] \notin stored[c]
         /\ Cardinality(Elements(Added(c))) = Len(Added(c))
<1>1. TypeOK /\ next[c] \in Nat
  BY DEF IInv, Docs
<1>2. /\ stored[c] \cup Elements(bulkInserts[c]) \subseteq 1 .. next[c] - 1
      /\ stored[c] \cap Elements(bulkInserts[c]) = {}
      /\ Cardinality(Elements(bulkInserts[c])) = Len(bulkInserts[c])
  BY DEF IInv, ListInv
<1>3. /\ Elements(Added(c)) = Elements(bulkInserts[c]) \cup {next[c]}
      /\ Len(Added(c)) = Len(bulkInserts[c]) + 1
  BY <1>1, AddedElements
<1>4. next[c] \notin stored[c] /\ next[c] \notin Elements(bulkInserts[c])
  BY <1>1, <1>2
<1>5. Cardinality(Elements(bulkInserts[c]) \cup {next[c]}) = Cardinality(Elements(bulkInserts[c])) + 1
  BY <1>1, <1>4, ListElements, FS_AddElement
<1> QED
  BY <1>2, <1>3, <1>4, <1>5

\* So no bulk write fails.
LEMMA NoFailure ==
  ASSUME IInv, NEW c \in Clients, Insert(c), faults = 0, faults' = 0, exposed = {}
  PROVE  ~Reported(c, "ERROR")
<1>1. TypeOK /\ pc[c] = "insert" /\ next[c] \in Docs
  BY DEF IInv, Insert, DocumentsInv
<1>2. collection[c] \in live
  <2>1. c \in Counted
    BY <1>1 DEF Counted
  <2>2. Closing = {}
    BY <2>1 DEF IInv, CountInv
  <2> QED
    BY <1>1, <2>2 DEF IInv, ConnectionInv
<1>3. ASSUME NEW docs \in Seq(Docs), Elements(docs) \cap stored[c] = {}, Cardinality(Elements(docs)) = Len(docs)
      PROVE  ~WriteFails(c, docs)
  <2>1. ~Fault
    BY DEF Fault
  <2>2. ~(Cardinality(Elements(docs)) < Len(docs))
    <3>1. Len(docs) \in Nat
      OBVIOUS
    <3> QED
      BY <1>3, <3>1
  <2> QED
    BY <1>2, <1>3, <2>1, <2>2 DEF WriteFails
<1>4. ~WriteFails(c, <<next[c]>>)
  <2>1. Elements(<<next[c]>>) = {next[c]} /\ Cardinality({next[c]}) = 1
    BY OneElement
  <2>2. <<next[c]>> \in Seq(Docs) /\ Len(<<next[c]>>) = 1
    BY <1>1
  <2>3. {next[c]} \cap stored[c] = {}
    BY <1>1, AddedFresh
  <2>4. /\ Elements(<<next[c]>>) \cap stored[c] = {}
        /\ Cardinality(Elements(<<next[c]>>)) = Len(<<next[c]>>)
    BY <2>1, <2>2, <2>3
  <2> QED
    BY <1>3, <2>2, <2>4
<1>5. ~WriteFails(c, Added(c))
  BY <1>1, <1>3, AddedFresh, AddedElements
<1>6. \E s \in {"OK", "BATCHED_OK"} : Reported(c, s)
  BY <1>4, <1>5 DEF Insert, InsertOne, AddToBulk, InsertMany
<1>7. status'[c][next[c]] \in {"OK", "BATCHED_OK"}
  BY <1>1, <1>6 DEF Reported, Report, TypeOK
<1> QED
  BY <1>1, <1>7 DEF Reported, Report, TypeOK

\* Until something fails, the list grows by the next document and is written in time.
LEMMA ListStep == IInv /\ [Next]_vars => ListInv'
<1> SUFFICES ASSUME IInv, [Next]_vars, faults' = 0, exposed' = {} PROVE ListInv'
  BY DEF ListInv
<1>1. TypeOK /\ ListInv /\ DocumentsInv
  BY DEF IInv
<1>2. ASSUME NEW c \in Clients, Steps(c), ~(GetCollection(c) \/ Insert(c)) PROVE ListInv'
  <2>1. faults = 0 /\ exposed = {}
    BY <1>1, <1>2, OtherSteps DEF TypeOK
  <2>2. UNCHANGED <<batchSize, useUpsert, documents>>
    BY <1>2, OtherSteps
  <2> QED
    BY <1>1, <2>1, <2>2 DEF ListInv, documents, Elements
<1>3. ASSUME NEW c \in Clients, GetCollection(c) PROVE ListInv'
  <2>1. faults = 0 /\ exposed = {} /\ next[c] \in Docs /\ retries[c] <= MaxRetries
    BY <1>1, <1>3 DEF GetCollection, DocumentsInv
  <2>2. UNCHANGED <<batchSize, stored, bulkInserts>>
    BY <1>3 DEF GetCollection, documents, config
  <2>3. \A d \in Clients : next'[d] = next[d]
    <3>1. next' = next \/ Reported(c, "ERROR")
      BY <1>3 DEF GetCollection, documents
    <3> QED
      BY <1>1, <2>1, <3>1, ReportEffect
  <2> QED
    BY <1>1, <2>1, <2>2, <2>3 DEF ListInv, Elements
<1>4. ASSUME NEW c \in Clients, Insert(c) PROVE ListInv'
  <2>1. faults = 0 /\ exposed = {} /\ batchSize' = batchSize /\ batchSize \in Nat
    BY <1>1, <1>4, OperationControl, MongoAssumption DEF config, TypeOK
  <2>2. next[c] \in Docs /\ retries[c] <= MaxRetries /\ next[c] \in Nat
    BY <1>1, <1>4 DEF Insert, DocumentsInv, Docs
  <2>3. ~Reported(c, "ERROR")
    BY <1>4, <2>1, NoFailure
  <2>4. PICK s \in {"OK", "BATCHED_OK"} : Reported(c, s)
    BY <1>4, <2>3, Outcomes
  <2>5. next'[c] = next[c] + 1 /\ \A d \in Clients \ {c} : next'[d] = next[d]
    BY <1>1, <2>2, <2>4, ReportEffect
  <2>6. ASSUME NEW d \in Clients \ {c}
        PROVE  /\ stored'[d] \cup Elements(bulkInserts'[d]) \subseteq 1 .. next'[d] - 1
               /\ stored'[d] \cap Elements(bulkInserts'[d]) = {}
               /\ Cardinality(Elements(bulkInserts'[d])) = Len(bulkInserts'[d])
               /\ batchSize' > 0 => Len(bulkInserts'[d]) < batchSize'
    <3>1. stored'[d] = stored[d] /\ bulkInserts'[d] = bulkInserts[d]
      BY <1>4, Outcomes
    <3> QED
      BY <1>1, <2>1, <2>5, <3>1 DEF ListInv
  <2>7. /\ stored'[c] \cup Elements(bulkInserts'[c]) \subseteq 1 .. next'[c] - 1
        /\ stored'[c] \cap Elements(bulkInserts'[c]) = {}
        /\ Cardinality(Elements(bulkInserts'[c])) = Len(bulkInserts'[c])
        /\ batchSize' > 0 => Len(bulkInserts'[c]) < batchSize'
    <3>1. /\ stored[c] \cup Elements(bulkInserts[c]) \subseteq 1 .. next[c] - 1
          /\ batchSize > 0 => Len(bulkInserts[c]) < batchSize
      BY <1>1, <2>1 DEF ListInv
    <3>2. /\ Elements(Added(c)) = Elements(bulkInserts[c]) \cup {next[c]}
          /\ Len(Added(c)) = Len(bulkInserts[c]) + 1 /\ Len(bulkInserts[c]) \in Nat
      BY <1>1, <2>2, AddedElements DEF TypeOK
    <3>3. stored[c] \cup Elements(bulkInserts[c]) \cup {next[c]} \subseteq 1 .. next'[c] - 1
      BY <2>2, <2>5, <3>1 DEF Docs
    <3>4. CASE stored' = stored /\ bulkInserts'[c] = Added(c) /\ ~Complete(c)
      <4>1. /\ Elements(Added(c)) \cap stored[c] = {}
            /\ Cardinality(Elements(Added(c))) = Len(Added(c))
        BY <2>1, <2>2, AddedFresh
      <4>2. batchSize > 0 => Len(Added(c)) < batchSize
        BY <2>1, <3>1, <3>2, <3>4 DEF Complete
      <4> QED
        BY <2>1, <3>2, <3>3, <3>4, <4>1, <4>2
    <3>5. CASE /\ bulkInserts'[c] = <<>>
               /\ stored'[c] = stored[c] \cup Elements(bulkInserts[c]) \cup {next[c]}
      BY <2>1, <3>3, <3>5, NoElement
    <3> QED
      BY <1>4, <2>3, <3>4, <3>5, Outcomes
  <2> QED
    BY <2>6, <2>7 DEF ListInv, Elements
<1>5. CASE UNCHANGED vars
  BY <1>1, <1>5 DEF vars, config, documents, ListInv, Elements
<1> QED
  BY <1>2, <1>3, <1>4, <1>5, NextSteps

-----------------------------------------------------------------------------
(* The theorems                                                            *)

LEMMA Initial == Init => IInv
<1> SUFFICES ASSUME Init PROVE IInv
  OBVIOUS
<1>1. Counted = {} /\ Closing = {} /\ Cardinality({}) = 0
  BY FS_EmptySet DEF Init, Counted, Closing
<1>2. MaxDocs \in Nat /\ MaxRetries \in Nat /\ <<>> \in Seq(Docs)
  BY MongoAssumption
<1>3. TypeOK
  BY <1>2, MongoAssumption DEF Init, TypeOK, PCs
<1>4. CountInv /\ ConnectionInv /\ LiveInv
  BY <1>1 DEF Init, CountInv, ConnectionInv, LiveInv
<1>5. DocumentsInv
  BY <1>2 DEF Init, DocumentsInv
<1>6. ASSUME NEW c \in Clients
      PROVE  /\ stored[c] \cup Elements(bulkInserts[c]) = {} /\ Len(bulkInserts[c]) = 0
             /\ Cardinality(Elements(bulkInserts[c])) = 0
  BY NoElement DEF Init
<1>7. ListInv
  BY <1>6, MongoAssumption DEF Init, ListInv
<1> QED
  BY <1>3, <1>4, <1>5, <1>7 DEF IInv

LEMMA Inductive == IInv /\ [Next]_vars => IInv'
BY TypeStep, CountStep, ConnectionStep, LiveStep, DocumentsStep, ListStep DEF IInv

LEMMA Invariant == Spec => []IInv
BY Initial, Inductive, PTL DEF Spec

\* Clients, connection, lists and statuses keep their types (TypeOK).
THEOREM TypeCorrect == Spec => []TypeOK
<1>1. IInv => TypeOK
  BY DEF IInv
<1> QED
  BY <1>1, Invariant, PTL

\* However init() and cleanup() interleave, a client whose init() met no closing
\* works on the open connection (Connected).
THEOREM ConnectedAlways == Spec => []Connected
<1>1. ASSUME IInv, NEW c \in Clients \ exposed, pc[c] \in {"inited", "ready", "insert"}
      PROVE  database = mongoClient /\ database \in live
  <2>1. c \in Counted
    BY <1>1 DEF Counted
  <2>2. Closing = {} /\ mongoClient # 0
    BY <1>1, <2>1 DEF IInv, CountInv, ConnectionInv
  <2> QED
    BY <1>1, <2>2 DEF IInv, ConnectionInv
<1>2. IInv => Connected
  BY <1>1 DEF IInv, ConnectionInv, Connected
<1> QED
  BY <1>2, Invariant, PTL

\* No connection is left open when all clients have cleaned up (OneConnection).
THEOREM OneConnectionAlways == Spec => []OneConnection
<1>1. ASSUME IInv, \A c \in Clients : pc[c] = "done" PROVE Counted = {} /\ Closing = {} /\ initCount = 0
  <2>1. Counted = {} /\ Closing = {}
    BY <1>1 DEF Counted, Closing
  <2> QED
    BY <1>1, <2>1, FS_EmptySet DEF IInv, CountInv
<1>2. IInv => OneConnection
  BY <1>1 DEF IInv, LiveInv, OneConnection
<1> QED
  BY <1>2, Invariant, PTL

\* Through failed writes, retries and closed connections, a document that was
\* reported as inserted is written or in the list of its client (Accounted).
THEOREM AccountedAlways == Spec => []Accounted
<1>1. ASSUME IInv, NEW c \in Clients
      PROVE  /\ ReportedOk(c) \subseteq stored[c] \cup Elements(bulkInserts[c])
             /\ \A d \in Docs : status[c][d] = "OK" => 1 .. d \subseteq stored[c]
  <2>1. TypeOK /\ DocumentsInv /\ next[c] \in Nat
    BY <1>1 DEF IInv, TypeOK
  <2>2. ASSUME NEW d \in ReportedOk(c) PROVE d \in 1 .. next[c] - 1
    BY <2>1, <2>2 DEF ReportedOk, DocumentsInv, Docs
  <2> QED
    BY <2>1, <2>2 DEF DocumentsInv
<1>2. IInv => Accounted
  BY <1>1 DEF Accounted
<1> QED
  BY <1>2, Invariant, PTL

\* Until something fails, what waits in a list is less than a batch (BatchBounded).
THEOREM BatchBoundedAlways == Spec => []BatchBounded
<1>1. IInv => BatchBounded
  BY DEF IInv, ListInv, BatchBounded
<1> QED
  BY <1>1, Invariant, PTL
=============================================================================
