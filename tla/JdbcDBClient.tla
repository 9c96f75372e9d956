---------------------------- MODULE JdbcDBClient ----------------------------
(***************************************************************************)
(* The inserts of one JdbcDBClient: with the batch API or without, with    *)
(* autocommit or without, over one connection per shard.  The rows counter *)
(* is one for all shards.  A client belongs to one thread and shares no    *)
(* row with others; an insert that fails is tried again by doInsert().     *)
(***************************************************************************)
EXTENDS Integers, FiniteSets

CONSTANTS
  MaxShards,    \* the shards considered: 1 .. MaxShards
  BatchSizes,   \* db.batchsize, 0 for the unset or nonsense ones
  MaxRows,      \* BOUND: rows inserted
  MaxFaults     \* BOUND: statements that fail

ASSUME JdbcAssumption ==
  /\ {MaxShards, MaxRows, MaxFaults} \subseteq Nat
  /\ BatchSizes \subseteq Nat

Rows == 1 .. MaxRows

VARIABLES
  batchSize, batchUpdates, autoCommit,  \* the fields of those names
  shard,           \* getShardIndexByKey of each row, and so its connection
  numRowsInBatch,
  next,            \* the next row to insert
  batch,           \* the rows addBatch() has given each shard's statement
  pending,         \* executed and not committed
  committed,       \* in the database for good
  status,          \* what the last insert() of a row returned
  faults,
  cleaned          \* "no", "yes", or "threw" a DBException

config == <<batchSize, batchUpdates, autoCommit, shard>>
vars == <<config, numRowsInBatch, next, batch, pending, committed, status, faults, cleaned>>

Shards == 1 .. MaxShards
On(rows, s) == {r \in rows : shard[r] = s}
Applied == pending \cup committed
Batched == UNION {batch[s] : s \in Shards}

\* The definitions marked (wrong) are variants of the definition after them,
\* with which the properties are tested.

Init ==
  /\ batchSize \in BatchSizes
  /\ batchUpdates \in BOOLEAN /\ autoCommit \in BOOLEAN
  /\ \E n \in Shards : shard \in [Rows -> 1 .. n]
  /\ numRowsInBatch = 0
  /\ next = 1
  /\ batch = [s \in Shards |-> {}]
  /\ pending = {} /\ committed = {}
  /\ status = [r \in Rows |-> "none"]
  /\ faults = 0
  /\ cleaned = "no"

-----------------------------------------------------------------------------
\* The database takes the rows; without autocommit they wait for a commit.
Execute(rows) ==
  IF autoCommit THEN committed' = committed \cup rows /\ UNCHANGED pending
  ELSE pending' = pending \cup rows /\ UNCHANGED committed

\* The same, and commit() on the connection of shard s.
LeaveOpen(rows, s) == Execute(rows)                                \* (wrong)
ExecuteAndCommit(rows, s) ==
  IF autoCommit THEN Execute(rows)
  ELSE /\ committed' = committed \cup rows \cup On(pending, s)
       /\ pending' = (pending \cup rows) \ (rows \cup On(pending, s))

\* An SQLException: of the rows, some are in the database.  A fault, or a row
\* that a failed attempt has left there.
Fails(rows) ==
  /\ \/ rows \cap Applied # {} /\ UNCHANGED faults
     \/ faults < MaxFaults /\ faults' = faults + 1
  /\ \E some \in SUBSET (rows \ Applied) : Execute(some)

\* doInsert() inserts the next row, or again one that failed.
Inserts(r) ==
  /\ cleaned = "no"
  /\ \/ r = next /\ next' = next + 1
     \/ r = next - 1 /\ status[r] = "ERROR" /\ UNCHANGED next

Report(r, s) == status' = [status EXCEPT ![r] = s]
EmptyBatch(s) == batch' = [batch EXCEPT ![s] = {}]

\* ++numRowsInBatch, and whether it completes a batch
Counted == IF batchSize > 0 THEN numRowsInBatch + 1 ELSE numRowsInBatch
BeyondSize == batchSize > 0 /\ Counted % (batchSize + 1) = 0        \* (wrong)
Completes == batchSize > 0 /\ Counted % batchSize = 0

-----------------------------------------------------------------------------
(* insert() with the batch API                                              *)

AddBatch(r) ==
  /\ batchUpdates /\ ~Completes
  /\ batch' = [batch EXCEPT ![shard[r]] = @ \cup {r}]
  /\ Report(r, "BATCHED_OK")
  /\ UNCHANGED <<pending, committed, faults>>

ExecuteBatch(r) ==
  LET rows == batch[shard[r]] \cup {r} IN
  /\ batchUpdates /\ Completes
  /\ EmptyBatch(shard[r])
  /\ \/ /\ rows \cap Applied = {}
        /\ ExecuteAndCommit(rows, shard[r])
        /\ Report(r, "OK") /\ UNCHANGED faults
     \/ Fails(rows) /\ Report(r, "ERROR")
     \* a result is neither 1 nor -2: return before the commit
     \/ /\ rows \cap Applied = {}
        /\ faults < MaxFaults /\ faults' = faults + 1
        /\ Execute(rows) /\ Report(r, "ERROR")

(* insert() without                                                         *)

ExecuteUpdate(r) ==
  /\ ~batchUpdates
  /\ \/ /\ r \notin Applied
        /\ IF batchSize > 0 /\ ~Completes THEN Execute({r}) ELSE ExecuteAndCommit({r}, shard[r])
        /\ Report(r, "OK") /\ UNCHANGED faults
     \/ Fails({r}) /\ Report(r, "ERROR")
  /\ UNCHANGED batch

\* executeUpdate() throws before the count, and with autocommit nothing is
\* counted.
CountRow(r) ==
  numRowsInBatch' = IF batchUpdates \/ (~autoCommit /\ status'[r] = "OK")
                    THEN Counted ELSE numRowsInBatch

Insert(r) ==
  /\ Inserts(r)
  /\ AddBatch(r) \/ ExecuteBatch(r) \/ ExecuteUpdate(r)
  /\ CountRow(r)
  /\ UNCHANGED <<config, cleaned>>

-----------------------------------------------------------------------------
(* cleanup()                                                                *)

\* The statements whose batch is executed.
FullBatches == batchSize > 0 /\ numRowsInBatch % batchSize = 0     \* (wrong)
Unfinished == batchSize > 0 /\ numRowsInBatch % batchSize # 0
LeftOver == IF Unfinished THEN Batched ELSE {}

\* cleanupAllConnections() commits when autocommit is off.
CleanupOk ==
  /\ cleaned = "no"
  /\ LeftOver \cap Applied = {}
  /\ committed' = committed \cup pending \cup LeftOver
  /\ pending' = {}
  /\ batch' = [s \in Shards |-> {}]
  /\ cleaned' = "yes"
  /\ UNCHANGED <<config, numRowsInBatch, next, status, faults>>

\* A batch fails: a DBException, the connections neither committed nor closed.
CleanupThrows ==
  /\ cleaned = "no"
  /\ LeftOver # {}
  /\ Fails(LeftOver)
  /\ batch' = [s \in Shards |-> {}]
  /\ cleaned' = "threw"
  /\ UNCHANGED <<config, numRowsInBatch, next, status>>

Next == CleanupOk \/ CleanupThrows \/ \E r \in Rows : Insert(r)

Spec == Init /\ [][Next]_vars

-----------------------------------------------------------------------------
TypeOK ==
  /\ batchSize \in BatchSizes /\ {batchUpdates, autoCommit} \subseteq BOOLEAN
  /\ shard \in [Rows -> Shards]
  /\ numRowsInBatch \in Nat
  /\ next \in 1 .. MaxRows + 1
  /\ batch \in [Shards -> SUBSET Rows]
  /\ pending \subseteq Rows /\ committed \subseteq Rows
  /\ status \in [Rows -> {"none", "OK", "BATCHED_OK", "ERROR"}]
  /\ faults \in 0 .. MaxFaults
  /\ cleaned \in {"no", "yes", "threw"}

Reported == {r \in Rows : status[r] \in {"OK", "BATCHED_OK"}}
OneShard == Cardinality({shard[r] : r \in Rows}) = 1

\* Rows reported as inserted are in the database after cleanup(), as long as no
\* statement failed, the batch has a size, and there is one connection: the one
\* counter of rows then tells whether the batch is finished.
RowsKept ==
  cleaned = "yes" /\ faults = 0 /\ (batchUpdates => OneShard /\ batchSize > 0)
    => committed = Reported

\* OK, in contrast to BATCHED_OK, is reported of rows that are committed, with
\* any number of shards, batches that failed before, and rows inserted again;
\* only an update that is one of batchSize to be committed together is not.
OkMeansCommitted ==
  \A r \in Rows : status[r] = "OK" /\ (batchUpdates \/ autoCommit \/ batchSize = 0)
    => r \in committed

\* On one connection no more than db.batchsize rows wait for their batch, or
\* for the commit that takes its place.
BatchBounded ==
  OneShard /\ batchSize > 0 /\ faults = 0 /\ cleaned = "no"
    => Cardinality(Batched) < batchSize /\ Cardinality(pending) < batchSize
=============================================================================
