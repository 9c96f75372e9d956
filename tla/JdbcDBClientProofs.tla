-------------------------- MODULE JdbcDBClientProofs --------------------------
(***************************************************************************)
(* The inserts of one JdbcDBClient, for any number of rows, shards,        *)
(* failures and any batch size: a row reported OK is committed, no row is  *)
(* lost by a cleanup() after no failure, and batches are bounded.          *)
(***************************************************************************)
EXTENDS JdbcDBClient, FiniteSetTheorems, TLAPS

-----------------------------------------------------------------------------
(* Arithmetic of a counter that is taken modulo the batch size             *)

LEMMA DivMod ==
  \A n \in Nat, b \in Nat \ {0} : n = b * (n \div b) + (n % b) /\ n % b \in 0 .. b - 1 /\ n \div b \in Int
OBVIOUS

LEMMA NoMultipleBetween == \A b \in Nat \ {0}, k \in Int : b * k < b /\ -b < b * k => k = 0
<1> SUFFICES ASSUME NEW b \in Nat \ {0}, NEW k \in Int, b * k < b, -b < b * k PROVE k = 0
  OBVIOUS
<1>1. k >= 1 => b * k >= b
  OBVIOUS
<1>2. k <= -1 => b * k <= -b
  OBVIOUS
<1> QED
  BY <1>1, <1>2

\* The counter goes up to b - 1, then back to 0.
LEMMA CountModulo ==
  ASSUME NEW n \in Nat, NEW b \in Nat \ {0}
  PROVE  (n + 1) % b = IF n % b = b - 1 THEN 0 ELSE (n % b) + 1
<1> DEFINE q == n \div b
<1> DEFINE r == n % b
<1> DEFINE q1 == (n + 1) \div b
<1> DEFINE r1 == (n + 1) % b
<1>1. /\ r \in 0 .. b - 1 /\ q \in Int /\ n = b * q + r
      /\ r1 \in 0 .. b - 1 /\ q1 \in Int /\ n + 1 = b * q1 + r1
  BY DivMod
<1> HIDE DEF q, r, q1, r1
<1>2. CASE r = b - 1
  <2>1. n + 1 = b * (q + 1)
    BY <1>1, <1>2
  <2>2. b * (q1 - (q + 1)) = b * q1 - b * (q + 1)
    BY <1>1
  <2>3. b * (q1 - (q + 1)) = -r1
    BY <1>1, <2>1, <2>2
  <2>4. q1 - (q + 1) = 0
    BY <1>1, <2>3, NoMultipleBetween
  <2>5. r1 = 0
    BY <1>1, <2>3, <2>4
  <2> QED
    BY <1>2, <2>5 DEF r, r1
<1>3. CASE r # b - 1
  <2>1. b * (q1 - q) = b * q1 - b * q
    BY <1>1
  <2>2. b * (q1 - q) = r + 1 - r1
    BY <1>1, <2>1
  <2>3. q1 - q = 0
    BY <1>1, <1>3, <2>2, NoMultipleBetween
  <2>4. r1 = r + 1
    BY <1>1, <2>2, <2>3
  <2> QED
    BY <1>3, <2>4 DEF r, r1
<1> QED
  BY <1>2, <1>3

-----------------------------------------------------------------------------
(* The inductive invariant                                                 *)

InBatch(r) == r \in batch[shard[r]]

\* Where rows wait, and that autocommit leaves none pending.
WaitingInv ==
  /\ \A s \in Shards : \A r \in batch[s] : shard[r] = s
  /\ ~batchUpdates => \A s \in Shards : batch[s] = {}
  /\ autoCommit => pending = {}

\* Until a statement fails, the rows before the next one are applied or in a batch.
RowsInv ==
  faults = 0 /\ cleaned = "no" =>
    \A r \in Rows :
      /\ r < next => status[r] \in {"OK", "BATCHED_OK"} /\ (r \in Applied \/ InBatch(r))
      /\ r >= next => status[r] = "none" /\ r \notin Applied /\ ~InBatch(r)
      /\ ~(r \in Applied /\ InBatch(r))

\* On one connection, the counter tells how many rows wait.
CountInv ==
  faults = 0 /\ cleaned = "no" /\ OneShard /\ batchSize > 0 =>
    /\ batchUpdates => numRowsInBatch % batchSize = Cardinality(Batched) /\ pending = {}
    /\ ~batchUpdates /\ ~autoCommit => numRowsInBatch % batchSize = Cardinality(pending)

IInv ==
  /\ TypeOK
  /\ OkMeansCommitted
  /\ WaitingInv
  /\ RowsInv
  /\ CountInv
  /\ RowsKept

-----------------------------------------------------------------------------
(* Rows and shards                                                         *)

LEMMA Numbers == MaxShards \in Nat /\ MaxRows \in Nat /\ MaxFaults \in Nat /\ BatchSizes \subseteq Nat
BY JdbcAssumption

LEMMA RowsFinite == \A S \in SUBSET Rows : IsFiniteSet(S) /\ Cardinality(S) \in Nat
<1>1. IsFiniteSet(Rows)
  BY Numbers, FS_Interval DEF Rows
<1> QED
  BY <1>1, FS_Subset, FS_CardinalityType

LEMMA SameShard ==
  ASSUME TypeOK, OneShard, NEW r \in Rows, NEW q \in Rows
  PROVE  shard[r] = shard[q]
<1>1. IsFiniteSet({shard[p] : p \in Rows})
  <2>1. {shard[p] : p \in Rows} \subseteq Shards
    BY DEF TypeOK
  <2>2. IsFiniteSet(Shards)
    BY Numbers, FS_Interval DEF Shards
  <2> QED
    BY <2>1, <2>2, FS_Subset
<1>2. \E x : {shard[p] : p \in Rows} = {x}
  BY <1>1, FS_Singleton DEF OneShard
<1> QED
  BY <1>2

LEMMA BatchedRows ==
  ASSUME TypeOK, WaitingInv
  PROVE  Batched \subseteq Rows /\ \A r \in Rows : r \in Batched <=> InBatch(r)
BY DEF TypeOK, WaitingInv, Batched, InBatch

\* What a statement that succeeds changes.
LEMMA ExecutedApplied ==
  ASSUME NEW rows, NEW s, Execute(rows) \/ ExecuteAndCommit(rows, s)
  PROVE  Applied' = Applied \cup rows /\ committed \subseteq committed'
<1>1. CASE Execute(rows)
  BY <1>1 DEF Execute, Applied
<1>2. CASE ExecuteAndCommit(rows, s)
  BY <1>2 DEF ExecuteAndCommit, Execute, Applied, On
<1> QED
  BY <1>1, <1>2

LEMMA CommittedThen ==
  ASSUME NEW rows, NEW s, ExecuteAndCommit(rows, s)
  PROVE  rows \subseteq committed'
BY DEF ExecuteAndCommit, Execute

\* A failing statement loses nothing that was committed.
LEMMA FailsKeeps ==
  ASSUME NEW rows, Fails(rows)
  PROVE  committed \subseteq committed'
BY ExecutedApplied DEF Fails

-----------------------------------------------------------------------------
(* Types                                                                   *)

LEMMA ExecuteType ==
  ASSUME TypeOK, NEW rows \in SUBSET Rows, NEW s,
         Execute(rows) \/ ExecuteAndCommit(rows, s)
  PROVE  pending' \subseteq Rows /\ committed' \subseteq Rows
BY DEF TypeOK, Execute, ExecuteAndCommit, On

LEMMA FailsType ==
  ASSUME TypeOK, NEW rows \in SUBSET Rows, Fails(rows)
  PROVE  pending' \subseteq Rows /\ committed' \subseteq Rows /\ faults' \in 0 .. MaxFaults
<1>1. PICK some \in SUBSET (rows \ Applied) : Execute(some)
  BY DEF Fails
<1>2. pending' \subseteq Rows /\ committed' \subseteq Rows
  BY <1>1, ExecuteType
<1>3. faults' \in 0 .. MaxFaults
  BY Numbers DEF Fails, TypeOK
<1> QED
  BY <1>2, <1>3

LEMMA CountedType == TypeOK => Counted \in Nat
BY Numbers DEF TypeOK, Counted

LEMMA InsertType ==
  ASSUME TypeOK, NEW r \in Rows, Insert(r)
  PROVE  TypeOK'
<1> DEFINE rows == batch[shard[r]] \cup {r}
<1>1. rows \in SUBSET Rows /\ {r} \in SUBSET Rows /\ shard[r] \in Shards
  BY DEF TypeOK
<1>2. next' \in 1 .. MaxRows + 1
  BY Numbers DEF Insert, Inserts, TypeOK, Rows
<1>3. numRowsInBatch' \in Nat
  BY CountedType DEF Insert, CountRow, TypeOK
<1>4. /\ batchSize' \in BatchSizes /\ {batchUpdates', autoCommit'} \subseteq BOOLEAN
      /\ shard' \in [Rows -> Shards] /\ cleaned' \in {"no", "yes", "threw"}
  BY DEF Insert, TypeOK, config
<1>5. /\ batch' \in [Shards -> SUBSET Rows]
      /\ status' \in [Rows -> {"none", "OK", "BATCHED_OK", "ERROR"}]
      /\ pending' \subseteq Rows /\ committed' \subseteq Rows /\ faults' \in 0 .. MaxFaults
  <2>1. CASE AddBatch(r)
    BY <2>1, <1>1 DEF AddBatch, Report, TypeOK
  <2>2. CASE ExecuteBatch(r)
    <3>1. /\ batch' \in [Shards -> SUBSET Rows]
          /\ status' \in [Rows -> {"none", "OK", "BATCHED_OK", "ERROR"}]
      BY <2>2, <1>1 DEF ExecuteBatch, EmptyBatch, Report, TypeOK
    <3>2. \/ Execute(rows) /\ faults' \in 0 .. MaxFaults
          \/ ExecuteAndCommit(rows, shard[r]) /\ faults' \in 0 .. MaxFaults
          \/ Fails(rows)
      BY <2>2, Numbers DEF ExecuteBatch, TypeOK
    <3>3. pending' \subseteq Rows /\ committed' \subseteq Rows /\ faults' \in 0 .. MaxFaults
      <4> HIDE DEF rows
      <4>1. CASE Fails(rows)
        BY <1>1, <4>1, FailsType
      <4>2. CASE ~Fails(rows)
        BY <1>1, <3>2, <4>2, ExecuteType
      <4> QED
        BY <4>1, <4>2
    <3> QED
      BY <3>1, <3>3
  <2>3. CASE ExecuteUpdate(r)
    <3>1. /\ batch' \in [Shards -> SUBSET Rows]
          /\ status' \in [Rows -> {"none", "OK", "BATCHED_OK", "ERROR"}]
      BY <2>3, <1>1 DEF ExecuteUpdate, Report, TypeOK
    <3>2. \/ Execute({r}) /\ faults' \in 0 .. MaxFaults
          \/ ExecuteAndCommit({r}, shard[r]) /\ faults' \in 0 .. MaxFaults
          \/ Fails({r})
      BY <2>3 DEF ExecuteUpdate, TypeOK
    <3>3. pending' \subseteq Rows /\ committed' \subseteq Rows /\ faults' \in 0 .. MaxFaults
      <4>1. CASE Fails({r})
        BY <1>1, <4>1, FailsType
      <4>2. CASE ~Fails({r})
        BY <1>1, <3>2, <4>2, ExecuteType
      <4> QED
        BY <4>1, <4>2
    <3> QED
      BY <3>1, <3>3
  <2> QED
    BY <2>1, <2>2, <2>3 DEF Insert
<1> QED
  BY <1>2, <1>3, <1>4, <1>5 DEF TypeOK

LEMMA LeftOverRows == TypeOK => LeftOver \in SUBSET Rows
BY DEF TypeOK, LeftOver, Batched

LEMMA TypeStep ==
  ASSUME TypeOK, [Next]_vars
  PROVE  TypeOK'
<1>1. CASE \E r \in Rows : Insert(r)
  BY <1>1, InsertType
<1>2. CASE CleanupOk
  BY <1>2, LeftOverRows DEF CleanupOk, TypeOK, config
<1>3. CASE CleanupThrows
  <2>1. pending' \subseteq Rows /\ committed' \subseteq Rows /\ faults' \in 0 .. MaxFaults
    BY <1>3, LeftOverRows, FailsType DEF CleanupThrows
  <2> QED
    BY <1>3, <2>1 DEF CleanupThrows, TypeOK, config
<1>4. CASE UNCHANGED vars
  BY <1>4 DEF vars, config, TypeOK
<1> QED
  BY <1>1, <1>2, <1>3, <1>4 DEF Next

\* The fields that insert() and cleanup() read and do not assign.
LEMMA ConfigFixed ==
  ASSUME [Next]_vars
  PROVE  /\ batchSize' = batchSize /\ batchUpdates' = batchUpdates
         /\ autoCommit' = autoCommit /\ shard' = shard
         /\ OneShard' = OneShard
         /\ cleaned' = "no" => cleaned = "no"
BY DEF Next, Insert, CleanupOk, CleanupThrows, vars, config, OneShard

-----------------------------------------------------------------------------
(* What is reported OK is committed                                        *)

LEMMA OkStep ==
  ASSUME TypeOK, OkMeansCommitted, [Next]_vars
  PROVE  OkMeansCommitted'
<1> USE ConfigFixed
<1>1. ASSUME NEW r \in Rows, Insert(r)
      PROVE  OkMeansCommitted'
  <2> USE <1>1
  <2> DEFINE Due == batchUpdates \/ autoCommit \/ batchSize = 0
  <2>1. SUFFICES /\ committed \subseteq committed'
                 /\ \E res : status' = [status EXCEPT ![r] = res]
                 /\ status'[r] = "OK" /\ Due => r \in committed'
    BY DEF OkMeansCommitted, TypeOK
  <2>2. CASE AddBatch(r)
    BY <2>2 DEF AddBatch, Report, TypeOK
  <2>3. CASE ExecuteBatch(r)
    <3> DEFINE rows == batch[shard[r]] \cup {r}
    <3>1. CASE ExecuteAndCommit(rows, shard[r]) /\ Report(r, "OK")
      <4>1. rows \subseteq committed' /\ committed \subseteq committed'
        BY <3>1, CommittedThen, ExecutedApplied
      <4> QED
        BY <3>1, <4>1 DEF Report
    <3>2. CASE (Fails(rows) \/ Execute(rows)) /\ Report(r, "ERROR")
      <4>1. committed \subseteq committed'
        BY <3>2, FailsKeeps, ExecutedApplied
      <4> QED
        BY <3>2, <4>1 DEF Report, TypeOK
    <3> QED
      BY <2>3, <3>1, <3>2 DEF ExecuteBatch
  <2>4. CASE ExecuteUpdate(r)
    <3>1. CASE Fails({r}) /\ Report(r, "ERROR")
      <4>1. committed \subseteq committed'
        BY <3>1, FailsKeeps
      <4> QED
        BY <3>1, <4>1 DEF Report, TypeOK
    <3>2. CASE /\ IF batchSize > 0 /\ ~Completes THEN Execute({r}) ELSE ExecuteAndCommit({r}, shard[r])
               /\ Report(r, "OK")
      <4>1. committed \subseteq committed'
        BY <3>2, ExecutedApplied
      <4>2. Due => r \in committed'
        <5>1. CASE autoCommit
          BY <3>2, <5>1 DEF Execute, ExecuteAndCommit
        <5>2. CASE ~autoCommit /\ Due
          <6>1. batchSize = 0
            BY <2>4, <5>2 DEF ExecuteUpdate
          <6>2. ExecuteAndCommit({r}, shard[r])
            BY <3>2, <6>1
          <6> QED
            BY <6>2, CommittedThen
        <5> QED
          BY <5>1, <5>2
      <4> QED
        BY <3>2, <4>1, <4>2 DEF Report
    <3> QED
      BY <2>4, <3>1, <3>2 DEF ExecuteUpdate
  <2> QED
    BY <2>2, <2>3, <2>4 DEF Insert
<1>2. CASE CleanupOk
  BY <1>2 DEF CleanupOk, OkMeansCommitted
<1>3. CASE CleanupThrows
  <2>1. committed \subseteq committed' /\ status' = status
    BY <1>3, FailsKeeps DEF CleanupThrows
  <2> QED
    BY <2>1 DEF OkMeansCommitted
<1>4. CASE UNCHANGED vars
  BY <1>4 DEF vars, OkMeansCommitted
<1> QED
  BY <1>1, <1>2, <1>3, <1>4 DEF Next

-----------------------------------------------------------------------------
(* As long as no statement fails                                           *)

Config == batchSize' = batchSize /\ batchUpdates' = batchUpdates
          /\ autoCommit' = autoCommit /\ shard' = shard

Added(r) ==
  /\ batchUpdates /\ ~Completes
  /\ batch' = [batch EXCEPT ![shard[r]] = @ \cup {r}]
  /\ pending' = pending /\ committed' = committed
  /\ status' = [status EXCEPT ![r] = "BATCHED_OK"]
  /\ numRowsInBatch' = Counted

Flushed(r) ==
  /\ batchUpdates /\ Completes
  /\ batch' = [batch EXCEPT ![shard[r]] = {}]
  /\ ExecuteAndCommit(batch[shard[r]] \cup {r}, shard[r])
  /\ status' = [status EXCEPT ![r] = "OK"]
  /\ numRowsInBatch' = Counted

Updated(r) ==
  /\ ~batchUpdates
  /\ batch' = batch
  /\ IF batchSize > 0 /\ ~Completes THEN Execute({r}) ELSE ExecuteAndCommit({r}, shard[r])
  /\ status' = [status EXCEPT ![r] = "OK"]
  /\ numRowsInBatch' = IF autoCommit THEN numRowsInBatch ELSE Counted

LEMMA NoFailure ==
  ASSUME TypeOK, WaitingInv, RowsInv, NEW r \in Rows, Insert(r), faults' = 0
  PROVE  /\ faults = 0 /\ cleaned = "no" /\ cleaned' = "no"
         /\ r = next /\ next' = next + 1
         /\ Config
         /\ Added(r) \/ Flushed(r) \/ Updated(r)
<1> DEFINE rows == batch[shard[r]] \cup {r}
<1>1. Config /\ cleaned = "no" /\ cleaned' = "no"
  BY DEF Insert, Inserts, config, Config
<1>2. faults' = faults \/ faults' = faults + 1
  BY DEF Insert, AddBatch, ExecuteBatch, ExecuteUpdate, Fails
<1>3. faults = 0
  BY <1>2 DEF TypeOK
<1>4. r = next /\ next' = next + 1
  <2>1. r = next - 1 => status[r] # "ERROR"
    BY <1>1, <1>3 DEF RowsInv, TypeOK
  <2> QED
    BY <2>1 DEF Insert, Inserts
<1>5. rows \cap Applied = {}
  <2>1. r \notin Applied
    BY <1>1, <1>3, <1>4 DEF RowsInv, TypeOK
  <2>2. ASSUME NEW q \in batch[shard[r]] PROVE q \notin Applied
    <3>1. shard[r] \in Shards /\ q \in Rows
      BY DEF TypeOK
    <3>2. shard[q] = shard[r]
      BY <3>1 DEF WaitingInv
    <3> QED
      BY <1>1, <1>3, <3>1, <3>2 DEF RowsInv, InBatch
  <2> QED
    BY <2>1, <2>2
<1>6. ~Fails(rows) /\ ~Fails({r}) /\ faults' # faults + 1
  BY <1>3, <1>5 DEF Fails
<1>7. Added(r) \/ Flushed(r) \/ Updated(r)
  <2>1. CASE AddBatch(r)
    BY <2>1 DEF AddBatch, Report, Insert, CountRow, Added
  <2>2. CASE ExecuteBatch(r)
    BY <2>2, <1>6 DEF ExecuteBatch, EmptyBatch, Report, Insert, CountRow, Flushed
  <2>3. CASE ExecuteUpdate(r)
    <3>1. /\ ~batchUpdates /\ UNCHANGED batch
          /\ IF batchSize > 0 /\ ~Completes THEN Execute({r}) ELSE ExecuteAndCommit({r}, shard[r])
          /\ Report(r, "OK")
      BY <2>3, <1>6 DEF ExecuteUpdate
    <3>2. numRowsInBatch' = IF autoCommit THEN numRowsInBatch ELSE Counted
      BY <3>1 DEF Insert, CountRow, Report, TypeOK
    <3> QED
      BY <3>1, <3>2 DEF Report, Updated
  <2> QED
    BY <2>1, <2>2, <2>3 DEF Insert
<1> QED
  BY <1>1, <1>3, <1>4, <1>7

\* Which rows wait in a batch after an insert, and which are applied.
LEMMA Moves ==
  ASSUME TypeOK, WaitingInv, RowsInv, NEW r \in Rows, Insert(r), faults' = 0
  PROVE  /\ Added(r) => /\ Applied' = Applied
                        /\ \A q \in Rows : InBatch(q)' <=> InBatch(q) \/ q = r
         /\ Flushed(r) => \A q \in Rows :
              /\ q \in Applied' <=> q \in Applied \/ q = r \/ (InBatch(q) /\ shard[q] = shard[r])
              /\ InBatch(q)' <=> InBatch(q) /\ shard[q] # shard[r]
         /\ Updated(r) => /\ Applied' = Applied \cup {r}
                          /\ \A q \in Rows : InBatch(q)' <=> InBatch(q)
<1>1. Config
  BY NoFailure
<1>2. \A q \in Rows : shard[q] \in Shards
  BY DEF TypeOK
<1>3. Added(r) => /\ Applied' = Applied
                  /\ \A q \in Rows : InBatch(q)' <=> InBatch(q) \/ q = r
  BY <1>1, <1>2 DEF Added, Applied, InBatch, Config, TypeOK
<1>4. ASSUME Flushed(r), NEW q \in Rows
      PROVE  /\ q \in Applied' <=> q \in Applied \/ q = r \/ (InBatch(q) /\ shard[q] = shard[r])
             /\ InBatch(q)' <=> InBatch(q) /\ shard[q] # shard[r]
  <2>1. Applied' = Applied \cup (batch[shard[r]] \cup {r})
    BY <1>4, ExecutedApplied DEF Flushed
  <2>2. q \in batch[shard[r]] <=> InBatch(q) /\ shard[q] = shard[r]
    BY <1>2 DEF InBatch, WaitingInv
  <2>3. InBatch(q)' <=> InBatch(q) /\ shard[q] # shard[r]
    BY <1>1, <1>2, <1>4 DEF Flushed, InBatch, Config, TypeOK
  <2> QED
    BY <2>1, <2>2, <2>3
<1>5. ASSUME Updated(r)
      PROVE  Applied' = Applied \cup {r} /\ \A q \in Rows : InBatch(q)' <=> InBatch(q)
  BY <1>1, <1>5, ExecutedApplied DEF Updated, InBatch, Config
<1> QED
  BY <1>3, <1>4, <1>5

LEMMA WaitingStep ==
  ASSUME TypeOK, WaitingInv, [Next]_vars
  PROVE  WaitingInv'
<1>1. ASSUME NEW r \in Rows, Insert(r) PROVE WaitingInv'
  <2>1. /\ batchUpdates' = batchUpdates /\ autoCommit' = autoCommit /\ shard' = shard
        /\ shard[r] \in Shards
    BY <1>1, ConfigFixed DEF Next, TypeOK
  <2>2. \/ batch' = batch
        \/ batchUpdates /\ batch' = [batch EXCEPT ![shard[r]] = {}]
        \/ batchUpdates /\ batch' = [batch EXCEPT ![shard[r]] = @ \cup {r}]
    BY <1>1 DEF Insert, AddBatch, ExecuteBatch, ExecuteUpdate, EmptyBatch
  <2>3. autoCommit => pending' = pending
    BY <1>1 DEF Insert, AddBatch, ExecuteBatch, ExecuteUpdate, Fails, Execute, ExecuteAndCommit
  <2> QED
    BY <2>1, <2>2, <2>3 DEF WaitingInv, TypeOK
<1>2. CASE CleanupOk
  BY <1>2 DEF CleanupOk, WaitingInv, config, TypeOK
<1>3. CASE CleanupThrows
  <2>1. autoCommit => pending' = pending
    BY <1>3 DEF CleanupThrows, Fails, Execute
  <2> QED
    BY <1>3, <2>1 DEF CleanupThrows, WaitingInv, config, TypeOK
<1>4. CASE UNCHANGED vars
  BY <1>4 DEF vars, config, WaitingInv
<1> QED
  BY <1>1, <1>2, <1>3, <1>4 DEF Next

LEMMA RowsStep ==
  ASSUME TypeOK, WaitingInv, RowsInv, [Next]_vars
  PROVE  RowsInv'
<1> SUFFICES ASSUME faults' = 0, cleaned' = "no" PROVE RowsInv'
  BY DEF RowsInv
<1>1. ASSUME NEW r \in Rows, Insert(r) PROVE RowsInv'
  <2>1. /\ faults = 0 /\ cleaned = "no" /\ r = next /\ next' = next + 1 /\ next \in Nat
        /\ Added(r) \/ Flushed(r) \/ Updated(r)
    BY <1>1, NoFailure DEF TypeOK
  <2>2. ASSUME NEW q \in Rows
        PROVE  /\ q < next' => /\ status'[q] \in {"OK", "BATCHED_OK"}
                               /\ q \in Applied' \/ InBatch(q)'
               /\ q >= next' => status'[q] = "none" /\ q \notin Applied' /\ ~InBatch(q)'
               /\ ~(q \in Applied' /\ InBatch(q)')
    <3>1. /\ q < next => status[q] \in {"OK", "BATCHED_OK"} /\ (q \in Applied \/ InBatch(q))
          /\ q >= next => status[q] = "none" /\ q \notin Applied /\ ~InBatch(q)
          /\ ~(q \in Applied /\ InBatch(q))
      BY <2>1 DEF RowsInv
    <3>2. q \in Nat /\ (q < next' <=> q < next \/ q = r) /\ (q >= next' => q >= next /\ q # r)
      BY <2>1 DEF Rows
    <3>3. status'[q] = IF q = r THEN status'[r] ELSE status[q]
      BY <2>1 DEF Added, Flushed, Updated, TypeOK
    <3>4. status'[r] \in {"OK", "BATCHED_OK"}
      BY <2>1 DEF Added, Flushed, Updated, TypeOK
    <3>5. r \notin Applied /\ ~InBatch(r)
      BY <2>1 DEF RowsInv
    <3>6. CASE Added(r)
      BY <1>1, <3>1, <3>2, <3>3, <3>4, <3>5, <3>6, Moves
    <3>7. CASE Flushed(r)
      <4>1. /\ q \in Applied' <=> q \in Applied \/ q = r \/ (InBatch(q) /\ shard[q] = shard[r])
            /\ InBatch(q)' <=> InBatch(q) /\ shard[q] # shard[r]
        BY <1>1, <3>7, Moves
      <4> QED
        BY <3>1, <3>2, <3>3, <3>4, <3>5, <4>1
    <3>8. CASE Updated(r)
      BY <1>1, <3>1, <3>2, <3>3, <3>4, <3>5, <3>8, Moves
    <3> QED
      BY <2>1, <3>6, <3>7, <3>8
  <2> QED
    BY <2>2 DEF RowsInv
<1>2. CASE CleanupOk \/ CleanupThrows
  BY <1>2 DEF CleanupOk, CleanupThrows
<1>3. CASE UNCHANGED vars
  BY <1>3 DEF vars, config, RowsInv, InBatch, Applied
<1> QED
  BY <1>1, <1>2, <1>3 DEF Next

LEMMA CountStep ==
  ASSUME TypeOK, WaitingInv, RowsInv, CountInv, [Next]_vars
  PROVE  CountInv'
<1> SUFFICES ASSUME faults' = 0, cleaned' = "no", OneShard, batchSize > 0 PROVE CountInv'
  BY ConfigFixed DEF CountInv
<1>0. batchSize \in Nat \ {0} /\ numRowsInBatch \in Nat
  BY Numbers DEF TypeOK
<1>1. ASSUME NEW r \in Rows, Insert(r) PROVE CountInv'
  <2>1. /\ faults = 0 /\ cleaned = "no" /\ r = next /\ Config
        /\ Added(r) \/ Flushed(r) \/ Updated(r)
    BY <1>1, NoFailure
  <2>2. Counted = numRowsInBatch + 1 /\ (Completes <=> (numRowsInBatch + 1) % batchSize = 0)
    BY <1>0 DEF Counted, Completes
  <2>3. (numRowsInBatch + 1) % batchSize =
          IF numRowsInBatch % batchSize = batchSize - 1 THEN 0 ELSE (numRowsInBatch % batchSize) + 1
    BY <1>0, CountModulo
  <2>4. Batched \subseteq Rows /\ (\A q \in Rows : q \in Batched <=> InBatch(q)) /\ pending \subseteq Rows
    BY BatchedRows DEF TypeOK
  <2>5. r \notin Batched /\ r \notin pending
    BY <2>1, <2>4 DEF RowsInv, Applied, TypeOK
  <2>6. TypeOK' /\ WaitingInv'
    BY <1>1, TypeStep, WaitingStep DEF Next
  <2>7. Batched' \subseteq Rows /\ \A q \in Rows : q \in Batched' <=> InBatch(q)'
    <3> Rows' = Rows
      BY DEF Rows
    <3> QED
      BY <2>6 DEF TypeOK, WaitingInv, Batched, InBatch
  <2>8. \A q \in Rows : shard[q] = shard[r]
    BY SameShard
  <2>9. CASE Added(r)
    <3>1. Batched' = Batched \cup {r}
      BY <1>1, <2>4, <2>7, <2>9, Moves
    <3>2. Cardinality(Batched') = Cardinality(Batched) + 1
      BY <3>1, <2>4, <2>5, RowsFinite, FS_AddElement
    <3>3. numRowsInBatch % batchSize = Cardinality(Batched) /\ pending = {}
      BY <1>0, <2>1, <2>9 DEF CountInv, Added
    <3>4. numRowsInBatch' % batchSize = Cardinality(Batched')
      BY <2>2, <2>3, <2>9, <3>2, <3>3 DEF Added
    <3> QED
      BY <2>1, <2>9, <3>3, <3>4 DEF CountInv, Added, Config
  <2>10. CASE Flushed(r)
    <3>1. Batched' = {}
      BY <1>1, <2>7, <2>8, <2>10, Moves
    <3>2. pending = {}
      BY <1>0, <2>1, <2>10 DEF CountInv, Flushed
    <3>3. pending' = {}
      BY <2>10, <3>2 DEF Flushed, ExecuteAndCommit, Execute
    <3>4. numRowsInBatch' % batchSize = 0
      BY <2>2, <2>10 DEF Flushed
    <3> QED
      BY <2>1, <2>10, <3>1, <3>3, <3>4, FS_EmptySet DEF CountInv, Flushed, Config
  <2>11. CASE Updated(r) /\ ~autoCommit
    <3>1. numRowsInBatch % batchSize = Cardinality(pending) /\ numRowsInBatch' = numRowsInBatch + 1
      BY <1>0, <2>1, <2>2, <2>11 DEF CountInv, Updated
    <3>2. CASE ~Completes
      <4>1. pending' = pending \cup {r}
        BY <1>0, <2>11, <3>2 DEF Updated, Execute
      <4>2. Cardinality(pending') = Cardinality(pending) + 1
        BY <4>1, <2>4, <2>5, RowsFinite, FS_AddElement
      <4> QED
        BY <2>1, <2>2, <2>3, <2>11, <3>1, <3>2, <4>2 DEF CountInv, Config, Updated
    <3>3. CASE Completes
      <4>1. pending' = {}
        BY <2>4, <2>8, <2>11, <3>3 DEF Updated, ExecuteAndCommit, On
      <4> QED
        BY <2>1, <2>2, <2>11, <3>1, <3>3, <4>1, FS_EmptySet DEF CountInv, Config, Updated
    <3> QED
      BY <3>2, <3>3
  <2>12. CASE Updated(r) /\ autoCommit
    BY <2>1, <2>12 DEF CountInv, Config, Updated
  <2> QED
    BY <2>1, <2>9, <2>10, <2>11, <2>12
<1>2. CASE CleanupOk \/ CleanupThrows
  BY <1>2 DEF CleanupOk, CleanupThrows
<1>3. CASE UNCHANGED vars
  BY <1>3 DEF vars, config, CountInv, OneShard, Batched
<1> QED
  BY <1>1, <1>2, <1>3 DEF Next
-----------------------------------------------------------------------------
(* The theorems                                                            *)

LEMMA KeptStep ==
  ASSUME TypeOK, WaitingInv, RowsInv, CountInv, RowsKept, [Next]_vars
  PROVE  RowsKept'
<1> DEFINE Clear == batchUpdates => OneShard /\ batchSize > 0
<1>1. CASE CleanupOk
  <2> SUFFICES ASSUME faults' = 0, Clear PROVE committed' = Reported'
    BY ConfigFixed DEF RowsKept
  <2>1. faults = 0 /\ cleaned = "no" /\ status' = status
        /\ committed' = committed \cup pending \cup LeftOver
    BY <1>1 DEF CleanupOk
  <2>2. LeftOver = Batched
    <3>1. CASE ~batchUpdates
      BY <3>1 DEF LeftOver, Batched, WaitingInv
    <3>2. CASE batchUpdates
      <4>1. batchSize \in Nat \ {0} /\ OneShard /\ batchSize > 0
        BY <3>2, Numbers DEF TypeOK
      <4>2. numRowsInBatch % batchSize = Cardinality(Batched)
        BY <2>1, <3>2, <4>1 DEF CountInv
      <4>3. Batched \in SUBSET Rows
        BY BatchedRows
      <4>4. Cardinality(Batched) = 0 <=> Batched = {}
        BY <4>3, RowsFinite, FS_EmptySet
      <4> QED
        BY <4>1, <4>2, <4>4 DEF LeftOver, Unfinished
    <3> QED
      BY <3>1, <3>2
  <2>3. Batched \subseteq Rows /\ \A r \in Rows : r \in Batched <=> InBatch(r)
    BY BatchedRows
  <2>4. \A r \in Rows : r \in Reported <=> r \in Applied \/ InBatch(r)
    <3> TAKE r \in Rows
    <3>1. r < next \/ r >= next
      BY DEF Rows, TypeOK
    <3> QED
      BY <2>1, <3>1 DEF RowsInv, Reported
  <2>5. Applied \subseteq Rows /\ Reported \subseteq Rows /\ Reported' = Reported
    BY <2>1 DEF TypeOK, Applied, Reported, Rows
  <2> QED
    BY <2>1, <2>2, <2>3, <2>4, <2>5 DEF Applied
<1>2. CASE CleanupThrows \/ \E r \in Rows : Insert(r)
  BY <1>2 DEF CleanupThrows, Insert, Inserts, RowsKept
<1>3. CASE UNCHANGED vars
  BY <1>3 DEF vars, config, RowsKept, OneShard, Reported
<1> QED
  BY <1>1, <1>2, <1>3 DEF Next

LEMMA InitInv == Init => IInv
<1> SUFFICES ASSUME Init PROVE IInv
  OBVIOUS
<1> USE Numbers
<1>1. TypeOK
  BY DEF Init, TypeOK, Shards, Rows
<1>2. Batched = {} /\ Applied = {} /\ \A r \in Rows : ~InBatch(r)
  BY <1>1 DEF Init, Batched, Applied, InBatch, TypeOK
<1>3. WaitingInv /\ OkMeansCommitted /\ RowsKept
  BY DEF Init, WaitingInv, OkMeansCommitted, RowsKept, Shards
<1>4. RowsInv
  BY <1>2 DEF Init, RowsInv, Rows
<1>5. CountInv
  <2>1. batchSize > 0 => 0 % batchSize = 0
    <3> SUFFICES ASSUME batchSize > 0 PROVE 0 % batchSize = 0
      OBVIOUS
    <3> QED
      BY <1>1 DEF TypeOK
  <2> QED
    BY <1>2, <2>1, FS_EmptySet DEF Init, CountInv
<1> QED
  BY <1>1, <1>3, <1>4, <1>5 DEF IInv

LEMMA StepInv == IInv /\ [Next]_vars => IInv'
BY TypeStep, OkStep, WaitingStep, RowsStep, CountStep, KeptStep DEF IInv

LEMMA InvAlways == Spec => []IInv
BY InitInv, StepInv, PTL DEF Spec

\* The counter of rows stays a number and the batches, the pending and the
\* committed rows are rows, through every insert() and cleanup().
THEOREM TypeCorrect == Spec => []TypeOK
<1>1. IInv => TypeOK
  BY DEF IInv
<1> QED
  BY <1>1, InvAlways, PTL

\* A row for which insert() returned OK is committed, with any number of
\* shards, after any failure of statements, unless it is an update among
\* batchSize ones that are committed together.
THEOREM OkMeansCommittedAlways == Spec => []OkMeansCommitted
<1>1. IInv => OkMeansCommitted
  BY DEF IInv
<1> QED
  BY <1>1, InvAlways, PTL

\* Without failures and on one connection, cleanup() leaves exactly the rows
\* in the database for which insert() returned OK or BATCHED_OK.
THEOREM RowsKeptAlways == Spec => []RowsKept
<1>1. IInv => RowsKept
  BY DEF IInv
<1> QED
  BY <1>1, InvAlways, PTL

\* On one connection fewer than batchSize rows wait for their batch, or for
\* the commit of the updates, after every insert() that did not fail.
THEOREM BatchBoundedAlways == Spec => []BatchBounded
<1>1. IInv => BatchBounded
  <2> SUFFICES ASSUME IInv, OneShard, batchSize > 0, faults = 0, cleaned = "no"
               PROVE  Cardinality(Batched) < batchSize /\ Cardinality(pending) < batchSize
    BY DEF BatchBounded
  <2>1. batchSize \in Nat \ {0} /\ numRowsInBatch \in Nat
    BY Numbers DEF IInv, TypeOK
  <2>2. numRowsInBatch % batchSize < batchSize
    BY <2>1
  <2>3. CASE batchUpdates
    BY <2>1, <2>2, <2>3, FS_EmptySet DEF IInv, CountInv
  <2>4. CASE ~batchUpdates
    <3>1. Batched = {}
      BY <2>4 DEF IInv, WaitingInv, Batched
    <3>2. autoCommit => pending = {}
      BY DEF IInv, WaitingInv
    <3> QED
      BY <2>1, <2>2, <2>4, <3>1, <3>2, FS_EmptySet DEF IInv, CountInv
  <2> QED
    BY <2>3, <2>4
<1> QED
  BY <1>1, InvAlways, PTL
=============================================================================
