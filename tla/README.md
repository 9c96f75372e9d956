# A TLA+ model of YCSB-IVS

YCSB-IVS is a fork of the Yahoo! Cloud Serving Benchmark.  It adds an EXTEND
operation, which appends to the fields of a record, and scripts that age a
database with it and measure the database before and after.  A run of the
benchmark is one JVM: `Client.main()` starts client threads, each with its own
binding object, and the threads draw keys from generators they share, call the
binding, and record latencies in measurement objects they share.  The load phase
and the transaction phase are two JVMs on one database.

This directory models the parts of that program in which something can go wrong
that a test would hardly reach: generators shared without a lock, statement
sequences another thread can split, static state that the first and the last of
several objects set up and tear down, batches that outlive the call that filled
them, threads that wait for each other.  What is left out, and why, is at the end.

Paths below are relative to the repository; `core/` stands for
`core/src/main/java/site/ycsb/`.

## 1. Inventory

### 1.1 The parts and how they interact

```
 experiment scripts --(workload file, one JVM after the other)--> Client.main
 Client.main --starts, joins, interrupts--> ClientThread*, StatusThread, TerminatorThread
 ClientThread --doInsert / doTransaction--> CoreWorkload | TimeSeriesWorkload
 CoreWorkload --nextValue, lastValue, acknowledge--> key generators (shared)
 CoreWorkload --read, update, insert, scan, extend--> DBWrapper --> DB (one per thread)
 DBWrapper --measure, reportStatus--> Measurements (shared) <--getSummary-- StatusThread
 DB.extend --read, update--> the binding itself
 RocksDBClient, MongoDbClient --static state--> one database handle per JVM
 JdbcDBClient --> one connection per shard and per thread
```

| part | state | operations | what is hard | what makes it correct |
|---|---|---|---|---|
| `AcknowledgedCounterGenerator`, `CounterGenerator` | counter, window of booleans, volatile limit, lock | nextValue, acknowledge, lastValue | unlocked reads and plain stores beside a locked scan; slots that stand for many keys; a try-lock that gives up | lastValue() reports acknowledged keys only; no key is rejected that fits; an acknowledged key comes to be reported |
| `CoreWorkload` | shared key sequences, per-thread retry counts | init, doInsert, doTransactionInsert, nextKeynum and the operations on its key | inserts that fail, are retried, or are applied and reported as failed; two phases that must agree about the table | the load is complete; new keys are new; keys chosen for reads were inserted; choosing ends |
| `Client`, `ClientThread`, `StatusThread`, `TerminatorThread`, `Workload` | stop flag, latch, interrupts, counts | start, loop, stop, join, report, export | joins, latch and interrupts across four kinds of threads, of which some fail early | exported totals are exact; a stop is prompt; cleanup precedes export; the run ends |
| `DB.extend` and the record operations | the record, consumable value iterators | read, append, update; get, merge, put | two to four steps on a record that others write | atomic unless overtaken; no field is lost; the length cap holds; an extend does not shorten |
| `RocksDBClient` | static database, handles, reference count, locks; `CF_NAMES` on disk | init, createColumnFamily, operations, cleanup | first and last client, double-checked creation, kills, restarts on the same directory | no use after close; open while referenced; created once; a clean directory reopens |
| `JdbcDBClient` | row counter, batch per shard, open transaction per shard | insert in four modes, cleanup | partial batches, partial failures, retries of rows already applied, one counter for several shards | OK means committed; batched rows arrive; a batch stays bounded |
| `MongoDbClient` (and `AsyncMongoDbClient`) | static client, INIT_COUNT, pending documents | init, cleanup, insert | count outside the lock; a flush test by equality; no flush in cleanup | a client has the one open connection; a reported document is written or in the list |
| `DBWrapper`, `Measurements` and the measurement classes | maps, counters, windows, histograms | measure, reportStatus, getSummary, exportMeasurements | counters read and reset while they are updated | every measured operation is in the totals, and in one window |
| `ZipfianGenerator`, `SkewedLatestGenerator` | item count, zetan, eta | nextLong with a growing item count | the item count is set before the constants computed from it | draws are in range, by constants of one item count |
| other generators | tables | nextValue | boundaries | the right range |
| `TimeSeriesWorkload` and its generators | per-thread key, tag and time cursors | nextDataPoint, doInsert, doTransaction* | an odometer of tags, keys and timestamps; a partition of the keys | every series is written once per timestamp |
| experiment scripts | the workload file, databases, result files | load, extend, run, reference, clean-run and avg-run phases | a file edited in place across phases and restarts | each phase runs with its own parameters |
| `backup_rocksdb`, `load_rocksdb`, `test` (`rocksdb_dumpandload`) | a directory, a backup directory, what the process holds | back up, restore, list column families | failures and kills between calls; directories that runs change; deletes at every return | an exit code of 0 means saved or restored; no backup is lost; nothing stays open |
| `GoodBadUglyDB`, `BasicDB`, `CommandLine`, `RestWorkload`, about forty other bindings, `analysis`, `doc`, `bin` | little or external | - | - | - |

### 1.2 Hazards

`PROJECT.json` lists the hazards at the lines where they bite, each with the
properties that would catch it, or with the reason why none does.  Some
smaller ones are not in that list: `doInsert()` and `nextKeynum()` truncate keys
to `int` (`core/workloads/CoreWorkload.java:730`); `extendproportion` is parsed
without a default (`core/Client.java:313`); a RuntimeException in one client ends
the JVM with status 0 (`core/ClientThread.java:149`); with `dataintegrity`, one
extend makes every later `verifyRow()` fail (`core/workloads/CoreWorkload.java:659`);
`Math.abs(hashCode())` may be negative (`JdbcDBClient.java:132`); a binding's latest
distribution never yields key 0 (`core/generator/SkewedLatestGenerator.java:39`);
an operation of which every call failed is exported with averages of 0/0; the
time series timestamp and `totalHistogram` have orderings of their own; the
scripts skip the first key of their size log as a header that is not there.

## 2. Plan

The modules, in the order of the importance of the behaviour, each followed by its
proofs:

1. `AckCounter`, with `KeySequence` as its abstract specification: the one data
   structure of the program that is written for concurrency;
2. `CoreWorkload`, composed with `KeySequence` in the place of the counter;
3. `ClientRun`: the threads of a run;
4. `RecordOps`: EXTEND, the operation this fork adds;
5. `RocksDBClient`, `MongoDbClient`, `JdbcDBClient`: the bindings with state, which
   are those the fork's experiments use;
6. `Measurements`: what a run reports of itself;
7. `BackupRestore`, `ExperimentScript`: the programs around the runs.

Every module keeps one action per operation, states its assumptions on constants by
name, and declares no RECURSIVE operator, so that it can be proved about; section 6
has the proofs.  `ClientRunProofs` is about `ClientRun` and `Measurements`,
`BackupRestoreProofs` about `BackupRestore` and `ExperimentScript`.  Each extends both
modules it is about, so the definitions of the second have names of their own
(`MeasurementsInit`, `ScriptNext`, ...).

Worth adding, if this code changes: `TimeSeriesWorkload` against the abstract
specification "every series once per timestamp"; the MariaDB script, should it come
to differ from the MongoDB one in more than its commands; a bound on what the
summaries of the histogram and time series kinds can lose or repeat.

## 3. The modules

Each `MC` module extends a specification for TLC (model values, symmetry); each
`.cfg` is a run.  A definition marked *(wrong)*, or named as such in a comment of its
module, is no part of the specification: it is a plausible slip in the definition
that follows it, and the properties are tested by putting it in its place.

### 3.1 KeySequence, AckCounter: the insert keys of the transaction phase

`AckCounter` has one action for each access of `nextValue()` and `acknowledge()` to
shared state.  `counter`, `window`, `limit` and `lock` are the fields; `index` and
`beforeFirstSlot` are the locals of the lock owner's scan; `key` is the value a
thread acknowledges; `acked` is a history variable.

| action | code (`core/generator/AcknowledgedCounterGenerator.java`) |
|---|---|
| NextValue | CounterGenerator.nextValue(), getAndIncrement |
| CheckSlot | `if (window[currentSlot]) throw` |
| StoreSlot, Flush | `window[currentSlot] = true`, and the moment the store is seen |
| TryLock, TryLockFails | `lock.tryLock()` |
| ScanSlot, ClearSlot | the for loop and its break |
| PublishLimit, Unlock | `limit = index - 1`, `lock.unlock()` |

The window is a plain array, so a mark is first in the write buffer of its thread
(`unflushed`) and reaches the memory later.  A successful tryLock() and
getAndIncrement() are read-modify-write instructions and wait for the buffer; a
failed tryLock() only reads the lock word.  Other reorderings of plain
accesses, which the Java memory model also allows, are not modelled.  `WINDOW_SIZE`
(2^20) is a constant, and masking is the remainder.

The loop guard `index != beforeFirstSlot` compares an unmasked index with a masked
slot.  For `limit >= 0` it is never false before the scan meets a gap, so the scan
may go round the window as far as there are marks; for `limit = -1`, a counter that
starts at 0, it would stop one slot early.  The class allows that start and the program
has none: CoreWorkload takes a recordcount of 0 for Integer.MAX_VALUE
(`core/workloads/CoreWorkload.java:514`).  The model keeps the condition as it is, which
is why ScanStopsAtGap is proved under `CountStart > 0`.

`KeySequence` is what the rest of the program relies on: keys are issued in order,
acknowledged once each, and limit moves forward over acknowledged keys.

### 3.2 CoreWorkload: keys through the load and the transaction phase

The load phase (`LoadNext`, `LoadOk`, `LoadFails`: doInsert with its retry loop) has
threads with the shares of `Client.initDb()`.  An insert is applied and
reported, or reported as failed and applied or not.  A thread whose insert failed for
good leaves its loop, as ClientThread does.  `StartRun` is the next JVM.  The
transaction phase has `doTransactionInsert` (`RunNextKey`, `RunInsert`, `RunAck`; the
acknowledge is in a `finally` block) and `nextKeynum` (`RunPick`, `RunDraw`,
`RunAccept`, `RunUse`), where the draw and the check read lastValue() separately.
`transactioninsertkeysequence` is an instance of KeySequence: AckCounter is shown to
implement it, so its steps need not be repeated here; `RunAdvance` is the moment some
acknowledge() moves limit.

Choosers are their ranges: uniform, sequential and hotspot cover the client's
records; zipfian the records and the expected new keys; latest `1 .. lastValue()`;
exponential also -1, for a draw above lastValue().  Both defaults of `insertcount`
(that of `CoreWorkload.init()` and that of `Client.initDb()`) are in the model:
with `InsertCount = Unset` and `InsertStart > 0` they disagree, the load writes keys
that the transaction phase issues again, and FreshKeys fails (the mutant AllRecords
is that disagreement).  No document says which of the two is meant.

CoreAssumption leaves out counts of 0.  A recordcount of 0 means Integer.MAX_VALUE to
CoreWorkload, and an operation count of 0 no limit to ClientThread (ClientThread.java:122):
such a load, or transaction phase, ends by a stop request only, which is ClientRun's
business (`Quotas` has the 0 there).

### 3.3 ClientRun: starting, stopping, counting, leaving

One action per step of `main()`, `ClientThread.run()`, `TerminatorThread.run()` and
`StatusThread.run()` that another thread can see.  `latch` starts at threadcount,
although initDb() may create fewer threads; a client that fails to initialise
ends without counting down and without cleanup, and a blocked operation is never
interrupted: all three are the code's.  The theorems hold of any such threadcount; in
the run it is the number of clients, so that the latch opens when every client gets
into its loop and stays closed when one fails.  Without an operation limit the counts
saturate at `OpCap`.

### 3.4 RecordOps: EXTEND and the writes it races with

A field value is the sequence of the pieces it was built from, so the properties
can tell what was appended to what.  `Begin` is the workload's side (build the
values, call the DB), `ExtendRead` is `DB.extend()` up to its update, with the length
check and the consumption of the iterator (`Leftover`), and the update is get, merge
and put for RocksDB, one statement for MongoDB and JDBC.  `overtaken` records the
operations whose record was written since they read it.

### 3.5 RocksDBClient: the shared database over runs, kills and restarts

`open` is null (0) or the number of the opening, so that a handle of an earlier
opening can be told from one of this opening.  `init()` is one action (its body is
synchronized on the class and nothing in it is visible before it ends), `cleanup()` is
four, since a kill can come between the close, the truncation of `CF_NAMES` and the
writing of it, and operations do not take the class lock.  RocksDB itself is external:
an open fails unless every column family of the directory is listed, and missing
ones are created.

### 3.6 JdbcDBClient: batches, commits, shards

Connections are `1 .. MaxShards`; the shard of each row is chosen in the initial
state, for every function from rows to shards.  `Insert` is one call of insert()
in one of its modes (batch API or not, autocommit or not, a batch size or none); a
failing statement leaves any part of its rows applied.  doInsert() may insert a failed
row again, also when it was applied.

### 3.7 MongoDbClient: one connection, counted outside its lock

`mongoClient` and `database` are the numbers of the connections they belong to (0 for
null), so that a closed one can be told from its successor; `live` holds those not
closed.  `init()` is the count (`InitCount`, before the lock) and its synchronized part
(`InitFinds`, `InitOpens`, `InitFails`: an exception is printed and init() returns);
`cleanup()` is the count and the three assignments of its finally block
(`CleanupCount`, `CleanupClose`, `CleanupForget`, `CleanupEnds`), without a lock.
`GetCollection` and `Insert` are apart, since the connection may be closed in
between.  `bulkInserts` is the list of a client: added to, written when its length
EQUALS the batch size, and cleared after the write, so that an exception leaves it.
`exposed` is a history variable: the clients whose init() began while another one was
closing, or failed; the properties about connections speak of the others.  Upserts
write a document again, inserts fail when it is there.  For upserts in bulk that is
what the code means to do: it passes whole documents to UpdateOneModel
(MongoDbClient.java:278-285), which the driver, as it asks for update operators, is
likely to reject; that is the driver's and not modelled.

### 3.8 Measurements: counters, windows and status codes

READ stands for every operation.  A client thread goes through `Operate` (the
operation returns), `Lookup` and `Construct` (get, then putIfAbsent), the measure() of its
object, and the same for the status code (`Code`, `AddCounter`, `Count`).  The four
kinds of object differ in what is atomic: `MeasureHdr` (the recorder), `MeasureRaw`
(a monitor for both sides), `MeasureHistogram`/`EndHistogram` (measure() has the
monitor, getSummary() has not), `MeasureSeries`/`WriteSeries`/`EndSeries` (no lock at
all).  The status thread visits the objects and summarizes each (`SwapHdr`,
`AccumulateHdr`, `SummarizeRaw`, `ReadWindow`, `ResetWindow`); `ExportMeasurements` is
main() after the joins of ClientRun.  An object is known by its name and the thread that
constructed it, so that a lost putIfAbsent() would show.  `measured`, `returned` and
`summed` are history variables.

### 3.9 BackupRestore: saving and restoring a RocksDB directory

The three programs of `rocksdb_dumpandload` run one at a time, beside runs of YCSB
(`RunOpens`, `RunWrites`, `RunEnds`, `RunKilled`, which are RocksDBClient reduced
to what the directory shows).  A program's `pc` is the RocksDB call it is about to
make; each call succeeds or fails as the state of directory and backups says, or
fails on its own (`Fault`), and each error path goes to `Release`, which deletes what is
held in the order of the code.  `CF_NAMES` is YCSB's file and no part of a backup,
so a restored directory may have the old one or none.  RocksDB is external: a restore
first breaks the directory (`whole`), a backup gets its id when it is complete.  One
thing is assumed of the people who run it: no run is on a directory while
load_rocksdb replaces it (`Restoring`, `StartLoad`).

### 3.10 ExperimentScript: phases over one edited file

`file` is the workload file as far as the script edits it, `shell` the variables
`source` set from it when it was last sourced, `opscount`, `histogram` and `average` the
script's own: the operation count it puts back, the iteration of which the histogram file
is, and what had been done to the database of which the average field length was taken.
A database is the set of what has been done to it.  Each edit, YCSB process, dump and
drop is an action.  `Interrupt` ends the script anywhere, and `Start` begins anew with
the file, the histogram and the copy as they were left.

A YCSB process may fail (`Fails`), or be refused (`Accepted`): the loads and extensions do
not name the histogram file that a leftover line makes CoreWorkload look for, and a
histogram that counts no record makes the first draw throw (nextInt(0)), upon which
ClientThread exits.  The script does not look and goes on, and write_result adds a row
all the same, without results (`results` in `Row`).  An update is no upsert and an extend
is an update, so a database that was never loaded stays without a collection (`Done`).
mongorestore --drop drops the collections that the dump has: the dump of such a database
leaves the copy as it is (`Restored`).  MongoDB's own tools are taken not to fail.

A row records the parameters it was written with (`written`, the shell's), those its
process ran with (`used`, the file's), the histogram and the average of that moment, and
what had been done to its database.  `rows` is a history variable: a start empties
OUTPUT_FILE, the model keeps the rows with the number of their start.

## 4. What the runs show

| run | configuration | result |
|---|---|---|
| ack_safety | 3 threads, 4 slots, 6 keys: the keys wrap the window | nothing unacknowledged is reported, nothing is rejected, scans stop at gaps, the window implements KeySequence, the lock is given back |
| core_keys | 2 threads, 4 records of which this client loads 3, 4 operations, one fault in either phase, one retry | the load is complete, new keys are new, a chosen key is stored or its own insert failed, choosing ends |
| run_safety | 2 clients, quota 2 or none, terminator and status thread, failing inits, one client that may block | totals are exact, stop is prompt, cleanup precedes export, the run ends unless a client is blocked |
| record_ops | 2 clients, 2 keys of which 1 is loaded, 2 fields, 3 bindings, 4 operations | atomic unless overtaken, complete fields, the cap holds |
| extend_shortens | one client | **fails**: extending a field at the cap empties it, because toString() consumed the iterator that is written back |
| rocks_life | 3 clients, 2 tables, 3 runs, 4 openings, 1 fault | no use after close, exact references, one creation per family, clean directories reopen |
| jdbc_batches | 1 or 2 shards, batch sizes 0, 2, 3, five rows, 2 faults | OK means committed, one connection keeps its rows, batches are bounded |
| mongo_life | 3 clients, batch sizes 1 and 2, three documents each, one failure, one retry | a client has the one connection, a reported document is written or listed |
| measuring | 2 threads of two and one operations, four kinds, three intervals, a summary besides the last | exported totals and status codes are exact, a time series stays within bounds, atomic windows partition the measurements |
| backups | 2 directories, 2 tables, 3 writes, 2 backups, one fault | exit codes tell the truth, a restore brings back what was saved, backups stay |
| experiment | 3 starts, 3 iterations, 2 interruptions or failures | rows tell how YCSB ran, the phases with results are alike, none is without results unless something failed, each runs on the database meant for it |
| reference_sizes | one start without failures | **fails**: the reference database is written with the lengths of the extended one |

The type invariants of the modules with a theorem TypeCorrect, and BatchBounded of
MongoDbClient, Recoverable and Released of BackupRestore, are not among the runs'
properties: they are proved (section 6).

The two runs that fail are disagreements between the code and a comment of the
repository; `PROJECT.json` quotes each.

Deadlock is not checked in any run: every one of these systems may stop (all
operations done, all clients gone, the JVM left), and TLC would report that.  That
nothing stops too early is the business of the liveness properties LockReleased,
PickEnds and RunEnds.

### Bounds

The names of the bounds are in the CONSTANTS section of each module, marked BOUND.
`ack_safety` needs more keys than slots, so that slots are reused, and three threads,
so that a mark can fall behind the owner's scan while another thread's tryLock fails;
the theorems of section 6 remove the bounds.  `core_keys` has fewer operations than
would exhaust the keys but lets two inserts overlap two choices; one fault with one
retry is the boundary of LoadComplete.  `rocks_life` has three clients so that a late
init() can meet a last cleanup() while another client operates, and three runs
so that a run can follow one that followed a kill.  Five rows with batches of 2 and
3 reach a second batch and a partial one for each size.  `MaxLead` in AckCounter is
also an assumption on the environment: no more keys in flight than slots.  The code
does not enforce it (section 5); with 2^20 slots it means fewer than a million
unacknowledged inserts above a gap, which a thread that stalls between its insert and
acknowledge() long enough can break.

In `mongo_life`, three clients are what a late init() needs to meet a last cleanup()
while a third one operates; three documents with batches of two leave a partial list,
and one failure with one retry puts a document into a list twice.  In `measuring`, the second
operation of a thread meets objects that exist and the first one does not; one
summary may fall between any two steps of both threads, and another follows the last.
In `backups`, the second backup differs from the first, so that restoring the wrong
one shows, and a restore can follow a kill of a restore.  In `experiment`, the
script's exit comes at the third iteration instead of the fifth (`ExitAt`): each edit
has then been made on a fresh file, and on one that an iteration and a start left.

### Fairness

* AckCounter: a thread inside acknowledge() is scheduled, write buffers drain.  No
  thread has to ask for another key.
* CoreWorkload: threads run and the next phase is started (the scripts do); a chooser
  that is asked again and again comes to draw an inserted key (strong fairness of that
  draw, which a random chooser has with probability 1).
* ClientRun: every thread is scheduled.  The status thread is strongly fair in
  looking at latch and interrupt: with an interval greater than zero it is not late at
  every deadline.  With an interval of zero the action is never enabled, and strong
  fairness says nothing.

## 5. Behaviour worth knowing

What the code does that may surprise, or that a property has to except, with the text
of the repository that says otherwise where there is one.  Most are behaviours of the
model, shown by dropping the premise of the property named.

* A thread whose tryLock() fails after the owner's scan has stopped leaves its
  acknowledged key unpublished until a later insert, and for good if it was the last
  (ScanStopsAtGap speaks of visible marks).
* More keys in flight than slots: a mark is taken for that of a key a lap earlier,
  and lastValue() passes an unacknowledged key (`MaxLead <= WindowSize`).
* The loop condition of the window scan compares a slot with an index (3.1).
* A key whose insert failed is acknowledged, and chosen (`failed` in
  ChosenKeyAttempted).
* The two defaults of `insertcount` (3.2).
* A load of which a thread gave up is followed by the transaction phase as if it were
  complete (LoadComplete holds up to the retry limit).
* `status.interval` of 0: the status thread is late at every deadline, looks at neither
  latch nor interrupt, and main() waits for it for ever (`ZeroInterval`).
* The comment of TerminatorThread says that it "interrupts all the client threads"
  (TerminatorThread.java:22); the code requests a stop and joins them.  A client that
  waits for its store is not reached, and main() waits for it for ever (the premise of
  RunEnds).
* A client whose initThread() fails leaves its database open and the latch closed
  (CleanBeforeExport speaks of clients that entered their loop).
* A RocksDB directory whose run was killed after a column family was created cannot be
  opened again (CleanRunsReopen speaks of clean runs); nor can a restored one
  by YCSB when `CF_NAMES` is missing (`RunOpens`).
* JDBC with several shards: at a multiple of the batch size cleanup() takes the half-full
  batches of the shards for finished ones and drops their rows, against its own
  comment, "commit un-finished batches" (JdbcDBClient.java:261; `OneShard` in RowsKept).
  Nor is there a bound on a batch then (`OneShard` in BatchBounded).
* MongoDB: cleanup() drops the documents still in the list, which were reported
  BATCHED_OK; after a failed bulk write the list is beyond the batch size and is never
  written again, as the test is for equality (Accounted counts the list; the
  theorem BatchBoundedAlways has no failures).  An init() that meets a closing may end without a connection
  (`exposed`).  The binding's README names the property `mongodb.batchsize`
  (mongodb/README.md:114); the code reads `batchsize`.
* The summaries of the histogram and time series kinds lose or repeat measurements
  that arrive between their reading and their reset (WindowsPartition speaks of the two
  other kinds).
* The script, started again after its exit, takes the extension's operation count for
  the given one (PhasesComparable speaks of the first start there).
* The script, interrupted between its edits, leaves the average field length for the next
  load (the premise in DatabasesAsMeant) or the histogram line, with which the next loads
  and the first extension are refused: their rows are without results (EveryPhaseReported
  speaks of undisturbed starts).  The database under test is then empty, and so is the dump of it.
  If the interruption was at the clean-run, the copy still has what the earlier start's
  iteration left there; the average field length, and the avg-run with it, are taken of
  that.  The clean-run itself ends without results, for want of a histogram, which is
  what DatabasesAsMeant relies on.

## 6. What is proved

With TLAPS, for every value of the constants that satisfies the named assumptions.

**AckCounterProofs.**  Assumptions: AckAssumption (a window of at least one slot) and
`MaxLead <= WindowSize`.

| theorem | statement |
|---|---|
| TypeCorrect | `Spec => []TypeOK` |
| LimitAckedAlways | lastValue() never reports an unacknowledged key |
| NoFalseOverflowAlways | acknowledge() never throws |
| ScanStopsAtGapAlways | a scan leaves no visible mark behind (with `CountStart > 0`) |
| Refinement | AckCounter implements KeySequence |

LimitAcked is not inductive: it says nothing of the booleans the scan reads.  The
invariant `IInv` says what they mean.  `Front` is the first key no scan has passed
(limit + 1 when the lock is free, the owner's index otherwise).  WindowInv: for the
`WindowSize` keys above limit, a slot is set exactly when its key is marked in the
memory and at or above Front.  PassedInv: every key below Front is marked.  LeadInv
bounds the distance from limit to counter by the window, so that two keys above
limit never share a slot; this is where `MaxLead <= WindowSize` enters, through the
arithmetic lemma ModDistinct.  KeyInv and UnflushedInv keep keys of different
threads different.  Then CheckSlot cannot throw, since a key not yet marked has a
clear slot; ClearSlot passes marked keys only; and each PublishLimit is an
Advance of KeySequence, while every other step is an Issue, an Acknowledge or a
stutter.

**RecordOpsProofs.**  Assumption: RecordAssumption (some key, a cap above 1).

| theorem | statement |
|---|---|
| TypeCorrect | `Spec => []TypeOK` |
| FieldsCompleteAlways | no stored record lacks a field |
| CapKeptAlways | no field reaches the cap |
| AtomicAlways | an operation that is not overtaken has the effect of one atomic step |

The invariant adds to the types what an operation carries between its steps
(CarriedInv): the values of an update are its pieces; the values of an extend that is
not overtaken are those of the record as it is now, extended; the record RocksDB is
about to merge with, if not overtaken, is the record as it is now.  A write by another
client either is on another key or puts the client in `overtaken`, which keeps this
inductive.  CapKept needs no more than that every value in flight is short:
extends race for the last write, they do not add up.

**RocksDBClientProofs.**  Assumption: RocksAssumption, of which the argument needs that
there are finitely many clients: `references` counts them.

| theorem | statement |
|---|---|
| TypeCorrect | `Spec => []TypeOK` |
| OpenWhileReferencedAlways | references is the number of clients that hold the database, which is open exactly then, up to the closing of the last |
| NoUseAfterCloseAlways | no operation is on a closed database or with a handle of an earlier opening |
| CreatedOnceAlways | no column family that exists is created |
| CleanRunsReopenAlways | a directory whose runs all ended through cleanup() can be opened again |

ReferenceInv counts: `references` is the cardinality of the clients between init()
and cleanup().  The other clauses need what the count implies.  ClosingInv: a client that
closes has the class lock and is the only holder, so no other client can be in an
operation (this is where "references = 1" in cleanup() becomes "nobody else").
TableLockInv: the lock of a table is held exactly by the client that is creating it.
HandleInv and FamilyInv: the handles in columnFamilies, and those clients have read, are
of the current opening.  DirectoryInv: while the database is held, every family on
disk is in columnFamilies, is the default, or was created by a client that has the
lock of its table and is about to list it; so the second look under the lock is enough.
NamesInv: when nobody holds the database, and there was no fault, `CF_NAMES` lists
what the directory has.  A kill, or a client that leaves without cleanup(), breaks only
NamesInv, which is why CleanRunsReopen has its premise.

**CoreWorkloadProofs.**  Assumption: CoreAssumption.

| theorem | statement |
|---|---|
| TypeCorrect | `Spec => []TypeOK` |
| ChosenWhenLoaded | `Spec => [](LoadComplete => ChosenKeyAttempted)` |
| LoadCompleteAlways | with FaultsTolerated: when the transaction phase begins, every record is there |
| ChosenKeyAttemptedAlways | with FaultsTolerated: a chosen key is stored, or its own insert failed |
| FreshKeysAlways | with CountsAgree: a transaction inserts no key that is in the table |

SequenceInv: limit passes acknowledged keys only, and each of those has been in an
insert that returned.  KeyInv: a drawn key is not negative, or, for the exponential
chooser, not above limit; the check of nextKeynum() supplies the other half, and limit
only grows between them, so a key in use is in `0 .. limit`.  Below recordcount it is a
record of the load, hence the premise of ChosenWhenLoaded.

That a load is complete depends on the sum of the threads' shares.  The sum is written
as the cardinality of a set with a pair for each key that a thread is still owed
(`Unissued`), and the lemmas about finite sets do what an induction would: the shares of
initDb() make up `loadcount` pairs (SharesAddUp and the arithmetic of quotient and
remainder), and taking a key from the sequence takes one pair away.  LoadInv is then
that keys issued and keys owed are all keys of the load, and that an issued key is in the
store or with one thread.  The two premises are about the constants.  FaultsTolerated
says that the store fails, in the load, no more often than an insert is retried: one
more failure and all may hit one insert, whose thread then gives up and the load ends
without its key.  CountsAgree says that insertcount is given or insertstart is 0, in
which case `Client.initDb()` and `CoreWorkload.init()` take the same default (3.2).

**ClientRunProofs.**  Assumption: RunAssumption (finitely many clients, no more than
threadcount).

| theorem | statement |
|---|---|
| TypeCorrect | `Spec => []TypeOK`; in particular the latch never counts below zero |
| StopIsPromptAlways | after a stop request a client does at most one more operation |
| CleanBeforeExportAlways | when main() exports, every client is done and those that ran have cleaned up |
| TotalsAreFinalAlways | main()'s total, and the last status line, count every operation of every client |

StopInv says that the one operation was begun before the request; JoinInv what main()
has joined where it is, and which clients have cleaned up; LatchInv that the latch is
threadcount less the clients that ran and ended, so that an open latch means that
all have.  TotalInv says that `opsDone` is the total of the clients joined so far, where
a total is the cardinality of a set of pairs, one for each operation of a client
(`Done`), so that joining one more client adds a disjoint set; the total no longer
changes for a client that is done.

The module then proves the properties of `Measurements`.  Assumption:
MeasurementsAssumption (finitely many threads).

| theorem | statement |
|---|---|
| MeasurementsTypeCorrect | `MeasurementsSpec => []MeasurementsTypeOK` |
| ExactTotalsAlways | what is exported of a name is what was measured under it; of a time series, at most that and not nothing |
| StatusBalanceAlways | the exported status counts are the returned statuses, and agree with the measured operations |
| WindowsPartitionAlways | with an atomic window, each measurement is in one summary, in the one being made, or in the open window |

All four follow from one invariant, `MInv`.  WorkInv: a thread that measures or reports
works on the object that the map has for its name.  This is inductive because MapsInv
holds beside it: only the object in the map has counted anything, and putIfAbsent() never
takes one out.  The totals compare each counter with the history, with a correction for
who is between two steps: for HdrHistogram the recorder's window and what the status
thread has in its hands (HdrInv, WindowInv); for the histogram the thread that is in
measure() after its increment, of whom there is one at most, since it is the owner of
the monitor (HistogramInv); for a time series the counter is only bounded, by
the writes that were begun (SeriesInv: `measured` and the threads in `AtWindow`).  A
write that was read before others overwrites them with a smaller number, which is the
update that is lost, but never with 0.  BehindInv is the balance of the status codes:
under each name as many operations are measured as statuses were counted and threads are
between the two.  When main() exports, nobody is (SummaryInv), and the corrections vanish.

**JdbcDBClientProofs.**  Assumption: JdbcAssumption.

| theorem | statement |
|---|---|
| TypeCorrect | `Spec => []TypeOK` |
| OkMeansCommittedAlways | a row reported OK is committed |
| RowsKeptAlways | without failures, on one connection, cleanup() leaves exactly the reported rows |
| BatchBoundedAlways | and fewer than db.batchsize rows ever wait |

OkMeansCommitted is inductive with the types.  The other two rest on CountInv: on one
connection and without failures, the row counter modulo the batch size is the number of
rows that wait, in the batch or for the commit.  Its step is arithmetic
(CountModulo: the remainder goes up by one, or from the last one to 0) and counting
(the new row was not waiting).  RowsInv says that each row before the next one is
applied or in its batch and not both, so that no statement can fail but by a fault.
cleanup() then executes the batch exactly if there is one.

**MongoDbClientProofs.**  Assumption: MongoAssumption (finitely many clients).

| theorem | statement |
|---|---|
| TypeCorrect | `Spec => []TypeOK` |
| ConnectedAlways | a client that is not exposed works on the one open connection |
| OneConnectionAlways | nothing stays open, unless an init() was exposed |
| AccountedAlways | a reported document is written or in the list, OK covers all before it |
| BatchBoundedAlways | until something fails, lists are shorter than a batch |

CountInv: INIT_COUNT is the number of clients between their counts, and while one is
closing, every counted client is exposed; so a client that is not exposed keeps the
count above zero and nobody closes its connection.  ConnectionInv and LiveInv say what
mongoClient, database and the open connections are meanwhile; DocumentsInv and
ListInv which documents are written, listed, or neither.

**BackupRestoreProofs.**  Assumption: BackupAssumption.

| theorem | statement |
|---|---|
| TypeCorrect | `Spec => []TypeOK` |
| SuccessIsSavedAlways | backup_rocksdb made exactly one backup if it ends with 0, and none otherwise |
| RestoredAsSavedAlways | load_rocksdb, ending with 0, has brought back what that backup was made of |
| FamiliesFoundAlways | a restored directory has the two column families |
| RecoverableAlways | a broken directory has a backup to be restored from |
| ReleasedAlways | handles, database and engine are deleted in order, at every return |
| BackupsKeptAlways | no step removes or changes a backup (an action property) |

HoldingInv says what a program holds at each call; SavingInv that the directory does not
change while backup_rocksdb has it open, since RocksDB's lock keeps runs out; BackupsInv
that a backup is what its program found and has two column families, which makes the
check of load_rocksdb succeed; LoadingInv that nothing but load_rocksdb changes
the directory it restores.

The module then proves the properties of `ExperimentScript`.  Assumption:
ScriptAssumption (the exit is at some iteration from 1 on).

| theorem | statement |
|---|---|
| ScriptTypeCorrect | `ScriptSpec => []ScriptTypeOK`; in particular no database has loads of two lengths |
| ScriptRowsTell | a row names the parameters and the count its YCSB process was given |
| ScriptPhasesComparable | the phases that are compared ran with the same parameters and count, and those with results with the histogram of their iteration |
| ScriptDatabasesAsMeant | the reference is never extended; a run on the copy with results is on what the run of its iteration left; the average is of the database that the run on the copy had, the avg-run on a fresh load |
| ScriptEveryPhaseReported | without failures every phase of an iteration has a row with results |

FileInv says which parameters the file has at each place of the script, and that the
shell's differ from them only in the line of the histogram; it survives an interruption,
since `Start` finds any file the script can have left, and it says of such a file only what
every place has in common (`interrupted`).  DbInv says what has been done to each database,
and what makes an old copy harmless to the clean-run: a histogram with records is one of a
database under test that is loaded, which the dump then puts in the place of the copy.
UndisturbedInv: before the first failure it is loaded.  RowInv says that no row is ahead of
its iteration; LeftInv that what the phases still to come of an iteration find is what
those with a row left, which relates the rows of two phases and the average to each other;
ReportInv, for an undisturbed start, which rows are there at each place.

**Not proved, and only model-checked**: the liveness properties LockReleased, PickEnds
and RunEnds, which need fairness and ENABLED.  Every invariant of the runs that pass is the
subject of a theorem.

## 7. What is not modelled

* `src/rocksdb_dumpandload/include` is a vendored copy of RocksDB's public headers.
  They are by far the most of the C++ code of this repository, and they are declarations:
  there is nothing in them that this program does.  The three C++ programs themselves
  are modelled in full but for the check of their arguments (the number of
  them, and std::stoi() of the backup id, which throws on a word).
* `TimeSeriesWorkload` and its generators: no experiment of this fork runs them; their
  hazards are arithmetic of single calls.  `RestWorkload`, `ConstantOccupancyWorkload`:
  variants of CoreWorkload in what the model leaves out.
* Distributions beyond their range: the zipfian generators compute in floating point.
* `AsyncMongoDbClient`: MongoDbClient for another driver, with a batch test that is not an
  equality.
* Values: field contents other than pieces, `dataintegrity`, the operation mix, scan
  lengths; throttling and intended start times; latencies.
* Parsing and formatting: properties, exporters, CommandLine, JSON, CQL.
* The MariaDB and baseline scripts, which are variants of the MongoDB one; monitoring and
  the layout of result files.
* Other bindings: adapters to drivers that are not in the repository.
* The inside of the databases: a statement takes effect at once or fails; what
  survives a kill is what RocksDB's directory holds.
* Reads, scans and deletes of the bindings, which change no state of the program.
