---------------------------- MODULE RocksDBClient ----------------------------
(***************************************************************************)
(* The life of the database that the RocksDBClients of one JVM share, over *)
(* several runs on the same directory: opened by the first init(), closed  *)
(* by the cleanup() that finds one reference, its column families created  *)
(* by the first operation on a table and listed in the file CF_NAMES for   *)
(* the next run.  A run may be killed at any moment.  Operations on the    *)
(* data are RecordOps.                                                     *)
(***************************************************************************)
EXTENDS Integers, FiniteSets

CONSTANTS
  Clients,   \* the client threads of a run, each with its RocksDBClient
  Tables,    \* the tables they use
  NoOne,     \* a lock that is free
  MaxRuns,   \* BOUND: runs on the same directory
  MaxOpens,  \* BOUND: openings of the database
  MaxFaults  \* BOUND: kills, and clients that leave without cleanup()

ASSUME RocksAssumption ==
  /\ IsFiniteSet(Clients) /\ NoOne \notin Clients
  /\ Tables # {} /\ "default" \notin Tables
  /\ {MaxRuns, MaxOpens, MaxFaults} \subseteq Nat

VARIABLES
  disk,          \* the column families in the database directory
  cfNames,       \* the lines of CF_NAMES, empty when there is no such file
  run, opens, faults,  \* runs begun, openings, faults so far
  open,          \* rocksDb: which opening it is, 0 when null
  references,    \* references
  columnFamilies,  \* COLUMN_FAMILIES: name -> the opening its handle is of
  classLock,     \* the owner of RocksDBClient.class, while cleanup() closes
  tableLock,     \* COLUMN_FAMILY_LOCKS
  pc, table,     \* where each client is, and the table of its operation
  handle         \* the column family handle its operation uses

disks == <<disk, cfNames>>
counts == <<run, opens, faults>>
shared == <<open, references, columnFamilies>>
locks == <<classLock, tableLock>>
locals == <<pc, table, handle>>
vars == <<disks, counts, shared, locks, locals>>

Goto(c, to) == pc' = [pc EXCEPT ![c] = to]
NoFamilies == [t \in {} |-> 0]

\* The definitions marked (wrong) are variants of the definition after them,
\* with which the properties are tested.

\* A JVM that has loaded the class.
FreshJVM ==
  /\ open' = 0 /\ references' = 0 /\ columnFamilies' = NoFamilies
  /\ classLock' = NoOne /\ tableLock' = [t \in Tables |-> NoOne]
  /\ pc' = [c \in Clients |-> "new"]
  /\ handle' = [c \in Clients |-> 0]
  /\ UNCHANGED table

Init ==
  /\ disk = {} /\ cfNames = {}
  /\ run = 1 /\ opens = 0 /\ faults = 0
  /\ open = 0 /\ references = 0 /\ columnFamilies = NoFamilies
  /\ classLock = NoOne /\ tableLock = [t \in Tables |-> NoOne]
  /\ pc = [c \in Clients |-> "new"]
  /\ table = [c \in Clients |-> CHOOSE t \in Tables : TRUE]
  /\ handle = [c \in Clients |-> 0]

-----------------------------------------------------------------------------
(* init()                                                                   *)

\* RocksDB.open fails unless every column family of the database is listed;
\* "default" always exists.
Opens == disk \ {"default"} \subseteq cfNames

\* references++
OneMore == references + 1

InitFirst(c) ==
  /\ pc[c] = "new" /\ classLock = NoOne
  /\ open = 0 /\ opens < MaxOpens
  /\ Opens
  /\ opens' = opens + 1
  /\ open' = opens + 1
  /\ columnFamilies' =
       [t \in DOMAIN columnFamilies \cup cfNames |->
          IF t \in cfNames THEN opens + 1 ELSE columnFamilies[t]]
  /\ disk' = disk \cup cfNames \cup {"default"}
  /\ references' = OneMore
  /\ Goto(c, "inited")
  /\ UNCHANGED <<cfNames, run, faults, locks, table, handle>>

\* The DBException ends the client thread.
InitFails(c) ==
  /\ pc[c] = "new" /\ classLock = NoOne
  /\ open = 0
  /\ ~Opens
  /\ Goto(c, "failed")
  /\ UNCHANGED <<disks, counts, shared, locks, table, handle>>

InitOther(c) ==
  /\ pc[c] = "new" /\ classLock = NoOne
  /\ open # 0
  /\ references' = OneMore
  /\ Goto(c, "inited")
  /\ UNCHANGED <<disks, counts, open, columnFamilies, locks, table, handle>>

\* workload.initThread(): if it fails, the thread ends without cleanup().
InitThread(c) ==
  /\ pc[c] = "inited"
  /\ \/ Goto(c, "ready") /\ UNCHANGED faults
     \/ faults < MaxFaults /\ faults' = faults + 1 /\ Goto(c, "left")
  /\ UNCHANGED <<disks, run, opens, shared, locks, table, handle>>

-----------------------------------------------------------------------------
(* read(), scan(), update(), insert(), delete()                             *)

Known(t) == t \in DOMAIN columnFamilies

Begin(c) ==
  /\ pc[c] = "ready"
  /\ \E t \in Tables :
       /\ table' = [table EXCEPT ![c] = t]
       /\ Goto(c, IF Known(t) THEN "get" ELSE "lock")
  /\ UNCHANGED <<disks, counts, shared, locks, handle>>

\* createColumnFamily(): l.lock()
Lock(c) ==
  /\ pc[c] = "lock"
  /\ tableLock[table[c]] = NoOne
  /\ tableLock' = [tableLock EXCEPT ![table[c]] = c]
  /\ Goto(c, "check")
  /\ UNCHANGED <<disks, counts, shared, classLock, table, handle>>

NoRecheck(c) == FALSE                                              \* (wrong)
CreatedMeanwhile(c) == Known(table[c])

Recheck(c) ==
  /\ pc[c] = "check"
  /\ Goto(c, IF CreatedMeanwhile(c) THEN "unlock" ELSE "create")
  /\ UNCHANGED <<disks, counts, shared, locks, table, handle>>

\* rocksDb.createColumnFamily()
Create(c) ==
  /\ pc[c] = "create"
  /\ disk' = disk \cup {table[c]}
  /\ handle' = [handle EXCEPT ![c] = open]
  /\ Goto(c, "put")
  /\ UNCHANGED <<cfNames, counts, shared, locks, table>>

\* COLUMN_FAMILIES.put()
Put(c) ==
  /\ pc[c] = "put"
  /\ columnFamilies' =
       [t \in DOMAIN columnFamilies \cup {table[c]} |->
          IF t = table[c] THEN handle[c] ELSE columnFamilies[t]]
  /\ Goto(c, "unlock")
  /\ UNCHANGED <<disks, counts, open, references, locks, table, handle>>

Unlock(c) ==
  /\ pc[c] = "unlock"
  /\ tableLock' = [tableLock EXCEPT ![table[c]] = NoOne]
  /\ Goto(c, "get")
  /\ UNCHANGED <<disks, counts, shared, classLock, table, handle>>

GetHandle(c) ==
  /\ pc[c] = "get" /\ Known(table[c])
  /\ handle' = [handle EXCEPT ![c] = columnFamilies[table[c]]]
  /\ Goto(c, "use")
  /\ UNCHANGED <<disks, counts, shared, locks, table>>

\* The calls on rocksDb with the handle, and the return.
Use(c) ==
  /\ pc[c] = "use"
  /\ Goto(c, "ready")
  /\ UNCHANGED <<disks, counts, shared, locks, table, handle>>

-----------------------------------------------------------------------------
(* cleanup()                                                                *)

AnyOut == TRUE                                                     \* (wrong)
NoneLeft == references = 0                                         \* (wrong)
LastOut == references = 1

CleanupOther(c) ==
  /\ pc[c] = "ready" /\ classLock = NoOne
  /\ ~LastOut
  /\ references' = references - 1
  /\ Goto(c, "done")
  /\ UNCHANGED <<disks, counts, open, columnFamilies, locks, table, handle>>

\* Handles and database are closed.
CleanupClose(c) ==
  /\ pc[c] = "ready" /\ classLock = NoOne
  /\ LastOut
  /\ classLock' = c
  /\ open' = 0
  /\ Goto(c, "closed")
  /\ UNCHANGED <<disks, counts, references, columnFamilies, tableLock, table, handle>>

\* saveColumnFamilyNames(): the file is truncated, and written.
CleanupTruncate(c) ==
  /\ pc[c] = "closed"
  /\ cfNames' = {}
  /\ Goto(c, "truncated")
  /\ UNCHANGED <<disk, counts, shared, locks, table, handle>>

UsedByMe(c) == {"default", table[c]}                               \* (wrong)
NamesToSave(c) == {"default"} \cup DOMAIN columnFamilies

CleanupSave(c) ==
  /\ pc[c] = "truncated"
  /\ cfNames' = NamesToSave(c)
  /\ columnFamilies' = NoFamilies
  /\ references' = references - 1
  /\ classLock' = NoOne
  /\ Goto(c, "done")
  /\ UNCHANGED <<disk, counts, open, tableLock, table, handle>>

-----------------------------------------------------------------------------
\* The process is killed, or ends because no client thread is left; the next
\* run is on the same directory.
RunOver == \A c \in Clients : pc[c] \in {"done", "left", "failed"}

NextRun ==
  /\ RunOver
  /\ run < MaxRuns /\ run' = run + 1
  /\ FreshJVM
  /\ UNCHANGED <<disks, opens, faults>>

Kill ==
  /\ ~RunOver
  /\ run < MaxRuns /\ run' = run + 1
  /\ faults < MaxFaults /\ faults' = faults + 1
  /\ FreshJVM
  /\ UNCHANGED <<disks, opens>>

InitDB(c) == InitFirst(c) \/ InitFails(c) \/ InitOther(c) \/ InitThread(c)
Operation(c) ==
  \/ Begin(c) \/ Lock(c) \/ Recheck(c) \/ Create(c) \/ Put(c) \/ Unlock(c)
  \/ GetHandle(c) \/ Use(c)
Cleanup(c) ==
  CleanupOther(c) \/ CleanupClose(c) \/ CleanupTruncate(c) \/ CleanupSave(c)

Next == NextRun \/ Kill \/ \E c \in Clients : InitDB(c) \/ Operation(c) \/ Cleanup(c)

Spec == Init /\ [][Next]_vars

-----------------------------------------------------------------------------
PCs == {"new", "failed", "inited", "ready", "left", "lock", "check", "create", "put",
        "unlock", "get", "use", "closed", "truncated", "done"}

TypeOK ==
  /\ disk \subseteq Tables \cup {"default"}
  /\ cfNames \subseteq Tables \cup {"default"}
  /\ run \in Nat /\ opens \in Nat /\ faults \in Nat
  /\ open \in 0 .. opens
  /\ references \in Nat
  /\ DOMAIN columnFamilies \subseteq Tables \cup {"default"}
  /\ columnFamilies \in [DOMAIN columnFamilies -> 0 .. opens]
  /\ classLock \in Clients \cup {NoOne}
  /\ tableLock \in [Tables -> Clients \cup {NoOne}]
  /\ pc \in [Clients -> PCs]
  /\ table \in [Clients -> Tables]
  /\ handle \in [Clients -> 0 .. opens]

\* Clients between init() and the end of cleanup(), and those that never reach
\* it.
Holders == {c \in Clients : pc[c] \notin {"new", "failed", "done"}}

\* No operation is on a closed database or with a handle of an earlier opening,
\* wherever the other clients are in init(), cleanup() or a reopening.
NoUseAfterClose ==
  \A c \in Clients :
    /\ pc[c] \in {"inited", "ready", "lock", "check", "create", "put", "unlock",
                  "get", "use"} => open # 0
    /\ pc[c] = "use" => handle[c] = open

\* The database is open as long as somebody counts on it and no longer, except
\* while the last client is saving the names.
OpenWhileReferenced ==
  /\ references = Cardinality(Holders)
  /\ open # 0 <=> Holders # {} /\ classLock = NoOne

\* Two first operations on a table create its column family once.
CreatedOnce == \A c \in Clients : pc[c] = "create" => table[c] \notin disk

\* As long as no run was killed and every client has cleaned up, the next
\* opening finds every column family of the directory listed, also those that
\* other clients of earlier openings have created.
CleanRunsReopen == faults = 0 => \A c \in Clients : pc[c] # "failed"
=============================================================================
