---------------------------- MODULE CoreWorkload ----------------------------
(***************************************************************************)
(* The keys of CoreWorkload: the load phase of one client, in which the    *)
(* threads share keysequence and retry failed inserts, and the transaction *)
(* phase of a later JVM, in which they insert behind                       *)
(* transactioninsertkeysequence and choose the keys of every other         *)
(* operation with nextKeynum().  The acknowledged counter is its abstract  *)
(* specification KeySequence.                                              *)
(***************************************************************************)
EXTENDS Integers, FiniteSets

CONSTANTS
  ThreadCount,        \* threadcount
  RecordCount,        \* recordcount: all records, of all loading clients
  InsertStart,        \* insertstart of this client
  InsertCount,        \* insertcount of this client, or Unset
  Unset,
  RetryLimit,         \* core_workload_insertion_retry_limit
  OpCount,            \* operationcount
  ExpectedNewKeys,    \* expectednewkeys of the zipfian chooser
  Distributions,      \* the requestdistributions considered
  MaxFaults,          \* BOUND: inserts that the store reports as failed
  FaultPhases         \* the phases in which it does

\* No count is 0: for ClientThread that means no limit, and CoreWorkload.init() takes a
\* recordcount of 0 for Integer.MAX_VALUE.
ASSUME CoreAssumption ==
  /\ {ThreadCount, RecordCount, OpCount} \subseteq Nat \ {0}
  /\ {InsertStart, RetryLimit, ExpectedNewKeys, MaxFaults} \subseteq Nat
  /\ InsertCount \in (Nat \ {0}) \cup {Unset}
  /\ Distributions \subseteq {"uniform", "sequential", "hotspot", "zipfian", "latest",
                             "exponential"}
  /\ FaultPhases \subseteq {"load", "run"}

VARIABLES
  distribution, \* requestdistribution
  phase,        \* "load", "run" or "refused" (init() exits)
  keysequence,  \* the load phase's CounterGenerator
  counter, acked, limit,   \* transactioninsertkeysequence
  todo,         \* operations each client thread has left
  pc, key,      \* where each thread is, and the key it works on
  tries,        \* numOfRetries
  store,        \* the keys in the database
  faults,       \* faults so far
  failed        \* history: keys whose transaction insert was reported failed

seqvars == <<counter, acked, limit>>
vars == <<distribution, phase, keysequence, seqvars, todo, pc, key, tries, store, faults, failed>>

KeySeq == INSTANCE KeySequence WITH CountStart <- RecordCount

Threads == 0 .. ThreadCount - 1

\* insertcount as CoreWorkload.init() reads it
insertcount == IF InsertCount = Unset THEN RecordCount - InsertStart ELSE InsertCount

\* insertcount as Client.initDb() reads it
AllRecords == RecordCount
loadcount == IF InsertCount = Unset THEN RecordCount ELSE InsertCount

ValidRange == RecordCount >= InsertStart + insertcount

\* The records that other clients load into the same table.
Elsewhere == (0 .. RecordCount - 1) \ (InsertStart .. InsertStart + insertcount - 1)

\* initDb(): no more threads than operations, and the remainder spread, so that each
\* thread that there is has a share above 0.
Share(opcount, t) ==
  LET threads == IF ThreadCount > opcount THEN opcount ELSE ThreadCount
  IN  IF t >= threads THEN 0
      ELSE opcount \div threads + (IF t < opcount % threads THEN 1 ELSE 0)

Goto(t, to) == pc' = [pc EXCEPT ![t] = to]

\* AllRecords, NoLastRetry, AckAtIssue and NewKeysOnly are wrong
\* variants of the definitions that follow them, with which the properties are
\* tested.

Init ==
  /\ distribution \in Distributions
  /\ phase = IF ValidRange THEN "load" ELSE "refused"
  /\ keysequence = InsertStart
  /\ counter = RecordCount
  /\ acked = {}
  /\ limit = RecordCount - 1
  /\ todo = [t \in Threads |-> Share(loadcount, t)]
  /\ pc = [t \in Threads |-> "ready"]
  /\ key = [t \in Threads |-> 0]
  /\ tries = [t \in Threads |-> 0]
  /\ store = Elsewhere
  /\ faults = 0
  /\ failed = {}

-----------------------------------------------------------------------------
(* The store: an insert is applied and reported, lost, or applied and       *)
(* reported as failed.                                                      *)

InsertOk(k) ==
  /\ store' = store \cup {k}
  /\ UNCHANGED faults

InsertFails(k) ==
  /\ phase \in FaultPhases
  /\ faults < MaxFaults
  /\ faults' = faults + 1
  /\ store' \in {store, store \cup {k}}

-----------------------------------------------------------------------------
(* doInsert                                                                 *)

LoadNext(t) ==
  /\ phase = "load" /\ pc[t] = "ready" /\ todo[t] > 0
  /\ key' = [key EXCEPT ![t] = keysequence]
  /\ keysequence' = keysequence + 1
  /\ tries' = [tries EXCEPT ![t] = 0]
  /\ Goto(t, "load")
  /\ UNCHANGED <<distribution, phase, seqvars, todo, store, faults, failed>>

LoadOk(t) ==
  /\ pc[t] = "load"
  /\ InsertOk(key[t])
  /\ todo' = [todo EXCEPT ![t] = @ - 1]
  /\ Goto(t, "ready")
  /\ UNCHANGED <<distribution, phase, keysequence, seqvars, key, tries, failed>>

\* ++numOfRetries <= insertionRetryLimit
NoLastRetry(t) == tries[t] + 1 < RetryLimit
RetryAllowed(t) == tries[t] + 1 <= RetryLimit

\* A thread whose insert failed for good leaves its loop.
LoadFails(t) ==
  /\ pc[t] = "load"
  /\ InsertFails(key[t])
  /\ tries' = [tries EXCEPT ![t] = @ + 1]
  /\ Goto(t, IF RetryAllowed(t) THEN "load" ELSE "stopped")
  /\ UNCHANGED <<distribution, phase, keysequence, seqvars, todo, key, failed>>

\* The transaction phase is another JVM, started when the load has ended,
\* however it ended.
LoadEnded ==
  \A t \in Threads : pc[t] = "stopped" \/ (pc[t] = "ready" /\ todo[t] = 0)

StartRun ==
  /\ phase = "load" /\ LoadEnded
  /\ phase' = "run"
  /\ todo' = [t \in Threads |-> Share(OpCount, t)]
  /\ pc' = [t \in Threads |-> "ready"]
  /\ UNCHANGED <<distribution, keysequence, seqvars, key, tries, store, faults, failed>>

-----------------------------------------------------------------------------
(* doTransactionInsert                                                      *)

Running(t, at) == phase = "run" /\ pc[t] = at /\ todo[t] > 0

AckAtIssue(t) ==
  /\ Running(t, "ready")
  /\ key' = [key EXCEPT ![t] = counter]
  /\ counter' = counter + 1
  /\ acked' = acked \cup {counter}
  /\ Goto(t, "insert")
  /\ UNCHANGED <<distribution, phase, keysequence, limit, todo, tries, store, faults, failed>>

RunNextKey(t) ==
  /\ Running(t, "ready")
  /\ key' = [key EXCEPT ![t] = counter]
  /\ KeySeq!Issue
  /\ Goto(t, "insert")
  /\ UNCHANGED <<distribution, phase, keysequence, todo, tries, store, faults, failed>>

\* Whatever db.insert() returns, the key is acknowledged after it.
RunInsert(t) ==
  /\ Running(t, "insert")
  /\ \/ InsertOk(key[t]) /\ UNCHANGED failed
     \/ InsertFails(key[t]) /\ failed' = failed \cup {key[t]}
  /\ Goto(t, "ack")
  /\ UNCHANGED <<distribution, phase, keysequence, seqvars, todo, key, tries>>

RunAck(t) ==
  /\ Running(t, "ack")
  /\ KeySeq!Acknowledge(key[t])
  /\ todo' = [todo EXCEPT ![t] = @ - 1]
  /\ Goto(t, "ready")
  /\ UNCHANGED <<distribution, phase, keysequence, key, tries, store, faults, failed>>

\* Some acknowledge() moves limit.
RunAdvance ==
  /\ \E k \in RecordCount .. counter - 1 : KeySeq!Advance(k)
  /\ UNCHANGED <<distribution, phase, keysequence, todo, pc, key, tries, store, faults, failed>>

-----------------------------------------------------------------------------
(* nextKeynum() and the operation on the chosen key                         *)

RunPick(t) ==
  /\ Running(t, "ready")
  /\ Goto(t, "pick")
  /\ UNCHANGED <<distribution, phase, keysequence, seqvars, todo, key, tries, store, faults, failed>>

\* What keychooser can yield, given lastValue() at the time it reads it.
\* Latest subtracts a rank below lastValue(), exponential an unbounded one.
NewKeysOnly == RecordCount + 1 .. RecordCount + ExpectedNewKeys
Draws ==
  IF distribution = "zipfian" THEN InsertStart .. InsertStart + insertcount + ExpectedNewKeys
  ELSE IF distribution = "latest" THEN 1 .. limit
  ELSE IF distribution = "exponential" THEN -1 .. limit
  ELSE InsertStart .. InsertStart + insertcount - 1

RunDraw(t) ==
  /\ Running(t, "pick")
  /\ \E k \in Draws : key' = [key EXCEPT ![t] = k]
  /\ Goto(t, "drawn")
  /\ UNCHANGED <<distribution, phase, keysequence, seqvars, todo, tries, store, faults, failed>>

\* The loop conditions of nextKeynum(): lastValue() is read again.
Acceptable(k) ==
  IF distribution = "exponential" THEN k >= 0 ELSE k <= limit

RunAccept(t) ==
  /\ Running(t, "drawn")
  /\ Goto(t, IF Acceptable(key[t]) THEN "use" ELSE "pick")
  /\ UNCHANGED <<distribution, phase, keysequence, seqvars, todo, key, tries, store, faults, failed>>

RunUse(t) ==
  /\ Running(t, "use")
  /\ todo' = [todo EXCEPT ![t] = @ - 1]
  /\ Goto(t, "ready")
  /\ UNCHANGED <<distribution, phase, keysequence, seqvars, key, tries, store, faults, failed>>

Load(t) == LoadNext(t) \/ LoadOk(t) \/ LoadFails(t)
Transaction(t) ==
  \/ RunNextKey(t) \/ RunInsert(t) \/ RunAck(t)
  \/ RunPick(t) \/ RunDraw(t) \/ RunAccept(t) \/ RunUse(t)

Next == StartRun \/ RunAdvance \/ \E t \in Threads : Load(t) \/ Transaction(t)

\* Threads keep running, the scripts start the transaction phase, and a random
\* chooser that is asked again and again does not avoid the inserted keys for
\* ever.
Fairness ==
  /\ WF_vars(StartRun)
  /\ \A t \in Threads :
       /\ WF_vars(Load(t) \/ Transaction(t))
       /\ SF_vars(RunDraw(t) /\ key'[t] >= 0 /\ key'[t] <= limit)

Spec == Init /\ [][Next]_vars
FairSpec == Spec /\ Fairness

-----------------------------------------------------------------------------
TypeOK ==
  /\ phase \in {"load", "run", "refused"}
  /\ {keysequence, counter, faults} \subseteq Nat
  /\ limit \in Int
  /\ \A k \in acked \cup store \cup failed : k \in Nat
  /\ todo \in [Threads -> Nat]
  /\ pc \in [Threads -> {"ready", "load", "stopped", "insert", "ack", "pick",
                         "drawn", "use"}]
  /\ key \in [Threads -> Int]
  /\ tries \in [Threads -> 0 .. RetryLimit + 1]

\* The keys that transactions find: a key nextKeynum() returns is in the
\* database, because a key is acknowledged only after its insert and limit
\* never passes an unacknowledged one, unless its own insert has failed.
ChosenKeyAttempted ==
  \A t \in Threads : phase = "run" /\ pc[t] = "use" => key[t] \in store \cup failed

\* A load in which the store fails no more often than the retry limit leaves
\* every record of the client's share, whichever threads the failures hit.
LoadComplete == phase = "run" => 0 .. RecordCount - 1 \subseteq store

\* A load writes no key outside of the table's records, so that the keys the
\* transaction phase issues are new.
FreshKeys ==
  /\ phase = "load" => store \subseteq 0 .. RecordCount - 1
  /\ \A t \in Threads : phase = "run" /\ pc[t] = "insert" => key[t] \notin store

\* The rejection loops of nextKeynum() end.
PickEnds == \A t \in Threads : phase = "run" /\ pc[t] = "pick" ~> pc[t] = "use"
=============================================================================
