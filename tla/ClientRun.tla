------------------------------ MODULE ClientRun ------------------------------
(***************************************************************************)
(* One run of Client.main(): it starts the status thread, the client       *)
(* threads and the terminator, joins the clients, interrupts the others,   *)
(* joins the status thread, exports the measurements and leaves.  Clients, *)
(* terminator and status thread share the workload's stop flag, the        *)
(* completion latch and the clients' operation counts.                     *)
(***************************************************************************)
EXTENDS Integers, FiniteSets

CONSTANTS
  Clients,         \* the client threads initDb() creates
  ThreadCount,     \* threadcount, which initDb() may have cut down
  Quotas,          \* the opcounts a thread may be given, 0 for no limit
  OpCap,           \* BOUND: operation counts saturate here
  HasTerminator,   \* maxexecutiontime > 0
  HasStatus,       \* -s
  ZeroInterval,    \* status.interval = 0
  InitMayFail,     \* db.init() or workload.initThread() may throw
  MayBlock         \* clients whose operation may wait for the store for ever

ASSUME RunAssumption ==
  /\ IsFiniteSet(Clients)
  /\ ThreadCount \in Nat /\ ThreadCount >= Cardinality(Clients)
  /\ Quotas \subseteq Nat /\ OpCap \in Nat
  /\ \A q \in Quotas : q < OpCap
  /\ {HasTerminator, HasStatus, ZeroInterval, InitMayFail} \subseteq BOOLEAN
  /\ MayBlock \subseteq Clients

VARIABLES
  quota,        \* opcount of every client thread
  main,         \* where main() is
  joined,       \* the clients main() has joined
  opsDone,      \* main()'s total of the joined clients' operations
  stop,         \* workload.stopRequested
  latch,        \* completeLatch
  pc,           \* where each client thread is
  opsdone,      \* each client's count of operations
  tpc, tint,    \* where the terminator is, and its interrupt flag
  spc, sint,    \* where the status thread is, and its interrupt flag
  statusTotal,  \* the total the status thread last computed
  started,      \* history: clients that entered their loop
  cleaned,      \* history: clients whose db.cleanup() has been called
  overrun       \* history: operations each client began after the stop request

vars == <<quota, main, joined, opsDone, stop, latch, pc, opsdone, tpc, tint, spc, sint,
          statusTotal, started, cleaned, overrun>>

mainvars == <<quota, main, joined, opsDone>>
statusvars == <<spc, statusTotal>>
history == <<started, cleaned, overrun>>

Min2(a, b) == IF a < b THEN a ELSE b
Goto(c, to) == pc' = [pc EXCEPT ![c] = to]

\* The operations that the clients in cs have done, a pair for each.
Done(cs) == {p \in cs \X (1 .. OpCap) : p[2] <= opsdone[p[1]]}
Total(cs) == Cardinality(Done(cs))

\* The definitions marked (wrong) are variants of the
\* definition after them, with which the properties are tested.
FewerThanClients == Cardinality(Clients) - 1                       \* (wrong)
LatchCount == ThreadCount

Init ==
  /\ quota \in Quotas
  /\ main = "start" /\ joined = {} /\ opsDone = 0
  /\ stop = FALSE
  /\ latch = LatchCount
  /\ pc = [c \in Clients |-> "new"]
  /\ opsdone = [c \in Clients |-> 0]
  /\ tpc = "none" /\ tint = FALSE
  /\ spc = IF HasStatus THEN "stats" ELSE "none"
  /\ sint = FALSE
  /\ statusTotal = 0
  /\ started = {} /\ cleaned = {}
  /\ overrun = [c \in Clients |-> 0]

\* System.exit() ends every thread.
Alive == main # "exit"

-----------------------------------------------------------------------------
(* main()                                                                   *)

StartClient(c) ==
  /\ main = "start" /\ pc[c] = "new"
  /\ Goto(c, "init")
  /\ UNCHANGED <<mainvars, stop, latch, opsdone, tpc, tint, statusvars, sint, history>>

StartTerminator ==
  /\ main = "start"
  /\ \A c \in Clients : pc[c] # "new"
  /\ tpc' = IF HasTerminator THEN "sleep" ELSE "none"
  /\ main' = "join"
  /\ UNCHANGED <<quota, joined, opsDone, stop, latch, pc, opsdone, tint, statusvars, sint, history>>

Ending(c) == pc[c] \in {"cleanup", "counting", "done"}              \* (wrong)
Ended(c) == pc[c] = "done"

Join(c) ==
  /\ main = "join"
  /\ c \notin joined /\ Ended(c)
  /\ joined' = joined \cup {c}
  /\ opsDone' = opsDone + opsdone[c]
  /\ UNCHANGED <<quota, main, stop, latch, pc, opsdone, tpc, tint, statusvars, sint, history>>

NeverInterrupt == sint                                             \* (wrong)
InterruptStatus == HasStatus

\* terminator.interrupt(), statusthread.interrupt()
Interrupt ==
  /\ main = "join" /\ joined = Clients
  /\ main' = "joinStatus"
  /\ tint' = (tpc \in {"sleep", "joining"})
  /\ sint' = InterruptStatus
  /\ UNCHANGED <<quota, joined, opsDone, stop, latch, pc, opsdone, tpc, statusvars, history>>

JoinStatus ==
  /\ main = "joinStatus" /\ spc \in {"none", "done"}
  /\ main' = "export"
  /\ UNCHANGED <<quota, joined, opsDone, stop, latch, pc, opsdone, tpc, tint, statusvars, sint, history>>

\* exportMeasurements(), System.exit(0)
Export ==
  /\ main = "export"
  /\ main' = "exit"
  /\ UNCHANGED <<quota, joined, opsDone, stop, latch, pc, opsdone, tpc, tint, statusvars, sint, history>>

Main == StartTerminator \/ Interrupt \/ JoinStatus \/ Export
        \/ \E c \in Clients : StartClient(c) \/ Join(c)

-----------------------------------------------------------------------------
(* ClientThread.run()                                                       *)

\* A failing db.init() or initThread() ends the thread: no count down, and no
\* cleanup of a database that was opened.
ClientInit(c) ==
  /\ pc[c] = "init"
  /\ \/ InitMayFail /\ Goto(c, "done") /\ UNCHANGED started
     \/ Goto(c, "loop") /\ started' = started \cup {c}
  /\ UNCHANGED <<mainvars, stop, latch, opsdone, tpc, tint, statusvars, sint, cleaned, overrun>>

\* The loop condition, read before every operation.
IgnoreStop(c) == quota = 0 \/ opsdone[c] < quota                   \* (wrong)
MayContinue(c) == (quota = 0 \/ opsdone[c] < quota) /\ ~stop

ClientCheck(c) ==
  /\ pc[c] = "loop"
  /\ Goto(c, IF MayContinue(c) THEN "op" ELSE "cleanup")
  /\ UNCHANGED <<mainvars, stop, latch, opsdone, tpc, tint, statusvars, sint, history>>

\* doTransaction() or doInsert() returns true (opsdone++) or false (break).
\* A count without a limit is followed up to OpCap.
ClientOp(c) ==
  /\ pc[c] = "op"
  /\ \/ opsdone' = [opsdone EXCEPT ![c] = Min2(@ + 1, OpCap)] /\ Goto(c, "loop")
     \/ UNCHANGED opsdone /\ Goto(c, "cleanup")
  /\ overrun' = [overrun EXCEPT ![c] = IF stop THEN Min2(@ + 1, OpCap) ELSE @]
  /\ UNCHANGED <<mainvars, stop, latch, tpc, tint, statusvars, sint, started, cleaned>>

\* The store does not answer; only an interrupt would end the call.
ClientBlocks(c) ==
  /\ pc[c] = "op" /\ c \in MayBlock
  /\ Goto(c, "blocked")
  /\ UNCHANGED <<mainvars, stop, latch, opsdone, tpc, tint, statusvars, sint, history>>

\* db.cleanup()
ClientCleanup(c) ==
  /\ pc[c] = "cleanup"
  /\ cleaned' = cleaned \cup {c}
  /\ Goto(c, "counting")
  /\ UNCHANGED <<mainvars, stop, latch, opsdone, tpc, tint, statusvars, sint, started, overrun>>

\* completeLatch.countDown(), and the thread ends
ClientCountDown(c) ==
  /\ pc[c] = "counting"
  /\ latch' = latch - 1
  /\ Goto(c, "done")
  /\ UNCHANGED <<mainvars, stop, opsdone, tpc, tint, statusvars, sint, history>>

Client(c) ==
  \/ ClientInit(c) \/ ClientCheck(c) \/ ClientOp(c) \/ ClientBlocks(c)
  \/ ClientCleanup(c) \/ ClientCountDown(c)

-----------------------------------------------------------------------------
(* TerminatorThread.run()                                                   *)

\* The maximum execution time is over.
RequestStop ==
  /\ tpc = "sleep" /\ ~tint
  /\ stop' = TRUE
  /\ tpc' = "joining"
  /\ UNCHANGED <<mainvars, latch, pc, opsdone, tint, statusvars, sint, history>>

TerminatorInterrupted ==
  /\ tpc = "sleep" /\ tint
  /\ tpc' = "done" /\ tint' = FALSE
  /\ UNCHANGED <<mainvars, stop, latch, pc, opsdone, statusvars, sint, history>>

\* An interrupt while it joins the clients is swallowed.
TerminatorJoined ==
  /\ tpc = "joining"
  /\ \A c \in Clients : pc[c] = "done"
  /\ tpc' = "done" /\ tint' = FALSE
  /\ UNCHANGED <<mainvars, stop, latch, pc, opsdone, statusvars, sint, history>>

Terminator == RequestStop \/ TerminatorInterrupted \/ TerminatorJoined

-----------------------------------------------------------------------------
(* StatusThread.run()                                                       *)

ComputeStats ==
  /\ spc \in {"stats", "final"}
  /\ statusTotal' = Total(Clients)
  /\ spc' = IF spc = "stats" THEN "wait" ELSE "done"
  /\ UNCHANGED <<mainvars, stop, latch, pc, opsdone, tpc, tint, sint, history>>

\* now >= deadline when waitForClientsUntil() begins: it returns false and has
\* looked at neither the latch nor the interrupt.
StatusLate ==
  /\ spc = "wait"
  /\ spc' = "stats"
  /\ UNCHANGED <<mainvars, stop, latch, pc, opsdone, tpc, tint, sint, statusTotal, history>>

\* await() returns true or throws: alldone
StatusAllDone ==
  /\ spc = "wait" /\ ~ZeroInterval
  /\ sint \/ latch = 0
  /\ spc' = "final"
  /\ UNCHANGED <<mainvars, stop, latch, pc, opsdone, tpc, tint, sint, statusTotal, history>>

\* await() times out
StatusTimeout ==
  /\ spc = "wait" /\ ~ZeroInterval
  /\ ~sint /\ latch # 0
  /\ spc' = "stats"
  /\ UNCHANGED <<mainvars, stop, latch, pc, opsdone, tpc, tint, sint, statusTotal, history>>

Status == ComputeStats \/ StatusLate \/ StatusAllDone \/ StatusTimeout

-----------------------------------------------------------------------------
Next == Alive /\ (Main \/ Terminator \/ Status \/ \E c \in Clients : Client(c))

Spec == Init /\ [][Next]_vars

\* Every thread is scheduled.  The status thread is not late at every deadline
\* when it has an interval to be on time in.
Fairness ==
  /\ WF_vars(Alive /\ Main)
  /\ WF_vars(Alive /\ Terminator)
  /\ WF_vars(Alive /\ Status)
  /\ SF_vars(Alive /\ StatusAllDone)
  /\ \A c \in Clients : WF_vars(Alive /\ Client(c))

FairSpec == Spec /\ Fairness

-----------------------------------------------------------------------------
TypeOK ==
  /\ quota \in Quotas
  /\ main \in {"start", "join", "joinStatus", "export", "exit"}
  /\ joined \subseteq Clients
  /\ opsDone \in Nat /\ statusTotal \in Nat
  /\ {stop, tint, sint} \subseteq BOOLEAN
  /\ latch \in 0 .. ThreadCount
  /\ pc \in [Clients -> {"new", "init", "loop", "op", "blocked", "cleanup", "counting", "done"}]
  /\ opsdone \in [Clients -> 0 .. OpCap]
  /\ tpc \in {"none", "sleep", "joining", "done"}
  /\ spc \in {"none", "stats", "wait", "final", "done"}
  /\ started \subseteq Clients /\ cleaned \subseteq Clients
  /\ overrun \in [Clients -> 0 .. OpCap]

\* What is exported, and the last status line, count every operation of every
\* client: nothing the clients do is missed by the join, the latch or the
\* interrupt.
TotalsAreFinal ==
  /\ main \in {"export", "exit"} => opsDone = Total(Clients)
  /\ spc = "done" => statusTotal = Total(Clients)

\* A client begins at most one operation after the stop request: the one it
\* had checked for before.
StopIsPrompt == \A c \in Clients : overrun[c] <= 1

\* No client works on its database after the measurements are exported, and
\* each one that ran its loop has cleaned up.
CleanBeforeExport ==
  main \in {"export", "exit"} => \A c \in Clients : pc[c] = "done"
                                   /\ (c \in started => c \in cleaned)

\* The run ends unless some client waits for a store that never answers: with
\* clients that fail to start, a latch that never opens and operations without
\* a limit.
RunEnds == [](\A c \in Clients : pc[c] # "blocked") => <>(main = "exit")
=============================================================================
