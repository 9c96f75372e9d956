--------------------------- MODULE ClientRunProofs ---------------------------
(***************************************************************************)
(* A run of the client, for any number of client threads and any quota:    *)
(* a stop request is obeyed after one more operation at most, nothing is   *)
(* exported while a client works, and main()'s total and the last status   *)
(* line count every operation of every client.  Then the measurements that *)
(* the clients of a run share: what is exported is what was measured.      *)
(***************************************************************************)
EXTENDS ClientRun, Measurements, FiniteSetTheorems, SequenceTheorems, TLAPS

-----------------------------------------------------------------------------
(* The inductive invariant                                                 *)

PCs == {"new", "init", "loop", "op", "blocked", "cleanup", "counting", "done"}

Typed ==
  /\ pc \in [Clients -> PCs]
  /\ main \in {"start", "join", "joinStatus", "export", "exit"}
  /\ opsdone \in [Clients -> 0 .. OpCap] /\ overrun \in [Clients -> 0 .. OpCap]
  /\ tpc \in {"none", "sleep", "joining", "done"}
  /\ stop \in BOOLEAN /\ tint \in BOOLEAN /\ sint \in BOOLEAN
  /\ quota \in Quotas /\ opsDone \in Nat /\ statusTotal \in Nat
  /\ spc \in {"none", "stats", "wait", "final", "done"}
  /\ joined \subseteq Clients /\ started \subseteq Clients /\ cleaned \subseteq Clients

\* An operation begins before the stop request, or is the one begun before it.
StopInv ==
  \A c \in Clients :
    /\ overrun[c] <= 1
    /\ ~stop \/ pc[c] \in {"op", "blocked"} => overrun[c] = 0

\* main() joins ended clients, and each of those that ran has cleaned up.
JoinInv ==
  /\ \A c \in joined : pc[c] = "done"
  /\ main \in {"joinStatus", "export", "exit"} => joined = Clients
  /\ sint => main \in {"joinStatus", "export", "exit"}
  /\ \A c \in Clients :
       /\ pc[c] \in {"new", "init"} => c \notin started
       /\ pc[c] \notin {"new", "init", "done"} => c \in started
       /\ pc[c] \in {"counting", "done"} /\ c \in started => c \in cleaned

\* The latch counts the clients that ran, and opens when none is left.
Counted == {c \in started : pc[c] = "done"}
LatchInv ==
  /\ latch = ThreadCount - Cardinality(Counted)
  /\ spc \in {"final", "done"} => \A c \in Clients : pc[c] = "done"
  /\ spc = "done" => statusTotal = Total(Clients)

\* main() has added up what the clients it joined have done.
TotalInv == opsDone = Total(joined)

IInv ==
  /\ Typed
  /\ StopInv
  /\ JoinInv
  /\ TotalInv
  /\ LatchInv

-----------------------------------------------------------------------------
(* The latch                                                               *)

LEMMA CountedFinite ==
  ASSUME Typed
  PROVE  IsFiniteSet(Counted) /\ Cardinality(Counted) \in Nat
<1>1. IsFiniteSet(Clients) /\ Counted \subseteq Clients
  BY RunAssumption DEF Counted, Typed
<1> QED
  BY <1>1, FS_Subset, FS_CardinalityType

\* An open latch: as many clients have ended as there are threads.
LEMMA OpenLatch ==
  ASSUME Typed, LatchInv, latch = 0
  PROVE  \A c \in Clients : pc[c] = "done"
<1>1. IsFiniteSet(Clients) /\ Counted \subseteq Clients /\ ThreadCount >= Cardinality(Clients)
  BY RunAssumption DEF Counted, Typed
<1>2. Cardinality(Counted) = ThreadCount /\ ThreadCount \in Nat /\ Cardinality(Clients) \in Nat
  BY <1>1, CountedFinite, RunAssumption, FS_CardinalityType DEF LatchInv
<1>3. Cardinality(Counted) <= Cardinality(Clients)
  BY <1>1, FS_Subset
<1>4. Counted = Clients
  BY <1>1, <1>2, <1>3, FS_Subset
<1> QED
  BY <1>4 DEF Counted

-----------------------------------------------------------------------------
(* The operations done, counted as a set of pairs                          *)

LEMMA DoneFinite ==
  ASSUME Typed, NEW cs \in SUBSET Clients
  PROVE  IsFiniteSet(Done(cs)) /\ Cardinality(Done(cs)) \in Nat
<1>1. IsFiniteSet(cs) /\ IsFiniteSet(1 .. OpCap)
  <2>1. IsFiniteSet(Clients) /\ 1 \in Int /\ OpCap \in Int
    BY RunAssumption
  <2> QED
    BY <2>1, FS_Subset, FS_Interval
<1>2. IsFiniteSet(cs \X (1 .. OpCap)) /\ Done(cs) \subseteq cs \X (1 .. OpCap)
  BY <1>1, FS_Product DEF Done
<1> QED
  BY <1>2, FS_Subset, FS_CardinalityType

LEMMA TotalType ==
  ASSUME Typed, NEW cs \in SUBSET Clients
  PROVE  Total(cs) \in Nat
BY DoneFinite DEF Total

\* One client contributes as many pairs as it has done operations.
LEMMA DoneOfOne ==
  ASSUME Typed, NEW c \in Clients
  PROVE  Total({c}) = opsdone[c]
<1> DEFINE n == opsdone[c]
           f == [i \in 1 .. n |-> <<c, i>>]
<1>1. n \in 0 .. OpCap /\ OpCap \in Nat
  BY RunAssumption DEF Typed
<1>2. Done({c}) = {<<c, i>> : i \in 1 .. n}
  <2>1. ASSUME NEW p \in Done({c}) PROVE p \in {<<c, i>> : i \in 1 .. n}
    <3>1. p \in {c} \X (1 .. OpCap) /\ p[2] <= opsdone[p[1]]
      BY <2>1 DEF Done
    <3>2. p = <<c, p[2]>> /\ p[2] \in 1 .. n
      BY <1>1, <3>1
    <3> QED
      BY <3>2
  <2>2. ASSUME NEW i \in 1 .. n PROVE <<c, i>> \in Done({c})
    BY <1>1 DEF Done
  <2> QED
    BY <2>1, <2>2
<1>3. f \in Bijection(1 .. n, Done({c}))
  <2>1. f \in [1 .. n -> Done({c})] /\ \A p \in Done({c}) : \E i \in 1 .. n : f[i] = p
    BY <1>2
  <2>2. ASSUME NEW i \in 1 .. n, NEW j \in 1 .. n, f[i] = f[j] PROVE i = j
    BY <2>2
  <2> HIDE DEF f
  <2> QED
    BY <2>1, <2>2 DEF Bijection, Injection, Surjection, IsInjective
<1>4. ExistsBijection(1 .. n, Done({c}))
  BY <1>3 DEF ExistsBijection
<1>5. IsFiniteSet(1 .. n) /\ Cardinality(1 .. n) = n
  <2>1. n \in Int /\ (1 > n <=> n = 0)
    BY <1>1
  <2> HIDE DEF n
  <2> QED
    BY <2>1, FS_Interval
<1> QED
  BY <1>4, <1>5, FS_Bijection DEF Total

\* Joining a client adds what it has done to the total.
LEMMA TotalOfJoined ==
  ASSUME Typed, NEW cs \in SUBSET Clients, NEW c \in Clients \ cs
  PROVE  Total(cs \cup {c}) = Total(cs) + opsdone[c]
<1>1. Done(cs \cup {c}) = Done(cs) \cup Done({c}) /\ Done(cs) \cap Done({c}) = {}
  BY DEF Done
<1>2. /\ IsFiniteSet(Done(cs)) /\ Cardinality(Done(cs)) \in Nat
      /\ IsFiniteSet(Done({c})) /\ Cardinality(Done({c})) = opsdone[c]
  BY DoneFinite, DoneOfOne DEF Total
<1>3. opsdone[c] \in Int /\ Cardinality({}) = 0
  BY FS_EmptySet DEF Typed
<1> DEFINE A == Done(cs)
           B == Done({c})
<1> HIDE DEF A, B
<1>4. /\ IsFiniteSet(A) /\ Cardinality(A) \in Nat /\ IsFiniteSet(B) /\ Cardinality(B) = opsdone[c]
      /\ A \cap B = {}
  BY <1>1, <1>2 DEF A, B
<1>5. Cardinality(A \cup B) = Cardinality(A) + Cardinality(B) - Cardinality(A \cap B)
  BY <1>4, FS_Union
<1>6. Cardinality(A \cup B) = Cardinality(A) + opsdone[c]
  BY <1>3, <1>4, <1>5
<1> QED
  BY <1>1, <1>6 DEF Total, A, B

-----------------------------------------------------------------------------
(* Every step keeps each part of the invariant                             *)

\* Every variable keeps its type.
LEMMA TypeStep == IInv /\ [Next]_vars => Typed'
<1> SUFFICES ASSUME IInv, [Next]_vars PROVE Typed'
  OBVIOUS
<1> USE DEF mainvars, statusvars, history
<1>1. Typed /\ OpCap \in Nat
  BY RunAssumption DEF IInv
<1>2. ASSUME NEW c \in Clients, StartClient(c) PROVE Typed'
  BY <1>1, <1>2 DEF StartClient, Goto, Typed, PCs
<1>3. ASSUME NEW c \in Clients, Join(c) PROVE Typed'
  BY <1>1, <1>3 DEF Join, Ended, Typed, PCs
<1>4. ASSUME StartTerminator PROVE Typed'
  BY <1>1, <1>4 DEF StartTerminator, Typed, PCs
<1>5. ASSUME Interrupt PROVE Typed'
  <2>1. tint' \in BOOLEAN /\ sint' \in BOOLEAN
    BY <1>5, RunAssumption DEF Interrupt, InterruptStatus
  <2> QED
    BY <1>1, <1>5, <2>1 DEF Interrupt, Typed, PCs
<1>6. ASSUME JoinStatus PROVE Typed'
  BY <1>1, <1>6 DEF JoinStatus, Typed, PCs
<1>7. ASSUME Export PROVE Typed'
  BY <1>1, <1>7 DEF Export, Typed, PCs
<1>8. ASSUME NEW c \in Clients, ClientInit(c) PROVE Typed'
  BY <1>1, <1>8 DEF ClientInit, Goto, Typed, PCs
<1>9. ASSUME NEW c \in Clients, ClientCheck(c) PROVE Typed'
  BY <1>1, <1>9 DEF ClientCheck, MayContinue, Goto, Typed, PCs
<1>10. ASSUME NEW c \in Clients, ClientOp(c) PROVE Typed'
  BY <1>1, <1>10 DEF ClientOp, Min2, Goto, Typed, PCs
<1>11. ASSUME NEW c \in Clients, ClientBlocks(c) PROVE Typed'
  BY <1>1, <1>11 DEF ClientBlocks, Goto, Typed, PCs
<1>12. ASSUME NEW c \in Clients, ClientCleanup(c) PROVE Typed'
  BY <1>1, <1>12 DEF ClientCleanup, Goto, Typed, PCs
<1>13. ASSUME NEW c \in Clients, ClientCountDown(c) PROVE Typed'
  BY <1>1, <1>13 DEF ClientCountDown, Goto, Typed, PCs
<1>14. ASSUME RequestStop PROVE Typed'
  BY <1>1, <1>14 DEF RequestStop, Typed, PCs
<1>15. ASSUME TerminatorInterrupted PROVE Typed'
  BY <1>1, <1>15 DEF TerminatorInterrupted, Typed, PCs
<1>16. ASSUME TerminatorJoined PROVE Typed'
  BY <1>1, <1>16 DEF TerminatorJoined, Typed, PCs
<1>17. ASSUME ComputeStats PROVE Typed'
  BY <1>1, <1>17, TotalType DEF ComputeStats, Typed, PCs
<1>18. ASSUME StatusLate PROVE Typed'
  BY <1>1, <1>18 DEF StatusLate, Typed, PCs
<1>19. ASSUME StatusAllDone PROVE Typed'
  BY <1>1, <1>19 DEF StatusAllDone, Typed, PCs
<1>20. ASSUME StatusTimeout PROVE Typed'
  BY <1>1, <1>20 DEF StatusTimeout, Typed, PCs
<1>21. ASSUME UNCHANGED vars PROVE Typed'
  BY <1>1, <1>21 DEF vars, Typed, PCs
<1> QED
  BY <1>2, <1>3, <1>4, <1>5, <1>6, <1>7, <1>8, <1>9, <1>10, <1>11, <1>12, <1>13,
     <1>14, <1>15, <1>16, <1>17, <1>18, <1>19, <1>20, <1>21
  DEF Next, Main, Terminator, Status, Client

\* The stop flag is read before each operation.
LEMMA StopStep == IInv /\ [Next]_vars => StopInv'
<1> SUFFICES ASSUME IInv, [Next]_vars PROVE StopInv'
  OBVIOUS
<1> USE DEF mainvars, statusvars, history
<1>1. Typed /\ StopInv /\ OpCap \in Nat
  BY RunAssumption DEF IInv
<1>2. ASSUME NEW c \in Clients, StartClient(c) PROVE StopInv'
  BY <1>1, <1>2 DEF StartClient, Goto, Typed, StopInv
<1>3. ASSUME NEW c \in Clients, Join(c) PROVE StopInv'
  BY <1>1, <1>3 DEF Join, Ended, Typed, StopInv
<1>4. ASSUME StartTerminator PROVE StopInv'
  BY <1>1, <1>4 DEF StartTerminator, Typed, StopInv
<1>5. ASSUME Interrupt PROVE StopInv'
  BY <1>1, <1>5 DEF Interrupt, InterruptStatus, Typed, StopInv
<1>6. ASSUME JoinStatus PROVE StopInv'
  BY <1>1, <1>6 DEF JoinStatus, Typed, StopInv
<1>7. ASSUME Export PROVE StopInv'
  BY <1>1, <1>7 DEF Export, Typed, StopInv
<1>8. ASSUME NEW c \in Clients, ClientInit(c) PROVE StopInv'
  BY <1>1, <1>8 DEF ClientInit, Goto, Typed, StopInv
<1>9. ASSUME NEW c \in Clients, ClientCheck(c) PROVE StopInv'
  BY <1>1, <1>9 DEF ClientCheck, MayContinue, Goto, Typed, StopInv
<1>10. ASSUME NEW c \in Clients, ClientOp(c) PROVE StopInv'
  BY <1>1, <1>10 DEF ClientOp, Min2, Goto, Typed, StopInv
<1>11. ASSUME NEW c \in Clients, ClientBlocks(c) PROVE StopInv'
  BY <1>1, <1>11 DEF ClientBlocks, Goto, Typed, StopInv
<1>12. ASSUME NEW c \in Clients, ClientCleanup(c) PROVE StopInv'
  BY <1>1, <1>12 DEF ClientCleanup, Goto, Typed, StopInv
<1>13. ASSUME NEW c \in Clients, ClientCountDown(c) PROVE StopInv'
  BY <1>1, <1>13 DEF ClientCountDown, Goto, Typed, StopInv
<1>14. ASSUME RequestStop PROVE StopInv'
  BY <1>1, <1>14 DEF RequestStop, Typed, StopInv
<1>15. ASSUME TerminatorInterrupted PROVE StopInv'
  BY <1>1, <1>15 DEF TerminatorInterrupted, Typed, StopInv
<1>16. ASSUME TerminatorJoined PROVE StopInv'
  BY <1>1, <1>16 DEF TerminatorJoined, Typed, StopInv
<1>17. ASSUME ComputeStats PROVE StopInv'
  BY <1>1, <1>17 DEF ComputeStats, Typed, StopInv
<1>18. ASSUME StatusLate PROVE StopInv'
  BY <1>1, <1>18 DEF StatusLate, Typed, StopInv
<1>19. ASSUME StatusAllDone PROVE StopInv'
  BY <1>1, <1>19 DEF StatusAllDone, Typed, StopInv
<1>20. ASSUME StatusTimeout PROVE StopInv'
  BY <1>1, <1>20 DEF StatusTimeout, Typed, StopInv
<1>21. ASSUME UNCHANGED vars PROVE StopInv'
  BY <1>1, <1>21 DEF vars, Typed, StopInv
<1> QED
  BY <1>2, <1>3, <1>4, <1>5, <1>6, <1>7, <1>8, <1>9, <1>10, <1>11, <1>12, <1>13,
     <1>14, <1>15, <1>16, <1>17, <1>18, <1>19, <1>20, <1>21
  DEF Next, Main, Terminator, Status, Client

\* main() waits for every client, and a client ends with its cleanup.
LEMMA JoinStep == IInv /\ [Next]_vars => JoinInv'
<1> SUFFICES ASSUME IInv, [Next]_vars PROVE JoinInv'
  OBVIOUS
<1> USE DEF mainvars, statusvars, history
<1>1. Typed /\ JoinInv
  BY DEF IInv
<1>2. ASSUME NEW c \in Clients, StartClient(c) PROVE JoinInv'
  BY <1>1, <1>2 DEF StartClient, Goto, Typed, JoinInv
<1>3. ASSUME NEW c \in Clients, Join(c) PROVE JoinInv'
  BY <1>1, <1>3 DEF Join, Ended, Typed, JoinInv
<1>4. ASSUME StartTerminator PROVE JoinInv'
  BY <1>1, <1>4 DEF StartTerminator, Typed, JoinInv
<1>5. ASSUME Interrupt PROVE JoinInv'
  BY <1>1, <1>5 DEF Interrupt, InterruptStatus, Typed, JoinInv
<1>6. ASSUME JoinStatus PROVE JoinInv'
  BY <1>1, <1>6 DEF JoinStatus, Typed, JoinInv
<1>7. ASSUME Export PROVE JoinInv'
  BY <1>1, <1>7 DEF Export, Typed, JoinInv
<1>8. ASSUME NEW c \in Clients, ClientInit(c) PROVE JoinInv'
  BY <1>1, <1>8 DEF ClientInit, Goto, Typed, JoinInv
<1>9. ASSUME NEW c \in Clients, ClientCheck(c) PROVE JoinInv'
  BY <1>1, <1>9 DEF ClientCheck, MayContinue, Goto, Typed, JoinInv
<1>10. ASSUME NEW c \in Clients, ClientOp(c) PROVE JoinInv'
  BY <1>1, <1>10 DEF ClientOp, Min2, Goto, Typed, JoinInv
<1>11. ASSUME NEW c \in Clients, ClientBlocks(c) PROVE JoinInv'
  BY <1>1, <1>11 DEF ClientBlocks, Goto, Typed, JoinInv
<1>12. ASSUME NEW c \in Clients, ClientCleanup(c) PROVE JoinInv'
  BY <1>1, <1>12 DEF ClientCleanup, Goto, Typed, JoinInv
<1>13. ASSUME NEW c \in Clients, ClientCountDown(c) PROVE JoinInv'
  BY <1>1, <1>13 DEF ClientCountDown, Goto, Typed, JoinInv
<1>14. ASSUME RequestStop PROVE JoinInv'
  BY <1>1, <1>14 DEF RequestStop, Typed, JoinInv
<1>15. ASSUME TerminatorInterrupted PROVE JoinInv'
  BY <1>1, <1>15 DEF TerminatorInterrupted, Typed, JoinInv
<1>16. ASSUME TerminatorJoined PROVE JoinInv'
  BY <1>1, <1>16 DEF TerminatorJoined, Typed, JoinInv
<1>17. ASSUME ComputeStats PROVE JoinInv'
  BY <1>1, <1>17 DEF ComputeStats, Typed, JoinInv
<1>18. ASSUME StatusLate PROVE JoinInv'
  BY <1>1, <1>18 DEF StatusLate, Typed, JoinInv
<1>19. ASSUME StatusAllDone PROVE JoinInv'
  BY <1>1, <1>19 DEF StatusAllDone, Typed, JoinInv
<1>20. ASSUME StatusTimeout PROVE JoinInv'
  BY <1>1, <1>20 DEF StatusTimeout, Typed, JoinInv
<1>21. ASSUME UNCHANGED vars PROVE JoinInv'
  BY <1>1, <1>21 DEF vars, Typed, JoinInv
<1> QED
  BY <1>2, <1>3, <1>4, <1>5, <1>6, <1>7, <1>8, <1>9, <1>10, <1>11, <1>12, <1>13,
     <1>14, <1>15, <1>16, <1>17, <1>18, <1>19, <1>20, <1>21
  DEF Next, Main, Terminator, Status, Client

\* A client that is done stays so, and does nothing more.
LEMMA DoneStays ==
  ASSUME IInv, [Next]_vars, \A c \in Clients : pc[c] = "done"
  PROVE  pc' = pc /\ opsdone' = opsdone
<1> USE DEF mainvars, statusvars, history
<1>1. \A c \in Clients : ~Client(c) /\ ~StartClient(c)
  BY DEF Client, ClientInit, ClientCheck, ClientOp, ClientBlocks, ClientCleanup, ClientCountDown, StartClient
<1> QED
  BY <1>1 DEF Next, Main, Terminator, Status, Join, StartTerminator, Interrupt, JoinStatus, Export,
    RequestStop, TerminatorInterrupted, TerminatorJoined, ComputeStats, StatusLate, StatusAllDone,
    StatusTimeout, vars

\* The latch is counted down once by each client that ran.
LEMMA CountStep ==
  ASSUME IInv, [Next]_vars
  PROVE  latch' = ThreadCount - Cardinality(Counted')
<1> USE DEF mainvars, statusvars, history
<1>1. Typed /\ JoinInv /\ latch = ThreadCount - Cardinality(Counted)
  BY DEF IInv, LatchInv
<1>2. ASSUME NEW c \in Clients, ClientCountDown(c) PROVE latch' = ThreadCount - Cardinality(Counted')
  <2>1. c \in started /\ c \notin Counted
    BY <1>1, <1>2 DEF ClientCountDown, JoinInv, Counted
  <2>2. Counted' = Counted \cup {c}
    BY <1>1, <1>2, <2>1 DEF ClientCountDown, Goto, Typed, Counted
  <2>3. Cardinality(Counted') = Cardinality(Counted) + 1 /\ Cardinality(Counted) \in Nat
    BY <1>1, <2>1, <2>2, CountedFinite, FS_AddElement
  <2>4. ThreadCount \in Nat /\ latch' = latch - 1
    BY <1>2, RunAssumption DEF ClientCountDown
  <2> QED
    BY <1>1, <2>3, <2>4
<1>3. ASSUME NEW c \in Clients, Client(c) \/ StartClient(c), ~ClientCountDown(c)
      PROVE  latch' = latch /\ Counted' = Counted
  <2>1. CASE ClientInit(c)
    BY <1>1, <2>1 DEF ClientInit, Goto, Typed, JoinInv, Counted
  <2>2. CASE ClientCheck(c) \/ ClientBlocks(c) \/ ClientCleanup(c) \/ StartClient(c)
    <3>1. PICK x \in {"op", "cleanup", "blocked", "counting", "init"} : Goto(c, x)
      BY <2>2 DEF ClientCheck, ClientBlocks, ClientCleanup, StartClient
    <3>2. pc[c] # "done" /\ started' = started /\ latch' = latch
      BY <2>2 DEF ClientCheck, ClientBlocks, ClientCleanup, StartClient
    <3> QED
      BY <1>1, <3>1, <3>2 DEF Goto, Typed, Counted
  <2>3. CASE ClientOp(c)
    <3>1. PICK x \in {"loop", "cleanup"} : Goto(c, x)
      BY <2>3 DEF ClientOp
    <3>2. pc[c] # "done" /\ started' = started /\ latch' = latch
      BY <2>3 DEF ClientOp
    <3> QED
      BY <1>1, <3>1, <3>2 DEF Goto, Typed, Counted
  <2> QED
    BY <1>3, <2>1, <2>2, <2>3 DEF Client
<1>4. CASE ~\E c \in Clients : Client(c) \/ StartClient(c)
  <2>1. latch' = latch /\ pc' = pc /\ started' = started
    BY <1>4 DEF Next, Main, Terminator, Status, Join, StartTerminator, Interrupt, JoinStatus, Export,
      RequestStop, TerminatorInterrupted, TerminatorJoined, ComputeStats, StatusLate, StatusAllDone,
      StatusTimeout, vars
  <2> QED
    BY <1>1, <2>1 DEF Counted
<1> QED
  BY <1>1, <1>2, <1>3, <1>4

\* The status thread computes its last line when every client is done: it was
\* told so by the latch, or by main().
LEMMA FinalStep ==
  ASSUME IInv, [Next]_vars
  PROVE  /\ spc' \in {"final", "done"} => \A c \in Clients : pc'[c] = "done"
         /\ spc' = "done" => statusTotal' = Total(Clients)'
<1> USE DEF mainvars, statusvars, history
<1>1. Typed /\ JoinInv /\ LatchInv
  BY DEF IInv
<1>2. CASE spc \in {"final", "done"}
  <2>1. pc' = pc /\ opsdone' = opsdone /\ \A c \in Clients : pc[c] = "done"
    BY <1>1, <1>2, DoneStays DEF LatchInv
  <2>2. spc' = "done" => statusTotal' = Total(Clients) \/ (spc = "done" /\ statusTotal' = statusTotal)
    BY <1>2 DEF Next, Main, Terminator, Status, Join, StartTerminator, Interrupt, JoinStatus, Export,
      RequestStop, TerminatorInterrupted, TerminatorJoined, ComputeStats, StatusLate, StatusAllDone,
      StatusTimeout, vars, Client, ClientInit, ClientCheck, ClientOp, ClientBlocks, ClientCleanup,
      ClientCountDown, StartClient
  <2> QED
    BY <1>1, <2>1, <2>2 DEF LatchInv, Total, Done
<1>3. CASE StatusAllDone
  <2>1. \A c \in Clients : pc[c] = "done"
    <3>1. CASE latch = 0
      BY <1>1, <3>1, OpenLatch
    <3>2. CASE sint
      BY <1>1, <3>2 DEF JoinInv
    <3> QED
      BY <1>3, <3>1, <3>2 DEF StatusAllDone
  <2> QED
    BY <1>3, <2>1 DEF StatusAllDone
<1>4. CASE spc \notin {"final", "done"} /\ ~StatusAllDone
  <2>1. spc' \notin {"final", "done"}
    BY <1>4 DEF Next, Main, Terminator, Status, Join, StartTerminator, Interrupt, JoinStatus, Export,
      RequestStop, TerminatorInterrupted, TerminatorJoined, ComputeStats, StatusLate,
      StatusTimeout, vars, Client, ClientInit, ClientCheck, ClientOp, ClientBlocks, ClientCleanup,
      ClientCountDown, StartClient
  <2> QED
    BY <2>1
<1> QED
  BY <1>2, <1>3, <1>4

\* Only a client that works, and so has not been joined, changes its count.
LEMMA TotalStep == IInv /\ [Next]_vars => TotalInv'
<1> SUFFICES ASSUME IInv, [Next]_vars PROVE TotalInv'
  OBVIOUS
<1> USE DEF mainvars, statusvars, history
<1>1. Typed /\ JoinInv /\ TotalInv
  BY DEF IInv
<1>2. ASSUME NEW c \in Clients, Join(c) PROVE TotalInv'
  <2>1. c \notin joined /\ joined' = joined \cup {c} /\ opsDone' = opsDone + opsdone[c] /\ opsdone' = opsdone
    BY <1>2 DEF Join
  <2>2. Total(joined \cup {c}) = Total(joined) + opsdone[c]
    BY <1>1, <2>1, TotalOfJoined DEF Typed
  <2>3. Total(joined)' = Total(joined \cup {c})
    BY <2>1 DEF Total, Done
  <2> QED
    BY <1>1, <2>1, <2>2, <2>3 DEF TotalInv
<1>3. CASE ~\E c \in Clients : Join(c)
  <2>1. joined' = joined /\ opsDone' = opsDone
    BY <1>3 DEF Next, Main, Terminator, Status, StartTerminator, Interrupt, JoinStatus, Export,
      RequestStop, TerminatorInterrupted, TerminatorJoined, ComputeStats, StatusLate, StatusAllDone,
      StatusTimeout, vars, Client, ClientInit, ClientCheck, ClientOp, ClientBlocks, ClientCleanup,
      ClientCountDown, StartClient
  <2>2. \A x \in joined : opsdone'[x] = opsdone[x]
    <3>1. CASE \E c \in Clients : ClientOp(c)
      <4>1. PICK c \in Clients : ClientOp(c)
        BY <3>1
      <4>2. c \notin joined /\ (opsdone' = opsdone \/ opsdone' = [opsdone EXCEPT ![c] = Min2(@ + 1, OpCap)])
        BY <1>1, <4>1 DEF ClientOp, JoinInv
      <4> QED
        BY <1>1, <4>2 DEF Typed
    <3>2. CASE ~\E c \in Clients : ClientOp(c)
      BY <1>3, <3>2 DEF Next, Main, Terminator, Status, StartTerminator, Interrupt, JoinStatus, Export,
        RequestStop, TerminatorInterrupted, TerminatorJoined, ComputeStats, StatusLate, StatusAllDone,
        StatusTimeout, vars, Client, ClientInit, ClientCheck, ClientBlocks, ClientCleanup,
        ClientCountDown, StartClient
    <3> QED
      BY <3>1, <3>2
  <2>3. Done(joined)' = Done(joined)
    BY <1>1, <2>1, <2>2 DEF Done
  <2> QED
    BY <1>1, <2>1, <2>3 DEF TotalInv, Total
<1> QED
  BY <1>2, <1>3

-----------------------------------------------------------------------------
(* The theorems                                                            *)

LEMMA Initial == Init => IInv
<1> SUFFICES ASSUME Init PROVE IInv
  OBVIOUS
<1>1. Counted = {} /\ Cardinality({}) = 0 /\ ThreadCount \in Nat /\ OpCap \in Nat
  BY RunAssumption, FS_EmptySet DEF Init, Counted
<1>2. Typed
  <2>1. /\ spc \in {"none", "stats"} /\ quota \in Quotas
        /\ stop \in BOOLEAN /\ tint \in BOOLEAN /\ sint \in BOOLEAN
    BY DEF Init
  <2> QED
    BY <1>1, <2>1 DEF Init, Typed, PCs
<1>4. StopInv /\ JoinInv
  BY <1>1 DEF Init, StopInv, JoinInv
<1>3. LatchInv
  BY <1>1 DEF Init, LatchInv, LatchCount
<1>5. TotalInv
  <2>1. joined = {} /\ Done({}) = {}
    BY DEF Init, Done
  <2> QED
    BY <1>1, <2>1 DEF Init, TotalInv, Total
<1> QED
  BY <1>2, <1>3, <1>4, <1>5 DEF IInv

LEMMA Inductive == IInv /\ [Next]_vars => IInv'
<1>1. IInv /\ [Next]_vars => LatchInv'
  BY CountStep, FinalStep DEF LatchInv
<1> QED
  BY <1>1, TypeStep, StopStep, JoinStep, TotalStep DEF IInv

LEMMA Invariant == Spec => []IInv
BY Initial, Inductive, PTL DEF Spec

\* After a stop request a client begins no operation but the one it had checked
\* for before (StopIsPrompt).
THEOREM StopIsPromptAlways == Spec => []StopIsPrompt
<1>1. IInv => StopIsPrompt
  BY DEF IInv, StopInv, StopIsPrompt
<1> QED
  BY <1>1, Invariant, PTL

\* main() exports when every client is done, and has cleaned up if it ran
\* (CleanBeforeExport).
THEOREM CleanBeforeExportAlways == Spec => []CleanBeforeExport
<1>1. IInv => CleanBeforeExport
  BY DEF IInv, JoinInv, CleanBeforeExport
<1> QED
  BY <1>1, Invariant, PTL

\* Counts, flags and places keep their types; the latch never counts below zero,
\* with a thread count that initDb() has cut down, and clients that end before
\* they could count (TypeOK).
THEOREM TypeCorrect == Spec => []TypeOK
<1>1. ASSUME IInv PROVE TypeOK
  <2>1. Typed /\ latch = ThreadCount - Cardinality(Counted)
    BY <1>1 DEF IInv, LatchInv
  <2>2. Counted \subseteq Clients /\ IsFiniteSet(Clients) /\ ThreadCount \in Nat
        /\ ThreadCount >= Cardinality(Clients)
    BY <2>1, RunAssumption DEF Counted, Typed
  <2>3. Cardinality(Counted) <= Cardinality(Clients) /\ Cardinality(Clients) \in Nat
        /\ Cardinality(Counted) \in Nat
    BY <2>1, <2>2, CountedFinite, FS_Subset, FS_CardinalityType
  <2>4. latch \in 0 .. ThreadCount
    BY <2>1, <2>2, <2>3
  <2>5. {stop, tint, sint} \subseteq BOOLEAN
    BY <2>1 DEF Typed
  <2> QED
    BY <2>1, <2>4, <2>5 DEF TypeOK, Typed, PCs
<1> QED
  BY <1>1, Invariant, PTL

\* The total main() prints and the status thread's last line count every
\* operation of every client, whether the latch or the interrupt has ended the
\* status thread's loop (TotalsAreFinal).
THEOREM TotalsAreFinalAlways == Spec => []TotalsAreFinal
<1>1. IInv => TotalsAreFinal
  BY DEF IInv, JoinInv, TotalInv, LatchInv, TotalsAreFinal
<1> QED
  BY <1>1, Invariant, PTL

-----------------------------------------------------------------------------
(* Measurements: the inductive invariant.  A name keeps the object that it  *)
(* gets first, and a thread works on the object of the name it looked up,   *)
(* so each counter can be compared with the history: what it lacks is in    *)
(* the hands of the status thread or of the threads inside measure().       *)

Places == {"idle", "lookup", "construct", "measure", "write", "window", "code", "counter", "count"}
MeasuringPlaces == {"measure", "write", "window"}
ReportingPlaces == {"code", "counter", "count"}

MapNames == {MapsOf(interval)[i] : i \in DOMAIN MapsOf(interval)}

MeasurementsTyped ==
  /\ kind \in Kinds /\ interval \in Intervals
  /\ measurement \in [Names -> Objects]
  /\ returncodes \in [Threads -> [Statuses -> Objects]]
  /\ operations \in [Names -> [Threads -> Nat]] /\ windowoperations \in [Names -> [Threads -> Nat]]
  /\ monitor \in [Names -> [Threads -> Objects]]
  /\ count \in [Threads -> [Statuses -> [Threads -> Nat]]]
  /\ place \in [Threads -> Places] /\ status \in [Threads -> Statuses]
  /\ todo \in [Threads -> Seq(Names)] /\ object \in [Threads -> Objects]
  /\ DOMAIN read = Threads /\ done \in [Threads -> Nat]
  /\ statusPlace \in {"wait", "visit", "summary", "take", "ended"}
  /\ left \in Seq(Names) /\ Len(left) <= 4 /\ name \in Names \cup {NoName} /\ taken \in Nat
  /\ windows \in Nat
  /\ measured \in [Names -> Nat] /\ summed \in [Names -> Nat] /\ returned \in [Statuses -> Nat]
  /\ exported \in BOOLEAN

\* Where a thread is, it has the object of the name it looked up.
WorkInv ==
  \A t \in Threads :
    /\ done[t] <= OpCount[t]
    /\ place[t] # "idle" => done[t] < OpCount[t]
    /\ place[t] \in MeasuringPlaces => todo[t] # <<>>
    /\ place[t] \in {"idle"} \cup ReportingPlaces => todo[t] = <<>>
    /\ place[t] \in MeasuringPlaces \cup ReportingPlaces =>
         object[t] = measurement[Wanted(t)] /\ object[t] \in Threads
    /\ IF place[t] = "count" THEN read[t] \in Threads /\ read[t] = returncodes[object[t]][status[t]]
       ELSE read[t] \in Nat

\* The names that a thread has still to measure an operation under.
TodoInv ==
  \A t \in Threads :
    /\ Len(todo[t]) <= 2
    /\ \A i \in DOMAIN todo[t] : todo[t][i][1] \in MapNames /\ todo[t][i][2] = NameOf(status[t])
    /\ \A i, j \in DOMAIN todo[t] : todo[t][i] = todo[t][j] => i = j

\* An object that is in no map has counted nothing.
MapsInv ==
  /\ \A n \in Names, o \in Threads : o # measurement[n] =>
       operations[n][o] = 0 /\ windowoperations[n][o] = 0
  /\ \A n \in Names : measurement[n] = NoOne => measured[n] = 0 /\ summed[n] = 0 /\ name # n

\* Threads that have measured their operation under n and not returned yet.
Behind(n, s) ==
  {t \in Threads :
    place[t] # "idle" /\ status[t] = s /\ \A i \in DOMAIN todo[t] : todo[t][i] # n}

BehindInv ==
  \A s \in Statuses, m \in MapNames :
    measured[<<m, NameOf(s)>>] = returned[s] + Cardinality(Behind(<<m, NameOf(s)>>, s))

CountInv ==
  \A s \in Statuses :
    /\ \A o \in Threads : returncodes[o][s] # NoOne => o = measurement[Reports]
    /\ \A o, c \in Threads :
         count[o][s][c] = IF o = measurement[Reports] /\ c = returncodes[o][s] THEN returned[s] ELSE 0
    /\ returned[s] # 0 =>
         measurement[Reports] \in Threads /\ returncodes[measurement[Reports]][s] # NoOne

SummaryInv ==
  /\ statusPlace \in {"summary", "take"} <=> name # NoName
  /\ taken = 0 \/ statusPlace = "take"
  /\ kind = "raw" => statusPlace # "take"
  /\ exported => AllDone /\ statusPlace = "ended"

AtWindow(n) == {t \in Threads : place[t] = "window" /\ Wanted(t) = n}
InHand(n) == IF name = n THEN taken ELSE 0

PlacesInv ==
  \A t \in Threads :
    /\ place[t] = "write" => kind = "timeseries"
    /\ place[t] = "window" => kind \in {"histogram", "timeseries"}

HdrInv ==
  kind = "hdrhistogram" => \A n \in Names : measurement[n] # NoOne =>
     /\ operations[n][measurement[n]] + windowoperations[n][measurement[n]] + InHand(n) = measured[n]
     /\ exported => windowoperations[n][measurement[n]] = 0
RawInv ==
  kind = "raw" => \A n \in Names : measurement[n] # NoOne =>
    operations[n][measurement[n]] = measured[n]
WindowInv ==
  kind \in {"hdrhistogram", "raw"} /\ ~exported => \A n \in Names : measurement[n] # NoOne =>
     windowoperations[n][measurement[n]] + summed[n] + InHand(n) = measured[n]

HistogramInv ==
  kind = "histogram" =>
    /\ \A t \in Threads : place[t] = "window" => monitor[Wanted(t)][object[t]] = t
    /\ \A n \in Names, o \in Threads : monitor[n][o] # NoOne =>
         place[monitor[n][o]] = "window" /\ Of(monitor[n][o]) = <<n, o>>
    /\ \A n \in Names : measurement[n] # NoOne =>
         operations[n][measurement[n]] = measured[n] +
           IF monitor[n][measurement[n]] = NoOne THEN 0 ELSE 1

Writes(n) == measured[n] + Cardinality(AtWindow(n))
SeriesInv ==
  kind = "timeseries" =>
    /\ \A n \in Names : measurement[n] # NoOne =>
         /\ operations[n][measurement[n]] <= Writes(n)
         /\ Writes(n) > 0 => operations[n][measurement[n]] > 0
    /\ \A t \in Threads, n \in Names : place[t] = "write" /\ Wanted(t) = n => read[t] <= Writes(n)

MInv ==
  /\ MeasurementsTyped /\ WorkInv /\ TodoInv /\ MapsInv /\ PlacesInv /\ SummaryInv
  /\ BehindInv /\ CountInv /\ HdrInv /\ RawInv /\ WindowInv /\ HistogramInv /\ SeriesInv

-----------------------------------------------------------------------------
(* Names, objects and counters                                             *)

LEMMA MapsAre ==
  ASSUME interval \in Intervals
  PROVE  /\ MapsOf(interval) = <<"op", "intended">> \/ MapsOf(interval) = <<interval>>
         /\ MapNames \subseteq {"op", "intended"}
         /\ DOMAIN MapsOf(interval) \in {1 .. 1, 1 .. 2}
         /\ \A i \in DOMAIN MapsOf(interval) : MapsOf(interval)[i] \in MapNames
         /\ \A i, j \in DOMAIN MapsOf(interval) : MapsOf(interval)[i] = MapsOf(interval)[j] => i = j
<1>1. CASE interval = "both"
  BY <1>1 DEF MapsOf, MapNames
<1>2. CASE interval # "both"
  BY <1>2 DEF MapsOf, MapNames, Intervals
<1> QED
  BY <1>1, <1>2

LEMMA NamesAre ==
  /\ NoName \notin Names /\ NoOne \notin Threads
  /\ Reports \in Names
  /\ NameOf("OK") # NameOf("ERROR")
  /\ \A s \in Statuses : \A m \in {"op", "intended"} : <<m, NameOf(s)>> \in Names
BY MeasurementsAssumption DEF NoName, Names, Reports, NameOf, Statuses

LEMMA WantedIsName ==
  ASSUME MeasurementsTyped, NEW t \in Threads
  PROVE  /\ Wanted(t) \in Names
         /\ todo[t] # <<>> => Wanted(t) = todo[t][1] /\ 1 \in DOMAIN todo[t]
         /\ todo[t] = <<>> => Wanted(t) = Reports
<1>1. todo[t] \in Seq(Names)
  BY DEF MeasurementsTyped
<1> QED
  BY <1>1, NamesAre DEF Wanted, Measuring

LEMMA BumpIs ==
  ASSUME NEW f \in [Names -> [Threads -> Nat]], NEW n \in Names, NEW o \in Threads
  PROVE  /\ Bump(f, <<n, o>>) \in [Names -> [Threads -> Nat]]
         /\ \A m \in Names, p \in Threads :
              Bump(f, <<n, o>>)[m][p] = IF m = n /\ p = o THEN f[n][o] + 1 ELSE f[m][p]
BY DEF Bump

LEMMA AddOne ==
  ASSUME NEW S, NEW f \in [S -> Nat], NEW x \in S
  PROVE  /\ [f EXCEPT ![x] = @ + 1] \in [S -> Nat]
         /\ \A y \in S : [f EXCEPT ![x] = @ + 1][y] = IF y = x THEN f[x] + 1 ELSE f[y]
OBVIOUS

LEMMA GrabIs ==
  ASSUME NEW f \in [Names -> [Threads -> Objects]], NEW n \in Names, NEW o \in Threads,
         NEW v \in Objects
  PROVE  /\ Write(f, <<n, o>>, v) \in [Names -> [Threads -> Objects]]
         /\ \A m \in Names, p \in Threads :
              Write(f, <<n, o>>, v)[m][p] = IF m = n /\ p = o THEN v ELSE f[m][p]
BY DEF Write

LEMMA WriteIs ==
  ASSUME NEW f \in [Names -> [Threads -> Nat]], NEW n \in Names, NEW o \in Threads, NEW v \in Nat
  PROVE  /\ Write(f, <<n, o>>, v) \in [Names -> [Threads -> Nat]]
         /\ \A m \in Names, p \in Threads :
              Write(f, <<n, o>>, v)[m][p] = IF m = n /\ p = o THEN v ELSE f[m][p]
BY DEF Write

LEMMA AtIs == \A f, n, o : At(f, <<n, o>>) = f[n][o]
BY DEF At

\* A step of a client leaves the others, the status thread and the summaries alone; a
\* step of the status thread or of main() leaves the clients and the maps alone.
LEMMA ClientFrame ==
  ASSUME MeasurementsTyped, NEW t \in Threads, ClientThread(t)
  PROVE  /\ kind' = kind /\ interval' = interval /\ statusPlace' = statusPlace /\ left' = left
         /\ name' = name /\ taken' = taken /\ windows' = windows /\ summed' = summed
         /\ exported' = exported
         /\ \A u \in Threads \ {t} :
              /\ place'[u] = place[u] /\ status'[u] = status[u] /\ todo'[u] = todo[u]
              /\ object'[u] = object[u] /\ read'[u] = read[u] /\ done'[u] = done[u]
<1> USE DEF MeasurementsTyped, config, statusThread, tallies, GoesTo, Holds, Measured
<1>1. CASE Operate(t)
  BY <1>1 DEF Operate
<1>2. CASE Lookup(t)
  BY <1>2 DEF Lookup
<1>3. CASE Construct(t)
  BY <1>3 DEF Construct
<1>4. CASE Measure(t)
  BY <1>4 DEF Measure, MeasureHdr, MeasureRaw, MeasureHistogram, EndHistogram, MeasureSeries,
    WriteSeries, EndSeries
<1>5. CASE Code(t)
  BY <1>5 DEF Code
<1>6. CASE AddCounter(t)
  BY <1>6 DEF AddCounter
<1>7. CASE Count(t)
  BY <1>7 DEF Count
<1> QED
  BY <1>1, <1>2, <1>3, <1>4, <1>5, <1>6, <1>7 DEF ClientThread

LEMMA StatusFrame ==
  ASSUME StatusThread \/ ExportMeasurements
  PROVE  /\ kind' = kind /\ interval' = interval
         /\ measurement' = measurement /\ returncodes' = returncodes
         /\ monitor' = monitor /\ count' = count /\ place' = place /\ status' = status /\ todo' = todo
         /\ object' = object /\ read' = read /\ done' = done /\ measured' = measured
         /\ returned' = returned
BY DEF StatusThread, BeginSummary, Visit, EndSummary, Summarize, ExportMeasurements, config, maps,
  counters, locals, tallies

-----------------------------------------------------------------------------
(* Types and places                                                        *)

LEMMA FullTodo ==
  ASSUME interval \in Intervals, NEW s \in Statuses
  PROVE  LET full == [i \in DOMAIN MapsOf(interval) |-> <<MapsOf(interval)[i], NameOf(s)>>]
         IN  /\ full \in Seq(Names) /\ Len(full) <= 2
             /\ \A i \in DOMAIN full : full[i] = <<MapsOf(interval)[i], NameOf(s)>>
             /\ \A i, j \in DOMAIN full : full[i] = full[j] => i = j
<1> DEFINE full == [i \in DOMAIN MapsOf(interval) |-> <<MapsOf(interval)[i], NameOf(s)>>]
<1>1. \A i \in DOMAIN MapsOf(interval) : <<MapsOf(interval)[i], NameOf(s)>> \in Names
  BY MapsAre, NamesAre
<1>2. PICK k \in {1, 2} : DOMAIN MapsOf(interval) = 1 .. k
  BY MapsAre
<1>3. full \in Seq(Names) /\ Len(full) = k
  BY <1>1, <1>2
<1> QED
  BY <1>3, MapsAre

LEMMA OrderIs ==
  ASSUME interval \in Intervals
  PROVE  InOrder(interval) \in Seq(Names) /\ Len(InOrder(interval)) <= 4
<1>1. PICK k \in {1, 2} : DOMAIN MapsOf(interval) = 1 .. k /\ Len(MapsOf(interval)) = k
  BY MapsAre DEF MapsOf
<1>2. \A j \in 1 .. 2 * k : (j + 1) \div 2 \in 1 .. k
  BY <1>1
<1>3. \A j \in 1 .. 2 * k : MapsOf(interval)[(j + 1) \div 2] \in {"op", "intended"}
  BY <1>1, <1>2, MapsAre
<1> DEFINE Nth(j) == <<MapsOf(interval)[(j + 1) \div 2], IF j % 2 = 1 THEN "READ" ELSE "READ-FAILED">>
<1>4. \A j \in 1 .. 2 * k : Nth(j) \in Names
  BY <1>3 DEF Names
<1>5. InOrder(interval) = [j \in 1 .. 2 * k |-> Nth(j)]
  BY <1>1 DEF InOrder
<1> HIDE DEF Nth
<1>6. [j \in 1 .. 2 * k |-> Nth(j)] \in Seq(Names) /\ Len([j \in 1 .. 2 * k |-> Nth(j)]) = 2 * k
  BY <1>4
<1> QED
  BY <1>5, <1>6

\* Where the counters of a step are.
LEMMA OfIs ==
  ASSUME MeasurementsTyped, WorkInv, NEW t \in Threads
  PROVE  /\ Of(t) = <<Wanted(t), object[t]>> /\ Wanted(t) \in Names
         /\ place[t] \in MeasuringPlaces \cup ReportingPlaces =>
              object[t] \in Threads /\ object[t] = measurement[Wanted(t)]
BY WantedIsName DEF Of, WorkInv

LEMMA HereIs ==
  ASSUME MeasurementsTyped, SummaryInv, MapsInv
  PROVE  /\ Here = <<name, measurement[name]>>
         /\ statusPlace \in {"summary", "take"} => name \in Names /\ measurement[name] \in Threads
BY NamesAre DEF Here, SummaryInv, MapsInv, MeasurementsTyped, Objects

LEMMA MeasuredTyped ==
  ASSUME MeasurementsTyped, WorkInv, NEW t \in Threads, Measured(t), place[t] \in MeasuringPlaces
  PROVE  /\ measured' \in [Names -> Nat] /\ todo' \in [Threads -> Seq(Names)]
         /\ object' \in [Threads -> Objects] /\ place' \in [Threads -> Places]
<1>1. Wanted(t) \in Names /\ todo[t] \in Seq(Names) /\ todo[t] # <<>>
  BY WantedIsName DEF MeasurementsTyped, WorkInv
<1>2. Tail(todo[t]) \in Seq(Names)
  BY <1>1
<1> USE DEF Measured, Holds, GoesTo
<1>3. measured' \in [Names -> Nat]
  <2>1. measured \in [Names -> Nat] /\ measured' = [measured EXCEPT ![Wanted(t)] = @ + 1]
    BY DEF MeasurementsTyped
  <2> QED
    BY <1>1, <2>1, AddOne
<1>4. todo' \in [Threads -> Seq(Names)]
  BY <1>2 DEF MeasurementsTyped
<1>5. object' \in [Threads -> Objects] /\ place' \in [Threads -> Places]
  BY DEF MeasurementsTyped, Objects, Places
<1> QED
  BY <1>3, <1>4, <1>5

MInvTyped == MeasurementsTyped /\ WorkInv /\ TodoInv /\ MapsInv /\ PlacesInv /\ SummaryInv /\ CountInv

LEMMA ClientTyped ==
  ASSUME MInvTyped, NEW t \in Threads, ClientThread(t)
  PROVE  MeasurementsTyped'
<1> USE DEF MInvTyped
<1>1. MeasurementsTyped /\ WorkInv
  OBVIOUS
<1>2. Wanted(t) \in Names
  BY WantedIsName
<1>3. /\ kind' = kind /\ interval' = interval /\ statusPlace' = statusPlace /\ left' = left
      /\ name' = name /\ taken' = taken /\ windows' = windows /\ summed' = summed
      /\ exported' = exported
  BY ClientFrame
<1> USE DEF maps, counters, tallies, GoesTo, Holds
<1>4. CASE Operate(t)
  <2>1. PICK s \in Statuses :
          /\ status' = [status EXCEPT ![t] = s]
          /\ todo' = [todo EXCEPT ![t] =
               [i \in DOMAIN MapsOf(interval) |-> <<MapsOf(interval)[i], NameOf(s)>>]]
    BY <1>4 DEF Operate
  <2>2. [i \in DOMAIN MapsOf(interval) |-> <<MapsOf(interval)[i], NameOf(s)>>] \in Seq(Names)
    BY FullTodo DEF MeasurementsTyped
  <2>3. todo' \in [Threads -> Seq(Names)] /\ status' \in [Threads -> Statuses]
    BY <1>1, <2>1, <2>2 DEF MeasurementsTyped
  <2>4. place' \in [Threads -> Places]
    BY <1>1, <1>4 DEF Operate, MeasurementsTyped, Places
  <2> QED
    BY <1>1, <1>3, <1>4, <2>3, <2>4 DEF Operate, MeasurementsTyped
<1>5. CASE Lookup(t)
  BY <1>1, <1>2, <1>3, <1>5, ZenonT(60) DEF Lookup, MeasurementsTyped, Places
<1>6. CASE Construct(t)
  BY <1>1, <1>2, <1>3, <1>6 DEF Construct, PutIfAbsent, MeasurementsTyped, Objects, Places
<1>7. CASE Measure(t)
  <2> DEFINE n == Wanted(t)
             o == object[t]
  <2>1. place[t] \in MeasuringPlaces /\ o \in Threads /\ n \in Names /\ Of(t) = <<n, o>>
    BY <1>7, OfIs DEF Measure, MeasureHdr, MeasureRaw, MeasureHistogram, EndHistogram,
      MeasureSeries,
      WriteSeries, EndSeries, MeasuringPlaces
  <2>2. /\ returncodes' = returncodes /\ measurement' = measurement /\ count' = count
        /\ status' = status /\ done' = done /\ returned' = returned
    BY <1>7 DEF Measure
  <2> HIDE DEF n, o
  <2>9. /\ operations \in [Names -> [Threads -> Nat]]
        /\ windowoperations \in [Names -> [Threads -> Nat]]
        /\ monitor \in [Names -> [Threads -> Objects]]
    BY <1>1 DEF MeasurementsTyped
  <2>3. /\ Bump(operations, Of(t)) \in [Names -> [Threads -> Nat]]
        /\ Bump(windowoperations, Of(t)) \in [Names -> [Threads -> Nat]]
    BY <2>1, <2>9, BumpIs
  <2>4. \A v \in Nat : /\ Write(operations, Of(t), v) \in [Names -> [Threads -> Nat]]
                       /\ Write(windowoperations, Of(t), v) \in [Names -> [Threads -> Nat]]
    <3>1. ASSUME NEW v \in Nat
          PROVE  /\ Write(operations, <<n, o>>, v) \in [Names -> [Threads -> Nat]]
                 /\ Write(windowoperations, <<n, o>>, v) \in [Names -> [Threads -> Nat]]
      BY <2>1, <2>9, WriteIs
    <3> QED
      BY <2>1, <3>1
  <2>5. \A u \in Objects : Write(monitor, Of(t), u) \in [Names -> [Threads -> Objects]]
    <3>1. ASSUME NEW u \in Objects
          PROVE  Write(monitor, <<n, o>>, u) \in [Names -> [Threads -> Objects]]
      BY <2>1, <2>9, GrabIs
    <3> QED
      BY <2>1, <3>1
  <2>6. place[t] \in {"write", "window"} => read[t] + 1 \in Nat
    BY DEF WorkInv
  <2>7. CASE MeasureHdr(t) \/ MeasureRaw(t) \/ EndHistogram(t) \/ EndSeries(t)
    <3>1. Measured(t) /\ DOMAIN read' = Threads
      BY <1>1, <2>7 DEF MeasureHdr, MeasureRaw, EndHistogram, EndSeries, MeasurementsTyped
    <3>2. /\ operations' \in [Names -> [Threads -> Nat]]
          /\ windowoperations' \in [Names -> [Threads -> Nat]]
      BY <1>1, <2>3, <2>4, <2>6, <2>7, ZenonT(60) DEF MeasureHdr, MeasureRaw, EndHistogram, EndSeries,
        MeasurementsTyped
    <3>3. monitor' \in [Names -> [Threads -> Objects]]
      BY <1>1, <2>5, <2>7 DEF MeasureHdr, MeasureRaw, EndHistogram, EndSeries, MeasurementsTyped,
        Objects
    <3> QED
      BY <1>1, <1>3, <2>1, <2>2, <3>1, <3>2, <3>3, MeasuredTyped DEF MeasurementsTyped
  <2>8. CASE MeasureHistogram(t) \/ MeasureSeries(t) \/ WriteSeries(t)
    <3>1. /\ operations' \in [Names -> [Threads -> Nat]]
          /\ windowoperations' \in [Names -> [Threads -> Nat]]
      BY <2>9, <2>3, <2>4, <2>6, <2>8 DEF MeasureHistogram, MeasureSeries, WriteSeries
    <3>2. monitor' \in [Names -> [Threads -> Objects]]
      BY <2>9, <2>5, <2>8 DEF MeasureHistogram, MeasureSeries, WriteSeries, Objects
    <3>4. DOMAIN read' = Threads /\ place' \in [Threads -> Places]
      BY <1>1, <2>8 DEF MeasureHistogram, MeasureSeries, WriteSeries, MeasurementsTyped, Places
    <3>3. measured' = measured /\ todo' = todo /\ object' = object
      BY <2>8 DEF MeasureHistogram, MeasureSeries, WriteSeries
    <3> QED
      BY <1>1, <1>3, <2>2, <3>1, <3>2, <3>3, <3>4 DEF MeasurementsTyped
  <2> QED
    BY <1>7, <2>7, <2>8 DEF Measure
<1>8. CASE Code(t)
  BY <1>1, <1>3, <1>8 DEF Code, MeasurementsTyped, Places
<1>9. CASE AddCounter(t)
  <2>1. object[t] \in Threads /\ status[t] \in Statuses
    BY <1>9, OfIs DEF AddCounter, ReportingPlaces, MeasurementsTyped
  <2>2. returncodes' \in [Threads -> [Statuses -> Objects]]
    <3>1. Counter(returncodes[object[t]][status[t]], t) \in Objects
      BY <1>1, <2>1 DEF Counter, MeasurementsTyped, Objects
    <3>2. /\ returncodes \in [Threads -> [Statuses -> Objects]]
          /\ returncodes' = [returncodes EXCEPT ![object[t]][status[t]] =
               Counter(returncodes[object[t]][status[t]], t)]
      BY <1>1, <1>9 DEF AddCounter, MeasurementsTyped
    <3> QED
      BY <2>1, <3>1, <3>2
  <2>3. place' \in [Threads -> Places] /\ DOMAIN read' = Threads
    BY <1>1, <1>9 DEF AddCounter, MeasurementsTyped, Places
  <2> QED
    BY <1>1, <1>3, <1>9, <2>2, <2>3 DEF AddCounter, MeasurementsTyped
<1>10. CASE Count(t)
  <2>1. object[t] \in Threads /\ status[t] \in Statuses /\ read[t] \in Threads
    BY <1>10, OfIs DEF Count, ReportingPlaces, MeasurementsTyped, WorkInv
  <2>2. count' \in [Threads -> [Statuses -> [Threads -> Nat]]]
    <3> DEFINE o == object[t]
               s == status[t]
               c == read[t]
    <3>1. count \in [Threads -> [Statuses -> [Threads -> Nat]]]
      BY <1>1 DEF MeasurementsTyped
    <3>2. count' = [count EXCEPT ![o] =
            [count[o] EXCEPT ![s] = [count[o][s] EXCEPT ![c] = count[o][s][c] + 1]]]
      BY <1>10, <2>1, <3>1 DEF Count
    <3> HIDE DEF o, s, c
    <3>3. /\ count[o] \in [Statuses -> [Threads -> Nat]] /\ count[o][s] \in [Threads -> Nat]
          /\ count[o][s][c] \in Nat
      BY <2>1, <3>1 DEF o, s, c
    <3>4. [count[o][s] EXCEPT ![c] = count[o][s][c] + 1] \in [Threads -> Nat]
      BY <2>1, <3>3, AddOne DEF c
    <3>5. [count[o] EXCEPT ![s] = [count[o][s] EXCEPT ![c] = count[o][s][c] + 1]]
            \in [Statuses -> [Threads -> Nat]]
      BY <3>3, <3>4
    <3> QED
      BY <3>1, <3>2, <3>5
  <2>3. /\ returned' \in [Statuses -> Nat] /\ done' \in [Threads -> Nat]
        /\ status' \in [Threads -> Statuses]
    <3>1. /\ returned \in [Statuses -> Nat] /\ done \in [Threads -> Nat]
          /\ status \in [Threads -> Statuses] /\ "OK" \in Statuses
      BY <1>1 DEF MeasurementsTyped, Statuses
    <3>2. /\ returned' = [returned EXCEPT ![status[t]] = @ + 1] /\ done' = [done EXCEPT ![t] = @ + 1]
          /\ status' = [status EXCEPT ![t] = "OK"]
      BY <1>10 DEF Count
    <3>3. returned' \in [Statuses -> Nat]
      BY <2>1, <3>1, <3>2, AddOne
    <3>4. done' \in [Threads -> Nat]
      BY <3>1, <3>2, AddOne
    <3> QED
      BY <3>1, <3>2, <3>3, <3>4
  <2>4. /\ DOMAIN read' = Threads /\ object' \in [Threads -> Objects]
        /\ place' \in [Threads -> Places]
    BY <1>1, <1>10 DEF Count, MeasurementsTyped, Places, Objects
  <2> QED
    BY <1>1, <1>3, <1>10, <2>2, <2>3, <2>4, ZenonT(60) DEF Count, MeasurementsTyped
<1> QED
  BY <1>4, <1>5, <1>6, <1>7, <1>8, <1>9, <1>10 DEF ClientThread

LEMMA StatusTyped ==
  ASSUME MInvTyped, StatusThread \/ ExportMeasurements
  PROVE  MeasurementsTyped' /\ SummaryInv'
<1> USE DEF MInvTyped
<1>1. MeasurementsTyped /\ WorkInv /\ SummaryInv /\ MapsInv /\ NoName \notin Names
  BY NamesAre
<1>2. /\ kind' = kind /\ interval' = interval
      /\ measurement' = measurement /\ returncodes' = returncodes
      /\ monitor' = monitor /\ count' = count /\ place' = place /\ status' = status /\ todo' = todo
      /\ object' = object /\ read' = read /\ done' = done /\ measured' = measured
      /\ returned' = returned
  BY StatusFrame
<1>3. /\ operations \in [Names -> [Threads -> Nat]]
      /\ windowoperations \in [Names -> [Threads -> Nat]]
      /\ summed \in [Names -> Nat] /\ left \in Seq(Names) /\ taken \in Nat
  BY <1>1 DEF MeasurementsTyped
<1>4. AllDone' = AllDone
  BY <1>2 DEF AllDone
<1> USE DEF counters, tallies
<1>5. CASE BeginSummary
  BY <1>1, <1>2, <1>4, <1>5, OrderIs DEF BeginSummary, MeasurementsTyped, SummaryInv
<1>6. CASE Visit
  <2>1. Head(left) \in Names /\ Tail(left) \in Seq(Names) /\ Len(Tail(left)) <= 4
    BY <1>1, <1>3, <1>6 DEF Visit, MeasurementsTyped
  <2> QED
    BY <1>1, <1>2, <1>4, <1>6, <2>1 DEF Visit, MeasurementsTyped, SummaryInv
<1>7. CASE EndSummary
  BY <1>1, <1>2, <1>4, <1>7 DEF EndSummary, MeasurementsTyped, SummaryInv
<1>8. CASE Summarize
  <2> DEFINE o == measurement[name]
  <2>1. name \in Names /\ o \in Threads /\ Here = <<name, o>> /\ At(windowoperations, Here) \in Nat
        /\ At(operations, Here) \in Nat /\ statusPlace \in {"summary", "take"}
    BY <1>1, <1>3, <1>8, HereIs, AtIs DEF Summarize, SwapHdr, AccumulateHdr, SummarizeRaw,
      ReadWindow, ResetWindow
  <2> HIDE DEF o
  <2>2. \A v \in Nat : /\ Write(operations, Here, v) \in [Names -> [Threads -> Nat]]
                       /\ Write(windowoperations, Here, v) \in [Names -> [Threads -> Nat]]
    <3>1. ASSUME NEW v \in Nat
          PROVE  /\ Write(operations, <<name, o>>, v) \in [Names -> [Threads -> Nat]]
                 /\ Write(windowoperations, <<name, o>>, v) \in [Names -> [Threads -> Nat]]
      BY <1>3, <2>1, WriteIs
    <3> QED
      BY <2>1, <3>1
  <2>3. \A v \in Nat : [summed EXCEPT ![name] = @ + v] \in [Names -> Nat]
    BY <1>3, <2>1
  <2>4. /\ statusPlace' \in {"take", "visit"} /\ operations' \in [Names -> [Threads -> Nat]]
        /\ windowoperations' \in [Names -> [Threads -> Nat]]
        /\ summed' \in [Names -> Nat] /\ taken' \in Nat
        /\ statusPlace' = "take" => name' = name /\ kind # "raw"
        /\ statusPlace' = "visit" => name' = NoName /\ taken' = 0
    <3> USE DEF Emptied, Accumulate, Reported
    <3>1. CASE SwapHdr
      BY <1>1, <1>3, <2>1, <2>2, <3>1 DEF SwapHdr
    <3>2. CASE AccumulateHdr
      <4>1. At(operations, Here) + taken \in Nat
        BY <1>3, <2>1
      <4> QED
        BY <1>3, <2>2, <2>3, <3>2, <4>1 DEF AccumulateHdr
    <3>3. CASE SummarizeRaw
      BY <1>1, <1>3, <2>1, <2>2, <2>3, <3>3 DEF SummarizeRaw
    <3>4. CASE ReadWindow
      <4>1. [summed EXCEPT ![name] = @ + 0] \in [Names -> Nat]
        BY <2>3
      <4> QED
        BY <1>1, <1>3, <2>1, <3>4, <4>1 DEF ReadWindow
    <3>5. CASE ResetWindow
      BY <1>1, <1>3, <2>1, <2>2, <2>3, <3>5 DEF ResetWindow
    <3> QED
      BY <1>8, <3>1, <3>2, <3>3, <3>4, <3>5 DEF Summarize
  <2>5. left' = left /\ windows' = windows /\ exported' = exported
    BY <1>8 DEF Summarize
  <2> QED
    BY <1>1, <1>2, <1>4, <2>1, <2>4, <2>5 DEF MeasurementsTyped, SummaryInv
<1>9. CASE ExportMeasurements
  <2>1. /\ operations' \in [Names -> [Threads -> Nat]]
        /\ windowoperations' \in [Names -> [Threads -> Nat]]
    <3>1. \A n \in Names : \A t \in Threads : operations[n][t] + windowoperations[n][t] \in Nat
      BY <1>3
    <3>2. [n \in Names |-> [t \in Threads |-> operations[n][t] + windowoperations[n][t]]]
            \in [Names -> [Threads -> Nat]]
      BY <3>1
    <3>3. [n \in Names |-> [t \in Threads |-> 0]] \in [Names -> [Threads -> Nat]]
      OBVIOUS
    <3> QED
      BY <1>3, <1>9, <3>2, <3>3 DEF ExportMeasurements, Accumulate
  <2> QED
    BY <1>1, <1>2, <1>4, <1>9, <2>1 DEF ExportMeasurements, statusThread, tallies,
      MeasurementsTyped, SummaryInv
<1> QED
  BY <1>5, <1>6, <1>7, <1>8, <1>9 DEF StatusThread

\* The map keeps the object it has, and the thread of a step finds there what it put.
LEMMA MapStep ==
  ASSUME MInvTyped, NEW t \in Threads, ClientThread(t)
  PROVE  /\ \A n \in Names : measurement[n] # NoOne => measurement'[n] = measurement[n]
         /\ \A n \in Names : measurement'[n] # measurement[n] =>
              /\ n = Wanted(t) /\ measurement[n] = NoOne /\ measurement'[n] = t
              /\ place[t] = "construct"
         /\ \A o \in Threads, s \in Statuses :
              returncodes[o][s] # NoOne => returncodes'[o][s] = returncodes[o][s]
         /\ \A o \in Threads, s \in Statuses : returncodes'[o][s] # returncodes[o][s] =>
              /\ o = object[t] /\ s = status[t] /\ returncodes[o][s] = NoOne
              /\ returncodes'[o][s] = t /\ place[t] = "counter"
<1>1. MeasurementsTyped /\ Wanted(t) \in Names /\ NoOne \notin Threads
  BY WantedIsName, NamesAre DEF MInvTyped
<1> USE DEF maps
<1>2. CASE Construct(t)
  BY <1>1, <1>2 DEF Construct, PutIfAbsent, MeasurementsTyped
<1>3. CASE AddCounter(t)
  <2>1. object[t] \in Threads /\ status[t] \in Statuses
    BY <1>3, OfIs DEF AddCounter, ReportingPlaces, MeasurementsTyped, MInvTyped
  <2> QED
    BY <1>1, <1>3, <2>1 DEF AddCounter, Counter, MeasurementsTyped
<1>4. CASE Operate(t) \/ Lookup(t) \/ Measure(t) \/ Code(t) \/ Count(t)
  BY <1>4 DEF Operate, Lookup, Measure, Code, Count
<1> QED
  BY <1>2, <1>3, <1>4 DEF ClientThread

\* What a thread does to itself.
LEMMA WorkStep ==
  ASSUME MInvTyped, NEW t \in Threads, ClientThread(t)
  PROVE  WorkInv' /\ PlacesInv'
<1> USE DEF MInvTyped
<1>1. MeasurementsTyped /\ WorkInv /\ PlacesInv /\ NoOne \notin Threads /\ MeasurementsTyped'
      /\ Wanted(t) \in Names /\ Reports \in Names
  BY NamesAre, ClientTyped, WantedIsName
<1>2. Reports' = Reports /\ kind' = kind
  BY ClientFrame DEF Reports
<1>3. ASSUME NEW u \in Threads \ {t}
      PROVE  /\ place'[u] = place[u] /\ status'[u] = status[u] /\ todo'[u] = todo[u]
             /\ object'[u] = object[u] /\ read'[u] = read[u] /\ done'[u] = done[u]
             /\ Wanted(u)' = Wanted(u)
             /\ place[u] \in MeasuringPlaces \cup ReportingPlaces =>
                  object'[u] = measurement'[Wanted(u)]
             /\ place[u] = "count" => read[u] = returncodes'[object[u]][status[u]]
  <2>1. /\ place'[u] = place[u] /\ status'[u] = status[u] /\ todo'[u] = todo[u]
        /\ object'[u] = object[u] /\ read'[u] = read[u] /\ done'[u] = done[u]
    BY <1>3, ClientFrame
  <2>2. Wanted(u)' = Wanted(u)
    BY <1>2, <2>1 DEF Wanted, Measuring
  <2>3. Wanted(u) \in Names /\ status[u] \in Statuses
    BY WantedIsName DEF MeasurementsTyped
  <2>4. place[u] \in MeasuringPlaces \cup ReportingPlaces =>
          object[u] = measurement[Wanted(u)] /\ object[u] \in Threads
    BY <1>1 DEF WorkInv
  <2>5. place[u] = "count" => read[u] = returncodes[object[u]][status[u]] /\ read[u] \in Threads
                              /\ object[u] \in Threads
    BY <1>1, <2>4 DEF WorkInv, ReportingPlaces
  <2> QED
    BY <1>1, <2>1, <2>2, <2>3, <2>4, <2>5, MapStep
<1> DEFINE Own(u) ==
      /\ done[u] <= OpCount[u]
      /\ place[u] # "idle" => done[u] < OpCount[u]
      /\ place[u] \in MeasuringPlaces => todo[u] # <<>>
      /\ place[u] \in {"idle"} \cup ReportingPlaces => todo[u] = <<>>
      /\ place[u] \in MeasuringPlaces \cup ReportingPlaces =>
           object[u] = measurement[Wanted(u)] /\ object[u] \in Threads
      /\ IF place[u] = "count" THEN read[u] \in Threads /\ read[u] = returncodes[object[u]][status[u]]
         ELSE read[u] \in Nat
<1>4. ASSUME NEW u \in Threads \ {t} PROVE Own(u)'
  BY <1>1, <1>3, <1>4 DEF WorkInv
<1>5. OpCount[t] \in Nat /\ done[t] \in Nat
  BY <1>1, MeasurementsAssumption DEF MeasurementsTyped
<1>6. Own(t)' /\ (place'[t] = "write" => kind = "timeseries")
      /\ (place'[t] = "window" => kind \in {"histogram", "timeseries"})
  <2> USE DEF GoesTo, Holds, maps, MeasuringPlaces, ReportingPlaces
  <2>1. Own(t) /\ place[t] \in Places
    BY <1>1 DEF WorkInv, MeasurementsTyped
  <2>2. CASE Operate(t)
    <3>1. PICK s \in Statuses :
            todo' = [todo EXCEPT ![t] =
              [i \in DOMAIN MapsOf(interval) |-> <<MapsOf(interval)[i], NameOf(s)>>]]
      BY <2>2 DEF Operate
    <3>2. /\ place'[t] = "lookup" /\ done' = done /\ read' = read /\ done[t] < OpCount[t]
          /\ place[t] = "idle"
      BY <1>1, <2>2 DEF Operate, MoreToDo, MeasurementsTyped
    <3> QED
      BY <2>1, <3>2
  <2>3. CASE Lookup(t)
    <3>1. /\ done' = done /\ read' = read /\ todo' = todo /\ Wanted(t)' = Wanted(t)
          /\ place[t] = "lookup"
          /\ measurement' = measurement
      BY <1>2, <2>3 DEF Lookup, Wanted, Measuring
    <3>2. \/ place'[t] = "construct"
          \/ /\ place'[t] = IF Measuring(t) THEN "measure" ELSE "code"
             /\ measurement[Wanted(t)] # NoOne /\ object'[t] = measurement[Wanted(t)]
      BY <1>1, <2>3 DEF Lookup, MeasurementsTyped
    <3>3. measurement[Wanted(t)] # NoOne => measurement[Wanted(t)] \in Threads
      BY <1>1 DEF MeasurementsTyped, Objects
    <3> QED
      BY <2>1, <3>1, <3>2, <3>3 DEF Measuring
  <2>4. CASE Construct(t)
    <3>1. /\ done' = done /\ read' = read /\ todo' = todo /\ Wanted(t)' = Wanted(t)
          /\ place[t] = "construct"
      BY <1>2, <2>4 DEF Construct, Wanted, Measuring
    <3>2. /\ place'[t] = IF Measuring(t) THEN "measure" ELSE "code"
          /\ object'[t] = measurement'[Wanted(t)] /\ object'[t] \in Threads
      BY <1>1, <2>4 DEF Construct, PutIfAbsent, MeasurementsTyped, Objects
    <3> QED
      BY <2>1, <3>1, <3>2 DEF Measuring
  <2>5. CASE Measure(t)
    <3>1. /\ done' = done /\ status' = status /\ measurement' = measurement
          /\ place[t] \in MeasuringPlaces /\ todo[t] # <<>>
      BY <2>1, <2>5 DEF Measure, MeasureHdr, MeasureRaw, MeasureHistogram, EndHistogram,
        MeasureSeries,
        WriteSeries, EndSeries
    <3>2. CASE MeasureHdr(t) \/ MeasureRaw(t) \/ EndHistogram(t) \/ EndSeries(t)
      <4>1. place'[t] = "lookup" /\ (read' = read \/ read'[t] = 0)
        BY <1>1, <3>2, ZenonT(60) DEF MeasureHdr, MeasureRaw, EndHistogram, EndSeries, Measured,
          MeasurementsTyped
      <4> QED
        BY <1>5, <2>1, <3>1, <4>1
    <3>3. CASE MeasureHistogram(t) \/ MeasureSeries(t) \/ WriteSeries(t)
      <4>1. /\ todo' = todo /\ object' = object /\ Wanted(t)' = Wanted(t)
        BY <1>2, <3>3 DEF MeasureHistogram, MeasureSeries, WriteSeries, Wanted, Measuring
      <4>2. /\ place'[t] \in {"write", "window"}
            /\ read'[t] \in {At(operations, Of(t)), At(windowoperations, Of(t))}
            /\ place'[t] = "write" => kind = "timeseries"
            /\ place'[t] = "window" => kind \in {"histogram", "timeseries"}
        BY <1>1, <3>3, ZenonT(60) DEF MeasureHistogram, MeasureSeries, WriteSeries, MeasurementsTyped
      <4>3. At(operations, Of(t)) \in Nat /\ At(windowoperations, Of(t)) \in Nat
        <5>1. object[t] \in Threads /\ Of(t) = <<Wanted(t), object[t]>>
          BY <2>1, <3>1 DEF Of
        <5>2. /\ operations[Wanted(t)][object[t]] \in Nat
              /\ windowoperations[Wanted(t)][object[t]] \in Nat
          BY <1>1, <5>1 DEF MeasurementsTyped
        <5> QED
          BY <5>1, <5>2, AtIs
      <4> QED
        BY <2>1, <3>1, <4>1, <4>2, <4>3
    <3> QED
      BY <2>5, <3>2, <3>3 DEF Measure
  <2>6. CASE Code(t)
    <3>1. /\ done' = done /\ todo' = todo /\ Wanted(t)' = Wanted(t) /\ place[t] = "code"
          /\ measurement' = measurement /\ returncodes' = returncodes /\ object' = object
          /\ status' = status
      BY <1>2, <2>6 DEF Code, Wanted, Measuring
    <3>2. \/ place'[t] = "counter" /\ read' = read
          \/ /\ place'[t] = "count" /\ read'[t] = returncodes[object[t]][status[t]]
             /\ returncodes[object[t]][status[t]] # NoOne
      BY <1>1, <2>6 DEF Code, MeasurementsTyped
    <3>3. returncodes[object[t]][status[t]] \in Objects
      BY <1>1, <2>1, <3>1 DEF MeasurementsTyped
    <3> QED
      BY <2>1, <3>1, <3>2, <3>3 DEF Objects
  <2>7. CASE AddCounter(t)
    <3>1. /\ done' = done /\ todo' = todo /\ Wanted(t)' = Wanted(t) /\ place[t] = "counter"
          /\ measurement' = measurement /\ object' = object /\ status' = status
      BY <1>2, <2>7 DEF AddCounter, Wanted, Measuring
    <3>2. object[t] \in Threads /\ status[t] \in Statuses
      BY <1>1, <2>1, <3>1 DEF MeasurementsTyped
    <3>3. place'[t] = "count" /\ read'[t] = returncodes'[object[t]][status[t]] /\ read'[t] \in Threads
      BY <1>1, <2>7, <3>2 DEF AddCounter, Counter, MeasurementsTyped, Objects
    <3> QED
      BY <2>1, <3>1, <3>3
  <2>8. CASE Count(t)
    <3>1. /\ done'[t] = done[t] + 1 /\ todo' = todo /\ place[t] = "count" /\ place'[t] = "idle"
          /\ read'[t] = 0
      BY <1>1, <2>8 DEF Count, MeasurementsTyped
    <3> QED
      BY <1>5, <2>1, <3>1
  <2> QED
    BY <2>2, <2>3, <2>4, <2>5, <2>6, <2>7, <2>8 DEF ClientThread
<1>7. \A u \in Threads : Own(u)'
  BY <1>4, <1>6
<1> HIDE DEF Own
<1>8. WorkInv'
  BY <1>7 DEF Own, WorkInv
<1>9. PlacesInv'
  BY <1>1, <1>2, <1>3, <1>6 DEF PlacesInv
<1> QED
  BY <1>8, <1>9

\* Nothing is exported before the clients have finished.
LEMMA NotExported ==
  ASSUME MInvTyped, NEW t \in Threads, ClientThread(t)
  PROVE  ~exported /\ SummaryInv'
<1>1. ~AllDone
  <2>1. OpCount[t] \in Nat /\ done[t] \in Nat
    BY MeasurementsAssumption DEF MInvTyped, MeasurementsTyped
  <2>2. place[t] = "idle" => done[t] < OpCount[t]
    BY DEF ClientThread, Operate, MoreToDo, Lookup, Construct, Measure, MeasureHdr, MeasureRaw,
      MeasureHistogram, EndHistogram, MeasureSeries, WriteSeries, EndSeries, Code, AddCounter, Count
  <2> QED
    BY <2>1, <2>2 DEF AllDone
<1>2. ~exported
  BY <1>1 DEF MInvTyped, SummaryInv
<1> QED
  BY <1>2, ClientFrame DEF MInvTyped, SummaryInv

LEMMA MeasuringPlace ==
  ASSUME NEW t, Measure(t)
  PROVE  place[t] \in MeasuringPlaces
BY DEF Measure, MeasureHdr, MeasureRaw, MeasureHistogram, EndHistogram, MeasureSeries, WriteSeries,
  EndSeries, MeasuringPlaces

\* What is left to measure.
LEMMA TodoStep ==
  ASSUME MInvTyped, NEW t \in Threads, ClientThread(t)
  PROVE  TodoInv'
<1>1. MeasurementsTyped /\ WorkInv /\ TodoInv /\ interval' = interval
  BY ClientFrame DEF MInvTyped
<1> DEFINE Ahead(u) == /\ Len(todo[u]) <= 2
                       /\ \A i \in DOMAIN todo[u] :
                            todo[u][i][1] \in MapNames /\ todo[u][i][2] = NameOf(status[u])
                       /\ \A i, j \in DOMAIN todo[u] : todo[u][i] = todo[u][j] => i = j
<1>2. MapNames' = MapNames
  BY <1>1 DEF MapNames
<1>3. ASSUME NEW u \in Threads, todo'[u] = todo[u], status'[u] = status[u] \/ todo[u] = <<>>
      PROVE Ahead(u)'
  BY <1>1, <1>2, <1>3 DEF TodoInv
<1>4. \A u \in Threads \ {t} : todo'[u] = todo[u] /\ status'[u] = status[u]
  BY <1>1, ClientFrame
<1>5. CASE Operate(t)
  <2>1. PICK s \in Statuses :
          /\ status' = [status EXCEPT ![t] = s]
          /\ todo' = [todo EXCEPT ![t] =
               [i \in DOMAIN MapsOf(interval) |-> <<MapsOf(interval)[i], NameOf(s)>>]]
    BY <1>5 DEF Operate
  <2> DEFINE full == [i \in DOMAIN MapsOf(interval) |-> <<MapsOf(interval)[i], NameOf(s)>>]
  <2>2. /\ Len(full) <= 2 /\ DOMAIN full = DOMAIN MapsOf(interval)
        /\ \A i \in DOMAIN full : full[i] = <<MapsOf(interval)[i], NameOf(s)>>
        /\ \A i, j \in DOMAIN full : full[i] = full[j] => i = j
    BY <1>1, FullTodo DEF MeasurementsTyped
  <2>3. todo'[t] = full /\ status'[t] = s
    BY <1>1, <2>1 DEF MeasurementsTyped
  <2>4. \A i \in DOMAIN full : MapsOf(interval)[i] \in MapNames
    BY DEF MapNames
  <2> HIDE DEF full
  <2>5. Ahead(t)'
    <3>1. \A i \in DOMAIN full : full[i][1] \in MapNames /\ full[i][2] = NameOf(s)
      BY <2>2, <2>4
    <3>2. Len(full) <= 2
      BY <2>2
    <3>3. \A i, j \in DOMAIN full : full[i] = full[j] => i = j
      BY <2>2
    <3> QED
      BY <1>2, <2>3, <3>1, <3>2, <3>3
  <2> QED
    BY <1>3, <1>4, <2>5 DEF TodoInv
<1>6. CASE Measure(t) /\ todo' # todo
  <2>1. todo' = [todo EXCEPT ![t] = Tail(@)] /\ status' = status
    BY <1>6 DEF Measure, MeasureHdr, MeasureRaw, MeasureHistogram, EndHistogram, MeasureSeries,
      WriteSeries,
      EndSeries, Measured
  <2>2. todo[t] \in Seq(Names) /\ todo[t] # <<>>
    BY <1>1, <1>6, MeasuringPlace DEF MeasurementsTyped, WorkInv
  <2>3. todo'[t] = Tail(todo[t])
    BY <1>1, <2>1 DEF MeasurementsTyped
  <2>4. /\ Len(todo'[t]) = Len(todo[t]) - 1 /\ DOMAIN todo'[t] = 1 .. Len(todo[t]) - 1
        /\ \A i \in DOMAIN todo'[t] : todo'[t][i] = todo[t][i + 1] /\ i + 1 \in DOMAIN todo[t]
    BY <2>2, <2>3
  <2>5. Ahead(t)
    BY <1>1 DEF TodoInv
  <2>6. Ahead(t)'
    BY <1>2, <2>1, <2>2, <2>4, <2>5
  <2> QED
    BY <1>3, <1>4, <2>6 DEF TodoInv
<1>7. CASE Count(t)
  <2>1. todo[t] = <<>> /\ todo' = todo
    BY <1>1, <1>7 DEF Count, WorkInv, ReportingPlaces
  <2> QED
    BY <1>3, <1>4, <2>1 DEF TodoInv
<1>8. CASE todo' = todo /\ status' = status
  BY <1>3, <1>8 DEF TodoInv
<1>9. CASE Lookup(t) \/ Construct(t) \/ Code(t) \/ AddCounter(t)
  BY <1>8, <1>9 DEF Lookup, Construct, Code, AddCounter
<1> QED
  BY <1>5, <1>6, <1>7, <1>8, <1>9 DEF ClientThread, Measure

\* An object that is not in the map, and a counter that is not in its object, has
\* counted nothing.
LEMMA MapsStep ==
  ASSUME MInvTyped, NEW t \in Threads, ClientThread(t)
  PROVE  MapsInv'
<1>1. /\ MeasurementsTyped /\ WorkInv /\ MapsInv /\ summed' = summed /\ name' = name
      /\ NoOne \notin Threads
      /\ Wanted(t) \in Names
  BY ClientFrame, NamesAre, WantedIsName DEF MInvTyped
<1>2. /\ \A n \in Names : measurement[n] # NoOne => measurement'[n] = measurement[n]
      /\ \A n \in Names : measurement'[n] # measurement[n] =>
           measurement[n] = NoOne /\ measurement'[n] = t
  BY MapStep
<1>3. \/ operations' = operations /\ windowoperations' = windowoperations /\ measured' = measured
      \/ Measure(t)
  BY DEF ClientThread, Operate, Lookup, Construct, Code, AddCounter, Count, counters, tallies
<1>4. CASE operations' = operations /\ windowoperations' = windowoperations /\ measured' = measured
  <2>1. \A n \in Names, o \in Threads : o # measurement'[n] => o # measurement[n]
    BY <1>1, <1>2
  <2>2. \A n \in Names : measurement'[n] = NoOne => measurement[n] = NoOne
    BY <1>1, <1>2
  <2> QED
    BY <1>1, <1>4, <2>1, <2>2 DEF MapsInv
<1>5. CASE Measure(t)
  <2> DEFINE n == Wanted(t)
             o == object[t]
  <2>1. o \in Threads /\ o = measurement[n] /\ Of(t) = <<n, o>> /\ n \in Names
    BY <1>1, <1>5, MeasuringPlace, OfIs
  <2>2. measurement' = measurement
    BY <1>5 DEF Measure, maps
  <2>3. operations \in [Names -> [Threads -> Nat]] /\ windowoperations \in [Names -> [Threads -> Nat]]
    BY <1>1 DEF MeasurementsTyped
  <2> HIDE DEF n, o
  <2>4. \A m \in Names, p \in Threads : m # n \/ p # o =>
          operations'[m][p] = operations[m][p] /\ windowoperations'[m][p] = windowoperations[m][p]
    <3>1. \A m \in Names, p \in Threads : m # n \/ p # o =>
            /\ Bump(operations, <<n, o>>)[m][p] = operations[m][p]
            /\ Bump(windowoperations, <<n, o>>)[m][p] = windowoperations[m][p]
      BY <2>1, <2>3, BumpIs, SMTT(30)
    <3>2. ASSUME NEW v \in Nat
          PROVE  \A m \in Names, p \in Threads : m # n \/ p # o =>
            /\ Write(operations, <<n, o>>, v)[m][p] = operations[m][p]
            /\ Write(windowoperations, <<n, o>>, v)[m][p] = windowoperations[m][p]
      <4>1. \A m \in Names, p \in Threads : m # n \/ p # o =>
              Write(operations, <<n, o>>, v)[m][p] = operations[m][p]
        BY <2>1, <2>3 DEF Write
      <4>2. \A m \in Names, p \in Threads :
              m # n \/ p # o => Write(windowoperations, <<n, o>>, v)[m][p] = windowoperations[m][p]
        BY <2>1, <2>3 DEF Write
      <4> QED
        BY <4>1, <4>2
    <3>3. place[t] \in {"write", "window"} => read[t] + 1 \in Nat
      BY <1>1 DEF WorkInv
    <3> QED
      BY <1>5, <2>1, <3>1, <3>2, <3>3 DEF Measure, MeasureHdr, MeasureRaw, MeasureHistogram,
        EndHistogram,
        MeasureSeries, WriteSeries, EndSeries
  <2>5. \A m \in Names : m # n => measured'[m] = measured[m]
    BY <1>1, <1>5 DEF Measure, MeasureHdr, MeasureRaw, MeasureHistogram, EndHistogram,
        MeasureSeries, WriteSeries, EndSeries, Measured, MeasurementsTyped, n
  <2> QED
    BY <1>1, <2>1, <2>2, <2>4, <2>5 DEF MapsInv
<1> QED
  BY <1>3, <1>4, <1>5

\* The counters of an object that is not in the map, and those that are not in the
\* object's returncodes, are at 0; the others have counted every report.
LEMMA CountersStep ==
  ASSUME MInvTyped, NEW t \in Threads, ClientThread(t)
  PROVE  CountInv'
<1>1. MeasurementsTyped /\ WorkInv /\ CountInv /\ NoOne \notin Threads /\ Reports \in Names
      /\ Reports' = Reports
  BY NamesAre, ClientFrame DEF MInvTyped, Reports
<1>2. /\ returncodes \in [Threads -> [Statuses -> Objects]] /\ measurement[Reports] \in Objects
      /\ count \in [Threads -> [Statuses -> [Threads -> Nat]]] /\ returned \in [Statuses -> Nat]
  BY <1>1 DEF MeasurementsTyped
<1>3. CASE Count(t)
  <2> DEFINE o == object[t]
             s == status[t]
             c == read[t]
  <2>1. /\ o = measurement[Reports] /\ o \in Threads /\ s \in Statuses /\ c \in Threads
        /\ c = returncodes[o][s]
    BY <1>1, <1>3, WantedIsName DEF Count, WorkInv, ReportingPlaces, MeasurementsTyped
  <2>2. /\ measurement' = measurement /\ returncodes' = returncodes
        /\ count' = [count EXCEPT ![o][s][c] = @ + 1]
        /\ returned' = [returned EXCEPT ![s] = @ + 1]
    BY <1>3 DEF Count, maps
  <2> HIDE DEF o, s, c
  <2>3. /\ \A z \in Statuses : returned'[z] = IF z = s THEN returned[s] + 1 ELSE returned[z]
        /\ \A p \in Threads, z \in Statuses, d \in Threads :
             count'[p][z][d] = IF p = o /\ z = s /\ d = c THEN count[o][s][c] + 1 ELSE count[p][z][d]
    BY <1>2, <2>1, <2>2
  <2>4. count[o][s][c] = returned[s]
    BY <1>1, <2>1 DEF CountInv
  <2>5. ASSUME NEW z \in Statuses, NEW p \in Threads, NEW d \in Threads
        PROVE  count'[p][z][d] =
                 IF p = measurement[Reports] /\ d = returncodes[p][z] THEN returned'[z] ELSE 0
    <3>1. CASE p = o /\ z = s /\ d = c
      BY <2>1, <2>3, <2>4, <3>1
    <3>2. CASE ~(p = o /\ z = s /\ d = c)
      <4>1. count'[p][z][d] =
              IF p = measurement[Reports] /\ d = returncodes[p][z] THEN returned[z] ELSE 0
        BY <1>1, <2>3, <3>2 DEF CountInv
      <4> QED
        BY <2>1, <2>3, <3>2, <4>1
    <3> QED
      BY <3>1, <3>2
  <2>6. \A z \in Statuses : /\ \A p \in Threads : returncodes'[p][z] # NoOne =>
                                 p = measurement'[Reports]
                            /\ returned'[z] # 0 => measurement'[Reports] \in Threads
                                                   /\ returncodes'[measurement'[Reports]][z] # NoOne
    BY <1>1, <2>1, <2>2, <2>3 DEF CountInv
  <2> QED
    BY <1>1, <2>2, <2>5, <2>6 DEF CountInv
<1>4. CASE Construct(t)
  <2>1. count' = count /\ returned' = returned /\ returncodes' = returncodes
    BY <1>4 DEF Construct, counters, tallies
  <2>2. CASE measurement'[Reports] = measurement[Reports]
    BY <1>1, <2>1, <2>2 DEF CountInv
  <2>3. CASE measurement'[Reports] # measurement[Reports]
    <3>1. measurement[Reports] = NoOne /\ measurement'[Reports] = t
      BY <1>1, <2>3, MapStep
    <3>2. \A s \in Statuses : returned[s] = 0
      BY <1>1, <3>1 DEF CountInv
    <3>3. \A s \in Statuses, o \in Threads : returncodes[o][s] = NoOne
      BY <1>1, <3>1 DEF CountInv
    <3>4. \A s \in Statuses, o, c \in Threads : count[o][s][c] = 0
      BY <1>1, <3>2 DEF CountInv
    <3> QED
      BY <1>1, <2>1, <3>2, <3>3, <3>4 DEF CountInv
  <2> QED
    BY <2>2, <2>3
<1>5. CASE AddCounter(t)
  <2> DEFINE o == object[t]
             s == status[t]
  <2>1. o = measurement[Reports] /\ o \in Threads /\ s \in Statuses
    BY <1>1, <1>5, WantedIsName DEF AddCounter, WorkInv, ReportingPlaces, MeasurementsTyped
  <2>2. count' = count /\ returned' = returned /\ measurement' = measurement
    BY <1>5 DEF AddCounter, counters, tallies
  <2> HIDE DEF o, s
  <2>3. \A p \in Threads, z \in Statuses : returncodes'[p][z] # returncodes[p][z] =>
          p = o /\ z = s /\ returncodes[p][z] = NoOne /\ returncodes'[p][z] = t
    BY MapStep DEF o, s
  <2>4. \A p \in Threads, z \in Statuses : p = o /\ returncodes[p][z] = NoOne => returned[z] = 0
    BY <1>1, <2>1 DEF CountInv
  <2>5. ASSUME NEW z \in Statuses, NEW p \in Threads, NEW d \in Threads
        PROVE  count[p][z][d] =
                 IF p = measurement[Reports] /\ d = returncodes'[p][z] THEN returned[z] ELSE 0
    <3>1. count[p][z][d] =
            IF p = measurement[Reports] /\ d = returncodes[p][z] THEN returned[z] ELSE 0
      BY <1>1 DEF CountInv
    <3> QED
      BY <1>1, <2>1, <2>3, <2>4, <3>1
  <2>6. \A z \in Statuses : /\ \A p \in Threads : returncodes'[p][z] # NoOne =>
                                 p = measurement[Reports]
                            /\ returned[z] # 0 => measurement[Reports] \in Threads
                                                  /\ returncodes'[measurement[Reports]][z] # NoOne
    BY <1>1, <2>1, <2>3 DEF CountInv
  <2> QED
    BY <1>1, <2>2, <2>5, <2>6 DEF CountInv
<1>6. CASE Operate(t) \/ Lookup(t) \/ Measure(t) \/ Code(t)
  <2>1. /\ count' = count /\ returned' = returned /\ returncodes' = returncodes
        /\ measurement' = measurement
    BY <1>6 DEF Operate, Lookup, Measure, Code, maps, counters, tallies
  <2> QED
    BY <1>1, <2>1 DEF CountInv
<1> QED
  BY <1>3, <1>4, <1>5, <1>6 DEF ClientThread

LEMMA OneThread ==
  ASSUME NEW S \in SUBSET Threads, NEW t \in Threads
  PROVE  /\ Cardinality(S) \in Nat
         /\ t \notin S => Cardinality(S \cup {t}) = Cardinality(S) + 1
         /\ t \in S => Cardinality(S) = Cardinality(S \ {t}) + 1
<1>1. IsFiniteSet(S) /\ IsFiniteSet(S \ {t})
  BY FS_Subset, MeasurementsAssumption
<1>2. Cardinality(S) \in Nat /\ Cardinality(S \ {t}) \in Nat
  BY <1>1, FS_CardinalityType
<1>3. t \notin S => Cardinality(S \cup {t}) = Cardinality(S) + 1
  BY <1>1, FS_AddElement
<1>4. t \in S => Cardinality(S) = Cardinality(S \ {t}) + 1
  BY <1>1, <1>2, FS_RemoveElement
<1> QED
  BY <1>2, <1>3, <1>4

\* What a status was measured as and how often it was returned differ by the threads
\* in between.
LEMMA BehindStep ==
  ASSUME MInvTyped, BehindInv, NEW t \in Threads, ClientThread(t)
  PROVE  BehindInv'
<1>1. MeasurementsTyped /\ WorkInv /\ TodoInv /\ interval \in Intervals
      /\ returned \in [Statuses -> Nat] /\ measured \in [Names -> Nat]
  BY DEF MInvTyped, MeasurementsTyped
<1>2. MapNames' = MapNames /\ MapNames \subseteq {"op", "intended"}
  BY <1>1, ClientFrame, MapsAre DEF MapNames
<1> SUFFICES ASSUME NEW s \in Statuses, NEW m \in MapNames
             PROVE  measured'[<<m, NameOf(s)>>] = returned'[s] + Cardinality(Behind(<<m, NameOf(s)>>, s)')
  BY <1>2 DEF BehindInv
<1> DEFINE n == <<m, NameOf(s)>>
           In(u) == place[u] # "idle" /\ status[u] = s /\ \A i \in DOMAIN todo[u] : todo[u][i] # n
           B == Behind(n, s)
<1>3. /\ n \in Names /\ measured[n] = returned[s] + Cardinality(B) /\ measured[n] \in Nat
      /\ returned[s] \in Nat
  BY <1>1, <1>2, NamesAre DEF BehindInv
<1>4. B = {u \in Threads : In(u)} /\ Behind(n, s)' = {u \in Threads : In(u)'}
  BY DEF Behind
<1>5. \A u \in Threads \ {t} : In(u)' <=> In(u)
  BY <1>1, ClientFrame
<1>6. B \in SUBSET Threads /\ Cardinality(B) \in Nat
  BY <1>4, OneThread
<1> HIDE DEF In, B, n
<1>7. /\ (In(t)' <=> In(t)) => Behind(n, s)' = B
      /\ ~In(t) /\ In(t)' => Behind(n, s)' = B \cup {t} /\ t \notin B
      /\ In(t) /\ ~In(t)' => Behind(n, s)' = B \ {t} /\ t \in B
  BY <1>4, <1>5
<1> DEFINE Stays == (In(t)' <=> In(t)) /\ measured'[n] = measured[n] /\ returned'[s] = returned[s]
           Joins == ~In(t) /\ In(t)' /\ measured'[n] = measured[n] + 1 /\ returned'[s] = returned[s]
           Leaves == In(t) /\ ~In(t)' /\ measured'[n] = measured[n] /\ returned'[s] = returned[s] + 1
           Balanced == Stays \/ Joins \/ Leaves
<1>8. ASSUME Operate(t) PROVE Balanced
  <2>1. PICK z \in Statuses :
          /\ status' = [status EXCEPT ![t] = z]
          /\ todo' = [todo EXCEPT ![t] =
               [i \in DOMAIN MapsOf(interval) |-> <<MapsOf(interval)[i], NameOf(z)>>]]
    BY <1>8 DEF Operate
  <2> DEFINE full == [i \in DOMAIN MapsOf(interval) |-> <<MapsOf(interval)[i], NameOf(z)>>]
  <2>2. todo'[t] = full /\ status'[t] = z /\ place[t] = "idle"
    BY <1>1, <1>8, <2>1 DEF Operate, MeasurementsTyped
  <2>3. z = s => \E i \in DOMAIN full : full[i] = n
    BY DEF MapNames, n
  <2> HIDE DEF full
  <2>4. ~In(t) /\ ~In(t)'
    BY <2>2, <2>3 DEF In
  <2>5. measured' = measured /\ returned' = returned
    BY <1>8 DEF Operate, tallies
  <2> QED
    BY <2>4, <2>5
<1>9. ASSUME Measure(t) /\ todo' # todo PROVE Balanced
  <2>1. /\ measured' = [measured EXCEPT ![Wanted(t)] = @ + 1] /\ todo' = [todo EXCEPT ![t] = Tail(@)]
        /\ place' = [place EXCEPT ![t] = "lookup"] /\ status' = status /\ returned' = returned
    BY <1>9 DEF Measure, MeasureHdr, MeasureRaw, MeasureHistogram, EndHistogram, MeasureSeries,
      WriteSeries,
      EndSeries, Measured, GoesTo
  <2>2. todo[t] \in Seq(Names) /\ todo[t] # <<>> /\ place[t] # "idle" /\ place'[t] = "lookup"
    BY <1>1, <1>9, <2>1, MeasuringPlace DEF MeasurementsTyped, WorkInv, MeasuringPlaces
  <2>3. /\ Wanted(t) = todo[t][1] /\ Wanted(t) \in Names /\ 1 \in DOMAIN todo[t]
        /\ todo'[t] = Tail(todo[t]) /\ DOMAIN todo'[t] = 1 .. Len(todo[t]) - 1
        /\ DOMAIN todo[t] = 1 .. Len(todo[t]) /\ Len(todo[t]) \in Nat
        /\ \A i \in DOMAIN todo'[t] : todo'[t][i] = todo[t][i + 1]
    <3>1. todo'[t] = Tail(todo[t])
      BY <1>1, <2>1 DEF MeasurementsTyped
    <3>2. /\ DOMAIN todo'[t] = 1 .. Len(todo[t]) - 1
          /\ DOMAIN todo[t] = 1 .. Len(todo[t]) /\ Len(todo[t]) \in Nat
          /\ \A i \in DOMAIN todo'[t] : todo'[t][i] = todo[t][i + 1]
      BY <2>2, <3>1
    <3> QED
      BY <1>1, <2>2, <3>1, <3>2, WantedIsName
  <2>4. \A i \in DOMAIN todo[t] : i = 1 \/ (i - 1 \in DOMAIN todo'[t] /\ todo[t][i] = todo'[t][i - 1])
    BY <2>3
  <2>5. \A i \in DOMAIN todo'[t] : i + 1 \in DOMAIN todo[t] /\ i + 1 # 1
    BY <2>3
  <2>6. CASE Wanted(t) = n
    <3>1. todo[t][1][2] = NameOf(status[t]) /\ status[t] \in Statuses
      BY <1>1, <2>3 DEF TodoInv, MeasurementsTyped
    <3>2. status[t] = s
      BY <2>3, <2>6, <3>1, NamesAre DEF n, Statuses
    <3>3. ~In(t)
      BY <2>3, <2>6 DEF In
    <3>4. \A i \in DOMAIN todo'[t] : todo'[t][i] # n
      <4>1. \A i, j \in DOMAIN todo[t] : todo[t][i] = todo[t][j] => i = j
        BY <1>1 DEF TodoInv
      <4> QED
        BY <2>3, <2>5, <2>6, <4>1
    <3>5. In(t)'
      BY <2>1, <2>2, <3>2, <3>4 DEF In
    <3>6. measured'[n] = measured[n] + 1
      BY <1>1, <1>3, <2>1, <2>6
    <3> QED
      BY <2>1, <3>3, <3>5, <3>6
  <2>7. CASE Wanted(t) # n
    <3>1. (\A i \in DOMAIN todo[t] : todo[t][i] # n) <=> (\A i \in DOMAIN todo'[t] : todo'[t][i] # n)
      BY <2>3, <2>4, <2>5, <2>7
    <3>2. In(t)' <=> In(t)
      BY <2>1, <2>2, <3>1 DEF In
    <3>3. measured'[n] = measured[n]
      BY <1>1, <1>3, <2>1, <2>3, <2>7
    <3> QED
      BY <2>1, <3>2, <3>3
  <2> QED
    BY <2>6, <2>7
<1>10. ASSUME Measure(t) /\ todo' = todo PROVE Balanced
  <2>1. /\ status' = status /\ returned' = returned /\ todo[t] \in Seq(Names) /\ todo[t] # <<>>
        /\ place[t] # "idle"
    BY <1>1, <1>10, MeasuringPlace DEF Measure, MeasurementsTyped, WorkInv, MeasuringPlaces
  <2>2. ~Measured(t)
    <3>1. Tail(todo[t]) # todo[t]
      <4>1. Len(Tail(todo[t])) # Len(todo[t])
        BY <2>1
      <4> QED
        BY <4>1
    <3> QED
      BY <1>1, <1>10, <3>1 DEF Measured, MeasurementsTyped
  <2>3. measured' = measured /\ place'[t] # "idle"
    BY <1>1, <1>10, <2>2 DEF Measure, MeasureHdr, MeasureRaw, MeasureHistogram, EndHistogram,
      MeasureSeries,
      WriteSeries, EndSeries, GoesTo, MeasurementsTyped
  <2>4. In(t)' <=> In(t)
    BY <1>10, <2>1, <2>3 DEF In
  <2> QED
    BY <2>1, <2>3, <2>4
<1>11. ASSUME Lookup(t) \/ Construct(t) \/ Code(t) \/ AddCounter(t) PROVE Balanced
  <2>1. /\ status' = status /\ returned' = returned /\ todo' = todo /\ measured' = measured
        /\ place[t] # "idle" /\ place'[t] # "idle"
    BY <1>1, <1>11 DEF Lookup, Construct, Code, AddCounter, tallies, GoesTo, MeasurementsTyped
  <2>2. In(t)' <=> In(t)
    BY <2>1 DEF In
  <2> QED
    BY <2>1, <2>2
<1>12. ASSUME Count(t) PROVE Balanced
  <2>1. /\ todo[t] = <<>> /\ todo' = todo /\ place[t] = "count" /\ place'[t] = "idle"
        /\ measured' = measured
        /\ returned' = [returned EXCEPT ![status[t]] = @ + 1] /\ status[t] \in Statuses
    BY <1>1, <1>12 DEF Count, WorkInv, ReportingPlaces, GoesTo, MeasurementsTyped
  <2>2. ~In(t)' /\ (In(t) <=> status[t] = s)
    BY <2>1 DEF In
  <2>3. returned'[s] = IF status[t] = s THEN returned[s] + 1 ELSE returned[s]
    BY <1>1, <2>1
  <2> QED
    BY <2>1, <2>2, <2>3
<1>13. Balanced
  BY <1>8, <1>9, <1>10, <1>11, <1>12 DEF ClientThread
<1>14. measured'[n] = returned'[s] + Cardinality(Behind(n, s)')
  <2> HIDE DEF Stays, Joins, Leaves, Balanced
  <2>1. CASE Stays
    BY <1>3, <1>7, <2>1 DEF Stays
  <2>2. CASE Joins
    <3>1. Cardinality(B \cup {t}) = Cardinality(B) + 1
      BY <1>6, <1>7, <2>2, OneThread DEF Joins
    <3> QED
      BY <1>3, <1>6, <1>7, <2>2, <3>1 DEF Joins
  <2>3. CASE Leaves
    <3>1. Cardinality(B) = Cardinality(B \ {t}) + 1 /\ Cardinality(B \ {t}) \in Nat
      <4>1. B \ {t} \in SUBSET Threads
        BY <1>6
      <4> QED
        BY <1>6, <1>7, <2>3, <4>1, OneThread DEF Leaves
    <3>2. returned'[s] = returned[s] + 1 /\ measured'[n] = measured[n] /\ Behind(n, s)' = B \ {t}
      BY <1>7, <2>3 DEF Leaves
    <3> QED
      BY <1>3, <3>1, <3>2
  <2> QED
    BY <1>13, <2>1, <2>2, <2>3 DEF Balanced
<1> QED
  BY <1>14 DEF n

-----------------------------------------------------------------------------
(* Totals                                                                  *)

\* A client that does not measure changes no counter; an object that it adds to the
\* map has counted nothing, and nothing was measured under its name.
LEMMA Unmeasured ==
  ASSUME MInvTyped, NEW t \in Threads, ClientThread(t), ~Measure(t)
  PROVE  /\ operations' = operations /\ windowoperations' = windowoperations /\ monitor' = monitor
         /\ measured' = measured /\ summed' = summed /\ name' = name /\ taken' = taken
         /\ place[t] \notin {"write", "window"} /\ place'[t] \notin {"write", "window"}
         /\ \A n \in Names : measurement'[n] # NoOne =>
              \/ measurement'[n] = measurement[n]
              \/ /\ measurement[n] = NoOne /\ measurement'[n] \in Threads
                 /\ operations[n][measurement'[n]] = 0 /\ windowoperations[n][measurement'[n]] = 0
                 /\ measured[n] = 0 /\ summed[n] = 0 /\ name # n
<1>1. MeasurementsTyped /\ MapsInv /\ NoOne \notin Threads
  BY NamesAre DEF MInvTyped
<1>2. /\ operations' = operations /\ windowoperations' = windowoperations /\ monitor' = monitor
      /\ measured' = measured /\ place[t] \notin {"write", "window"}
      /\ place'[t] \notin {"write", "window"}
  BY <1>1 DEF ClientThread, Operate, Lookup, Construct, Code, AddCounter, Count, counters,
    tallies, GoesTo,
    MeasurementsTyped
<1>3. ASSUME NEW n \in Names, measurement'[n] # measurement[n]
      PROVE  /\ measurement[n] = NoOne /\ measurement'[n] \in Threads
             /\ operations[n][measurement'[n]] = 0 /\ windowoperations[n][measurement'[n]] = 0
             /\ measured[n] = 0 /\ summed[n] = 0 /\ name # n
  <2>1. measurement[n] = NoOne /\ measurement'[n] = t
    BY <1>3, MapStep
  <2> QED
    BY <1>1, <2>1 DEF MapsInv
<1>4. summed' = summed /\ name' = name /\ taken' = taken
  BY <1>1, ClientFrame
<1> QED
  BY <1>2, <1>3, <1>4

LEMMA OthersWanted ==
  ASSUME MInvTyped, NEW t \in Threads, ClientThread(t)
  PROVE  \A u \in Threads \ {t} : /\ Wanted(u)' = Wanted(u) /\ Of(u)' = Of(u)
                                 /\ place'[u] = place[u] /\ object'[u] = object[u]
                                 /\ read'[u] = read[u]
<1>1. Reports' = Reports
  BY ClientFrame DEF Reports, MInvTyped
<1>2. \A u \in Threads \ {t} : /\ todo'[u] = todo[u] /\ place'[u] = place[u] /\ object'[u] = object[u]
                              /\ read'[u] = read[u]
  BY ClientFrame DEF MInvTyped
<1> QED
  BY <1>1, <1>2 DEF Wanted, Measuring, Of

\* Where a measurement goes.
LEMMA Goal ==
  ASSUME MInvTyped, NEW t \in Threads, Measure(t)
  PROVE  /\ Of(t) = <<Wanted(t), object[t]>> /\ Wanted(t) \in Names
         /\ object[t] \in Threads /\ object[t] = measurement[Wanted(t)]
         /\ operations[Wanted(t)][object[t]] \in Nat /\ windowoperations[Wanted(t)][object[t]] \in Nat
         /\ measured[Wanted(t)] \in Nat
         /\ measurement' = measurement /\ kind' = kind /\ summed' = summed /\ name' = name
         /\ taken' = taken
         /\ exported' = exported
         /\ Measured(t) => measured' = [measured EXCEPT ![Wanted(t)] = @ + 1]
<1>1. /\ Of(t) = <<Wanted(t), object[t]>> /\ Wanted(t) \in Names
      /\ object[t] \in Threads /\ object[t] = measurement[Wanted(t)]
  BY MeasuringPlace, OfIs DEF MInvTyped
<1>2. /\ operations[Wanted(t)][object[t]] \in Nat /\ windowoperations[Wanted(t)][object[t]] \in Nat
      /\ measured[Wanted(t)] \in Nat
  BY <1>1 DEF MInvTyped, MeasurementsTyped
<1> QED
  BY <1>1, <1>2 DEF Measure, config, maps, statusThread, Measured

\* HdrHistogram and raw: each counts what it measures once, in its total or in its
\* window and what the status thread has in hand.
LEMMA ExactStep ==
  ASSUME MInvTyped, HdrInv, RawInv, WindowInv, NEW t \in Threads, ClientThread(t)
  PROVE  HdrInv' /\ RawInv' /\ WindowInv'
<1>1. MeasurementsTyped /\ kind' = kind /\ exported' = exported /\ NoOne \notin Threads
  BY ClientFrame, NamesAre DEF MInvTyped
<1>2. CASE ~Measure(t)
  <2>1. /\ operations' = operations /\ windowoperations' = windowoperations
        /\ measured' = measured /\ summed' = summed /\ name' = name /\ taken' = taken
        /\ \A n \in Names : measurement'[n] # NoOne =>
              \/ measurement'[n] = measurement[n]
              \/ /\ operations[n][measurement'[n]] = 0 /\ windowoperations[n][measurement'[n]] = 0
                 /\ measured[n] = 0 /\ summed[n] = 0 /\ name # n
    BY <1>2, Unmeasured
  <2>2. \A n : InHand(n)' = InHand(n) /\ (name # n => InHand(n) = 0)
    BY <2>1 DEF InHand
  <2>3. HdrInv'
    BY <1>1, <2>1, <2>2 DEF HdrInv
  <2>4. RawInv'
    BY <1>1, <2>1 DEF RawInv
  <2>5. WindowInv'
    BY <1>1, <2>1, <2>2 DEF WindowInv
  <2> QED
    BY <2>3, <2>4, <2>5
<1>3. CASE Measure(t) /\ kind \in {"hdrhistogram", "raw"}
  <2> DEFINE n == Wanted(t)
             o == object[t]
  <2>1. /\ Of(t) = <<n, o>> /\ n \in Names /\ o \in Threads /\ o = measurement[n]
        /\ measurement' = measurement /\ summed' = summed /\ name' = name /\ taken' = taken
        /\ MeasureHdr(t) \/ MeasureRaw(t)
        /\ measured' = [measured EXCEPT ![n] = @ + 1] /\ ~exported
    BY <1>3, Goal, NotExported DEF Measure, MeasureHdr, MeasureRaw, MeasureHistogram,
      EndHistogram,
      MeasureSeries, WriteSeries, EndSeries
  <2>2. /\ operations \in [Names -> [Threads -> Nat]]
        /\ windowoperations \in [Names -> [Threads -> Nat]]
        /\ measured \in [Names -> Nat] /\ summed \in [Names -> Nat] /\ taken \in Nat
        /\ measurement \in [Names -> Objects]
    BY <1>1 DEF MeasurementsTyped
  <2> HIDE DEF n, o
  <2>3. /\ \A m \in Names : measured'[m] = IF m = n THEN measured[n] + 1 ELSE measured[m]
        /\ \A m \in Names : \A p \in Threads :
             windowoperations'[m][p] =
               IF m = n /\ p = o THEN windowoperations[n][o] + 1 ELSE windowoperations[m][p]
        /\ kind = "hdrhistogram" => operations' = operations
        /\ kind = "raw" => \A m \in Names : \A p \in Threads :
             operations'[m][p] = IF m = n /\ p = o THEN operations[n][o] + 1 ELSE operations[m][p]
    <3>1. \A m \in Names : measured'[m] = IF m = n THEN measured[n] + 1 ELSE measured[m]
      BY <2>1, <2>2
    <3>2. windowoperations' = Bump(windowoperations, <<n, o>>) /\ (kind = "hdrhistogram" =>
            operations' = operations)
          /\ (kind = "raw" => operations' = Bump(operations, <<n, o>>))
      BY <2>1 DEF MeasureHdr, MeasureRaw
    <3> QED
      BY <2>1, <2>2, <3>1, <3>2 DEF Bump
  <2>4. \A m : InHand(m)' = InHand(m) /\ InHand(m) \in Nat
    BY <2>1, <2>2 DEF InHand
  <2>5. \A m \in Names : measurement[m] # NoOne => measurement[m] \in Threads
    BY <2>2 DEF Objects
  <2>6. HdrInv'
    BY <1>1, <2>1, <2>2, <2>3, <2>4, <2>5 DEF HdrInv
  <2>7. RawInv'
    BY <1>1, <2>1, <2>2, <2>3, <2>5 DEF RawInv
  <2>8. WindowInv'
    BY <1>1, <2>1, <2>2, <2>3, <2>4, <2>5 DEF WindowInv
  <2> QED
    BY <2>6, <2>7, <2>8
<1>4. CASE kind \notin {"hdrhistogram", "raw"}
  BY <1>1, <1>4 DEF HdrInv, RawInv, WindowInv
<1> QED
  BY <1>2, <1>3, <1>4

\* OneMeasurementHistogram: the monitor keeps measure() of two threads apart, and the
\* total is ahead of what was measured by the measure() that has the monitor.
LEMMA HistogramStep ==
  ASSUME MInvTyped, HistogramInv, NEW t \in Threads, ClientThread(t)
  PROVE  HistogramInv'
<1>1. MeasurementsTyped /\ kind' = kind /\ NoOne \notin Threads /\ MeasurementsTyped' /\ WorkInv
  BY ClientFrame, NamesAre, ClientTyped DEF MInvTyped
<1>2. \A u \in Threads \ {t} : /\ Wanted(u)' = Wanted(u) /\ Of(u)' = Of(u) /\ place'[u] = place[u]
                              /\ object'[u] = object[u]
  BY OthersWanted
<1>3. \A u \in Threads : place[u] = "window" =>
        Wanted(u) \in Names /\ object[u] \in Threads /\ object[u] = measurement[Wanted(u)]
        /\ Of(u) = <<Wanted(u), object[u]>>
  BY <1>1, OfIs DEF MeasuringPlaces
<1> SUFFICES ASSUME kind = "histogram" PROVE HistogramInv'
  BY <1>1 DEF HistogramInv
<1> USE DEF HistogramInv
<1>4. CASE ~Measure(t)
  <2>1. /\ operations' = operations /\ monitor' = monitor /\ measured' = measured
        /\ place[t] \notin {"write", "window"} /\ place'[t] \notin {"write", "window"}
        /\ \A n \in Names : measurement'[n] # NoOne =>
              \/ measurement'[n] = measurement[n]
              \/ /\ measurement[n] = NoOne /\ measurement'[n] \in Threads
                 /\ operations[n][measurement'[n]] = 0 /\ measured[n] = 0
    BY <1>4, Unmeasured
  <2>2. \A n \in Names, o \in Threads : monitor[n][o] # NoOne => monitor[n][o] \in Threads
    BY <1>1 DEF MeasurementsTyped, Objects
  <2>3. \A n \in Names, o \in Threads : monitor[n][o] # NoOne =>
          measurement[n] = o /\ monitor[n][o] # t
    <3> SUFFICES ASSUME NEW n \in Names, NEW o \in Threads, monitor[n][o] # NoOne
                 PROVE  measurement[n] = o /\ monitor[n][o] # t
      OBVIOUS
    <3> DEFINE u == monitor[n][o]
    <3>1. u \in Threads /\ place[u] = "window" /\ Of(u) = <<n, o>>
      BY <2>2
    <3> QED
      BY <1>3, <2>1, <3>1
  <2>4. \A u \in Threads : place'[u] = "window" => u # t /\ monitor'[Wanted(u)'][object'[u]] = u
    BY <1>2, <2>1
  <2>5. \A n \in Names, o \in Threads : monitor'[n][o] # NoOne =>
          place'[monitor'[n][o]] = "window" /\ (Of(monitor[n][o]))' = <<n, o>>
    BY <1>2, <2>1, <2>2, <2>3
  <2>6. \A n \in Names : measurement'[n] # NoOne =>
          operations'[n][measurement'[n]] = measured'[n] +
            IF monitor'[n][measurement'[n]] = NoOne THEN 0 ELSE 1
    BY <1>1, <2>1, <2>3
  <2> QED
    BY <1>1, <2>1, <2>4, <2>5, <2>6
<1>5. CASE Measure(t)
  <2> DEFINE n == Wanted(t)
             o == object[t]
  <2>1. /\ Of(t) = <<n, o>> /\ n \in Names /\ o \in Threads /\ o = measurement[n]
        /\ measurement' = measurement
        /\ MeasureHistogram(t) \/ EndHistogram(t)
        /\ Measured(t) => measured' = [measured EXCEPT ![n] = @ + 1]
    BY <1>5, Goal DEF Measure, MeasureHdr, MeasureRaw, MeasureHistogram, EndHistogram,
      MeasureSeries, WriteSeries, EndSeries
  <2>2. /\ operations \in [Names -> [Threads -> Nat]] /\ monitor \in [Names -> [Threads -> Objects]]
        /\ measured \in [Names -> Nat] /\ measurement \in [Names -> Objects]
        /\ place \in [Threads -> Places]
    BY <1>1 DEF MeasurementsTyped
  <2>3. \A m \in Names : measurement[m] # NoOne => measurement[m] \in Threads
    BY <2>2 DEF Objects
  <2>4. CASE MeasureHistogram(t)
    <3>1. /\ Wanted(t)' = n /\ object'[t] = o /\ Of(t)' = <<n, o>> /\ place'[t] = "window"
          /\ monitor[n][o] = NoOne
          /\ measured' = measured
      <4>1. todo' = todo /\ object' = object /\ interval' = interval /\ measured' = measured
        BY <1>5, <2>4 DEF MeasureHistogram, Measure, config
      <4> QED
        <5>1. monitor[n][o] = NoOne /\ place'[t] = "window"
          BY <2>1, <2>2, <2>4 DEF MeasureHistogram, GoesTo, At
        <5>2. Wanted(t)' = n /\ object'[t] = o
          BY <4>1 DEF Wanted, Measuring, Reports
        <5> QED
          BY <4>1, <5>1, <5>2 DEF Of
    <3> HIDE DEF n, o
    <3>2. /\ \A m \in Names, p \in Threads :
               operations'[m][p] = IF m = n /\ p = o THEN operations[n][o] + 1 ELSE operations[m][p]
          /\ \A m \in Names, p \in Threads : monitor'[m][p] =
               IF m = n /\ p = o THEN t ELSE monitor[m][p]
      <4>1. operations' = Bump(operations, <<n, o>>) /\ monitor' = Write(monitor, <<n, o>>, t)
        BY <2>1, <2>4 DEF MeasureHistogram
      <4> QED
        BY <2>1, <2>2, <4>1 DEF Bump, Write
    <3>3. ASSUME NEW u \in Threads, place'[u] = "window"
          PROVE  monitor'[Wanted(u)'][object'[u]] = u
      <4>1. CASE u = t
        BY <2>1, <3>1, <3>2, <4>1
      <4>2. CASE u # t
        <5>1. place[u] = "window" /\ Wanted(u)' = Wanted(u) /\ object'[u] = object[u]
          BY <1>2, <3>3, <4>2
        <5>2. monitor[Wanted(u)][object[u]] = u /\ Wanted(u) \in Names /\ object[u] \in Threads
          BY <1>3, <5>1
        <5>3. ~(Wanted(u) = n /\ object[u] = o)
          BY <1>1, <3>1, <5>2
        <5> QED
          BY <3>2, <5>1, <5>2, <5>3
      <4> QED
        BY <4>1, <4>2
    <3>4. ASSUME NEW m \in Names, NEW p \in Threads, monitor'[m][p] # NoOne
          PROVE  place'[monitor'[m][p]] = "window" /\ Of(monitor[m][p])' = <<m, p>>
      <4>1. CASE m = n /\ p = o
        BY <3>1, <3>2, <4>1
      <4>2. CASE ~(m = n /\ p = o)
        <5>1. monitor'[m][p] = monitor[m][p] /\ monitor[m][p] \in Threads
          BY <2>2, <3>2, <3>4, <4>2 DEF Objects
        <5>2. place[monitor[m][p]] = "window" /\ Of(monitor[m][p]) = <<m, p>>
          BY <3>4, <5>1
        <5>3. monitor[m][p] # t
          BY <2>1, <4>2, <5>2
        <5> QED
          BY <1>2, <5>1, <5>2, <5>3
      <4> QED
        BY <4>1, <4>2
    <3>5. \A m \in Names : measurement[m] # NoOne =>
          operations'[m][measurement[m]] = measured'[m] +
            IF monitor'[m][measurement[m]] = NoOne THEN 0 ELSE 1
      BY <1>1, <2>1, <2>2, <2>3, <3>1, <3>2
    <3> QED
      BY <1>1, <2>1, <3>3, <3>4, <3>5
  <2>5. CASE EndHistogram(t)
    <3>1. place[t] = "window" /\ place'[t] = "lookup" /\ monitor[n][o] = t
          /\ measured' = [measured EXCEPT ![n] = @ + 1] /\ operations' = operations
      BY <2>1, <2>2, <2>5 DEF EndHistogram, Measured, GoesTo
    <3> HIDE DEF n, o
    <3>2. \A m \in Names, p \in Threads : monitor'[m][p] =
            IF m = n /\ p = o THEN NoOne ELSE monitor[m][p]
      <4>1. monitor' = Write(monitor, <<n, o>>, NoOne)
        BY <2>1, <2>5 DEF EndHistogram
      <4> QED
        BY <2>1, <2>2, <4>1 DEF Write
    <3>3. ASSUME NEW u \in Threads, place'[u] = "window"
          PROVE  monitor'[Wanted(u)'][object'[u]] = u
      <4>1. u # t /\ place[u] = "window" /\ Wanted(u)' = Wanted(u) /\ object'[u] = object[u]
        BY <1>2, <3>1, <3>3
      <4>2. monitor[Wanted(u)][object[u]] = u /\ Wanted(u) \in Names /\ object[u] \in Threads
        BY <1>3, <4>1
      <4>3. ~(Wanted(u) = n /\ object[u] = o)
        BY <3>1, <4>1, <4>2
      <4> QED
        BY <3>2, <4>1, <4>2, <4>3
    <3>4. ASSUME NEW m \in Names, NEW p \in Threads, monitor'[m][p] # NoOne
          PROVE  place'[monitor'[m][p]] = "window" /\ Of(monitor[m][p])' = <<m, p>>
      <4>1. ~(m = n /\ p = o) /\ monitor'[m][p] = monitor[m][p] /\ monitor[m][p] \in Threads
        BY <2>2, <3>2, <3>4 DEF Objects
      <4>2. place[monitor[m][p]] = "window" /\ Of(monitor[m][p]) = <<m, p>>
        BY <3>4, <4>1
      <4>3. monitor[m][p] # t
        BY <2>1, <4>1, <4>2
      <4> QED
        BY <1>2, <4>1, <4>2, <4>3
    <3>5. \A m \in Names : measurement[m] # NoOne =>
          operations'[m][measurement[m]] = measured'[m] +
            IF monitor'[m][measurement[m]] = NoOne THEN 0 ELSE 1
      BY <1>1, <2>1, <2>2, <2>3, <3>1, <3>2
    <3> QED
      BY <1>1, <2>1, <3>3, <3>4, <3>5
  <2> QED
    BY <2>1, <2>4, <2>5
<1> QED
  BY <1>4, <1>5

\* OneMeasurementTimeSeries: an update can be lost, but what is written is never more
\* than the writes so far, and at least one when there was one.
LEMMA SeriesStep ==
  ASSUME MInvTyped, SeriesInv, NEW t \in Threads, ClientThread(t)
  PROVE  SeriesInv'
<1>1. MeasurementsTyped /\ kind' = kind /\ NoOne \notin Threads /\ WorkInv
  BY ClientFrame, NamesAre DEF MInvTyped
<1>2. \A u \in Threads \ {t} : /\ Wanted(u)' = Wanted(u) /\ place'[u] = place[u] /\ read'[u] = read[u]
  BY OthersWanted
<1>3. \A u \in Threads : Wanted(u) \in Names
  BY <1>1, WantedIsName
<1> SUFFICES ASSUME kind = "timeseries" PROVE SeriesInv'
  BY <1>1 DEF SeriesInv
<1>4. /\ operations \in [Names -> [Threads -> Nat]] /\ measured \in [Names -> Nat]
      /\ measurement \in [Names -> Objects] /\ place \in [Threads -> Places]
  BY <1>1 DEF MeasurementsTyped
<1>5. \A m \in Names : /\ AtWindow(m) \in SUBSET Threads /\ Cardinality(AtWindow(m)) \in Nat
                       /\ Writes(m) \in Nat
  <2>1. \A m \in Names : AtWindow(m) \in SUBSET Threads
    BY DEF AtWindow
  <2>2. \A m \in Names : Cardinality(AtWindow(m)) \in Nat
    BY <2>1, OneThread
  <2> QED
    BY <1>4, <2>1, <2>2 DEF Writes
<1>6. \A m \in Names : measurement[m] # NoOne =>
        /\ operations[m][measurement[m]] <= Writes(m) /\ operations[m][measurement[m]] \in Nat
        /\ Writes(m) > 0 => operations[m][measurement[m]] > 0
  BY <1>4 DEF SeriesInv, Objects
<1>7. \A u \in Threads, m \in Names :
        place[u] = "write" /\ Wanted(u) = m => read[u] <= Writes(m) /\ read[u] \in Nat
  BY <1>1 DEF SeriesInv, WorkInv
<1>8. CASE ~Measure(t)
  <2>1. /\ operations' = operations /\ measured' = measured
        /\ place[t] \notin {"write", "window"} /\ place'[t] \notin {"write", "window"}
        /\ \A n \in Names : measurement'[n] # NoOne =>
              \/ measurement'[n] = measurement[n]
              \/ /\ measurement[n] = NoOne /\ measurement'[n] \in Threads
                 /\ operations[n][measurement'[n]] = 0 /\ measured[n] = 0
    BY <1>8, Unmeasured
  <2>2. \A m : AtWindow(m)' = AtWindow(m)
    BY <1>2, <2>1 DEF AtWindow
  <2>3. \A m : Writes(m)' = Writes(m)
    BY <2>1, <2>2 DEF Writes
  <2>4. \A m \in Names : measurement[m] = NoOne => AtWindow(m) = {}
    BY <1>1 DEF AtWindow, WorkInv, MeasuringPlaces
  <2>5. \A m \in Names : measurement[m] = NoOne /\ measured[m] = 0 => Writes(m) = 0
    BY <2>4, FS_EmptySet DEF Writes
  <2>6. \A m \in Names : measurement'[m] # NoOne =>
          /\ operations[m][measurement'[m]] <= Writes(m)
          /\ Writes(m) > 0 => operations[m][measurement'[m]] > 0
    BY <1>5, <1>6, <2>1, <2>5
  <2>7. \A u \in Threads, m \in Names : place'[u] = "write" /\ Wanted(u)' = m => read'[u] <= Writes(m)
    BY <1>2, <1>7, <2>1
  <2> QED
    BY <1>1, <2>1, <2>3, <2>6, <2>7 DEF SeriesInv
<1>9. CASE Measure(t)
  <2>0. Wanted(t) \in Names /\ object[t] \in Threads
    BY <1>9, Goal
  <2>a. PICK n \in Names : n = Wanted(t)
    BY <2>0
  <2>b. PICK o \in Threads : o = object[t]
    BY <2>0
  <2>1. /\ Of(t) = <<n, o>> /\ o = measurement[n] /\ Wanted(t) = n
        /\ measurement' = measurement /\ operations[n][o] \in Nat
        /\ MeasureSeries(t) \/ WriteSeries(t) \/ EndSeries(t)
        /\ Measured(t) => measured' = [measured EXCEPT ![n] = @ + 1]
    BY <1>4, <1>9, <2>a, <2>b, Goal DEF Measure, MeasureHdr, MeasureRaw, MeasureHistogram,
      EndHistogram,
      MeasureSeries, WriteSeries, EndSeries, Measured
  <2>2. MeasureSeries(t) \/ WriteSeries(t) => Wanted(t)' = n
    <3>1. interval' = interval
      BY <1>9 DEF Measure, config
    <3> QED
      BY <2>1, <3>1 DEF MeasureSeries, WriteSeries, EndSeries, Wanted, Measuring, Reports
  <2>3. CASE MeasureSeries(t)
    <3>1. /\ place[t] = "measure" /\ place'[t] = "write" /\ read'[t] = operations[n][o]
          /\ operations' = operations
          /\ measured' = measured /\ Wanted(t)' = n
      BY <1>1, <2>1, <2>2, <2>3 DEF MeasureSeries, GoesTo, At, MeasurementsTyped
    <3>2. \A m : AtWindow(m)' = AtWindow(m)
      BY <1>2, <3>1 DEF AtWindow
    <3>3. \A m : Writes(m)' = Writes(m)
      BY <3>1, <3>2 DEF Writes
    <3>4. read'[t] <= Writes(n)
      BY <1>1, <1>6, <2>1, <3>1
    <3>5. \A u \in Threads, m \in Names : place'[u] = "write" /\ Wanted(u)' = m =>
            read'[u] <= Writes(m)
      BY <1>2, <1>7, <3>1, <3>4
    <3> QED
      BY <1>1, <1>6, <2>1, <3>1, <3>3, <3>5 DEF SeriesInv
  <2>4. CASE WriteSeries(t)
    <3>1. /\ place[t] = "write" /\ place'[t] = "window" /\ measured' = measured /\ Wanted(t)' = n
          /\ operations' = Write(operations, <<n, o>>, read[t] + 1)
      BY <1>1, <2>1, <2>2, <2>4 DEF WriteSeries, GoesTo, MeasurementsTyped
    <3>2. read[t] <= Writes(n) /\ read[t] \in Nat
      BY <1>7, <2>1, <3>1
    <3>3. \A m \in Names, p \in Threads : operations'[m][p] =
            IF m = n /\ p = o THEN read[t] + 1 ELSE operations[m][p]
      BY <1>4, <2>1, <3>1 DEF Write
    <3>4. /\ AtWindow(n)' = AtWindow(n) \cup {t} /\ t \notin AtWindow(n)
          /\ \A m \in Names : m # n => AtWindow(m)' = AtWindow(m)
      <4>1. AtWindow(n)' = AtWindow(n) \cup {t} /\ t \notin AtWindow(n)
        BY <1>2, <2>1, <3>1 DEF AtWindow
      <4>2. ASSUME NEW m \in Names, m # n PROVE AtWindow(m)' = AtWindow(m)
        BY <1>2, <2>1, <3>1, <4>2 DEF AtWindow
      <4> QED
        BY <4>1, <4>2
    <3>5. /\ Writes(n)' = Writes(n) + 1
          /\ \A m \in Names : m # n => Writes(m)' = Writes(m)
      <4>1. Cardinality(AtWindow(n) \cup {t}) = Cardinality(AtWindow(n)) + 1
        BY <1>5, <2>1, <3>4, OneThread
      <4>2. measured[n] \in Nat /\ Cardinality(AtWindow(n)) \in Nat
        BY <1>4, <1>5, <2>1
      <4>3. Writes(n)' = Writes(n) + 1
        BY <3>1, <3>4, <4>1, <4>2 DEF Writes
      <4>4. \A m \in Names : m # n => Writes(m)' = Writes(m)
        BY <3>1, <3>4 DEF Writes
      <4> QED
        BY <4>3, <4>4
    <3>6. \A m \in Names : Writes(m)' >= Writes(m) /\ Writes(m)' \in Nat
      BY <1>5, <3>5, <2>1
    <3>7. \A m \in Names : measurement[m] # NoOne =>
          /\ operations'[m][measurement[m]] <= Writes(m)'
          /\ Writes(m)' > 0 => operations'[m][measurement[m]] > 0
      <4> SUFFICES ASSUME NEW m \in Names, measurement[m] # NoOne
                   PROVE  /\ operations'[m][measurement[m]] <= Writes(m)'
                          /\ Writes(m)' > 0 => operations'[m][measurement[m]] > 0
        OBVIOUS
      <4>1. measurement[m] \in Threads
        BY <1>4 DEF Objects
      <4>2. CASE m = n
        <5>1. operations'[m][measurement[m]] = read[t] + 1
          BY <2>1, <3>3, <4>1, <4>2
        <5> QED
          BY <1>5, <2>1, <3>2, <3>5, <4>2, <5>1
      <4>3. CASE m # n
        <5>1. operations'[m][measurement[m]] = operations[m][measurement[m]] /\ Writes(m)' = Writes(m)
          BY <3>3, <3>5, <4>1, <4>3
        <5> QED
          BY <1>6, <5>1
      <4> QED
        BY <4>2, <4>3
    <3>8. \A u \in Threads, m \in Names : place'[u] = "write" /\ Wanted(u)' = m =>
            read'[u] <= Writes(m)'
      <4>1. \A u \in Threads : place'[u] = "write" => u # t /\ place[u] = "write"
        BY <1>2, <3>1
      <4> QED
        BY <1>2, <1>3, <1>5, <1>7, <3>6, <4>1
    <3> QED
      BY <1>1, <2>1, <3>7, <3>8 DEF SeriesInv
  <2>5. CASE EndSeries(t)
    <3>1. /\ place[t] = "window" /\ place'[t] = "lookup" /\ operations' = operations
          /\ measured' = [measured EXCEPT ![n] = @ + 1]
      BY <1>1, <2>1, <2>5 DEF EndSeries, Measured, GoesTo, MeasurementsTyped
    <3>2. /\ AtWindow(n)' = AtWindow(n) \ {t} /\ t \in AtWindow(n)
          /\ \A m \in Names : m # n => AtWindow(m)' = AtWindow(m)
      <4>1. AtWindow(n)' = AtWindow(n) \ {t} /\ t \in AtWindow(n)
        BY <1>2, <2>1, <3>1 DEF AtWindow
      <4>2. ASSUME NEW m \in Names, m # n PROVE AtWindow(m)' = AtWindow(m)
        BY <1>2, <2>1, <3>1, <4>2 DEF AtWindow
      <4> QED
        BY <4>1, <4>2
    <3>3. \A m \in Names : Writes(m)' = Writes(m)
      <4>1. /\ Cardinality(AtWindow(n)) = Cardinality(AtWindow(n) \ {t}) + 1
            /\ Cardinality(AtWindow(n) \ {t}) \in Nat
        <5>1. AtWindow(n) \ {t} \in SUBSET Threads
          BY <1>5, <2>1
        <5> QED
          BY <1>5, <2>1, <3>2, <5>1, OneThread
      <4> QED
        <5>1. measured'[n] = measured[n] + 1 /\ measured[n] \in Nat
          BY <1>4, <2>1, <3>1
        <5>2. Writes(n)' = Writes(n)
          BY <3>2, <4>1, <5>1 DEF Writes
        <5>3. \A m \in Names : m # n => Writes(m)' = Writes(m)
          BY <1>4, <3>1, <3>2 DEF Writes
        <5> QED
          BY <5>2, <5>3
    <3>4. \A u \in Threads, m \in Names : place'[u] = "write" /\ Wanted(u)' = m =>
            read'[u] <= Writes(m)'
      <4>1. \A u \in Threads : place'[u] = "write" => u # t /\ place[u] = "write"
        BY <1>2, <3>1
      <4> QED
        BY <1>2, <1>3, <1>7, <3>3, <4>1
    <3> QED
      BY <1>1, <1>6, <2>1, <3>1, <3>3, <3>4 DEF SeriesInv
  <2> QED
    BY <2>1, <2>3, <2>4, <2>5
<1> QED
  BY <1>8, <1>9

-----------------------------------------------------------------------------
(* The status thread and main()                                            *)

\* A step of the status thread or of main() disturbs nothing that a client relies on.
LEMMA ClientsKept ==
  ASSUME MInvTyped, BehindInv, StatusThread \/ ExportMeasurements
  PROVE  WorkInv' /\ TodoInv' /\ PlacesInv' /\ CountInv' /\ BehindInv'
<1>1. /\ kind' = kind /\ interval' = interval
      /\ measurement' = measurement /\ returncodes' = returncodes
      /\ monitor' = monitor /\ count' = count /\ place' = place /\ status' = status /\ todo' = todo
      /\ object' = object /\ read' = read /\ done' = done /\ measured' = measured
      /\ returned' = returned
  BY StatusFrame
<1>2. /\ MapNames' = MapNames /\ Reports' = Reports
      /\ \A t : Wanted(t)' = Wanted(t)
  BY <1>1 DEF MapNames, Reports, Wanted, Measuring
<1>3. \A n, s : Behind(n, s)' = Behind(n, s)
  BY <1>1 DEF Behind
<1>4. WorkInv'
  BY <1>1, <1>2 DEF MInvTyped, WorkInv
<1>5. TodoInv' /\ PlacesInv'
  BY <1>1, <1>2 DEF MInvTyped, TodoInv, PlacesInv
<1>6. CountInv'
  BY <1>1, <1>2 DEF MInvTyped, CountInv
<1>7. BehindInv'
  BY <1>1, <1>2, <1>3 DEF BehindInv
<1> QED
  BY <1>4, <1>5, <1>6, <1>7

\* What a summary does to the counters of the object that it summarizes.
SummaryOf(n, o) ==
  /\ n = name /\ o = measurement[n] /\ exported' = exported
  /\ \A m \in Names, p \in Threads : m # n \/ p # o =>
       /\ operations'[m][p] = operations[m][p]
       /\ windowoperations'[m][p] = windowoperations[m][p]
  /\ \A m \in Names : m # n => summed'[m] = summed[m]
  /\ \/ /\ kind = "hdrhistogram" /\ taken = 0 /\ name' = n
        /\ taken' = windowoperations[n][o] /\ windowoperations'[n][o] = 0
        /\ operations'[n][o] = operations[n][o] /\ summed'[n] = summed[n]
     \/ /\ kind = "hdrhistogram" /\ taken' = 0 /\ name' = NoName
        /\ operations'[n][o] = operations[n][o] + taken
        /\ windowoperations'[n][o] = windowoperations[n][o]
        /\ summed'[n] = summed[n] + taken
     \/ /\ kind = "raw" /\ taken = 0 /\ taken' = 0 /\ name' = NoName
        /\ windowoperations'[n][o] = 0 /\ operations' = operations
        /\ summed'[n] = summed[n] + windowoperations[n][o]
     \/ /\ kind \in {"histogram", "timeseries"} /\ operations' = operations
        /\ name' \in {n, NoName}

LEMMA SummaryStep ==
  ASSUME MInvTyped, Summarize
  PROVE  \E n \in Names, o \in Threads : SummaryOf(n, o)
<1>1. /\ MeasurementsTyped /\ SummaryInv /\ MapsInv /\ WorkInv
      /\ operations \in [Names -> [Threads -> Nat]]
      /\ windowoperations \in [Names -> [Threads -> Nat]]
      /\ summed \in [Names -> Nat] /\ taken \in Nat
  BY DEF MInvTyped, MeasurementsTyped
<1>2. /\ name \in Names /\ measurement[name] \in Threads /\ Here = <<name, measurement[name]>>
      /\ statusPlace \in {"summary", "take"}
  BY <1>1, HereIs DEF Summarize, SwapHdr, AccumulateHdr, SummarizeRaw, ReadWindow, ResetWindow
<1>3. PICK n \in Names : n = name
  BY <1>2
<1>4. PICK o \in Threads : o = measurement[n]
  BY <1>2, <1>3
<1>5. /\ Here = <<n, o>>
      /\ At(operations, Here) = operations[n][o]
      /\ At(windowoperations, Here) = windowoperations[n][o]
      /\ operations[n][o] \in Nat /\ windowoperations[n][o] \in Nat /\ exported' = exported
  BY <1>1, <1>2, <1>3, <1>4, AtIs DEF Summarize
<1>6. ASSUME NEW v \in Nat
      PROVE  /\ \A m \in Names, p \in Threads :
                  Write(operations, <<n, o>>, v)[m][p] =
                    IF m = n /\ p = o THEN v ELSE operations[m][p]
             /\ \A m \in Names, p \in Threads : Write(windowoperations, <<n, o>>, v)[m][p] =
                  IF m = n /\ p = o THEN v ELSE windowoperations[m][p]
  BY <1>1 DEF Write
<1>7. \A v \in Nat : Reported(v) =>
        /\ summed'[n] = summed[n] + v /\ taken' = 0 /\ name' = NoName
        /\ \A m \in Names : m # n => summed'[m] = summed[m]
  BY <1>1, <1>3 DEF Reported
<1>8. operations[n][o] + taken \in Nat
  BY <1>1, <1>5
<1>9. CASE SwapHdr
  <2>1. windowoperations' = Write(windowoperations, <<n, o>>, 0)
    BY <1>5, <1>9 DEF SwapHdr, Emptied
  <2>2. \A m \in Names, p \in Threads :
          windowoperations'[m][p] = IF m = n /\ p = o THEN 0 ELSE windowoperations[m][p]
    BY <1>6, <2>1
  <2>3. /\ kind = "hdrhistogram" /\ taken = 0 /\ name' = n /\ taken' = windowoperations[n][o]
        /\ operations' = operations /\ summed' = summed
    BY <1>1, <1>3, <1>5, <1>9 DEF SwapHdr, SummaryInv
  <2> QED
    BY <1>3, <1>4, <1>5, <2>2, <2>3 DEF SummaryOf
<1>10. CASE AccumulateHdr
  <2>1. operations' = Write(operations, <<n, o>>, operations[n][o] + taken)
    BY <1>5, <1>10 DEF AccumulateHdr, Accumulate
  <2>2. \A m \in Names, p \in Threads :
          operations'[m][p] = IF m = n /\ p = o THEN operations[n][o] + taken ELSE operations[m][p]
    BY <1>6, <1>8, <2>1
  <2>3. kind = "hdrhistogram" /\ windowoperations' = windowoperations /\ Reported(taken)
    BY <1>10 DEF AccumulateHdr
  <2> QED
    BY <1>1, <1>3, <1>4, <1>5, <1>7, <2>2, <2>3 DEF SummaryOf
<1>11. CASE SummarizeRaw
  <2>1. windowoperations' = Write(windowoperations, <<n, o>>, 0)
    BY <1>5, <1>11 DEF SummarizeRaw, Emptied
  <2>2. \A m \in Names, p \in Threads :
          windowoperations'[m][p] = IF m = n /\ p = o THEN 0 ELSE windowoperations[m][p]
    BY <1>6, <2>1
  <2>3. kind = "raw" /\ taken = 0 /\ operations' = operations /\ Reported(windowoperations[n][o])
    BY <1>1, <1>5, <1>11 DEF SummarizeRaw, SummaryInv
  <2> QED
    BY <1>3, <1>4, <1>5, <1>7, <2>2, <2>3 DEF SummaryOf
<1>12. CASE ReadWindow
  <2>1. /\ kind \in {"histogram", "timeseries"} /\ operations' = operations
        /\ windowoperations' = windowoperations
        /\ Reported(0) \/ (name' = name /\ summed' = summed)
    BY <1>12 DEF ReadWindow
  <2> QED
    BY <1>3, <1>4, <1>5, <1>7, <2>1 DEF SummaryOf
<1>13. CASE ResetWindow
  <2>1. windowoperations' = Write(windowoperations, <<n, o>>, 0)
    BY <1>5, <1>13 DEF ResetWindow, Emptied
  <2>2. \A m \in Names, p \in Threads :
          windowoperations'[m][p] = IF m = n /\ p = o THEN 0 ELSE windowoperations[m][p]
    BY <1>6, <2>1
  <2>3. kind \in {"histogram", "timeseries"} /\ operations' = operations /\ Reported(taken)
    BY <1>13 DEF ResetWindow
  <2> QED
    BY <1>1, <1>3, <1>4, <1>5, <1>7, <2>2, <2>3 DEF SummaryOf
<1> QED
  BY <1>9, <1>10, <1>11, <1>12, <1>13 DEF Summarize

\* Between summaries the thread only moves on.
LEMMA VisitStep ==
  ASSUME MInvTyped, BeginSummary \/ Visit \/ EndSummary
  PROVE  /\ operations' = operations /\ windowoperations' = windowoperations /\ summed' = summed
         /\ taken' = 0 /\ taken = 0 /\ exported' = exported
         /\ name' = name \/ (name' \in Names /\ measurement[name'] # NoOne)
<1>1. /\ BeginSummary \/ EndSummary => name' = name
      /\ Visit => name' = name \/ (name' = Head(left) /\ measurement[Head(left)] # NoOne)
  BY DEF BeginSummary, EndSummary, Visit
<1>2. Visit => Head(left) \in Names
  BY DEF Visit, MInvTyped, MeasurementsTyped
<1>3. taken = 0 /\ taken' = taken
  BY DEF BeginSummary, EndSummary, Visit, MInvTyped, SummaryInv
<1>4. /\ operations' = operations /\ windowoperations' = windowoperations /\ summed' = summed
      /\ exported' = exported
  BY DEF BeginSummary, EndSummary, Visit, counters, tallies
<1> QED
  BY <1>1, <1>2, <1>3, <1>4

LEMMA SummaryMaps ==
  ASSUME MInvTyped, StatusThread \/ ExportMeasurements
  PROVE  MapsInv'
<1>1. MeasurementsTyped /\ MapsInv /\ SummaryInv /\ NoName \notin Names
      /\ operations \in [Names -> [Threads -> Nat]]
      /\ windowoperations \in [Names -> [Threads -> Nat]]
  BY NamesAre DEF MInvTyped, MeasurementsTyped
<1>2. measurement' = measurement /\ measured' = measured
  BY StatusFrame
<1>3. CASE BeginSummary \/ Visit \/ EndSummary
  BY <1>1, <1>2, <1>3, VisitStep DEF MapsInv
<1>4. CASE Summarize
  <2>1. PICK n \in Names, o \in Threads : SummaryOf(n, o)
    BY <1>4, SummaryStep
  <2>2. /\ \A m \in Names, p \in Threads : p # measurement[m] =>
             operations'[m][p] = operations[m][p] /\ windowoperations'[m][p] = windowoperations[m][p]
        /\ \A m \in Names : measurement[m] = NoOne => summed'[m] = summed[m] /\ name' # m
    BY <1>1, <2>1, NamesAre DEF SummaryOf
  <2> QED
    BY <1>1, <1>2, <2>2 DEF MapsInv
<1>5. CASE ExportMeasurements
  <2>1. name' = name /\ summed' = summed
    BY <1>5 DEF ExportMeasurements, statusThread, tallies
  <2>2. \A n \in Names, o \in Threads : operations[n][o] = 0 /\ windowoperations[n][o] = 0 =>
          operations'[n][o] = 0 /\ windowoperations'[n][o] = 0
    BY <1>5 DEF ExportMeasurements, Accumulate
  <2> QED
    BY <1>1, <1>2, <2>1, <2>2 DEF MapsInv
<1> QED
  BY <1>3, <1>4, <1>5 DEF StatusThread

LEMMA SummaryExact ==
  ASSUME MInvTyped, HdrInv, RawInv, WindowInv, StatusThread \/ ExportMeasurements
  PROVE  HdrInv' /\ RawInv' /\ WindowInv'
<1>1. /\ MeasurementsTyped /\ MapsInv /\ SummaryInv /\ NoName \notin Names /\ NoOne \notin Threads
      /\ operations \in [Names -> [Threads -> Nat]]
      /\ windowoperations \in [Names -> [Threads -> Nat]]
      /\ measurement \in [Names -> Objects] /\ measured \in [Names -> Nat]
      /\ summed \in [Names -> Nat]
      /\ taken \in Nat
  BY NamesAre DEF MInvTyped, MeasurementsTyped
<1>2. measurement' = measurement /\ measured' = measured /\ kind' = kind
  BY StatusFrame
<1>3. \A n \in Names : measurement[n] # NoOne => measurement[n] \in Threads
  BY <1>1 DEF Objects
<1>4. CASE BeginSummary \/ Visit \/ EndSummary
  <2>1. /\ operations' = operations /\ windowoperations' = windowoperations /\ summed' = summed
        /\ taken' = 0 /\ taken = 0 /\ exported' = exported
    BY <1>4, VisitStep
  <2>2. \A n : InHand(n)' = 0 /\ InHand(n) = 0
    BY <2>1 DEF InHand
  <2> QED
    BY <1>2, <2>1, <2>2 DEF HdrInv, RawInv, WindowInv
<1>5. CASE Summarize
  <2>0. PICK n \in Names, o \in Threads : SummaryOf(n, o)
    BY <1>5, SummaryStep
  <2>1. /\ n = name /\ o = measurement[n] /\ exported' = exported
        /\ \A m \in Names, p \in Threads : m # n \/ p # o =>
             /\ operations'[m][p] = operations[m][p]
             /\ windowoperations'[m][p] = windowoperations[m][p]
        /\ \A m \in Names : m # n => summed'[m] = summed[m]
        /\ \/ /\ kind = "hdrhistogram" /\ taken = 0 /\ name' = n
              /\ taken' = windowoperations[n][o] /\ windowoperations'[n][o] = 0
              /\ operations'[n][o] = operations[n][o] /\ summed'[n] = summed[n]
           \/ /\ kind = "hdrhistogram" /\ taken' = 0 /\ name' = NoName
              /\ operations'[n][o] = operations[n][o] + taken
              /\ windowoperations'[n][o] = windowoperations[n][o]
              /\ summed'[n] = summed[n] + taken
           \/ /\ kind = "raw" /\ taken = 0 /\ taken' = 0 /\ name' = NoName
              /\ windowoperations'[n][o] = 0 /\ operations' = operations
              /\ summed'[n] = summed[n] + windowoperations[n][o]
           \/ /\ kind \in {"histogram", "timeseries"} /\ operations' = operations
              /\ name' \in {n, NoName}
    BY <2>0 DEF SummaryOf
  <2>2. ~exported
    BY <1>1, <1>5 DEF SummaryInv, Summarize, SwapHdr, AccumulateHdr, SummarizeRaw, ReadWindow,
      ResetWindow
  <2>3. \A m \in Names : m # n => InHand(m) = 0 /\ InHand(m)' = 0
    BY <1>1, <2>1 DEF InHand
  <2>4. InHand(n) = taken /\ InHand(n)' = IF name' = n THEN taken' ELSE 0
    BY <2>1 DEF InHand
  <2>5. /\ operations[n][o] \in Nat /\ windowoperations[n][o] \in Nat /\ summed[n] \in Nat
        /\ measured[n] \in Nat
    BY <1>1
  <2>6. \A m \in Names : measurement[m] # NoOne /\ m # n =>
          /\ operations'[m][measurement[m]] = operations[m][measurement[m]]
          /\ windowoperations'[m][measurement[m]] = windowoperations[m][measurement[m]]
          /\ summed'[m] = summed[m]
    BY <1>3, <2>1
  <2>7. measurement[n] # NoOne
    BY <1>1, <2>1
  <2>8. HdrInv'
    <3> SUFFICES ASSUME kind = "hdrhistogram", NEW m \in Names, measurement[m] # NoOne
                 PROVE  operations'[m][measurement[m]] + windowoperations'[m][measurement[m]] + InHand(m)'
                          = measured[m]
      BY <1>2, <2>1, <2>2 DEF HdrInv
    <3>1. operations[m][measurement[m]] + windowoperations[m][measurement[m]] + InHand(m) = measured[m]
      BY DEF HdrInv
    <3>2. CASE m # n
      BY <2>3, <2>6, <3>1, <3>2
    <3>3. CASE m = n
      BY <1>1, <2>1, <2>4, <2>5, <3>1, <3>3
    <3> QED
      BY <3>2, <3>3
  <2>9. RawInv'
    <3> SUFFICES ASSUME kind = "raw", NEW m \in Names, measurement[m] # NoOne
                 PROVE  operations'[m][measurement[m]] = measured[m]
      BY <1>2 DEF RawInv
    <3> QED
      BY <2>1 DEF RawInv
  <2>10. WindowInv'
    <3> SUFFICES ASSUME kind \in {"hdrhistogram", "raw"}, NEW m \in Names, measurement[m] # NoOne
                 PROVE  windowoperations'[m][measurement[m]] + summed'[m] + InHand(m)' = measured[m]
      BY <1>2, <2>1, <2>2 DEF WindowInv
    <3>1. windowoperations[m][measurement[m]] + summed[m] + InHand(m) = measured[m]
      BY <2>2 DEF WindowInv
    <3>2. CASE m # n
      BY <2>3, <2>6, <3>1, <3>2
    <3>3. CASE m = n
      BY <1>1, <2>1, <2>4, <2>5, <3>1, <3>3
    <3> QED
      BY <3>2, <3>3
  <2> QED
    BY <2>8, <2>9, <2>10
<1>6. CASE ExportMeasurements
  <2>1. /\ name = NoName /\ name' = name /\ taken' = taken /\ exported'
    BY <1>1, <1>6 DEF ExportMeasurements, statusThread, SummaryInv
  <2>2. \A n \in Names : InHand(n) = 0 /\ InHand(n)' = 0
    BY <1>1, <2>1 DEF InHand
  <2>3. kind = "hdrhistogram" => \A n \in Names, o \in Threads :
           /\ operations'[n][o] = operations[n][o] + windowoperations[n][o]
           /\ windowoperations'[n][o] = 0
    BY <1>6 DEF ExportMeasurements, Accumulate
  <2>4. \A n \in Names, o \in Threads : operations[n][o] \in Nat /\ windowoperations[n][o] \in Nat
    BY <1>1
  <2>5. HdrInv'
    <3> SUFFICES ASSUME kind = "hdrhistogram", NEW m \in Names, measurement[m] # NoOne
                 PROVE  /\ operations'[m][measurement[m]] + windowoperations'[m][measurement[m]] + InHand(m)'
                             = measured[m]
                        /\ windowoperations'[m][measurement[m]] = 0
      BY <1>2 DEF HdrInv
    <3>1. operations[m][measurement[m]] + windowoperations[m][measurement[m]] + InHand(m) = measured[m]
      BY DEF HdrInv
    <3>2. measurement[m] \in Threads /\ measured[m] \in Nat
      BY <1>1, <1>3
    <3> QED
      BY <2>2, <2>3, <2>4, <3>1, <3>2
  <2>6. RawInv'
    <3>1. kind = "raw" => operations' = operations
      BY <1>6 DEF ExportMeasurements
    <3> QED
      BY <1>2, <3>1 DEF RawInv
  <2>7. WindowInv'
    BY <2>1 DEF WindowInv
  <2> QED
    BY <2>5, <2>6, <2>7
<1> QED
  BY <1>4, <1>5, <1>6 DEF StatusThread

\* The other kinds: a summary leaves the total alone.
LEMMA SummaryShared ==
  ASSUME MInvTyped, HistogramInv, SeriesInv, StatusThread \/ ExportMeasurements
  PROVE  HistogramInv' /\ SeriesInv'
<1>1. /\ measurement' = measurement /\ measured' = measured /\ kind' = kind /\ monitor' = monitor
      /\ place' = place /\ object' = object /\ read' = read /\ todo' = todo /\ interval' = interval
  BY StatusFrame
<1>2. kind \in {"histogram", "timeseries"} => operations' = operations
  <2>1. BeginSummary \/ Visit \/ EndSummary => operations' = operations
    BY VisitStep
  <2>2. Summarize /\ kind \in {"histogram", "timeseries"} => operations' = operations
    BY SummaryStep DEF SummaryOf
  <2>3. ExportMeasurements /\ kind # "hdrhistogram" => operations' = operations
    BY DEF ExportMeasurements
  <2> QED
    BY <2>1, <2>2, <2>3 DEF StatusThread
<1>3. \A t : Wanted(t)' = Wanted(t) /\ Of(t)' = Of(t)
  BY <1>1 DEF Of, Wanted, Measuring, Reports
<1>4. \A n : AtWindow(n)' = AtWindow(n)
  BY <1>1, <1>3 DEF AtWindow
<1>5. \A n : Writes(n)' = Writes(n)
  BY <1>1, <1>4 DEF Writes
<1>6. HistogramInv'
  BY <1>1, <1>2, <1>3 DEF HistogramInv, Of, Wanted, Measuring, Reports
<1>7. SeriesInv'
  BY <1>1, <1>2, <1>3, <1>5 DEF SeriesInv
<1> QED
  BY <1>6, <1>7

-----------------------------------------------------------------------------
(* The invariant                                                           *)

LEMMA MeasurementsInitial ==
  ASSUME MeasurementsInit
  PROVE  MInv
<1> USE DEF MeasurementsInit
<1>1. /\ place = [t \in Threads |-> "idle"] /\ measurement = [n \in Names |-> NoOne]
      /\ \A n \in Names : measured[n] = 0 /\ summed[n] = 0
      /\ \A s \in Statuses : returned[s] = 0
      /\ \A n \in Names, o \in Threads :
           operations[n][o] = 0 /\ windowoperations[n][o] = 0 /\ monitor[n][o] = NoOne
      /\ NoOne \notin Threads /\ NoName \notin Names /\ OpCount \in [Threads -> Nat]
  BY NamesAre, MeasurementsAssumption
<1>2. MeasurementsTyped
  <2>1. /\ "OK" \in Statuses /\ "idle" \in Places /\ NoOne \in Objects /\ <<>> \in Seq(Names)
        /\ Len(<<>>) = 0
    BY DEF Statuses, Places, Objects
  <2>2. /\ measurement \in [Names -> Objects] /\ returncodes \in [Threads -> [Statuses -> Objects]]
        /\ monitor \in [Names -> [Threads -> Objects]] /\ status \in [Threads -> Statuses]
        /\ place \in [Threads -> Places] /\ object \in [Threads -> Objects]
        /\ todo \in [Threads -> Seq(Names)]
    BY <2>1
  <2>3. /\ operations \in [Names -> [Threads -> Nat]]
        /\ windowoperations \in [Names -> [Threads -> Nat]]
        /\ count \in [Threads -> [Statuses -> [Threads -> Nat]]]
    OBVIOUS
  <2>4. /\ done \in [Threads -> Nat] /\ DOMAIN read = Threads
        /\ measured \in [Names -> Nat] /\ summed \in [Names -> Nat] /\ returned \in [Statuses -> Nat]
    OBVIOUS
  <2>5. /\ kind \in Kinds /\ interval \in Intervals
        /\ statusPlace \in {"wait", "visit", "summary", "take", "ended"} /\ left = <<>>
        /\ name \in {NoName} /\ taken \in Nat /\ windows \in Nat /\ exported \in BOOLEAN
    OBVIOUS
  <2> QED
    BY <2>1, <2>2, <2>3, <2>4, <2>5 DEF MeasurementsTyped
<1>3. WorkInv /\ TodoInv /\ PlacesInv
  BY <1>1 DEF WorkInv, TodoInv, PlacesInv, MeasuringPlaces, ReportingPlaces
<1>4. MapsInv /\ SummaryInv
  BY <1>1 DEF MapsInv, SummaryInv
<1>5. BehindInv
  <2>1. \A s \in Statuses, m \in MapNames : <<m, NameOf(s)>> \in Names
    BY MapsAre, NamesAre
  <2>2. \A n, s : Behind(n, s) = {}
    BY <1>1 DEF Behind
  <2>3. Cardinality({}) = 0
    BY FS_EmptySet
  <2>4. ASSUME NEW s \in Statuses, NEW m \in MapNames
        PROVE  measured[<<m, NameOf(s)>>] = returned[s] + Cardinality(Behind(<<m, NameOf(s)>>, s))
    <3>1. measured[<<m, NameOf(s)>>] = 0 /\ returned[s] = 0
      BY <1>1, <2>1
    <3>2. Cardinality(Behind(<<m, NameOf(s)>>, s)) = 0
      BY <2>2, <2>3
    <3> QED
      BY <3>1, <3>2
  <2> QED
    BY <2>4 DEF BehindInv
<1>6. CountInv
  BY <1>1 DEF CountInv
<1>7. HdrInv /\ RawInv /\ WindowInv /\ HistogramInv /\ SeriesInv
  BY <1>1 DEF HdrInv, RawInv, WindowInv, HistogramInv, SeriesInv
<1> QED
  BY <1>2, <1>3, <1>4, <1>5, <1>6, <1>7 DEF MInv

LEMMA MeasurementsStutter ==
  ASSUME MInv, UNCHANGED measurementsVars
  PROVE  MInv'
<1>1. /\ kind' = kind /\ interval' = interval /\ measurement' = measurement
      /\ returncodes' = returncodes /\ operations' = operations
      /\ windowoperations' = windowoperations /\ monitor' = monitor /\ count' = count
      /\ place' = place /\ status' = status /\ todo' = todo /\ object' = object /\ read' = read
      /\ done' = done /\ statusPlace' = statusPlace /\ left' = left /\ name' = name
      /\ taken' = taken /\ windows' = windows /\ measured' = measured /\ returned' = returned
      /\ summed' = summed /\ exported' = exported
  BY DEF measurementsVars, config, maps, counters, locals, statusThread, tallies
<1>2. /\ \A t : Wanted(t)' = Wanted(t) /\ Of(t)' = Of(t)
      /\ \A n : InHand(n)' = InHand(n)
      /\ Reports' = Reports /\ MapNames' = MapNames /\ AllDone' = AllDone
  BY <1>1 DEF Wanted, Measuring, Reports, Of, InHand, MapNames, AllDone
<1>3. \A n, s : Behind(n, s)' = Behind(n, s)
  BY <1>1 DEF Behind
<1>4. \A n : AtWindow(n)' = AtWindow(n)
  BY <1>1, <1>2 DEF AtWindow
<1>5. \A n : Writes(n)' = Writes(n)
  BY <1>1, <1>4 DEF Writes
<1>6. MeasurementsTyped' /\ WorkInv' /\ TodoInv' /\ PlacesInv' /\ SummaryInv'
  <2>1. MeasurementsTyped' /\ PlacesInv'
    BY <1>1 DEF MInv, MeasurementsTyped, PlacesInv
  <2>2. WorkInv'
    BY <1>1, <1>2 DEF MInv, WorkInv
  <2>3. TodoInv' /\ SummaryInv'
    BY <1>1, <1>2 DEF MInv, TodoInv, SummaryInv
  <2> QED
    BY <2>1, <2>2, <2>3
<1>7. MapsInv' /\ CountInv'
  BY <1>1, <1>2 DEF MInv, MapsInv, CountInv
<1>8. BehindInv'
  BY <1>1, <1>2, <1>3 DEF MInv, BehindInv
<1>9. HdrInv' /\ RawInv' /\ WindowInv'
  BY <1>1, <1>2 DEF MInv, HdrInv, RawInv, WindowInv
<1>10. HistogramInv'
  BY <1>1 DEF MInv, HistogramInv, Of, Wanted, Measuring, Reports
<1>11. SeriesInv'
  BY <1>1, <1>2, <1>5 DEF MInv, SeriesInv
<1> QED
  BY <1>6, <1>7, <1>8, <1>9, <1>10, <1>11 DEF MInv

LEMMA MeasurementsInductive ==
  ASSUME MInv, [MeasurementsNext]_measurementsVars
  PROVE  MInv'
<1>1. MInvTyped /\ BehindInv /\ HdrInv /\ RawInv /\ WindowInv /\ HistogramInv /\ SeriesInv
  BY DEF MInv, MInvTyped
<1>2. CASE \E t \in Threads : ClientThread(t)
  <2>1. PICK t \in Threads : ClientThread(t)
    BY <1>2
  <2>2. MeasurementsTyped' /\ WorkInv' /\ PlacesInv' /\ SummaryInv'
    BY <1>1, <2>1, ClientTyped, WorkStep, NotExported
  <2>3. TodoInv' /\ MapsInv' /\ CountInv' /\ BehindInv'
    BY <1>1, <2>1, TodoStep, MapsStep, CountersStep, BehindStep
  <2>4. HdrInv' /\ RawInv' /\ WindowInv' /\ HistogramInv' /\ SeriesInv'
    BY <1>1, <2>1, ExactStep, HistogramStep, SeriesStep
  <2> QED
    BY <2>2, <2>3, <2>4 DEF MInv
<1>3. CASE StatusThread \/ ExportMeasurements
  <2>1. MeasurementsTyped' /\ SummaryInv' /\ MapsInv'
    BY <1>1, <1>3, StatusTyped, SummaryMaps
  <2>2. WorkInv' /\ TodoInv' /\ PlacesInv' /\ CountInv' /\ BehindInv'
    BY <1>1, <1>3, ClientsKept
  <2>3. HdrInv' /\ RawInv' /\ WindowInv' /\ HistogramInv' /\ SeriesInv'
    BY <1>1, <1>3, SummaryExact, SummaryShared
  <2> QED
    BY <2>1, <2>2, <2>3 DEF MInv
<1>4. CASE UNCHANGED measurementsVars
  BY <1>4, MeasurementsStutter
<1> QED
  BY <1>2, <1>3, <1>4 DEF MeasurementsNext

LEMMA MeasurementsInvariant == MeasurementsSpec => []MInv
<1>1. MeasurementsInit => MInv
  BY MeasurementsInitial
<1>2. MInv /\ [MeasurementsNext]_measurementsVars => MInv'
  BY MeasurementsInductive
<1> QED
  BY <1>1, <1>2, PTL DEF MeasurementsSpec

\* Whoever is at an object, its maps, counters and windows keep values of their types,
\* and no thread measures more operations than it has (DBWrapper, Measurements).
THEOREM MeasurementsTypeCorrect == MeasurementsSpec => []MeasurementsTypeOK
<1>1. MInv => MeasurementsTypeOK
  <2> SUFFICES ASSUME MInv PROVE MeasurementsTypeOK
    OBVIOUS
  <2>1. MeasurementsTyped /\ WorkInv /\ TodoInv /\ OpCount \in [Threads -> Nat]
    BY MeasurementsAssumption DEF MInv
  <2>2. \A t \in Threads : done[t] \in 0 .. OpCount[t]
    BY <2>1 DEF MeasurementsTyped, WorkInv
  <2>3. \A t \in Threads : /\ Len(todo[t]) <= 2 /\ object[t] \in Objects
                           /\ IF place[t] = "count" THEN read[t] \in Threads ELSE read[t] \in Nat
    BY <2>1 DEF MeasurementsTyped, WorkInv, TodoInv
  <2> QED
    BY <2>1, <2>2, <2>3 DEF MeasurementsTyped, MeasurementsTypeOK, Places
<1> QED
  BY <1>1, MeasurementsInvariant, PTL

\* At most one object of a name is used, so every measurement of a run is in the object
\* that main() exports: all of them when the object has a lock or a recorder, and some
\* of them, if there are any, when its counters have none (Measurements.
\* getOpMeasurement(), OneMeasurement*.measure() and exportMeasurements()).
THEOREM ExactTotalsAlways == MeasurementsSpec => []ExactTotals
<1>1. MInv => ExactTotals
  <2> SUFFICES ASSUME MInv, exported, NEW n \in Names
               PROVE  IF kind = "timeseries"
                      THEN Exported(operations, n) \in {m \in 0 .. measured[n] :
                        m > 0 \/ measured[n] = 0}
                      ELSE Exported(operations, n) = measured[n]
    BY DEF ExactTotals
  <2>1. /\ kind \in Kinds /\ measurement[n] \in Objects /\ measured[n] \in Nat
        /\ \A o \in Threads : operations[n][o] \in Nat /\ windowoperations[n][o] \in Nat
    BY DEF MInv, MeasurementsTyped
  <2>2. AllDone /\ name = NoName /\ NoName \notin Names
    BY NamesAre DEF MInv, SummaryInv
  <2>3. CASE measurement[n] = NoOne
    BY <2>1, <2>3 DEF Exported, MInv, MapsInv
  <2>4. CASE measurement[n] # NoOne
    <3> DEFINE o == measurement[n]
    <3>1. o \in Threads /\ Exported(operations, n) = operations[n][o]
      BY <2>1, <2>4 DEF Objects, Exported
    <3>2. CASE kind = "hdrhistogram"
      BY <2>1, <2>2, <2>4, <3>1, <3>2 DEF MInv, HdrInv, InHand
    <3>3. CASE kind = "raw"
      BY <2>1, <2>4, <3>1, <3>3 DEF MInv, RawInv
    <3>4. CASE kind = "histogram"
      <4>1. monitor[n][o] \in Objects
        BY <3>1 DEF MInv, MeasurementsTyped
      <4>2. monitor[n][o] = NoOne
        BY <2>2, <3>1, <3>4, <4>1 DEF MInv, HistogramInv, AllDone, Objects
      <4> QED
        BY <2>1, <2>4, <3>1, <3>4, <4>2 DEF MInv, HistogramInv
    <3>5. CASE kind = "timeseries"
      <4>1. AtWindow(n) = {}
        BY <2>2 DEF AtWindow, AllDone
      <4>2. Writes(n) = measured[n]
        BY <2>1, <4>1, FS_EmptySet DEF Writes
      <4> QED
        BY <2>1, <2>4, <3>1, <3>5, <4>2 DEF MInv, SeriesInv
    <3> QED
      BY <2>1, <3>2, <3>3, <3>4, <3>5 DEF Kinds
  <2> QED
    BY <2>3, <2>4
<1> QED
  BY <1>1, MeasurementsInvariant, PTL

\* A thread counts the status of each operation that it has measured, so the two agree
\* when no thread is between measure() and reportStatus(), as when main() exports.
THEOREM StatusBalanceAlways == MeasurementsSpec => []StatusBalance
<1>1. MInv => StatusBalance
  <2> SUFFICES ASSUME MInv, exported, NEW s \in Statuses, NEW i \in DOMAIN MapsOf(interval)
               PROVE  LET o == measurement[Reports]
                          Shown == IF o = NoOne \/ returncodes[o][s] = NoOne THEN 0
                                   ELSE count[o][s][returncodes[o][s]]
                      IN  Shown = returned[s] /\ Shown = measured[<<MapsOf(interval)[i], NameOf(s)>>]
    BY DEF StatusBalance
  <2> DEFINE o == measurement[Reports]
             n == <<MapsOf(interval)[i], NameOf(s)>>
  <2>1. /\ interval \in Intervals /\ o \in Objects /\ returned[s] \in Nat /\ AllDone
        /\ \A p \in Threads : returncodes[p][s] \in Objects
    BY NamesAre DEF MInv, MeasurementsTyped, SummaryInv
  <2>2. MapsOf(interval)[i] \in MapNames
    BY <2>1, MapsAre
  <2>3. Behind(n, s) = {}
    BY <2>1 DEF Behind, AllDone
  <2>4. measured[n] = returned[s]
    <3>1. measured[n] = returned[s] + Cardinality(Behind(n, s))
      BY <2>2 DEF MInv, BehindInv
    <3>2. Cardinality({}) = 0
      BY FS_EmptySet
    <3>3. Cardinality(Behind(n, s)) = 0
      BY <2>3, <3>2
    <3> QED
      BY <2>1, <3>1, <3>3
  <2> HIDE DEF n
  <2>5. CASE o = NoOne \/ returncodes[o][s] = NoOne
    <3>1. returned[s] = 0
      BY <2>5, NamesAre DEF MInv, CountInv
    <3> QED
      BY <2>4, <2>5, <3>1 DEF n
  <2>6. CASE o # NoOne /\ returncodes[o][s] # NoOne
    <3>1. o \in Threads /\ returncodes[o][s] \in Threads
      BY <2>1, <2>6 DEF Objects
    <3>2. count[o][s][returncodes[o][s]] = returned[s]
      BY <3>1 DEF MInv, CountInv
    <3> QED
      BY <2>4, <2>6, <3>2 DEF n
  <2> QED
    BY <2>5, <2>6
<1> QED
  BY <1>1, MeasurementsInvariant, PTL

\* A swap of the recorder, or a summary in the monitor, takes the window as a whole:
\* a measurement is in the open window, in the hands of the status thread, or in what
\* it has reported (OneMeasurementHdrHistogram, OneMeasurementRaw: getSummary()).
THEOREM WindowsPartitionAlways == MeasurementsSpec => []WindowsPartition
<1>1. MInv => WindowsPartition
  <2> SUFFICES ASSUME MInv, kind \in {"hdrhistogram", "raw"}, ~exported, NEW n \in Names
               PROVE  Exported(windowoperations, n) + summed[n] + (IF name = n THEN taken ELSE 0)
                        = measured[n]
    BY DEF WindowsPartition
  <2>1. CASE measurement[n] = NoOne
    BY <2>1 DEF Exported, MInv, MapsInv
  <2>2. CASE measurement[n] # NoOne
    BY <2>2 DEF Exported, MInv, WindowInv, InHand
  <2> QED
    BY <2>1, <2>2
<1> QED
  BY <1>1, MeasurementsInvariant, PTL
=============================================================================
