------------------------- MODULE CoreWorkloadProofs -------------------------
(***************************************************************************)
(* The keys that transactions choose, for any number of threads, records,  *)
(* operations and failing inserts, and every request distribution: a       *)
(* chosen key is a record of the load, or its insert has been attempted.   *)
(* And the load itself: when the store fails no more often than the        *)
(* retries can make up for, every record is there when it has ended, and   *)
(* as long as init() and initDb() read the same insertcount, no key of the *)
(* transaction phase has been loaded before.                               *)
(***************************************************************************)
EXTENDS CoreWorkload, FiniteSetTheorems, TLAPS

-----------------------------------------------------------------------------
(* The inductive invariant                                                 *)

Attempted == store \cup failed

\* limit passes acknowledged keys only, and those have been attempted.
SequenceInv ==
  /\ RecordCount - 1 <= limit
  /\ RecordCount .. limit \subseteq acked
  /\ acked \subseteq Attempted

\* A thread at work has an operation left.
WorkInv ==
  \A t \in Threads :
    /\ pc[t] = "load" => todo[t] > 0 /\ tries[t] <= RetryLimit /\ key[t] \in Nat
    /\ pc[t] \in {"insert", "ack", "pick", "drawn", "use"} => phase = "run" /\ todo[t] > 0
    /\ pc[t] = "insert" => key[t] \in Nat

\* Between the draw and its use, limit may move on, and only on.
KeyInv ==
  \A t \in Threads :
    /\ pc[t] = "ack" => key[t] \in Attempted
    /\ pc[t] = "drawn" => IF distribution = "exponential" THEN key[t] <= limit ELSE 0 <= key[t]
    /\ pc[t] = "use" => key[t] \in 0 .. limit

IInv ==
  /\ TypeOK
  /\ SequenceInv
  /\ WorkInv
  /\ KeyInv

-----------------------------------------------------------------------------
(* The load: what is left of it, and what it has written                   *)

InLoad == {"load", "stopped"}

\* The keys that threads have yet to take from keysequence, a pair for each.
Owed(t) == todo[t] - (IF pc[t] \in InLoad THEN 1 ELSE 0)
Unissued == {p \in Threads \X (1 .. loadcount) : p[2] <= Owed(p[1])}

\* A key taken from keysequence is in the store, or with a thread that works on
\* it or has given it up.
LoadInv ==
  /\ phase # "refused" => ValidRange
  /\ phase # "run" => counter = RecordCount
  /\ keysequence >= InsertStart
  /\ phase = "load" => keysequence + Cardinality(Unissued) = InsertStart + loadcount
  /\ \A t \in Threads :
       /\ phase = "load" => todo[t] <= loadcount
       /\ pc[t] \in InLoad => phase = "load" /\ todo[t] > 0 /\ key[t] \in InsertStart .. keysequence - 1
  /\ Elsewhere \subseteq store
  /\ phase = "load" => store \subseteq Elsewhere \cup (InsertStart .. keysequence - 1)
  /\ phase = "load" => \A k \in InsertStart .. keysequence - 1 :
                         k \in store \/ \E t \in Threads : pc[t] \in InLoad /\ key[t] = k

\* The store fails, in the load, no more often than one insert is retried.
FaultsTolerated == "load" \in FaultPhases => MaxFaults <= RetryLimit

\* Then no thread gives up, and what has been issued is there at the end.
ToleratedInv ==
  /\ faults <= MaxFaults
  /\ \A t \in Threads : tries[t] <= faults /\ pc[t] # "stopped"
  /\ "load" \notin FaultPhases => \A t \in Threads : tries[t] = 0
  /\ phase = "run" => InsertStart .. InsertStart + loadcount - 1 \subseteq store

\* init() and initDb() read the same number of inserts.
CountsAgree == InsertCount # Unset \/ InsertStart = 0

\* Then the load stays below recordcount, and transactions insert above it.
FreshInv ==
  /\ phase = "run" => store \subseteq 0 .. counter - 1
  /\ \A t \in Threads : pc[t] = "insert" => key[t] < counter /\ key[t] \notin store
  /\ \A t, u \in Threads : pc[t] = "insert" /\ pc[u] = "insert" /\ t # u => key[t] # key[u]

-----------------------------------------------------------------------------
(* Numbers                                                                 *)

LEMMA Numbers ==
  /\ RecordCount \in Nat /\ RecordCount > 0 /\ OpCount \in Nat /\ OpCount > 0
  /\ ThreadCount \in Nat /\ ThreadCount > 0
  /\ {InsertStart, RetryLimit, ExpectedNewKeys} \subseteq Nat
  /\ insertcount \in Int /\ loadcount \in Nat /\ loadcount > 0
BY CoreAssumption DEF insertcount, loadcount

LEMMA DivMod ==
  \A n \in Nat, m \in Nat \ {0} :
    /\ n \div m \in Nat /\ n % m \in Nat
    /\ n = m * (n \div m) + (n % m) /\ (n % m) < m /\ (n \div m) <= n
    /\ (n % m) > 0 => (n \div m) + 1 <= n
<1>1. \A n \in Nat, m \in Nat \ {0} : n \div m \in Nat /\ n % m \in Nat
  OBVIOUS
<1>2. \A n \in Nat, m \in Nat \ {0} : n = m * (n \div m) + (n % m)
  OBVIOUS
<1>3. \A n \in Nat, m \in Nat \ {0} : (n % m) < m /\ (n \div m) <= n
  OBVIOUS
<1>4. \A n \in Nat, m \in Nat \ {0} : (n % m) > 0 => (n \div m) + 1 <= n
  OBVIOUS
<1> QED
  BY <1>1, <1>2, <1>3, <1>4

\* The number of threads that get a share.
Sharers(n) == IF ThreadCount > n THEN n ELSE ThreadCount

\* Thread t gets the quotient, and one of the remainder if there is one left.
LEMMA ShareIs ==
  ASSUME NEW n \in Nat \ {0}
  PROVE  \E m \in Nat \ {0}, q \in Nat, r \in Nat :
           /\ n = m * q + r /\ r < m /\ m <= ThreadCount /\ q <= n /\ (r > 0 => q + 1 <= n)
           /\ \A t \in Threads : Share(n, t) = IF t >= m THEN 0 ELSE q + (IF t < r THEN 1 ELSE 0)
<1>1. Sharers(n) \in Nat \ {0} /\ Sharers(n) <= ThreadCount
  BY Numbers DEF Sharers
<1>2. \A t \in Threads : Share(n, t) = IF t >= Sharers(n) THEN 0
                    ELSE (n \div Sharers(n)) + (IF t < n % Sharers(n) THEN 1 ELSE 0)
  BY DEF Share, Sharers
<1> DEFINE m == Sharers(n)
           q == n \div m
           r == n % m
<1>3. /\ q \in Nat /\ r \in Nat /\ n = m * q + r /\ r < m /\ q <= n
      /\ r > 0 => q + 1 <= n
  BY <1>1, DivMod
<1> HIDE DEF m
<1>4. \A t \in Threads : Share(n, t) = IF t >= m THEN 0 ELSE q + (IF t < r THEN 1 ELSE 0)
  BY <1>2 DEF m
<1>5. m \in Nat \ {0} /\ m <= ThreadCount
  BY <1>1 DEF m
<1> HIDE DEF q, r
<1> QED
  BY <1>3, <1>4, <1>5

LEMMA ShareType ==
  ASSUME NEW n \in Nat \ {0}, NEW t \in Threads
  PROVE  Share(n, t) \in 0 .. n
<1>0. n \in Nat
  OBVIOUS
<1>1. PICK m \in Nat \ {0}, q \in Nat, r \in Nat :
        /\ n = m * q + r /\ r < m /\ m <= ThreadCount /\ q <= n /\ (r > 0 => q + 1 <= n)
        /\ \A u \in Threads : Share(n, u) = IF u >= m THEN 0 ELSE q + (IF u < r THEN 1 ELSE 0)
  BY ShareIs
<1>2. t \in Nat
  BY DEF Threads
<1> QED
  BY <1>0, <1>1, <1>2

LEMMA UpTo ==
  ASSUME NEW n \in Nat
  PROVE  /\ IsFiniteSet(1 .. n) /\ Cardinality(1 .. n) = n
         /\ IsFiniteSet(0 .. n - 1) /\ Cardinality(0 .. n - 1) = n
<1>1. n \in Int /\ n - 1 \in Int /\ (1 > n <=> n = 0) /\ (0 > n - 1 <=> n = 0)
  OBVIOUS
<1> QED
  BY <1>1, FS_Interval

LEMMA CardUnion ==
  ASSUME NEW S, NEW T, IsFiniteSet(S), IsFiniteSet(T), S \cap T = {}
  PROVE  IsFiniteSet(S \cup T) /\ Cardinality(S \cup T) = Cardinality(S) + Cardinality(T)
<1>1. Cardinality(S \cup T) = Cardinality(S) + Cardinality(T) - Cardinality(S \cap T)
  BY FS_Union
<1>2. Cardinality(S \cap T) = 0 /\ Cardinality(S) \in Nat /\ Cardinality(T) \in Nat
  BY FS_EmptySet, FS_CardinalityType
<1> QED
  BY <1>1, <1>2, FS_Union

\* The shares of initDb() add up: every operation is given to one thread.
LEMMA SharesAddUp ==
  ASSUME NEW n \in Nat \ {0}
  PROVE  Cardinality({p \in Threads \X (1 .. n) : p[2] <= Share(n, p[1])}) = n
<1>1. PICK m \in Nat \ {0}, q \in Nat, r \in Nat :
        /\ n = m * q + r /\ r < m /\ m <= ThreadCount /\ q <= n /\ (r > 0 => q + 1 <= n)
        /\ \A t \in Threads : Share(n, t) = IF t >= m THEN 0 ELSE q + (IF t < r THEN 1 ELSE 0)
  BY ShareIs
<1> DEFINE All == {p \in Threads \X (1 .. n) : p[2] <= Share(n, p[1])}
           Even == (0 .. m - 1) \X (1 .. q)
           Rest == (0 .. r - 1) \X {q + 1}
<1>2. 0 .. m - 1 \subseteq Threads /\ 0 .. r - 1 \subseteq 0 .. m - 1
  BY <1>1, Numbers DEF Threads
<1>3. ASSUME NEW t \in Threads, NEW i \in 1 .. n
      PROVE  i <= Share(n, t) <=> <<t, i>> \in Even \cup Rest
  <2>1. t \in Nat /\ i \in Nat /\ i >= 1
    BY DEF Threads
  <2>2. <<t, i>> \in Even <=> t < m /\ i <= q
    BY <1>1, <2>1
  <2>3. <<t, i>> \in Rest <=> t < r /\ i = q + 1
    BY <1>1, <2>1
  <2>4. i <= Share(n, t) <=> (t < m /\ i <= q) \/ (t < r /\ i = q + 1)
    BY <1>1, <2>1
  <2> QED
    BY <2>2, <2>3, <2>4
<1>4. Even \cup Rest \subseteq Threads \X (1 .. n)
  <2>1. 1 .. q \subseteq 1 .. n
    BY <1>1
  <2>2. Even \subseteq Threads \X (1 .. n)
    BY <1>2, <2>1
  <2>3. ASSUME NEW t \in 0 .. r - 1 PROVE <<t, q + 1>> \in Threads \X (1 .. n)
    BY <1>1, <1>2
  <2> QED
    BY <2>2, <2>3
<1>5. All = Even \cup Rest
  <2>1. ASSUME NEW p \in Threads \X (1 .. n) PROVE p[2] <= Share(n, p[1]) <=> p \in Even \cup Rest
    <3>1. PICK t \in Threads, i \in 1 .. n : p = <<t, i>>
      OBVIOUS
    <3> QED
      BY <1>3, <3>1
  <2> QED
    BY <1>4, <2>1
<1>6. Even \cap Rest = {}
  BY <1>1
<1>7. IsFiniteSet(Even) /\ Cardinality(Even) = m * q
  <2>1. IsFiniteSet(0 .. m - 1) /\ Cardinality(0 .. m - 1) = m /\ IsFiniteSet(1 .. q) /\ Cardinality(1 .. q) = q
    BY UpTo
  <2> QED
    BY <2>1, FS_Product, ZenonT(60)
<1>8. IsFiniteSet(Rest) /\ Cardinality(Rest) = r
  <2>1. /\ IsFiniteSet({q + 1}) /\ Cardinality({q + 1}) = 1
        /\ IsFiniteSet(0 .. r - 1) /\ Cardinality(0 .. r - 1) = r
    BY UpTo, FS_Singleton
  <2>2. IsFiniteSet(Rest) /\ Cardinality(Rest) = r * 1
    BY <2>1, FS_Product, ZenonT(60)
  <2> QED
    BY <1>1, <2>2
<1> HIDE DEF All, Even, Rest
<1>9. Cardinality(Even \cup Rest) = m * q + r
  BY <1>6, <1>7, <1>8, CardUnion
<1> QED
  BY <1>1, <1>5, <1>9 DEF All

\* What a chooser can yield: never a negative key, unless it is the exponential one.
LEMMA DrawsRange ==
  ASSUME TypeOK, NEW k \in Draws
  PROVE  k \in Int /\ IF distribution = "exponential" THEN k <= limit ELSE 0 <= k
BY Numbers DEF Draws, TypeOK

-----------------------------------------------------------------------------
LEMMA Initial == Init => IInv
<1> SUFFICES ASSUME Init PROVE IInv
  OBVIOUS
<1> USE Numbers
<1>1. todo \in [Threads -> Nat]
  BY ShareType DEF Init
<1>2. TypeOK
  BY <1>1 DEF Init, TypeOK, Elsewhere
<1>3. SequenceInv /\ WorkInv /\ KeyInv
  BY DEF Init, SequenceInv, WorkInv, KeyInv
<1> QED
  BY <1>2, <1>3 DEF IInv
-----------------------------------------------------------------------------
(* The load phase and its end                                              *)

\* No step takes a key back out of the store.
LEMMA AttemptedGrows == [Next]_vars => Attempted \subseteq Attempted'
BY DEF Next, Load, Transaction, StartRun, RunAdvance, LoadNext, LoadOk, LoadFails, RunNextKey,
  RunInsert, RunAck, RunPick, RunDraw, RunAccept, RunUse, InsertOk, InsertFails, vars, Attempted

LEMMA LoadStep ==
  ASSUME IInv, NEW t \in Threads, Load(t)
  PROVE  IInv'
<1> USE Numbers DEF IInv, TypeOK, Goto
<1>0. Attempted \subseteq Attempted'
  BY AttemptedGrows DEF Next
<1>1. SequenceInv'
  BY <1>0 DEF Load, LoadNext, LoadOk, LoadFails, seqvars, SequenceInv
<1>2. CASE LoadNext(t)
  <2>1. TypeOK'
    BY <1>2 DEF LoadNext, seqvars
  <2>2. WorkInv' /\ KeyInv'
    BY <1>2 DEF LoadNext, seqvars, WorkInv, KeyInv, Attempted
  <2> QED
    BY <1>1, <2>1, <2>2
<1>3. CASE LoadOk(t)
  <2>1. TypeOK'
    BY <1>3 DEF LoadOk, InsertOk, seqvars, WorkInv
  <2>2. WorkInv' /\ KeyInv'
    BY <1>0, <1>3 DEF LoadOk, InsertOk, seqvars, WorkInv, KeyInv
  <2> QED
    BY <1>1, <2>1, <2>2
<1>4. CASE LoadFails(t)
  <2>1. TypeOK'
    BY <1>4 DEF LoadFails, InsertFails, RetryAllowed, seqvars, WorkInv
  <2>2. WorkInv' /\ KeyInv'
    BY <1>0, <1>4 DEF LoadFails, InsertFails, RetryAllowed, seqvars, WorkInv, KeyInv
  <2> QED
    BY <1>1, <2>1, <2>2
<1> QED
  BY <1>2, <1>3, <1>4 DEF Load

LEMMA StartRunStep ==
  ASSUME IInv, StartRun
  PROVE  IInv'
<1> USE Numbers DEF IInv, StartRun, seqvars
<1>1. todo' \in [Threads -> Nat]
  BY ShareType
<1>2. TypeOK'
  BY <1>1 DEF TypeOK
<1>3. SequenceInv' /\ WorkInv' /\ KeyInv'
  BY DEF SequenceInv, WorkInv, KeyInv, Attempted
<1> QED
  BY <1>2, <1>3

-----------------------------------------------------------------------------
(* The transaction phase                                                   *)

LEMMA AdvanceStep ==
  ASSUME IInv, RunAdvance
  PROVE  IInv'
<1> USE Numbers DEF IInv
<1>1. PICK k \in RecordCount .. counter - 1 : KeySeq!Advance(k)
  BY DEF RunAdvance
<1>2. limit \in Int /\ k \in Int /\ limit < k /\ limit' = k /\ limit + 1 .. k \subseteq acked
  BY <1>1 DEF KeySeq!Advance, TypeOK
<1>3. TypeOK'
  BY <1>1, <1>2 DEF RunAdvance, KeySeq!Advance, TypeOK
<1>4. SequenceInv'
  <2>1. RecordCount .. k \subseteq acked
    BY <1>2 DEF SequenceInv
  <2> QED
    BY <1>1, <1>2, <2>1 DEF RunAdvance, KeySeq!Advance, SequenceInv, Attempted
<1>5. WorkInv'
  BY DEF RunAdvance, WorkInv
<1>6. KeyInv'
  BY <1>2 DEF RunAdvance, KeyInv, Attempted, TypeOK
<1> QED
  BY <1>3, <1>4, <1>5, <1>6

LEMMA InsertStep ==
  ASSUME IInv, NEW t \in Threads, RunNextKey(t) \/ RunInsert(t) \/ RunAck(t)
  PROVE  IInv'
<1> USE Numbers DEF IInv, TypeOK, Goto, Running
<1>0. Attempted \subseteq Attempted'
  BY AttemptedGrows DEF Next, Transaction
<1>1. CASE RunNextKey(t)
  <2>1. TypeOK'
    BY <1>1 DEF RunNextKey, KeySeq!Issue
  <2>2. SequenceInv' /\ WorkInv' /\ KeyInv'
    BY <1>1 DEF RunNextKey, KeySeq!Issue, SequenceInv, WorkInv, KeyInv, Attempted
  <2> QED
    BY <2>1, <2>2
<1>2. CASE RunInsert(t)
  <2>1. TypeOK'
    BY <1>2 DEF RunInsert, InsertOk, InsertFails, seqvars, WorkInv
  <2>2. SequenceInv' /\ WorkInv'
    BY <1>0, <1>2 DEF RunInsert, seqvars, SequenceInv, WorkInv
  <2>3. key[t] \in Attempted'
    BY <1>2 DEF RunInsert, InsertOk, Attempted
  <2>4. KeyInv'
    BY <1>0, <1>2, <2>3 DEF RunInsert, seqvars, KeyInv
  <2> QED
    BY <2>1, <2>2, <2>4
<1>3. CASE RunAck(t)
  <2>1. key[t] \in RecordCount .. counter - 1 /\ acked' = acked \cup {key[t]}
        /\ counter' = counter /\ limit' = limit
    BY <1>3 DEF RunAck, KeySeq!Acknowledge
  <2>2. TypeOK'
    BY <1>3, <2>1 DEF RunAck
  <2>3. SequenceInv'
    BY <1>3, <2>1 DEF RunAck, SequenceInv, KeyInv, Attempted
  <2>4. WorkInv' /\ KeyInv'
    BY <1>3, <2>1 DEF RunAck, WorkInv, KeyInv, Attempted
  <2> QED
    BY <2>2, <2>3, <2>4
<1> QED
  BY <1>1, <1>2, <1>3

LEMMA ChooseStep ==
  ASSUME IInv, NEW t \in Threads, RunPick(t) \/ RunDraw(t) \/ RunAccept(t) \/ RunUse(t)
  PROVE  IInv'
<1> USE Numbers DEF IInv, TypeOK, Goto, Running, seqvars
<1>1. SequenceInv'
  BY DEF RunPick, RunDraw, RunAccept, RunUse, SequenceInv, Attempted
<1>2. CASE RunPick(t)
  <2>1. TypeOK'
    BY <1>2 DEF RunPick
  <2>2. WorkInv' /\ KeyInv'
    BY <1>2 DEF RunPick, WorkInv, KeyInv, Attempted
  <2> QED
    BY <1>1, <2>1, <2>2
<1>3. CASE RunDraw(t)
  <2>1. PICK k \in Draws : key' = [key EXCEPT ![t] = k]
    BY <1>3 DEF RunDraw
  <2>2. k \in Int /\ IF distribution = "exponential" THEN k <= limit ELSE 0 <= k
    BY DrawsRange
  <2>3. TypeOK'
    BY <1>3, <2>1, <2>2 DEF RunDraw
  <2>4. WorkInv' /\ KeyInv'
    BY <1>3, <2>1, <2>2 DEF RunDraw, WorkInv, KeyInv, Attempted
  <2> QED
    BY <1>1, <2>3, <2>4
<1>4. CASE RunAccept(t)
  <2>1. TypeOK'
    BY <1>4 DEF RunAccept
  <2>2. Acceptable(key[t]) => key[t] \in 0 .. limit
    BY <1>4 DEF RunAccept, Acceptable, KeyInv
  <2>3. WorkInv' /\ KeyInv'
    BY <1>4, <2>2 DEF RunAccept, WorkInv, KeyInv, Attempted
  <2> QED
    BY <1>1, <2>1, <2>3
<1>5. CASE RunUse(t)
  <2>1. TypeOK'
    BY <1>5 DEF RunUse
  <2>2. WorkInv' /\ KeyInv'
    BY <1>5 DEF RunUse, WorkInv, KeyInv, Attempted
  <2> QED
    BY <1>1, <2>1, <2>2
<1> QED
  BY <1>2, <1>3, <1>4, <1>5

LEMMA Inductive == IInv /\ [Next]_vars => IInv'
<1> SUFFICES ASSUME IInv, [Next]_vars PROVE IInv'
  OBVIOUS
<1>1. CASE UNCHANGED vars
  BY <1>1 DEF vars, seqvars, IInv, TypeOK, SequenceInv, WorkInv, KeyInv, Attempted
<1>2. CASE Next
  BY <1>2, LoadStep, StartRunStep, AdvanceStep, InsertStep, ChooseStep DEF Next, Transaction
<1> QED
  BY <1>1, <1>2

LEMMA Invariant == Spec => []IInv
BY Initial, Inductive, PTL DEF Spec

-----------------------------------------------------------------------------
(* The load: every key is written                                          *)

LEMMA Counts ==
  /\ insertcount \in Int /\ loadcount \in Nat /\ insertcount <= loadcount
  /\ CountsAgree => insertcount = loadcount
BY CoreAssumption DEF insertcount, loadcount, CountsAgree

LEMMA UnissuedFinite == IsFiniteSet(Unissued) /\ Cardinality(Unissued) \in Nat
<1>1. IsFiniteSet(Threads) /\ IsFiniteSet(1 .. loadcount)
  BY Numbers, UpTo DEF Threads
<1>2. IsFiniteSet(Threads \X (1 .. loadcount)) /\ Unissued \subseteq Threads \X (1 .. loadcount)
  BY <1>1, FS_Product DEF Unissued
<1> QED
  BY <1>2, FS_Subset, FS_CardinalityType

LEMMA LoadInitial == Init => LoadInv
<1> SUFFICES ASSUME Init PROVE LoadInv
  OBVIOUS
<1> USE Numbers
<1>1. \A t \in Threads : Owed(t) = Share(loadcount, t)
  BY ShareType DEF Init, Owed, InLoad
<1>2. Unissued = {p \in Threads \X (1 .. loadcount) : p[2] <= Share(loadcount, p[1])}
  BY <1>1 DEF Unissued
<1>3. Cardinality(Unissued) = loadcount
  BY <1>2, SharesAddUp
<1>4. \A t \in Threads : todo[t] <= loadcount /\ pc[t] \notin InLoad
  BY ShareType DEF Init, InLoad
<1> QED
  BY <1>3, <1>4 DEF Init, LoadInv

\* Taking a key from keysequence takes one pair from Unissued.
LEMMA IssueStep ==
  ASSUME IInv, LoadInv, NEW t \in Threads, LoadNext(t)
  PROVE  Cardinality(Unissued') = Cardinality(Unissued) - 1
<1> USE Numbers
<1>1. /\ pc[t] = "ready" /\ todo[t] \in 1 .. loadcount
      /\ todo' = todo /\ pc' = [pc EXCEPT ![t] = "load"]
  BY DEF LoadNext, Goto, LoadInv, IInv, TypeOK
<1>2. Owed(t) = todo[t] /\ Owed(t)' = todo[t] - 1 /\ \A u \in Threads \ {t} : Owed(u)' = Owed(u)
  BY <1>1 DEF Owed, InLoad, IInv, TypeOK
<1>3. <<t, todo[t]>> \in Unissued
  BY <1>1, <1>2 DEF Unissued
<1>4. Unissued' = Unissued \ {<<t, todo[t]>>}
  <2>1. ASSUME NEW u \in Threads, NEW i \in 1 .. loadcount
        PROVE  i <= Owed(u)' <=> i <= Owed(u) /\ <<u, i>> # <<t, todo[t]>>
    BY <1>1, <1>2
  <2>2. ASSUME NEW p \in Threads \X (1 .. loadcount)
        PROVE  p[2] <= Owed(p[1])' <=> p[2] <= Owed(p[1]) /\ p # <<t, todo[t]>>
    <3>1. PICK u \in Threads, i \in 1 .. loadcount : p = <<u, i>>
      OBVIOUS
    <3> QED
      BY <2>1, <3>1
  <2>3. Unissued' = {p \in Threads \X (1 .. loadcount) : p[2] <= Owed(p[1])'}
    BY DEF Unissued
  <2> QED
    BY <2>2, <2>3 DEF Unissued
<1> QED
  BY <1>3, <1>4, UnissuedFinite, FS_RemoveElement

\* What a thread does with the key it has taken changes nothing that is owed.
LEMMA OwedStays ==
  ASSUME IInv, LoadInv, NEW t \in Threads, LoadOk(t) \/ LoadFails(t)
  PROVE  Unissued' = Unissued
<1> USE Numbers DEF IInv, TypeOK, LoadInv, InLoad, Goto
<1>1. \A u \in Threads : Owed(u)' = Owed(u)
  BY DEF LoadOk, LoadFails, Owed
<1> QED
  BY <1>1 DEF Unissued

LEMMA LoadInvLoadStep ==
  ASSUME IInv, LoadInv, NEW t \in Threads, Load(t)
  PROVE  LoadInv'
<1> USE Numbers, Counts DEF IInv, TypeOK
<1>1. phase = "load" /\ phase' = "load" /\ counter' = counter /\ UNCHANGED <<counter, acked, limit>>
  BY DEF Load, LoadNext, LoadOk, LoadFails, LoadInv, InLoad, seqvars
<1>2. CASE LoadNext(t)
  <2>1. keysequence' = keysequence + 1 /\ key' = [key EXCEPT ![t] = keysequence] /\ todo' = todo
        /\ store' = store /\ pc' = [pc EXCEPT ![t] = "load"] /\ pc[t] = "ready" /\ todo[t] > 0
    BY <1>2 DEF LoadNext, Goto
  <2>2. keysequence' + Cardinality(Unissued)' = InsertStart + loadcount
    BY <1>1, <1>2, <2>1, IssueStep, UnissuedFinite DEF LoadInv
  <2>3. \A u \in Threads : todo'[u] <= loadcount /\ (pc'[u] \in InLoad =>
                           todo'[u] > 0 /\ key'[u] \in InsertStart .. keysequence' - 1)
    BY <1>1, <2>1 DEF LoadInv, InLoad
  <2>4. ASSUME NEW k \in InsertStart .. keysequence' - 1
        PROVE  k \in store' \/ \E u \in Threads : pc'[u] \in InLoad /\ key'[u] = k
    <3>1. CASE k = keysequence
      BY <2>1, <3>1 DEF InLoad
    <3>2. CASE k \in InsertStart .. keysequence - 1
      BY <1>1, <2>1, <3>2 DEF LoadInv, InLoad
    <3> QED
      BY <2>1, <3>1, <3>2
  <2>5. store' \subseteq Elsewhere \cup (InsertStart .. keysequence' - 1) /\ Elsewhere \subseteq store'
        /\ keysequence' >= InsertStart
    BY <1>1, <2>1 DEF LoadInv
  <2> QED
    BY <1>1, <2>1, <2>2, <2>3, <2>4, <2>5 DEF LoadInv
<1>3. CASE LoadOk(t) \/ LoadFails(t)
  <2>1. /\ pc[t] = "load" /\ keysequence' = keysequence /\ key' = key
        /\ \E x \in {"ready", "load", "stopped"} : pc' = [pc EXCEPT ![t] = x]
        /\ todo' = todo \/ todo' = [todo EXCEPT ![t] = @ - 1]
    BY <1>3 DEF LoadOk, LoadFails, Goto
  <2>2. store' \in {store, store \cup {key[t]}} /\ (key[t] \in store' \/ pc'[t] \in InLoad)
        /\ (pc'[t] \in InLoad => todo' = todo)
    BY <1>3, <2>1 DEF LoadOk, LoadFails, InsertOk, InsertFails, Goto, InLoad
  <2>3. keysequence' + Cardinality(Unissued)' = InsertStart + loadcount
    BY <1>1, <1>3, <2>1, OwedStays DEF LoadInv
  <2>4. \A u \in Threads : todo'[u] <= loadcount /\ (pc'[u] \in InLoad =>
                           todo'[u] > 0 /\ key'[u] \in InsertStart .. keysequence' - 1)
    BY <1>1, <2>1, <2>2 DEF LoadInv, InLoad
  <2>5. ASSUME NEW k \in InsertStart .. keysequence - 1
        PROVE  k \in store' \/ \E u \in Threads : pc'[u] \in InLoad /\ key'[u] = k
    <3>1. CASE k = key[t]
      BY <2>1, <2>2, <3>1
    <3>2. CASE k # key[t]
      BY <1>1, <2>1, <2>2, <3>2 DEF LoadInv
    <3> QED
      BY <3>1, <3>2
  <2>6. store' \subseteq Elsewhere \cup (InsertStart .. keysequence' - 1) /\ Elsewhere \subseteq store'
    BY <1>1, <2>1, <2>2 DEF LoadInv, InLoad
  <2> QED
    BY <1>1, <2>1, <2>3, <2>4, <2>5, <2>6 DEF LoadInv
<1> QED
  BY <1>2, <1>3 DEF Load

\* Nothing of a load happens in the transaction phase.
LEMMA LoadInvRunStep ==
  ASSUME IInv, LoadInv, NEW t \in Threads, Transaction(t) \/ RunAdvance
  PROVE  LoadInv'
<1> USE Numbers DEF IInv, TypeOK, KeySeq!Issue, KeySeq!Acknowledge, KeySeq!Advance, Running, Goto, seqvars
<1>1. phase = "run" /\ phase' = "run" /\ keysequence' = keysequence /\ store \subseteq store'
      /\ \E u \in Threads, x \in {"ready", "insert", "ack", "pick", "drawn", "use"} :
            pc' = [pc EXCEPT ![u] = x] \/ pc' = pc
  <2>1. CASE Transaction(t)
    BY <2>1 DEF Transaction, RunNextKey, RunInsert, RunAck, RunPick, RunDraw, RunAccept, RunUse, InsertOk, InsertFails
  <2>2. CASE RunAdvance
    <3>1. RecordCount .. counter - 1 # {} 
      BY <2>2 DEF RunAdvance
    <3>2. phase = "run"
      BY <3>1 DEF LoadInv
    <3> QED
      BY <2>2, <3>2 DEF RunAdvance
  <2> QED
    BY <2>1, <2>2
<1>2. \A u \in Threads : pc'[u] \notin InLoad
  BY <1>1 DEF LoadInv, InLoad
<1> QED
  BY <1>1, <1>2 DEF LoadInv

LEMMA LoadInvStep == IInv /\ LoadInv /\ [Next]_vars => LoadInv'
<1> SUFFICES ASSUME IInv, LoadInv, [Next]_vars PROVE LoadInv'
  OBVIOUS
<1>1. CASE UNCHANGED vars
  BY <1>1 DEF vars, seqvars, LoadInv, Unissued, Owed, InLoad
<1>2. CASE StartRun
  BY <1>2 DEF StartRun, seqvars, LoadInv, InLoad
<1>3. CASE RunAdvance \/ \E t \in Threads : Transaction(t)
  <2>1. \E t \in Threads : Transaction(t) \/ RunAdvance
    BY <1>3, Numbers DEF Threads
  <2> QED
    BY <2>1, LoadInvRunStep
<1> QED
  BY <1>1, <1>2, <1>3, LoadInvLoadStep DEF Next

LEMMA LoadInvariant == Spec => []LoadInv
BY Invariant, LoadInitial, LoadInvStep, PTL DEF Spec

-----------------------------------------------------------------------------
(* No thread gives up                                                      *)

\* When every thread has ended and none has given up, all keys are written.
LEMMA LoadedAll ==
  ASSUME IInv, LoadInv, ToleratedInv, phase = "load", LoadEnded
  PROVE  InsertStart .. InsertStart + loadcount - 1 \subseteq store
<1> USE Numbers DEF IInv, TypeOK
<1>1. \A t \in Threads : pc[t] = "ready" /\ todo[t] = 0
  <2>1. \A t \in Threads : pc[t] # "stopped"
    BY DEF ToleratedInv
  <2> QED
    BY <2>1 DEF LoadEnded
<1>2. \A p \in Threads \X (1 .. loadcount) : ~(p[2] <= Owed(p[1]))
  <2>1. \A t \in Threads : Owed(t) = 0
    BY <1>1 DEF Owed, InLoad
  <2> QED
    BY <2>1
<1>3. Unissued = {} /\ Cardinality(Unissued) = 0
  BY <1>2, FS_EmptySet DEF Unissued
<1>4. keysequence = InsertStart + loadcount
  BY <1>3 DEF LoadInv
<1> QED
  BY <1>1, <1>4 DEF LoadInv, InLoad

LEMMA ToleratedInitial == Init => ToleratedInv
BY CoreAssumption DEF Init, ToleratedInv

LEMMA ToleratedStep ==
  FaultsTolerated => (IInv /\ LoadInv /\ ToleratedInv /\ [Next]_vars => ToleratedInv')
<1> SUFFICES ASSUME FaultsTolerated, IInv, LoadInv, ToleratedInv, [Next]_vars PROVE ToleratedInv'
  OBVIOUS
<1> USE DEF ToleratedInv, Goto, seqvars
<1>0. /\ pc \in [Threads -> {"ready", "load", "stopped", "insert", "ack", "pick", "drawn", "use"}]
      /\ tries \in [Threads -> Nat] /\ faults \in Nat /\ MaxFaults \in Nat /\ RetryLimit \in Nat
  BY CoreAssumption DEF IInv, TypeOK
<1>1. ASSUME NEW t \in Threads, Load(t) PROVE ToleratedInv'
  <2>1. phase = "load" /\ phase' = "load"
    BY <1>1 DEF Load, LoadNext, LoadOk, LoadFails, LoadInv, InLoad
  <2>2. CASE LoadNext(t)
    BY <1>0, <2>1, <2>2 DEF LoadNext
  <2>3. CASE LoadOk(t)
    BY <1>0, <2>1, <2>3 DEF LoadOk, InsertOk
  <2>4. CASE LoadFails(t)
    <3>1. "load" \in FaultPhases /\ MaxFaults <= RetryLimit /\ faults < MaxFaults /\ faults' = faults + 1
      BY <1>0, <2>1, <2>4 DEF LoadFails, InsertFails, FaultsTolerated
    <3>2. RetryAllowed(t) /\ pc' = [pc EXCEPT ![t] = "load"]
      <4>1. tries[t] \in Nat /\ tries[t] <= faults
        BY <1>0
      <4>2. RetryAllowed(t)
        BY <1>0, <3>1, <4>1 DEF RetryAllowed
      <4> QED
        BY <2>4, <4>2 DEF LoadFails
    <3> QED
      BY <1>0, <2>1, <2>4, <3>1, <3>2 DEF LoadFails
  <2> QED
    BY <1>1, <2>2, <2>3, <2>4 DEF Load
<1>2. CASE StartRun
  <2>1. InsertStart .. InsertStart + loadcount - 1 \subseteq store
    BY <1>2, LoadedAll DEF StartRun
  <2> QED
    BY <1>0, <1>2, <2>1 DEF StartRun
<1>3. ASSUME NEW t \in Threads, Transaction(t) PROVE ToleratedInv'
  <2>1. /\ phase = "run" /\ phase' = "run" /\ tries' = tries /\ store \subseteq store'
        /\ faults' \in {faults, faults + 1} /\ faults' <= MaxFaults
        /\ \E x \in {"ready", "insert", "ack", "pick", "drawn", "use"} : pc' = [pc EXCEPT ![t] = x]
    BY <1>0, <1>3 DEF Transaction, Running, RunNextKey, RunInsert, RunAck, RunPick, RunDraw, RunAccept, RunUse,
      InsertOk, InsertFails
  <2> QED
    BY <1>0, <2>1
<1>4. CASE RunAdvance \/ UNCHANGED vars
  BY <1>0, <1>4 DEF RunAdvance, vars
<1> QED
  BY <1>1, <1>2, <1>3, <1>4 DEF Next

LEMMA ToleratedInvariant ==
  ASSUME FaultsTolerated
  PROVE  Spec => []ToleratedInv
<1>1. IInv /\ LoadInv /\ ToleratedInv /\ [Next]_vars => ToleratedInv'
  BY ToleratedStep
<1> QED
  BY <1>1, Invariant, LoadInvariant, ToleratedInitial, PTL DEF Spec

-----------------------------------------------------------------------------
(* The keys of the transaction phase are new                               *)

\* A load of as many keys as init() expects stays below recordcount.
LEMMA LoadStaysBelow ==
  ASSUME CountsAgree, IInv, LoadInv, phase = "load"
  PROVE  store \subseteq 0 .. RecordCount - 1
<1> USE Numbers, Counts
<1>1. keysequence <= InsertStart + loadcount
  BY UnissuedFinite DEF LoadInv, IInv, TypeOK
<1>2. InsertStart + loadcount <= RecordCount
  BY DEF LoadInv, ValidRange
<1> QED
  BY <1>1, <1>2 DEF LoadInv, Elsewhere, IInv, TypeOK

LEMMA FreshInitial == Init => FreshInv
BY DEF Init, FreshInv

LEMMA FreshStep == CountsAgree => (IInv /\ LoadInv /\ FreshInv /\ [Next]_vars => FreshInv')
<1> SUFFICES ASSUME CountsAgree, IInv, LoadInv, FreshInv, [Next]_vars PROVE FreshInv'
  OBVIOUS
<1> USE Numbers DEF IInv, TypeOK, Goto, seqvars
<1>1. ASSUME NEW t \in Threads, Load(t) PROVE FreshInv'
  <2>1. phase = "load" /\ phase' = "load" /\ counter' = counter
        /\ \A u \in Threads : pc[u] # "insert" /\ pc'[u] # "insert"
    BY <1>1 DEF Load, LoadNext, LoadOk, LoadFails, LoadInv, InLoad, WorkInv
  <2> QED
    BY <2>1 DEF FreshInv
<1>2. CASE StartRun
  <2>1. store \subseteq 0 .. RecordCount - 1 /\ counter = RecordCount
    BY <1>2, LoadStaysBelow DEF StartRun, LoadInv
  <2> QED
    BY <1>2, <2>1 DEF StartRun, FreshInv
<1>3. ASSUME NEW t \in Threads, RunNextKey(t) PROVE FreshInv'
  <2>1. counter \notin store
    BY <1>3 DEF RunNextKey, Running, FreshInv
  <2> QED
    BY <1>3, <2>1 DEF RunNextKey, Running, KeySeq!Issue, FreshInv
<1>4. ASSUME NEW t \in Threads, RunInsert(t) PROVE FreshInv'
  <2>1. store' \in {store, store \cup {key[t]}} /\ key[t] \in 0 .. counter - 1 /\ pc[t] = "insert"
    BY <1>4 DEF RunInsert, Running, InsertOk, InsertFails, FreshInv, WorkInv
  <2> QED
    BY <1>4, <2>1 DEF RunInsert, FreshInv
<1>5. ASSUME NEW t \in Threads, RunAck(t) \/ RunPick(t) \/ RunDraw(t) \/ RunAccept(t) \/ RunUse(t)
      PROVE  FreshInv'
  <2>1. /\ store' = store /\ counter' = counter /\ phase' = phase /\ pc[t] # "insert"
        /\ \E x \in {"ready", "pick", "drawn", "use"} : pc' = [pc EXCEPT ![t] = x]
        /\ \A u \in Threads \ {t} : key'[u] = key[u]
    BY <1>5 DEF RunAck, RunPick, RunDraw, RunAccept, RunUse, Running, KeySeq!Acknowledge
  <2> QED
    BY <2>1 DEF FreshInv
<1>6. CASE RunAdvance \/ UNCHANGED vars
  BY <1>6 DEF RunAdvance, KeySeq!Advance, vars, FreshInv
<1> QED
  BY <1>1, <1>2, <1>3, <1>4, <1>5, <1>6 DEF Next, Transaction

LEMMA FreshInvariant ==
  ASSUME CountsAgree
  PROVE  Spec => []FreshInv
<1>1. IInv /\ LoadInv /\ FreshInv /\ [Next]_vars => FreshInv'
  BY FreshStep
<1> QED
  BY <1>1, Invariant, LoadInvariant, FreshInitial, PTL DEF Spec

-----------------------------------------------------------------------------
(* The theorems                                                            *)

\* Keys, counters and the threads' shares of the operations keep their types; in
\* particular no thread does more operations than initDb() gave it.
THEOREM TypeCorrect == Spec => []TypeOK
<1>1. IInv => TypeOK
  BY DEF IInv
<1> QED
  BY <1>1, Invariant, PTL

\* The key nextKeynum() returns is a record of the load, or the insert that was
\* given it has returned; once the load is complete, it is in the store or its
\* own insert has failed (ChosenKeyAttempted).
THEOREM ChosenWhenLoaded == Spec => [](LoadComplete => ChosenKeyAttempted)
<1>1. ASSUME IInv, LoadComplete, NEW t \in Threads, phase = "run", pc[t] = "use"
      PROVE  key[t] \in store \cup failed
  <2>1. key[t] \in 0 .. limit /\ limit \in Int
    BY <1>1 DEF IInv, KeyInv, TypeOK
  <2>2. CASE key[t] < RecordCount
    BY <1>1, <2>1, <2>2, Numbers DEF LoadComplete
  <2>3. CASE key[t] >= RecordCount
    BY <1>1, <2>1, <2>3, Numbers DEF IInv, SequenceInv, Attempted
  <2> QED
    BY <2>1, <2>2, <2>3, Numbers
<1>2. IInv => (LoadComplete => ChosenKeyAttempted)
  BY <1>1 DEF ChosenKeyAttempted
<1> QED
  BY <1>2, Invariant, PTL

\* The load ends with every record of the table in the store when the store fails
\* no more inserts than one insert may be retried, whichever threads and keys the
\* failures hit, and for a client that loads any part of the table (LoadComplete).
THEOREM LoadCompleteAlways ==
  ASSUME FaultsTolerated
  PROVE  Spec => []LoadComplete
<1>1. LoadInv /\ ToleratedInv => LoadComplete
  BY Numbers, Counts DEF LoadInv, ToleratedInv, LoadComplete, Elsewhere
<1> QED
  BY <1>1, LoadInvariant, ToleratedInvariant, PTL

\* So after such a load every key nextKeynum() returns is in the store, or its own
\* insert has failed (ChosenKeyAttempted).
THEOREM ChosenKeyAttemptedAlways ==
  ASSUME FaultsTolerated
  PROVE  Spec => []ChosenKeyAttempted
BY LoadCompleteAlways, ChosenWhenLoaded, PTL

\* The load writes no key from recordcount on, and a transaction inserts a key that
\* is not in the table, unless insertcount is left out with an insertstart that is
\* not 0: then Client.initDb() and CoreWorkload.init() count differently (FreshKeys).
THEOREM FreshKeysAlways ==
  ASSUME CountsAgree
  PROVE  Spec => []FreshKeys
<1>1. IInv /\ LoadInv /\ FreshInv => FreshKeys
  <2> SUFFICES ASSUME IInv, LoadInv, FreshInv PROVE FreshKeys
    OBVIOUS
  <2>1. phase = "load" => store \subseteq 0 .. RecordCount - 1
    BY LoadStaysBelow
  <2> QED
    BY <2>1 DEF FreshInv, FreshKeys
<1> QED
  BY <1>1, Invariant, LoadInvariant, FreshInvariant, PTL
=============================================================================
