-------------------------- MODULE AckCounterProofs --------------------------
(***************************************************************************)
(* While the issued keys stay within one window of limit, the acknowledged *)
(* counter never reports an unacknowledged key and never rejects one, and  *)
(* it implements KeySequence.  The inductive invariant says what the       *)
(* boolean window means: within one window above limit, a slot is set      *)
(* exactly when its key is marked and the scan has not passed it.          *)
(***************************************************************************)
EXTENDS AckCounter, TLAPS

-----------------------------------------------------------------------------
(* The inductive invariant                                                 *)

\* The first key that no scan has passed.
Front == IF lock = NoThread THEN limit + 1 ELSE index

InLock == {"scan", "clear", "publish", "unlock"}
BeforeStore == {"taken", "checked"}

LockInv ==
  /\ \A t \in Threads : pc[t] \in InLock <=> lock = t
  /\ \A t \in Threads : pc[t] = "unlock" => index = limit + 1

\* The owner's beforeFirstSlot is the slot of the limit it started from.
BeforeInv == \A t \in Threads : pc[t] \in {"scan", "clear"} =>
               beforeFirstSlot = Slot(limit)

\* The keys above limit have different slots.
LeadInv ==
  /\ limit >= CountStart - 1
  /\ limit < Front
  /\ Front <= counter
  /\ counter - 1 - limit <= WindowSize

\* A key is acknowledged once, and only after it was issued.
KeyInv ==
  /\ \A t \in Threads : pc[t] \in BeforeStore =>
       /\ key[t] \in CountStart .. counter - 1
       /\ key[t] \notin acked
       /\ unflushed[t] = NoKey
  /\ \A t, u \in Threads :
       pc[t] \in BeforeStore /\ pc[u] \in BeforeStore /\ t # u => key[t] # key[u]
  /\ acked \subseteq CountStart .. counter - 1

IsMarked(k) == k \in acked /\ \A t \in Threads : unflushed[t] # k

UnflushedInv ==
  /\ \A t \in Threads : unflushed[t] # NoKey => unflushed[t] \in acked
  /\ \A t, u \in Threads : unflushed[t] # NoKey /\ t # u => unflushed[t] # unflushed[u]

PassedInv ==
  /\ \A k \in CountStart .. Front - 1 : IsMarked(k)
  /\ \A t \in Threads : pc[t] = "clear" => IsMarked(index)

WindowInv ==
  \A k \in limit + 1 .. limit + WindowSize :
     window[Slot(k)] <=> IsMarked(k) /\ k >= Front

\* The inductive invariant: what the boolean window means while other threads
\* mark, clear and publish.
IInv ==
  /\ TypeOK
  /\ LockInv
  /\ BeforeInv
  /\ LeadInv
  /\ KeyInv
  /\ UnflushedInv
  /\ PassedInv
  /\ WindowInv
  /\ NoFalseOverflow

-----------------------------------------------------------------------------
(* Arithmetic of the window                                                *)

LEMMA ModBasics ==
  ASSUME NEW n \in Nat \ {0}, NEW a \in Int
  PROVE  /\ a % n \in 0 .. n - 1
         /\ a \div n \in Int
         /\ a = (n * (a \div n)) + (a % n)
OBVIOUS

LEMMA NoMultipleBetween ==
  ASSUME NEW n \in Nat \ {0}, NEW p \in Int, NEW q \in Int, p < q
  PROVE  n * q - n * p >= n
<1>1. n * q - n * p = n * (q - p)
  OBVIOUS
<1>2. PICK d \in Nat : d = q - p - 1
  OBVIOUS
<1>3. n * (q - p) = n * d + n
  BY <1>2
<1>4. n * d >= 0
  OBVIOUS
<1> QED BY <1>1, <1>3, <1>4

LEMMA ModDistinct ==
  ASSUME NEW n \in Nat \ {0}, NEW a \in Int, NEW b \in Int,
         a < b, b - a < n
  PROVE  a % n # b % n
<1>1. SUFFICES ASSUME a % n = b % n PROVE FALSE
  OBVIOUS
<1>2. PICK p \in Int : a = (n * p) + (a % n)
  BY ModBasics
<1>3. PICK q \in Int : b = (n * q) + (a % n)
  BY <1>1, ModBasics
<1>4. a % n \in Int
  BY ModBasics
<1> HIDE <1>1
<1>5. CASE p < q
  <2>1. n * q - n * p >= n
    BY <1>5, NoMultipleBetween
  <2> QED BY <2>1, <1>2, <1>3, <1>4
<1>6. CASE q <= p
  <2>1. n * q - n * p <= 0
    BY <1>6, NoMultipleBetween
  <2> QED BY <2>1, <1>2, <1>3, <1>4
<1> QED BY <1>5, <1>6

LEMMA ModLap ==
  ASSUME NEW n \in Nat \ {0}, NEW a \in Int, NEW b \in Int, b = a + n
  PROVE  b % n = a % n
<1>1. PICK p \in Int : a = (n * p) + (a % n)
  BY ModBasics
<1>2. PICK q \in Int : b = (n * q) + (b % n)
  BY ModBasics
<1>3. a % n \in 0 .. n - 1 /\ b % n \in 0 .. n - 1
  BY ModBasics
<1>4. n * (p + 1) = n * p + n
  OBVIOUS
<1>5. CASE q < p + 1
  <2>1. n * (p + 1) - n * q >= n
    BY <1>5, NoMultipleBetween
  <2> QED BY <2>1, <1>1, <1>2, <1>3, <1>4
<1>6. CASE p + 1 < q
  <2>1. n * q - n * (p + 1) >= n
    BY <1>6, NoMultipleBetween
  <2> QED BY <2>1, <1>1, <1>2, <1>3, <1>4
<1>7. CASE q = p + 1
  BY <1>7, <1>1, <1>2, <1>4
<1> QED BY <1>5, <1>6, <1>7

LEMMA ModSmall == ASSUME NEW n \in Nat \ {0}, NEW a \in Int, a >= 0
  PROVE a % n <= a
<1>1. PICK p \in Int : a = (n * p) + (a % n)
  BY ModBasics
<1>2. a % n \in 0 .. n - 1
  BY ModBasics
<1>3. CASE p < 0
  <2>1. n * 0 - n * p >= n
    BY <1>3, NoMultipleBetween
  <2> QED BY <2>1, <1>1, <1>2
<1>4. CASE p >= 0
  <2>1. n * p >= 0
    BY <1>4
  <2> QED BY <2>1, <1>1, <1>2
<1> QED BY <1>3, <1>4

LEMMA SlotFacts ==
  /\ \A v \in Int : Slot(v) \in Slots
  /\ \A v, w \in Int : v # w /\ v - w < WindowSize /\ w - v < WindowSize
       => Slot(v) # Slot(w)
<1>1. ASSUME NEW v \in Int PROVE Slot(v) \in Slots
  BY ModBasics, AckAssumption DEF Slot, Slots
<1>2. ASSUME NEW v \in Int, NEW w \in Int, v # w,
             v - w < WindowSize, w - v < WindowSize
      PROVE  Slot(v) # Slot(w)
  <2>1. CASE v < w
    BY <1>2, <2>1, ModDistinct, AckAssumption DEF Slot
  <2>2. CASE w < v
    BY <1>2, <2>2, ModDistinct, AckAssumption DEF Slot
  <2> QED BY <1>2, <2>1, <2>2
<1> QED BY <1>1, <1>2

LEMMA SlotLap == \A v, w \in Int : w = v + WindowSize => Slot(w) = Slot(v)
BY ModLap, AckAssumption DEF Slot

-----------------------------------------------------------------------------
(* The invariant is inductive                                              *)

LEMMA InitIInv == Init => IInv
<1> SUFFICES ASSUME Init PROVE IInv
  OBVIOUS
<1> USE AckAssumption DEF Init
<1>1. TypeOK
  BY DEF TypeOK, PCs, Slots
<1>2. LockInv /\ BeforeInv
  BY DEF LockInv, BeforeInv, InLock
<1>3. LeadInv
  BY DEF LeadInv, Front
<1>4. KeyInv /\ UnflushedInv /\ NoFalseOverflow
  BY DEF KeyInv, UnflushedInv, BeforeStore, NoFalseOverflow
<1>5. PassedInv
  BY DEF PassedInv, Front
<1>6. WindowInv
  BY SlotFacts DEF WindowInv, IsMarked
<1> QED BY <1>1, <1>2, <1>3, <1>4, <1>5, <1>6 DEF IInv

\* A thread takes the next key.
LEMMA NextValueIInv ==
  ASSUME IInv, MaxLead <= WindowSize, NEW t \in Threads, NextValue(t)
  PROVE  IInv'
<1> USE AckAssumption DEF IInv, NextValue, Goto
<1>1. TypeOK'
  BY DEF TypeOK, PCs
<1>2. LockInv' /\ BeforeInv'
  BY DEF LockInv, BeforeInv, InLock, TypeOK
<1>3. LeadInv'
  BY DEF LeadInv, Front, TypeOK
<1>4. KeyInv'
  BY DEF KeyInv, BeforeStore, TypeOK, LeadInv, Front
<1>5. UnflushedInv'
  BY DEF UnflushedInv
<1>6. PassedInv' /\ WindowInv'
  BY DEF PassedInv, WindowInv, IsMarked, Front, TypeOK
<1>7. NoFalseOverflow'
  BY DEF NoFalseOverflow, TypeOK
<1> QED BY <1>1, <1>2, <1>3, <1>4, <1>5, <1>6, <1>7 DEF IInv

\* The key's slot is free: by WindowInv only a marked key has it set.
LEMMA CheckSlotIInv ==
  ASSUME IInv, NEW t \in Threads, CheckSlot(t)
  PROVE  IInv'
<1> USE AckAssumption DEF IInv, CheckSlot, Goto
<1>1. SlotIsFree(t)
  <2>1. key[t] \in CountStart .. counter - 1 /\ ~IsMarked(key[t])
    BY DEF KeyInv, BeforeStore, IsMarked
  <2>2. key[t] \in Front .. counter - 1
    BY <2>1 DEF PassedInv, TypeOK, Front
  <2>3. key[t] \in limit + 1 .. limit + WindowSize
    BY <2>2 DEF LeadInv, TypeOK, Front
  <2> QED BY <2>1, <2>3 DEF WindowInv, SlotIsFree
<1>2. TypeOK'
  BY DEF TypeOK, PCs
<1>3. LockInv' /\ BeforeInv' /\ LeadInv'
  BY DEF LockInv, BeforeInv, LeadInv, InLock, Front, TypeOK
<1>4. KeyInv' /\ UnflushedInv' /\ NoFalseOverflow'
  BY <1>1 DEF KeyInv, UnflushedInv, BeforeStore, TypeOK, NoFalseOverflow
<1>5. PassedInv' /\ WindowInv'
  BY DEF PassedInv, WindowInv, IsMarked, Front, TypeOK
<1> QED BY <1>2, <1>3, <1>4, <1>5 DEF IInv

LEMMA StoreSlotIInv ==
  ASSUME IInv, NEW t \in Threads, StoreSlot(t)
  PROVE  IInv'
<1> USE AckAssumption DEF IInv, StoreSlot, Goto
<1>1. key[t] \in CountStart .. counter - 1 /\ key[t] \notin acked /\ key[t] \in Nat
  BY DEF KeyInv, BeforeStore, TypeOK
<1>2. TypeOK'
  BY <1>1 DEF TypeOK, PCs
<1>3. LockInv' /\ BeforeInv' /\ LeadInv'
  BY DEF LockInv, BeforeInv, LeadInv, InLock, Front, TypeOK
<1>4. KeyInv' /\ NoFalseOverflow'
  BY <1>1 DEF KeyInv, BeforeStore, TypeOK, NoFalseOverflow
<1>5. UnflushedInv'
  BY <1>1 DEF UnflushedInv, TypeOK
<1>6. \A k \in Int : IsMarked(k) <=> IsMarked(k)'
  BY <1>1 DEF IsMarked, TypeOK, KeyInv, BeforeStore
<1>7. PassedInv' /\ WindowInv'
  BY <1>6 DEF PassedInv, WindowInv, Front, TypeOK
<1> QED BY <1>2, <1>3, <1>4, <1>5, <1>7 DEF IInv

\* A mark reaches the memory, in a slot no other key in reach shares.
LEMMA FlushIInv ==
  ASSUME IInv, NEW t \in Threads, Flush(t)
  PROVE  IInv'
<1> USE AckAssumption DEF IInv, Flush
<1> DEFINE m == unflushed[t]
<1>1. m \in acked /\ m \in Nat /\ m \in CountStart .. counter - 1
  BY DEF UnflushedInv, TypeOK, KeyInv
<1>2. m \in Front .. counter - 1 /\ m \in limit + 1 .. limit + WindowSize
  <2>1. ~IsMarked(m)
    BY DEF IsMarked
  <2>2. m \in Front .. counter - 1
    BY <1>1, <2>1 DEF PassedInv, TypeOK, Front
  <2> QED BY <2>2 DEF LeadInv, TypeOK, Front
<1>3. Slot(m) \in Slots
  BY <1>1, SlotFacts
<1>4. \A k \in Int : IsMarked(k)' <=> IsMarked(k) \/ k = m
  BY <1>1 DEF IsMarked, TypeOK, UnflushedInv
<1>5. TypeOK'
  BY <1>3 DEF TypeOK
<1>6. LockInv' /\ BeforeInv' /\ LeadInv' /\ KeyInv' /\ UnflushedInv' /\ NoFalseOverflow'
  BY DEF LockInv, BeforeInv, LeadInv, KeyInv, UnflushedInv, NoFalseOverflow, Front, TypeOK, BeforeStore
<1>7. PassedInv'
  BY <1>4 DEF PassedInv, Front, TypeOK
<1>8. WindowInv'
  <2> SUFFICES ASSUME NEW k \in limit + 1 .. limit + WindowSize
               PROVE  window'[Slot(k)] <=> IsMarked(k)' /\ k >= Front
    BY DEF WindowInv, Front
  <2>1. Slot(k) \in Slots /\ k \in Int
    BY SlotFacts DEF TypeOK
  <2>2. CASE k = m
    BY <2>2, <1>2, <1>3, <1>4 DEF TypeOK
  <2>3. CASE k # m
    <3>1. Slot(k) # Slot(m)
      BY <2>1, <2>3, <1>1, <1>2, SlotFacts DEF TypeOK
    <3>2. window'[Slot(k)] = window[Slot(k)]
      BY <3>1, <2>1, <1>3 DEF TypeOK
    <3> QED BY <3>2, <2>1, <2>3, <1>4 DEF WindowInv
  <2> QED BY <2>2, <2>3
<1> QED BY <1>5, <1>6, <1>7, <1>8 DEF IInv

LEMMA TryLockIInv ==
  ASSUME IInv, NEW t \in Threads, TryLock(t)
  PROVE  IInv'
<1> USE AckAssumption DEF IInv, TryLock, Goto, LockIsFree
<1>1. BeforeFirst \in Slots
  BY SlotFacts DEF BeforeFirst, TypeOK
<1>2. TypeOK'
  BY <1>1 DEF TypeOK, PCs
<1>3. LockInv' /\ BeforeInv' /\ LeadInv'
  BY DEF LockInv, BeforeInv, BeforeFirst, LeadInv, InLock, Front, TypeOK
<1>4. KeyInv' /\ UnflushedInv' /\ NoFalseOverflow'
  BY DEF KeyInv, UnflushedInv, BeforeStore, TypeOK, NoFalseOverflow
<1>5. PassedInv' /\ WindowInv'
  BY DEF PassedInv, WindowInv, IsMarked, Front, TypeOK, LockInv, InLock
<1> QED BY <1>2, <1>3, <1>4, <1>5 DEF IInv

LEMMA TryLockFailsIInv ==
  ASSUME IInv, NEW t \in Threads, TryLockFails(t)
  PROVE  IInv'
<1> USE AckAssumption DEF IInv, TryLockFails, Goto
<1>1. TypeOK'
  BY DEF TypeOK, PCs
<1>2. LockInv' /\ BeforeInv' /\ LeadInv'
  BY DEF LockInv, BeforeInv, LeadInv, InLock, Front, TypeOK
<1>3. KeyInv' /\ UnflushedInv' /\ NoFalseOverflow'
  BY DEF KeyInv, UnflushedInv, BeforeStore, TypeOK, NoFalseOverflow
<1>4. PassedInv' /\ WindowInv'
  BY DEF PassedInv, WindowInv, IsMarked, Front, TypeOK
<1> QED BY <1>1, <1>2, <1>3, <1>4 DEF IInv

\* Within the lead, what the scan finds set is a marked key not yet passed.
LEMMA ScanSlotIInv ==
  ASSUME IInv, NEW t \in Threads, ScanSlot(t)
  PROVE  IInv'
<1> USE AckAssumption DEF IInv, ScanSlot, Goto
<1>1. lock = t /\ lock # NoThread
  BY DEF LockInv, InLock
<1>2. ~ScanEnds => IsMarked(index)
  <2>1. index \in limit + 1 .. limit + WindowSize
                \/ index = limit + WindowSize + 1
    BY <1>1 DEF LeadInv, Front, TypeOK
  <2>2. CASE index \in limit + 1 .. limit + WindowSize
    BY <2>2 DEF ScanEnds, WindowInv
  <2>3. CASE index = limit + WindowSize + 1
    <3>1. limit + 1 \in limit + 1 .. limit + WindowSize /\ limit + 1 < index
      BY <2>3 DEF TypeOK
    <3>2. ~window[Slot(limit + 1)]
      BY <3>1, <1>1 DEF WindowInv, Front, TypeOK
    <3>3. Slot(index) = Slot(limit + 1)
      BY <2>3, SlotLap DEF TypeOK
    <3> QED BY <3>2, <3>3 DEF ScanEnds
  <2> QED BY <2>1, <2>2, <2>3
<1>3. TypeOK'
  BY DEF TypeOK, PCs
<1>4. LockInv' /\ BeforeInv' /\ LeadInv'
  BY DEF LockInv, BeforeInv, LeadInv, InLock, Front, TypeOK
<1>5. KeyInv' /\ UnflushedInv' /\ NoFalseOverflow'
  BY DEF KeyInv, UnflushedInv, BeforeStore, TypeOK, NoFalseOverflow
<1>6. WindowInv'
  BY DEF WindowInv, IsMarked, Front
<1>7. PassedInv'
  BY <1>1, <1>2 DEF PassedInv, IsMarked, Front, TypeOK, LockInv, InLock
<1> QED BY <1>3, <1>4, <1>5, <1>6, <1>7 DEF IInv

LEMMA ClearSlotIInv ==
  ASSUME IInv, NEW t \in Threads, ClearSlot(t)
  PROVE  IInv'
<1> USE AckAssumption DEF IInv, ClearSlot, Goto
<1>1. lock = t /\ lock # NoThread /\ IsMarked(index)
  BY DEF LockInv, InLock, PassedInv
<1>2. index \in limit + 1 .. counter - 1 /\ index \in limit + 1 .. limit + WindowSize
  BY <1>1 DEF IsMarked, KeyInv, LeadInv, Front, TypeOK
<1>3. Slot(index) \in Slots
  BY SlotFacts DEF TypeOK
<1>4. TypeOK'
  BY <1>3 DEF TypeOK, PCs, Cleared
<1>5. LockInv' /\ BeforeInv' /\ LeadInv'
  BY <1>1, <1>2 DEF LockInv, BeforeInv, LeadInv, InLock, Front, TypeOK
<1>6. KeyInv' /\ UnflushedInv' /\ NoFalseOverflow'
  BY DEF KeyInv, UnflushedInv, BeforeStore, TypeOK, NoFalseOverflow
<1>7. PassedInv'
  BY <1>1 DEF PassedInv, IsMarked, Front, TypeOK, LockInv, InLock
<1>8. WindowInv'
  <2> SUFFICES ASSUME NEW k \in limit + 1 .. limit + WindowSize
               PROVE  window'[Slot(k)] <=> IsMarked(k) /\ k >= index + 1
    BY <1>1 DEF WindowInv, Front, IsMarked
  <2>1. Slot(k) \in Slots /\ k \in Int
    BY SlotFacts DEF TypeOK
  <2>2. CASE k = index
    BY <2>2, <1>3 DEF TypeOK, Cleared
  <2>3. CASE k # index
    <3>1. Slot(k) # Slot(index)
      BY <2>1, <2>3, <1>2, SlotFacts DEF TypeOK
    <3>2. window'[Slot(k)] = window[Slot(k)]
      BY <3>1, <2>1, <1>3 DEF TypeOK, Cleared
    <3>3. window[Slot(k)] <=> IsMarked(k) /\ k >= index
      BY <1>1 DEF WindowInv, Front
    <3> QED BY <3>2, <3>3, <2>1, <2>3 DEF TypeOK
  <2> QED BY <2>2, <2>3
<1> QED BY <1>4, <1>5, <1>6, <1>7, <1>8 DEF IInv

\* The keys that come into reach take the slots the scan has cleared.
LEMMA PublishLimitIInv ==
  ASSUME IInv, NEW t \in Threads, PublishLimit(t)
  PROVE  IInv'
<1> USE AckAssumption DEF IInv, PublishLimit, Goto, NewLimit
<1>1. lock = t /\ lock # NoThread
  BY DEF LockInv, InLock
<1>2. index > limit /\ index <= counter /\ index - 1 - limit <= WindowSize
  BY <1>1 DEF LeadInv, Front, TypeOK
<1>3. TypeOK'
  BY DEF TypeOK, PCs
<1>4. LockInv' /\ BeforeInv' /\ LeadInv'
  BY <1>1, <1>2 DEF LockInv, BeforeInv, LeadInv, InLock, Front, TypeOK
<1>5. KeyInv' /\ UnflushedInv' /\ NoFalseOverflow'
  BY DEF KeyInv, UnflushedInv, BeforeStore, TypeOK, NoFalseOverflow
<1>6. PassedInv'
  BY <1>1 DEF PassedInv, IsMarked, Front, TypeOK, LockInv, InLock
<1>7. WindowInv'
  <2> SUFFICES ASSUME NEW k \in index .. index - 1 + WindowSize
               PROVE  window[Slot(k)] <=> IsMarked(k) /\ k >= index
    BY <1>1 DEF WindowInv, Front, IsMarked, TypeOK
  <2>1. CASE k <= limit + WindowSize
    <3>1. k \in limit + 1 .. limit + WindowSize
      BY <2>1, <1>2 DEF TypeOK
    <3> QED BY <3>1, <1>1 DEF WindowInv, Front
  <2>2. CASE k > limit + WindowSize
    <3> DEFINE j == k - WindowSize
    <3>1. j \in limit + 1 .. limit + WindowSize /\ j < index
      BY <2>2, <1>2 DEF TypeOK
    <3>2. ~window[Slot(j)]
      BY <3>1, <1>1 DEF WindowInv, Front, TypeOK
    <3>3. Slot(k) = Slot(j)
      BY SlotLap DEF TypeOK
    <3>4. ~IsMarked(k)
      BY <2>2 DEF IsMarked, KeyInv, LeadInv, TypeOK
    <3> QED BY <3>2, <3>3, <3>4
  <2> QED BY <2>1, <2>2 DEF TypeOK
<1> QED BY <1>3, <1>4, <1>5, <1>6, <1>7 DEF IInv

LEMMA UnlockIInv ==
  ASSUME IInv, NEW t \in Threads, Unlock(t)
  PROVE  IInv'
<1> USE AckAssumption DEF IInv, Unlock, Goto
<1>1. lock = t /\ lock # NoThread /\ index = limit + 1
  BY DEF LockInv, InLock
<1>2. TypeOK'
  BY DEF TypeOK, PCs
<1>3. LockInv' /\ BeforeInv' /\ LeadInv'
  BY <1>1 DEF LockInv, BeforeInv, LeadInv, InLock, Front, TypeOK
<1>4. KeyInv' /\ UnflushedInv' /\ NoFalseOverflow'
  BY DEF KeyInv, UnflushedInv, BeforeStore, TypeOK, NoFalseOverflow
<1>5. PassedInv' /\ WindowInv'
  BY <1>1 DEF PassedInv, WindowInv, IsMarked, Front, TypeOK
<1> QED BY <1>2, <1>3, <1>4, <1>5 DEF IInv

LEMMA NextIInv ==
  ASSUME MaxLead <= WindowSize, IInv, [Next]_vars
  PROVE  IInv'
<1>1. ASSUME NEW t \in Threads, Acknowledge(t) PROVE IInv'
  BY <1>1, CheckSlotIInv, StoreSlotIInv, TryLockIInv, TryLockFailsIInv,
     ScanSlotIInv, ClearSlotIInv, PublishLimitIInv, UnlockIInv DEF Acknowledge
<1>2. CASE UNCHANGED vars
  BY <1>2 DEF vars, IInv, TypeOK, LockInv, BeforeInv, LeadInv, KeyInv, UnflushedInv,
     PassedInv, WindowInv, IsMarked, Front, NoFalseOverflow
<1> QED BY <1>1, <1>2, NextValueIInv, FlushIInv DEF Next

-----------------------------------------------------------------------------
(* The theorems                                                            *)

\* IInv holds in every state of a run whose keys stay within one window.
LEMMA Inductive == ASSUME MaxLead <= WindowSize PROVE Spec => []IInv
<1>1. IInv /\ [Next]_vars => IInv'
  BY NextIInv
<1> QED BY InitIInv, <1>1, PTL DEF Spec

\* Every variable keeps its type for every window size, thread set and start.
THEOREM TypeCorrect == ASSUME MaxLead <= WindowSize PROVE Spec => []TypeOK
<1>1. IInv => TypeOK
  BY DEF IInv
<1> QED BY Inductive, <1>1, PTL

\* lastValue() never reports a key whose acknowledge() has not been called.
THEOREM LimitAckedAlways ==
  ASSUME MaxLead <= WindowSize PROVE Spec => []LimitAcked
<1>1. IInv => LimitAcked
  BY AckAssumption DEF IInv, LimitAcked, PassedInv, IsMarked, LeadInv, Front, TypeOK
<1> QED BY Inductive, <1>1, PTL

\* acknowledge() never throws for want of window space.
THEOREM NoFalseOverflowAlways ==
  ASSUME MaxLead <= WindowSize PROVE Spec => []NoFalseOverflow
<1>1. IInv => NoFalseOverflow
  BY DEF IInv
<1> QED BY Inductive, <1>1, PTL

\* The scan leaves no marked key behind, except at the window's edge that the
\* loop condition excludes when limit starts at -1 (CountStart = 0).
THEOREM ScanStopsAtGapAlways ==
  ASSUME MaxLead <= WindowSize, CountStart > 0 PROVE Spec => ScanStopsAtGap
<1> DEFINE Stops == \A t \in Threads : pc[t] = "scan" /\ pc'[t] = "publish"
                      => index \notin Marked
<1>1. IInv /\ [Next]_vars => [Stops]_vars
  <2> SUFFICES ASSUME IInv, Next, NEW t \in Threads,
                      pc[t] = "scan", pc'[t] = "publish"
               PROVE  index \notin Marked
    OBVIOUS
  <2> USE AckAssumption DEF IInv
  <2>1. ScanSlot(t) /\ ScanEnds
    BY DEF Next, Acknowledge, NextValue, CheckSlot, StoreSlot, Flush, TryLock,
       TryLockFails, ScanSlot, ClearSlot, PublishLimit, Unlock, Goto, TypeOK
  <2>2. lock = t /\ lock # NoThread
    BY DEF LockInv, InLock
  <2>3. index > limit /\ limit >= 0 /\ limit \in Int /\ index \in Int
    BY <2>2 DEF LeadInv, Front, TypeOK
  <2>4. index # beforeFirstSlot
    <3>1. Slot(limit) <= limit
      BY <2>3, ModSmall DEF Slot
    <3> QED BY <3>1, <2>3, SlotFacts DEF BeforeInv, Slots
  <2>5. ~window[Slot(index)]
    BY <2>1, <2>4 DEF ScanEnds
  <2>6. ~IsMarked(index)
    <3>1. CASE index <= limit + WindowSize
      BY <3>1, <2>2, <2>3, <2>5 DEF WindowInv, Front
    <3>2. CASE index > limit + WindowSize
      BY <3>2, <2>3 DEF IsMarked, KeyInv, LeadInv, TypeOK
    <3> QED BY <3>1, <3>2, <2>3
  <2> QED BY <2>6 DEF Marked, IsMarked
<1> QED BY <1>1, Inductive, PTL DEF ScanStopsAtGap, Spec

\* The concurrent window implements the atomic key sequence.
THEOREM Refinement ==
  ASSUME MaxLead <= WindowSize PROVE Spec => ImplementsKeySequence
<1>1. Init => Keys!Init
  BY DEF Init, Keys!Init
<1>2. IInv /\ [Next]_vars => [Keys!Next]_(Keys!vars)
  <2> SUFFICES ASSUME IInv, [Next]_vars PROVE [Keys!Next]_(Keys!vars)
    OBVIOUS
  <2> USE AckAssumption DEF Keys!vars, Keys!Next, Goto
  <2>1. ASSUME NEW t \in Threads, NextValue(t) PROVE Keys!Next
    BY <2>1 DEF NextValue, Keys!Issue
  <2>2. ASSUME NEW t \in Threads, StoreSlot(t) PROVE Keys!Next
    <3>1. key[t] \in (CountStart .. counter - 1) \ acked
      BY <2>2 DEF StoreSlot, IInv, KeyInv, BeforeStore
    <3> QED BY <3>1, <2>2 DEF StoreSlot, Keys!Acknowledge
  <2>3. ASSUME NEW t \in Threads, PublishLimit(t) PROVE [Keys!Next]_(Keys!vars)
    <3>1. lock = t /\ lock # NoThread
      BY <2>3 DEF PublishLimit, IInv, LockInv, InLock
    <3>2. CASE limit' = limit
      BY <3>2, <2>3 DEF PublishLimit
    <3>3. CASE limit' # limit
      <4>1. limit' \in CountStart .. counter - 1 /\ limit < limit'
        BY <2>3, <3>1, <3>3 DEF PublishLimit, NewLimit, IInv, LeadInv, Front, TypeOK
      <4>2. limit + 1 .. limit' \subseteq acked
        BY <2>3, <3>1 DEF PublishLimit, NewLimit, IInv, LeadInv, PassedInv,
           IsMarked, Front, TypeOK
      <4> QED BY <4>1, <4>2, <2>3 DEF PublishLimit, Keys!Advance
    <3> QED BY <3>2, <3>3
  <2>4. ASSUME NEW t \in Threads, CheckSlot(t) \/ TryLock(t) \/ TryLockFails(t)
                 \/ ScanSlot(t) \/ ClearSlot(t) \/ Unlock(t) \/ Flush(t)
        PROVE  UNCHANGED Keys!vars
    BY <2>4 DEF CheckSlot, TryLock, TryLockFails, ScanSlot, ClearSlot, Unlock, Flush
  <2>5. CASE UNCHANGED vars
    BY <2>5 DEF vars
  <2> QED BY <2>1, <2>2, <2>3, <2>4, <2>5 DEF Next, Acknowledge
<1> QED BY <1>1, <1>2, Inductive, PTL DEF Spec, ImplementsKeySequence, Keys!Spec
=============================================================================
