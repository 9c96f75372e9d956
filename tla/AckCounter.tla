----------------------------- MODULE AckCounter -----------------------------
(***************************************************************************)
(* AcknowledgedCounterGenerator (and the CounterGenerator it extends): the *)
(* lock-light window through which the client threads of a transaction     *)
(* phase hand out insert keys and publish the ones that are in the         *)
(* database.  One action per access to shared state.                       *)
(*                                                                         *)
(* window is a plain boolean[]: a mark sits in the storing thread's write  *)
(* buffer (unflushed) until it drains.  The read-modify-write instructions *)
(* of a successful tryLock and of getAndIncrement wait for the drain; a    *)
(* failed tryLock only reads the lock word and does not.                   *)
(***************************************************************************)
EXTENDS Integers

CONSTANTS
  Threads,      \* the client threads
  NoThread,     \* the lock is free
  NoKey,        \* a thread without a key, an empty write buffer
  WindowSize,   \* WINDOW_SIZE
  CountStart,   \* the constructor's argument (recordcount in CoreWorkload)
  MaxLead,      \* BOUND: how far issued keys may run ahead of limit
  MaxKeys       \* BOUND: how many keys are issued

ASSUME AckAssumption ==
  /\ NoThread \notin Threads
  /\ NoKey \notin Int
  /\ WindowSize \in Nat \ {0}
  /\ CountStart \in Nat
  /\ MaxLead \in Nat
  /\ MaxKeys \in Nat

VARIABLES
  counter,          \* CounterGenerator.counter
  window,           \* window[], as the memory holds it
  limit,            \* limit (volatile)
  lock,             \* the owner of lock
  index,            \* the lock owner's loop variable
  beforeFirstSlot,  \* the lock owner's local of that name
  pc,               \* where each thread is
  key,              \* the value each thread is acknowledging
  unflushed,        \* a thread's mark that has not reached the memory
  acked             \* history: the keys whose mark has been stored

vars == <<counter, window, limit, lock, index, beforeFirstSlot, pc, key,
          unflushed, acked>>

Slots == 0 .. WindowSize - 1

PCs == {"idle", "taken", "checked", "stored", "scan", "clear", "publish",
        "unlock", "threw"}

Goto(t, to) == pc' = [pc EXCEPT ![t] = to]

\* IgnoreOwner, StopAfterFirst, KeepMark, LimitPastGap and
\* ReturnLocked are no part of the specification: each is a wrong variant of
\* the definition after it, with which the properties are tested.

-----------------------------------------------------------------------------
\* value & WINDOW_MASK, for a window size that is a power of two
Slot(v) == v % WindowSize

Init ==
  /\ counter = CountStart
  /\ window = [s \in Slots |-> FALSE]
  /\ limit = CountStart - 1
  /\ lock = NoThread
  /\ index = CountStart
  /\ beforeFirstSlot = 0
  /\ pc = [t \in Threads |-> "idle"]
  /\ key = [t \in Threads |-> NoKey]
  /\ unflushed = [t \in Threads |-> NoKey]
  /\ acked = {}

\* nextValue(): getAndIncrement.  The guard on MaxLead is the environment's:
\* the code issues keys whatever the distance to limit.
NextValue(t) ==
  /\ pc[t] = "idle"
  /\ unflushed[t] = NoKey
  /\ counter < CountStart + MaxKeys
  /\ counter - limit <= MaxLead
  /\ key' = [key EXCEPT ![t] = counter]
  /\ counter' = counter + 1
  /\ Goto(t, "taken")
  /\ UNCHANGED <<window, limit, lock, index, beforeFirstSlot, unflushed, acked>>

\* if (window[currentSlot]) throw: read without the lock
SlotIsFree(t) == ~window[Slot(key[t])]

CheckSlot(t) ==
  /\ pc[t] = "taken"
  /\ Goto(t, IF SlotIsFree(t) THEN "checked" ELSE "threw")
  /\ UNCHANGED <<counter, window, limit, lock, index, beforeFirstSlot, key,
                 unflushed, acked>>

\* window[currentSlot] = true
StoreSlot(t) ==
  /\ pc[t] = "checked"
  /\ unflushed' = [unflushed EXCEPT ![t] = key[t]]
  /\ acked' = acked \cup {key[t]}
  /\ Goto(t, "stored")
  /\ UNCHANGED <<counter, window, limit, lock, index, beforeFirstSlot, key>>

\* The stored mark reaches the memory.
Flush(t) ==
  /\ unflushed[t] # NoKey
  /\ window' = [window EXCEPT ![Slot(unflushed[t])] = TRUE]
  /\ unflushed' = [unflushed EXCEPT ![t] = NoKey]
  /\ UNCHANGED <<counter, limit, lock, index, beforeFirstSlot, pc, key, acked>>

\* limit & WINDOW_MASK
BeforeFirst == Slot(limit)

IgnoreOwner == TRUE
LockIsFree == lock = NoThread

\* lock.tryLock() succeeds, and the locals of the scan are set.
TryLock(t) ==
  /\ pc[t] = "stored"
  /\ LockIsFree
  /\ unflushed[t] = NoKey
  /\ lock' = t
  /\ index' = limit + 1
  /\ beforeFirstSlot' = BeforeFirst
  /\ Goto(t, "scan")
  /\ UNCHANGED <<counter, window, limit, key, unflushed, acked>>

\* lock.tryLock() fails: acknowledge() returns with the key only marked.
TryLockFails(t) ==
  /\ pc[t] = "stored"
  /\ lock # NoThread
  /\ key' = [key EXCEPT ![t] = NoKey]
  /\ Goto(t, "idle")
  /\ UNCHANGED <<counter, window, limit, lock, index, beforeFirstSlot,
                 unflushed, acked>>

\* The loop's exits: its condition, and the break on an unmarked slot.
StopAfterFirst == index > limit + 1 \/ ~window[Slot(index)]
ScanEnds == index = beforeFirstSlot \/ ~window[Slot(index)]

ScanSlot(t) ==
  /\ pc[t] = "scan"
  /\ Goto(t, IF ScanEnds THEN "publish" ELSE "clear")
  /\ UNCHANGED <<counter, window, limit, lock, index, beforeFirstSlot, key,
                 unflushed, acked>>

\* window[slot] = false
KeepMark(i) == window
Cleared(i) == [window EXCEPT ![Slot(i)] = FALSE]

ClearSlot(t) ==
  /\ pc[t] = "clear"
  /\ window' = Cleared(index)
  /\ index' = index + 1
  /\ Goto(t, "scan")
  /\ UNCHANGED <<counter, limit, lock, beforeFirstSlot, key, unflushed, acked>>

\* limit = index - 1
LimitPastGap == index
NewLimit == index - 1

ReturnLocked(t) ==
  /\ pc[t] = "publish"
  /\ limit' = NewLimit
  /\ Goto(t, IF index = limit + 1 THEN "idle" ELSE "unlock")
  /\ UNCHANGED <<counter, window, lock, index, beforeFirstSlot, key, unflushed,
                 acked>>

PublishLimit(t) ==
  /\ pc[t] = "publish"
  /\ limit' = NewLimit
  /\ Goto(t, "unlock")
  /\ UNCHANGED <<counter, window, lock, index, beforeFirstSlot, key, unflushed,
                 acked>>

Unlock(t) ==
  /\ pc[t] = "unlock"
  /\ lock' = NoThread
  /\ key' = [key EXCEPT ![t] = NoKey]
  /\ Goto(t, "idle")
  /\ UNCHANGED <<counter, window, limit, index, beforeFirstSlot, unflushed, acked>>

\* acknowledge(), once the key has been taken
Acknowledge(t) ==
  \/ CheckSlot(t) \/ StoreSlot(t)
  \/ TryLock(t) \/ TryLockFails(t)
  \/ ScanSlot(t) \/ ClearSlot(t) \/ PublishLimit(t) \/ Unlock(t)

Next == \E t \in Threads : NextValue(t) \/ Acknowledge(t) \/ Flush(t)

\* A running thread is scheduled and a write buffer drains; nothing makes a
\* thread ask for another key.
Fairness == \A t \in Threads : WF_vars(Acknowledge(t)) /\ WF_vars(Flush(t))

Spec == Init /\ [][Next]_vars
FairSpec == Spec /\ Fairness
-----------------------------------------------------------------------------
(***************************************************************************)
(* Correctness.                                                            *)
(***************************************************************************)
TypeOK ==
  /\ counter \in Nat
  /\ window \in [Slots -> BOOLEAN]
  /\ limit \in Int
  /\ lock \in Threads \cup {NoThread}
  /\ index \in Int
  /\ beforeFirstSlot \in Slots
  /\ pc \in [Threads -> PCs]
  /\ key \in [Threads -> Nat \cup {NoKey}]
  /\ unflushed \in [Threads -> Nat \cup {NoKey}]
  /\ acked \in SUBSET Nat

\* lastValue() "reports generated integers ... only after they have been
\* acknowledged" (the class comment): no key up to limit is unacknowledged,
\* although the window knows keys only modulo its size.
LimitAcked == CountStart .. limit \subseteq acked

\* acknowledge() does not reject a key for want of window space ("Too many
\* unacknowledged insertion keys.") while the issued keys fit in the window:
\* every scan leaves the slots it passed free for the keys one lap later.
NoFalseOverflow == \A t \in Threads : pc[t] # "threw"

\* The keys whose mark a scan can see.
Marked == acked \ {unflushed[t] : t \in Threads}

\* A scan never stops short of a key whose mark is in the memory at that
\* moment: what it leaves behind is only what was not acknowledged yet.
ScanStopsAtGap ==
  [][\A t \in Threads : pc[t] = "scan" /\ pc'[t] = "publish"
       => index \notin Marked]_vars

\* The window and the try-lock together implement the key sequence: limit
\* moves only forward, over acknowledged keys, and each key is issued and
\* acknowledged once.
Keys == INSTANCE KeySequence
ImplementsKeySequence == Keys!Spec

\* The scan of the window ends and the lock is given back, however the other
\* threads' marks fall, as long as the issued keys run a bounded way ahead.
LockReleased == \A t \in Threads : lock = t ~> lock # t
=============================================================================
