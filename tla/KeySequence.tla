---------------------------- MODULE KeySequence ----------------------------
(***************************************************************************)
(* What AcknowledgedCounterGenerator promises to CoreWorkload: keys are    *)
(* issued in order, acknowledged in any order, and the value reported by   *)
(* lastValue() only ever moves forward over acknowledged keys.             *)
(***************************************************************************)
EXTENDS Integers

CONSTANT CountStart   \* the first key to issue; the ones below are loaded

VARIABLES
  counter,   \* the next key to issue
  acked,     \* the keys whose insertion has been acknowledged
  limit      \* what lastValue() returns

vars == <<counter, acked, limit>>

Init ==
  /\ counter = CountStart
  /\ acked = {}
  /\ limit = CountStart - 1

Issue ==
  /\ counter' = counter + 1
  /\ UNCHANGED <<acked, limit>>

\* Only a key that has been issued, once.
Acknowledge(k) ==
  /\ k \in (CountStart .. counter - 1) \ acked
  /\ acked' = acked \cup {k}
  /\ UNCHANGED <<counter, limit>>

\* lastValue() jumps over a run of acknowledged keys.
Advance(k) ==
  /\ limit < k
  /\ limit + 1 .. k \subseteq acked
  /\ limit' = k
  /\ UNCHANGED <<counter, acked>>

Next ==
  \/ Issue
  \/ \E k \in CountStart .. counter - 1 : Acknowledge(k) \/ Advance(k)

Spec == Init /\ [][Next]_vars
=============================================================================
