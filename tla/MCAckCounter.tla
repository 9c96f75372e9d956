---------------------------- MODULE MCAckCounter ----------------------------
(* Small instances of AckCounter: a window of a few slots that the keys     *)
(* wrap around, and client threads as model values.                         *)
EXTENDS AckCounter, TLC

Symmetric == Permutations(Threads)
=============================================================================
