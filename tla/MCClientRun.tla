---------------------------- MODULE MCClientRun ----------------------------
(* Small instances of ClientRun, with client threads as model values.  They  *)
(* check liveness, so no symmetry is declared.                               *)
EXTENDS ClientRun
=============================================================================
