--------------------------- MODULE MCCoreWorkload ---------------------------
(* Small instances of CoreWorkload.  Threads are numbered, as the shares of  *)
(* the operations depend on the number.                                      *)
EXTENDS CoreWorkload
=============================================================================
