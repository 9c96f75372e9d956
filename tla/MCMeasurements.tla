--------------------------- MODULE MCMeasurements ---------------------------
(* Small instances of Measurements.                                          *)
EXTENDS Measurements, TLC

CONSTANTS t1, t2

\* The client divides three operations among two threads.
TwoAndOne == t1 :> 2 @@ t2 :> 1
=============================================================================
