-------------------------- MODULE MCExperimentScript --------------------------
(* Small instances of ExperimentScript.                                      *)
EXTENDS ExperimentScript
=============================================================================
