--------------------------- MODULE MCHarnessRuns ---------------------------
(* Instances of HarnessRuns for TLC.                                        *)
EXTENDS HarnessRuns

Anywhere == Step \ {"off"}
=============================================================================
