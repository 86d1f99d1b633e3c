--------------------------- MODULE MCWaitForTask ---------------------------
(* Small instances of WaitForTask for TLC.                                 *)
EXTENDS WaitForTask

\* Both sides of both limits.
TimeoutsAsked == -1..5
IntervalsAsked == 0..5
=============================================================================
