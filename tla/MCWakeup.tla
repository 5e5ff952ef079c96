------------------------------- MODULE MCWakeup -------------------------------
(* Instances of WakeupList for TLC.                                           *)
EXTENDS WakeupList
CONSTANTS a, b, e, s
=============================================================================
