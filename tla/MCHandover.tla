------------------------------ MODULE MCHandover ------------------------------
(* Instances of Handover for TLC: two processors and three threads.          *)
EXTENDS Handover, TLC

CONSTANTS p, q, a, b, e

MCBoot   == (p :> a) @@ (q :> b)
=============================================================================
