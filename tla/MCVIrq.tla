-------------------------------- MODULE MCVIrq --------------------------------
(* Small instances of VIrq; ta, tb are threads, 1 is a device, 2 is the tick. *)
EXTENDS VIrq
CONSTANTS ta, tb
OneDevice == {1}
\* A thread that is restarted; two threads; two threads that are restarted, with ticks
\* only; a thread on two processors.
Some ==
    { [cpus |-> {0}, vcpus |-> {tb}, torn |-> TRUE, restarts |-> TRUE, raises |-> 2],
      [cpus |-> {0}, vcpus |-> {ta, tb}, torn |-> FALSE, restarts |-> FALSE, raises |-> 2],
      [cpus |-> {0}, vcpus |-> {ta, tb}, torn |-> FALSE, restarts |-> TRUE, raises |-> 0],
      [cpus |-> {0, 1}, vcpus |-> {tb}, torn |-> FALSE, restarts |-> FALSE, raises |-> 2] }
=============================================================================
