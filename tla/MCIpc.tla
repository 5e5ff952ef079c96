-------------------------------- MODULE MCIpc --------------------------------
(* Small instances of MatrixIpc: two clients of different priority, one service. *)
EXTENDS MatrixIpc, TLC
CONSTANTS c1, c2
Apart == (c1 :> 2 @@ c2 :> 0)

Plain == [expireIn |-> {}, preempt |-> FALSE, smp |-> FALSE, closing |-> FALSE,
          napping |-> FALSE, strays |-> FALSE, calls |-> 2]
Seen  == {"listed", "taken"}
\* Timeouts; others run in between; both; the service closes; whatever may happen to an
\* open service, once.
All ==
    { [Plain EXCEPT !.expireIn = Seen],
      [Plain EXCEPT !.preempt = TRUE, !.smp = TRUE],
      [Plain EXCEPT !.expireIn = Seen, !.preempt = TRUE, !.smp = TRUE],
      [Plain EXCEPT !.closing = TRUE, !.smp = TRUE],
      [expireIn |-> Stages, preempt |-> TRUE, smp |-> TRUE, closing |-> FALSE,
       napping |-> TRUE, strays |-> TRUE, calls |-> 1] }
\* Others run between the two critical sections of a sender.
Between == { [Plain EXCEPT !.preempt = TRUE] }
=============================================================================
