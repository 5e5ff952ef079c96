------------------------------- MODULE MCThreads -------------------------------
(* Small instances of Threads, whose objects are threads; the words of the bit   *)
(* map have two priorities each.                                                *)
EXTENDS Threads, TLC
CONSTANTS c, d
Tables == (1 :> 4)
Prios  == <<1, 0>> :> 1 @@ <<1, 1>> :> 1 @@ <<1, 2>> :> 2 @@ <<1, 3>> :> 3
\* One creator; two that want the last object; two, and nothing is started.
Some ==
    { [crew |-> {c}, taken |-> {}, starts |-> TRUE],
      [crew |-> {c, d}, taken |-> {<<1, i>> : i \in 0 .. 2}, starts |-> TRUE],
      [crew |-> {c, d}, taken |-> {<<1, i>> : i \in 0 .. 1}, starts |-> FALSE] }
=============================================================================
