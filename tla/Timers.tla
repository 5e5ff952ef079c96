------------------------------- MODULE Timers -------------------------------
(***************************************************************************)
(* What the wakeup list promises: each sleeper has a number of ticks left,  *)
(* a tick takes one from every sleeper, and a sleeper with none left goes   *)
(* before the tick ends, unless its IPC is busy at that moment.             *)
(***************************************************************************)
EXTENDS Integers

CONSTANTS
    Node,      \* the threads that can sleep
    Ipc,       \* those that sleep in an IPC
    Delay,     \* the delays they may ask for
    NoTicks    \* the value of left for a thread that is not waiting

VARIABLES left, ticking
vars == <<left, ticking>>

Init ==
    /\ left    = [v \in Node |-> NoTicks]
    /\ ticking = FALSE

Set(v, d) ==
    /\ ~ticking /\ left[v] = NoTicks
    /\ left' = [left EXCEPT ![v] = d]
    /\ UNCHANGED ticking

Cancel(v) ==
    /\ ~ticking /\ left[v] # NoTicks
    /\ left' = [left EXCEPT ![v] = NoTicks]
    /\ UNCHANGED ticking

Tick ==
    /\ ~ticking /\ ticking' = TRUE
    /\ left' = [v \in Node |-> IF left[v] \in {NoTicks, 0} THEN left[v] ELSE left[v] - 1]

Expire(v) ==
    /\ ticking /\ left[v] = 0
    /\ left' = [left EXCEPT ![v] = NoTicks]
    /\ UNCHANGED ticking

TickDone ==
    /\ ticking /\ ticking' = FALSE
    /\ \A v \in Node \ Ipc : left[v] # 0
    /\ UNCHANGED left

Next ==
    \/ Tick \/ TickDone
    \/ \E v \in Node : Cancel(v) \/ Expire(v) \/ \E d \in Delay : Set(v, d)
Spec == Init /\ [][Next]_vars
=============================================================================
