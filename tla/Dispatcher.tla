------------------------------ MODULE Dispatcher ------------------------------
(****************************************************************************)
(* What the scheduler promises, without its tables, locks and interrupts:    *)
(* a processor that takes a thread takes a most urgent one among those that  *)
(* are ready and may run there, a thread gives way only to one at least as   *)
(* urgent, and a thread is on at most one processor.                         *)
(****************************************************************************)
EXTENDS Naturals

CONSTANTS NCpu, VCPU, NoVcpu, Prio, Affinity

VARIABLES
    stage,     \* how far each thread is: "new", "ready", "running", "blocked"
    on         \* the thread each processor is given to, or NoVcpu

vars == <<stage, on>>

CPU == 0 .. NCpu - 1

MayRun(v, c) == Affinity[v] \in {c, NCpu}
Waiting(c)   == {v \in VCPU : stage[v] = "ready" /\ MayRun(v, c)}
Best(c)      == {v \in Waiting(c) : \A w \in Waiting(c) : Prio[v] <= Prio[w]}

Init ==
    /\ stage = [v \in VCPU |-> "new"]
    /\ on    = [c \in CPU |-> NoVcpu]

\* A new or a blocked thread becomes ready; it does not run at once.
Release(v) ==
    /\ stage[v] \in {"new", "blocked"}
    /\ stage' = [stage EXCEPT ![v] = "ready"]
    /\ UNCHANGED on

\* A processor without a thread takes one.
Take(c, w) ==
    /\ on[c] = NoVcpu
    /\ w \in Best(c)
    /\ on'    = [on EXCEPT ![c] = w]
    /\ stage' = [stage EXCEPT ![w] = "running"]

\* A running thread blocks and its processor takes the next one.
Block(c, w) ==
    /\ on[c] \in VCPU
    /\ w \in Best(c)
    /\ on'    = [on EXCEPT ![c] = w]
    /\ stage' = [stage EXCEPT ![on[c]] = "blocked", ![w] = "running"]

\* A running thread gives way.
Switch(c, w) ==
    /\ on[c] \in VCPU
    /\ w \in Best(c)
    /\ Prio[w] <= Prio[on[c]]
    /\ on'    = [on EXCEPT ![c] = w]
    /\ stage' = [stage EXCEPT ![on[c]] = "ready", ![w] = "running"]

Next ==
    \/ \E v \in VCPU : Release(v)
    \/ \E c \in CPU, w \in VCPU : Take(c, w) \/ Block(c, w) \/ Switch(c, w)

Spec == Init /\ [][Next]_vars
=============================================================================
