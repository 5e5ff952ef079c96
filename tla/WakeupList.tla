------------------------------ MODULE WakeupList ------------------------------
(****************************************************************************)
(* The list of sleepers (core/sched/_Wakeup.c): a line of nodes, each with    *)
(* the ticks it waits longer than its left neighbour.  All of it runs under   *)
(* the kernel lock with interrupts off, so one call is in progress at a time: *)
(* job says which, and an action is one turn of its loop.                     *)
(****************************************************************************)
EXTENDS Integers, FiniteSets, FiniteSetsExt

CONSTANTS
    Node,      \* the threads, each with its VCPU_wunDelay
    Ipc,       \* those that sleep in an IPC (IPC_IN_PROCESS)
    Delay,     \* the delays they may ask for
    Nil        \* MX_NULL

ASSUME NodeAssumption  == IsFiniteSet(Node) /\ Ipc \subseteq Node /\ Nil \notin Node
ASSUME DelayAssumption == Delay \subseteq Nat

VARIABLES
    header,    \* WU_plineHeader
    next,      \* LINE_plistNext
    prev,      \* LINE_plistPrev
    cnt,       \* WUN_ulCounter
    inQ,       \* WUN_bInQ
    delayed,   \* the threads with MX_VCPU_STATUS_DELAY
    job        \* the call in progress

vars == <<header, next, prev, cnt, inQ, delayed, job>>

\* node is inserted; at is the node the loop looks at, longer the one before
\* it; ulCounter is what a tick has not yet taken from a node.
NoJob           == [op |-> "none"]
AddJob(v, n, l) == [op |-> "add", node |-> v, at |-> n, longer |-> l]
TickJob(n, t)   == [op |-> "tick", at |-> n, ulCounter |-> t]

Init ==
    /\ header  = Nil
    /\ next    = [v \in Node |-> Nil]
    /\ prev    = [v \in Node |-> Nil]
    /\ cnt     = [v \in Node |-> 0]
    /\ inQ     = [v \in Node |-> FALSE]
    /\ delayed = {}
    /\ job     = NoJob

\* A node is written unless the pointer is null.
At(f, n, x) == IF n = Nil THEN f ELSE [f EXCEPT ![n] = x]

IsIn(v) == header = v \/ next[v] # Nil \/ prev[v] # Nil

\* _List_Line_Add_Ahead, _Add_Left and _Add_Right: v goes between l and r.
Insert(v, l, r) ==
    /\ header' = IF l = Nil THEN v ELSE header
    /\ next'   = At([next EXCEPT ![v] = r], l, v)
    /\ prev'   = At([prev EXCEPT ![v] = l], r, v)
    /\ inQ'    = [inQ EXCEPT ![v] = TRUE]

\* _List_Line_Del.  Mutant: the pointers of the node are not reset.
UnlinkKeeps(v) ==
    /\ header' = IF prev[v] = Nil THEN next[v] ELSE header
    /\ next'   = At(next, prev[v], next[v])
    /\ prev'   = At(prev, next[v], prev[v])
    /\ inQ'    = [inQ EXCEPT ![v] = FALSE]
Unlink(v) ==
    /\ header' = IF prev[v] = Nil THEN next[v] ELSE header
    /\ next'   = [At(next, prev[v], next[v]) EXCEPT ![v] = Nil]
    /\ prev'   = [At(prev, next[v], prev[v]) EXCEPT ![v] = Nil]
    /\ inQ'    = [inQ EXCEPT ![v] = FALSE]

\* _WakeupDel corrects the counter of the right neighbour; c are the counters
\* so far.  Mutant: it does not.
WithoutKept(c, v) == c
Without(c, v)     == At(c, next[v], IF next[v] = Nil THEN 0 ELSE c[next[v]] + c[v])
----------------------------------------------------------------------------
\* vcpuSleep, by the running thread v
AddBegin(v, d) ==
    /\ job = NoJob
    /\ v \notin delayed
    /\ delayed' = delayed \cup {v}
    /\ cnt'     = [cnt EXCEPT ![v] = d]
    /\ job'     = AddJob(v, header, Nil)
    /\ UNCHANGED <<header, next, prev, inQ>>

Longer(v, w) == cnt[v] < cnt[w]

AddPass ==
    /\ job.op = "add" /\ job.at # Nil
    /\ ~Longer(job.node, job.at)
    /\ cnt' = [cnt EXCEPT ![job.node] = @ - cnt[job.at]]
    /\ job' = AddJob(job.node, next[job.at], job.at)
    /\ UNCHANGED <<header, next, prev, inQ, delayed>>

AddHere ==
    /\ job.op = "add" /\ job.at # Nil
    /\ Longer(job.node, job.at)
    /\ Insert(job.node, prev[job.at], job.at)
    /\ cnt' = [cnt EXCEPT ![job.at] = @ - cnt[job.node]]
    /\ job' = NoJob
    /\ UNCHANGED delayed

AddLast ==
    /\ job.op = "add" /\ job.at = Nil
    /\ Insert(job.node, job.longer, Nil)
    /\ job' = NoJob
    /\ UNCHANGED <<cnt, delayed>>

\* vcpuWakeup of a thread that sleeps, or whose IPC timed out
Wakeup(v) ==
    /\ job = NoJob
    /\ v \in delayed
    /\ delayed' = delayed \ {v}
    /\ IF IsIn(v) THEN Unlink(v) /\ cnt' = Without(cnt, v)
                  ELSE UNCHANGED <<header, next, prev, inQ, cnt>>
    /\ UNCHANGED job
----------------------------------------------------------------------------
\* schedTick calls _WakeupTick(1).
TickBegin ==
    /\ job  = NoJob
    /\ job' = TickJob(header, 1)
    /\ UNCHANGED <<header, next, prev, cnt, inQ, delayed>>

TickAt == job.op = "tick" /\ job.at # Nil

Due     == cnt[job.at] <= job.ulCounter
Expired == [cnt EXCEPT ![job.at] = 0]
TickOn  == TickJob(next[job.at], job.ulCounter - cnt[job.at])

\* Mutant: the node that stays keeps its counter.
TickBreakKeeps == TickAt /\ ~Due /\ job' = NoJob
               /\ UNCHANGED <<header, next, prev, cnt, inQ, delayed>>
TickBreak ==
    /\ TickAt /\ ~Due
    /\ cnt' = [cnt EXCEPT ![job.at] = @ - job.ulCounter]
    /\ job' = NoJob
    /\ UNCHANGED <<header, next, prev, inQ, delayed>>

\* Clock mode wakes the thread; IPC mode leaves that to the receiver.
TickExpire ==
    /\ TickAt /\ Due
    /\ Unlink(job.at)
    /\ cnt'     = Without(Expired, job.at)
    /\ delayed' = IF job.at \in Ipc THEN delayed ELSE delayed \ {job.at}
    /\ job'     = TickOn

\* The state of an IPC is locked by another processor: next tick again.
TickSkip ==
    /\ TickAt /\ Due
    /\ job.at \in Ipc
    /\ cnt' = Expired
    /\ job' = TickOn
    /\ UNCHANGED <<header, next, prev, inQ, delayed>>

TickEnd ==
    /\ job.op = "tick" /\ job.at = Nil
    /\ job' = NoJob
    /\ UNCHANGED <<header, next, prev, cnt, inQ, delayed>>

InCall ==
    \/ AddPass \/ AddHere \/ AddLast
    \/ TickBreak \/ TickExpire \/ TickSkip \/ TickEnd

Next ==
    \/ InCall \/ TickBegin
    \/ \E v \in Node : Wakeup(v) \/ \E d \in Delay : AddBegin(v, d)

Spec     == Init /\ [][Next]_vars
FairSpec == Spec /\ WF_vars(InCall) /\ SF_vars(TickBegin)
----------------------------------------------------------------------------
\* The nodes as they follow from the header, Nil after the last.
Place == 0 .. Cardinality(Node)
Walk[i \in Place] ==
    IF i = 0 THEN header
    ELSE IF Walk[i - 1] = Nil THEN Nil ELSE next[Walk[i - 1]]
Linked    == {Walk[i] : i \in Place} \ {Nil}
PlaceOf(v) == CHOOSE i \in Place : Walk[i] = v

\* Ticks from now to the node at place i.
Sum[i \in Place] ==
    (IF Walk[i] = Nil THEN 0 ELSE cnt[Walk[i]]) + (IF i = 0 THEN 0 ELSE Sum[i - 1])

TypeOK ==
    /\ header \in Node \cup {Nil}
    /\ next \in [Node -> Node \cup {Nil}]
    /\ prev \in [Node -> Node \cup {Nil}]
    /\ cnt \in [Node -> Nat]
    /\ inQ \in [Node -> BOOLEAN]
    /\ delayed \subseteq Node

\* The line is sound: no circle, prev goes back where next goes, and the tests
\* of membership, WUN_bInQ and _WakeupIsIn, agree with it.  Between two calls a
\* thread is delayed and on the line, or neither; only an IPC that timed out may be
\* delayed and off the line, until its receiver wakes it.
LineOK ==
    /\ TypeOK
    /\ Walk[Cardinality(Node)] = Nil
    /\ \A v \in Linked : prev[v] = IF v = header THEN Nil ELSE Walk[PlaceOf(v) - 1]
    /\ \A v \in Node : (v \in Linked <=> IsIn(v)) /\ (v \in Linked <=> inQ[v])
    /\ job.op # "add" => Linked \subseteq delayed /\ delayed \ Ipc \subseteq Linked

\* Each thread has the ticks left that it asked for, less those that passed,
\* whatever was inserted and deleted around it.
Left == [v \in Node |->
    IF job.op = "add" /\ job.node = v
      THEN cnt[v] + IF job.longer = Nil THEN 0 ELSE Sum[PlaceOf(job.longer)]
    ELSE IF v \notin Linked THEN -1
    ELSE IF job.op = "tick" /\ job.at # Nil /\ PlaceOf(v) >= PlaceOf(job.at)
      THEN Max({0, Sum[PlaceOf(v)] - job.ulCounter})
    ELSE Sum[PlaceOf(v)]]

Timer == INSTANCE Timers WITH left <- Left, ticking <- job.op = "tick", NoTicks <- -1
KeepsTime == Timer!Spec

\* A sleep outside an IPC ends without anyone waking the thread.
SleepOver == \A v \in Node \ Ipc : v \in delayed ~> v \notin delayed
=============================================================================
