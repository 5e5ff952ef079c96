------------------------------ MODULE MatrixSched ------------------------------
(****************************************************************************)
(* The SMP scheduler of the matrix microkernel: the ready tables, the        *)
(* candidate table, the kernel spin lock, the thread operations that block   *)
(* and wake, the clock tick and the scheduling inter-processor interrupt.    *)
(*                                                                          *)
(* A smaller priority number is a higher priority.  One step is one stretch  *)
(* of code no other processor can see the middle of: a body that runs under  *)
(* the kernel lock with interrupts off, or a single unprotected access.      *)
(****************************************************************************)
EXTENDS Rings

CONSTANTS
    NCpu,         \* _K_ulNCpus, the number of processors
    VCPU,         \* the threads (vCPUs) that are ever created, idle ones included
    NoVcpu,       \* the null thread pointer
    PrioLowest,   \* MX_PRIO_LOWEST
    Prio,         \* VCPU_uiPriority of each thread, fixed at creation
    Affinity,     \* the processor a thread is bound to, or NCpu: unbound
    IdleOf,       \* the idle thread of each processor
    Mains,        \* the partition main threads prtnInit starts
    Slice,        \* VCPU_usSchedSlice
    Delays,       \* the tick counts threads sleep for
    Ops,          \* the calls threads make in this instance
    StrayWakeup   \* TRUE: a thread may wake one that is not suspended

CPU     == 0 .. NCpu - 1
NoCpu   == NCpu
TickCpu == 0                       \* the processor the tick vector is routed to
PRIO    == 0 .. PrioLowest
Global  == NCpu                    \* the global ready table; table c is local
Table   == 0 .. NCpu
Idles   == {IdleOf[c] : c \in CPU}
Boot    == Mains \cup Idles        \* the threads started before any CPU runs
AllOps  == {"sleep", "suspend", "wakeup", "yield", "start", "spin"}

ASSUME CpuAssumption  == NCpu \in Nat \ {0}
ASSUME VcpuAssumption == NoVcpu \notin VCPU /\ Mains \subseteq VCPU
ASSUME PrioAssumption == PrioLowest \in Nat /\ Prio \in [VCPU -> PRIO]
ASSUME AffinityAssumption == Affinity \in [VCPU -> Table]
\* schedInit gives every processor an idle thread of its own, bound to it
ASSUME IdleAssumption ==
    /\ IdleOf \in [CPU -> VCPU \ Mains]
    /\ \A c \in CPU : Affinity[IdleOf[c]] = c
ASSUME SliceAssumption == Slice \in Nat \ {0} /\ Delays \subseteq Nat
ASSUME OpsAssumption   == Ops \subseteq AllOps /\ StrayWakeup \in BOOLEAN

VARIABLES
    status,    \* VCPU_uiStatus: the flags that are set; {} is STATUS_READY
    ring,      \* RDYP_pringReadyHeader per table and priority, header first
    cand,      \* MX_CAND_VCPU: the thread each processor should run
    rot,       \* MX_CAND_ROT: a better thread may be in the ready tables
    cur,       \* CPU_pvcpuCur: the thread each processor runs
    counter,   \* VCPU_usSchedCounter: ticks left of the time slice
    cpuRun,    \* VCPU_ulCpuIdRun: where the thread was last a candidate
    wakeq,     \* the threads on the wakeup list _K_wuDelay
    left,      \* ticks until a thread on the wakeup list expires
    due,       \* expired threads the running _WakeupTick has not reached
    klock,     \* the processor that owns the kernel lock, or NoCpu
    lockCnt,   \* VCPU_ulLockCounter: spin locks held in the thread's name
    slock,     \* the thread that holds the (one) other spin lock, or NoVcpu
    ipi,       \* the MX_IPI_SCHED bit of CPU_ulIpiPend
    hw,        \* an inter-processor interrupt is raised and not yet taken
    pc,        \* where each processor is
    saved,     \* the thread's context was saved inside schedule()
    target,    \* the thread a caller of vcpuWakeup is about to wake
    resched    \* spinUnlockAndEnIrq decided to call kernelSched

tables == <<ring, cand, rot, counter, cpuRun>>
timers == <<wakeq, left, due>>
locks  == <<klock, lockCnt, slock>>
ipis   == <<ipi, hw>>
conts  == <<saved, target, resched>>
vars   == <<status, tables, cur, timers, locks, ipis, pc, conts>>

\* off, boot: before archVcpuCtxStart;  run: in the thread, interrupts on;
\* kernel: the body of a call is done, the lock held, CPU_iKernelCounter 1;
\* relock: a thread switched to spins for the lock;  ipi, tickirq, tick,
\* irqexit: in an interrupt handler, CPU_ulInterNesting 1
PcValue == {"off", "boot", "run", "kernel", "relock",
            "ipi", "tickirq", "tick", "irqexit"}

Active(c)  == pc[c] # "off"
Running(c) == pc[c] = "run"
----------------------------------------------------------------------------
(* The ready tables. *)

Key(v)       == <<Affinity[v], Prio[v]>>
InRing(v)    == v \in Members(ring[Key(v)])
Bitmap(r, t) == {p \in PRIO : r[<<t, p>>] # <<>>}
Highest(P)   == CHOOSE p \in P : \A q \in P : p <= q
HasReady(c)   == Bitmap(ring, c) \cup Bitmap(ring, Global) # {}

\* Mutant: the local table always comes first.
BestKeyLocalFirst(c) ==
    IF Bitmap(ring, c) # {} THEN <<c, Highest(Bitmap(ring, c))>>
                            ELSE <<Global, Highest(Bitmap(ring, Global))>>

\* The table and priority processor c takes its next thread from.
BestKey(c) ==
    LET local  == Bitmap(ring, c)
        global == Bitmap(ring, Global)
    IN  IF /\ local # {}
           /\ global = {} \/ Highest(local) <= Highest(global)
        THEN <<c, Highest(local)>>
        ELSE <<Global, Highest(global)>>
BestPrio(c) == BestKey(c)[2]

\* A thread enters its ring at the header.
AddReady(r, v) == [r EXCEPT ![Key(v)] = AddAhead(@, v)]
\* A header whose slice is used up is refilled and goes to the end of the ring.
Sought(s) == IF counter[Head(s)] = 0 THEN Rotated(s) ELSE s
Refilled(v) == [counter EXCEPT ![v] = IF @ = 0 THEN Slice ELSE @]
----------------------------------------------------------------------------
(* The candidate table. *)

\* Mutant: the thread taken is left in its ring.
FillKeeps(c, r, k) ==
    LET s == Sought(r[k])
    IN  /\ cand'    = [cand EXCEPT ![c] = s[1]]
        /\ cpuRun'  = [cpuRun EXCEPT ![s[1]] = c]
        /\ ring'    = [r EXCEPT ![k] = s]
        /\ counter' = Refilled(Head(r[k]))

\* Processor c takes the thread the rings r offer under key k.
Fill(c, r, k) ==
    LET s == Sought(r[k])
    IN  /\ cand'    = [cand EXCEPT ![c] = s[1]]
        /\ cpuRun'  = [cpuRun EXCEPT ![s[1]] = c]
        /\ ring'    = [r EXCEPT ![k] = Tail(s)]
        /\ counter' = Refilled(Head(r[k]))

\* Mutant: a candidate without slice gives way to any thread.
NeedFlushUsedUp(c) == counter[cand[c]] = 0 \/ BestPrio(c) < Prio[cand[c]]
\* The candidate of processor c gives way to the best thread in the rings.
NeedFlush(c) ==
    \/ counter[cand[c]] = 0 /\ BestPrio(c) <= Prio[cand[c]]
    \/ BestPrio(c) < Prio[cand[c]]

CandTableUpdate(c) ==
    /\ rot' = [rot EXCEPT ![c] = FALSE]
    /\ IF cand[c] = NoVcpu
       THEN Fill(c, ring, BestKey(c))
       ELSE IF HasReady(c) /\ NeedFlush(c)
            THEN Fill(c, AddReady(ring, cand[c]), BestKey(c))
            ELSE UNCHANGED <<ring, cand, counter, cpuRun>>

\* Mutant: the thread that blocks goes back into its ring.
CandTableTryDelReadies(v) ==
    LET c == cpuRun[v]
    IN  /\ cand[c] = v
        /\ Fill(c, AddReady(ring, v), BestKey(c))
        /\ rot' = [rot EXCEPT ![c] = FALSE]

\* The running thread v stops being ready.
CandTableTryDel(v) ==
    LET c == cpuRun[v]
    IN  IF cand[c] = v
        THEN /\ Fill(c, ring, BestKey(c))
             /\ rot' = [rot EXCEPT ![c] = FALSE]
        ELSE /\ ring' = IF InRing(v)
                        THEN [ring EXCEPT ![Key(v)] = Without(@, v)] ELSE ring
             /\ UNCHANGED <<cand, rot, counter, cpuRun>>

\* Mutant: only bound threads mark a processor.
PreemptsBound(v, c) == Active(c) /\ Affinity[v] = c /\ Prio[v] < Prio[cand[c]]
\* Thread v became ready: mark the processors it should preempt, queue it.
Preempts(v, c) == /\ Active(c)
                  /\ Affinity[v] \in {c, NCpu}
                  /\ Prio[v] < Prio[cand[c]]
MakeReady(v) ==
    /\ rot'  = [c \in CPU |-> rot[c] \/ Preempts(v, c)]
    /\ ring' = AddReady(ring, v)
    /\ UNCHANGED <<cand, counter, cpuRun>>
----------------------------------------------------------------------------
(* Notification of other processors, and schedule() itself. *)

\* Active processors other than c with a rotation no interrupt announces yet.
ToNotify(c, r) == {d \in CPU \ {c} : Active(d) /\ r[d] /\ ~ipi[d]}
\* The one whose candidate is least urgent; none if that candidate has
\* priority 0, the value the search starts from.
LowCandCpu(c, r) ==
    {d \in ToNotify(c, r) :
        /\ Prio[cand[d]] > 0
        /\ \A e \in ToNotify(c, r) :
              \/ Prio[cand[e]] < Prio[cand[d]]
              \/ Prio[cand[e]] = Prio[cand[d]] /\ d <= e}
\* Mutant: the bit is set and no interrupt is sent.
IpiLowCandCpuSilent(c, r) ==
    /\ ipi' = [d \in CPU |-> ipi[d] \/ d \in LowCandCpu(c, r)]
    /\ hw'  = hw
\* Set its bit and interrupt it.
IpiLowCandCpu(c, r) ==
    /\ ipi' = [d \in CPU |-> ipi[d] \/ d \in LowCandCpu(c, r)]
    /\ hw'  = [d \in CPU |-> hw[d] \/ d \in LowCandCpu(c, r)]

LockKernel(c) ==
    /\ klock   = NoCpu
    /\ klock'  = c
    /\ lockCnt' = [lockCnt EXCEPT ![cur[c]] = @ + 1]

\* A thread with n locks to its name may be switched out: the kernel lock alone.
\* Mutants: always; or only without any lock, which is never.
MaySwitchAlways(n) == TRUE
MaySwitchNever(n)  == n < 1
MaySwitch(n)       == n <= 1

\* The kernel lock is given up in the name of the thread switched from.
\* Mutant: in the name of the thread switched to.
UncountNew(c, holds) == [holds EXCEPT ![cur'[c]] = @ - 1]
Uncount(c, holds)    == [holds EXCEPT ![cur[c]] = @ - 1]

\* schedule() and the unlocking after it, on a processor that is in no
\* interrupt and has left the kernel; holds(v) locks are held for thread v.
ScheduleAndUnlock(c, holds) ==
    LET old  == cur[c]
        next == IF MaySwitch(holds[old]) THEN cand'[c] ELSE old
    IN  /\ IF MaySwitch(holds[old]) /\ rot[c]
           THEN CandTableUpdate(c) ELSE UNCHANGED tables
        /\ cur'     = [cur EXCEPT ![c] = next]
        /\ klock'   = NoCpu
        /\ lockCnt' = Uncount(c, holds)
        /\ IF next # old
           THEN /\ saved' = [saved EXCEPT ![old] = TRUE]
                /\ pc' = [pc EXCEPT ![c] = IF saved[next] THEN "relock" ELSE "run"]
                /\ UNCHANGED ipis
           ELSE /\ IpiLowCandCpu(c, rot')
                /\ pc' = [pc EXCEPT ![c] = "run"]
                /\ UNCHANGED saved
----------------------------------------------------------------------------
(* Boot: the main threads and the idle threads are made ready, then every    *)
(* processor in turn takes its first candidate; all wait for the last one.   *)

Started(v) == "INIT" \notin status[v]

\* vcpuStart, which takes no kernel lock and marks no processor.
StartBody(v) ==
    /\ "INIT" \in status[v]
    /\ status' = [status EXCEPT ![v] = @ \ {"INIT"}]
    /\ ring'   = IF status'[v] = {} THEN AddReady(ring, v) ELSE ring

BootStart(v) ==
    /\ v \in Boot
    /\ \A c \in CPU : ~Active(c)
    /\ v \in Idles =>
         /\ \A m \in Mains : Started(m)
         /\ \A c \in CPU : v = IdleOf[c] => \A d \in 0 .. c - 1 : Started(IdleOf[d])
    /\ StartBody(v)
    /\ UNCHANGED <<cand, rot, counter, cpuRun, cur, timers, locks, ipis, pc, conts>>

ActiveCpu(c) ==
    /\ pc[c] = "off"
    /\ \A v \in Boot : Started(v)
    /\ \A d \in 0 .. c - 1 : Active(d)
    /\ CandTableUpdate(c)
    /\ cur' = [cur EXCEPT ![c] = cand'[c]]
    /\ pc'  = [pc EXCEPT ![c] = "boot"]
    /\ UNCHANGED <<status, timers, locks, ipis, conts>>

\* archVcpuCtxStart, once bspCpuUpDone has seen every processor.
CtxStart(c) ==
    /\ pc[c] = "boot"
    /\ \A d \in CPU : Active(d)
    /\ pc' = [pc EXCEPT ![c] = "run"]
    /\ UNCHANGED <<status, tables, cur, timers, locks, ipis, conts>>
----------------------------------------------------------------------------
(* Calls of the running thread. *)

\* The thread of processor c is free to make call op.
Calls(c, op) ==
    /\ op \in Ops
    /\ Running(c)
    /\ cur[c] \notin Idles
    /\ target[cur[c]] = NoVcpu
    /\ ~resched[cur[c]]

\* kernelEnterAndDisIrq
KernelEnter(c) ==
    /\ Running(c)
    /\ LockKernel(c)
    /\ pc' = [pc EXCEPT ![c] = "kernel"]
    /\ UNCHANGED slock

Sleep(c, ticks) ==
    /\ Calls(c, "sleep")
    /\ slock # cur[c]
    /\ KernelEnter(c)
    /\ CandTableTryDel(cur[c])
    /\ status' = [status EXCEPT ![cur[c]] = @ \cup {"DELAY"}]
    /\ wakeq'  = wakeq \cup {cur[c]}
    /\ left'   = [left EXCEPT ![cur[c]] = ticks]
    /\ UNCHANGED <<due, cur, ipis, conts>>

Suspend(c) ==
    /\ Calls(c, "suspend")
    /\ slock # cur[c]
    /\ KernelEnter(c)
    /\ CandTableTryDel(cur[c])
    /\ status' = [status EXCEPT ![cur[c]] = @ \cup {"SUSPEND"}]
    /\ UNCHANGED <<timers, cur, ipis, conts>>

Yield(c) ==
    /\ Calls(c, "yield")
    /\ KernelEnter(c)
    /\ LET v == cur[c]
           d == cpuRun[v]
       IN  IF cur[d] = v /\ HasReady(d) /\ BestPrio(d) <= Prio[v]
           THEN /\ counter' = [counter EXCEPT ![v] = 0]
                /\ rot'     = [rot EXCEPT ![d] = TRUE]
           ELSE UNCHANGED <<counter, rot>>
    /\ UNCHANGED <<status, ring, cand, cpuRun, timers, cur, ipis, conts>>

\* __scVcpuWakeup has looked the thread up and calls vcpuWakeup.  Unless
\* StrayWakeup, a thread is woken only out of a suspension, and by one caller.
CallWakeup(c, t) ==
    /\ Calls(c, "wakeup")
    /\ \/ StrayWakeup
       \/ "SUSPEND" \in status[t] /\ \A v \in VCPU : target[v] # t
    /\ target' = [target EXCEPT ![cur[c]] = t]
    /\ UNCHANGED <<status, tables, cur, timers, locks, ipis, pc, saved, resched>>

\* _WakeupDel
Unlisted(v) == wakeq \ {v}

\* What vcpuWakeup does to thread t under the kernel lock.
WakeupBody(t) ==
    LET flags == status[t] \ {"SUSPEND", "DELAY"}
    IN  /\ status' = [status EXCEPT ![t] = flags]
        /\ wakeq'  = Unlisted(t)
        /\ left'   = [left EXCEPT ![t] = 0]
        /\ IF flags = {} THEN MakeReady(t) ELSE UNCHANGED tables

Wakeup(c) ==
    /\ KernelEnter(c)
    /\ target[cur[c]] # NoVcpu
    /\ WakeupBody(target[cur[c]])
    /\ target' = [target EXCEPT ![cur[c]] = NoVcpu]
    /\ UNCHANGED <<due, cur, ipis, saved, resched>>

Start(c, t) ==
    /\ Calls(c, "start")
    /\ t \notin Boot
    /\ StartBody(t)
    /\ UNCHANGED <<cand, rot, counter, cpuRun, cur, timers, locks, ipis, pc, conts>>

\* spinLock / spinUnlock on a lock other than the kernel lock.
SpinLock(c) ==
    /\ Calls(c, "spin")
    /\ slock   = NoVcpu
    /\ slock'  = cur[c]
    /\ lockCnt' = [lockCnt EXCEPT ![cur[c]] = @ + 1]
    /\ UNCHANGED <<status, tables, cur, timers, klock, ipis, pc, conts>>

SpinUnlock(c) ==
    /\ Calls(c, "spin")
    /\ slock   = cur[c]
    /\ slock'  = NoVcpu
    /\ lockCnt' = [lockCnt EXCEPT ![cur[c]] = @ - 1]
    /\ resched' = [resched EXCEPT ![cur[c]] = lockCnt[cur[c]] = 1 /\ rot[c]]
    /\ UNCHANGED <<status, tables, cur, timers, klock, ipis, pc, saved, target>>

\* kernelSched: inside the kernel its schedule() can only notify; the
\* switch, if any, happens when the kernel is left.
KernelSched(c) ==
    /\ KernelEnter(c)
    /\ resched[cur[c]]
    /\ IpiLowCandCpu(c, rot)
    /\ resched' = [resched EXCEPT ![cur[c]] = FALSE]
    /\ UNCHANGED <<status, tables, timers, cur, saved, target>>

\* kernelExitAndEnIrq at the end of a call.
KernelExit(c) ==
    /\ pc[c] = "kernel"
    /\ ScheduleAndUnlock(c, lockCnt)
    /\ UNCHANGED <<status, timers, slock, target, resched>>

\* A thread that was switched out comes back from archVcpuCtxSwitch, takes
\* the kernel lock, and gives it up again on its way out of the kernel.
Relock(c) ==
    /\ pc[c] = "relock"
    /\ klock = NoCpu
    /\ pc' = [pc EXCEPT ![c] = "run"]
    /\ UNCHANGED <<status, tables, cur, timers, locks, ipis, conts>>
----------------------------------------------------------------------------
(* Interrupts. *)

Enter(c, handler) ==
    /\ Running(c)
    /\ pc' = [pc EXCEPT ![c] = handler]

Ipi(c) ==
    /\ Enter(c, "ipi")
    /\ hw[c]
    /\ hw' = [hw EXCEPT ![c] = FALSE]
    /\ UNCHANGED <<status, tables, cur, timers, locks, ipi, conts>>

\* Mutant: the pending bit is not cleared.
SmpIpiProcKeeps(c) ==
    /\ pc[c] = "ipi"
    /\ pc'  = [pc EXCEPT ![c] = "irqexit"]
    /\ UNCHANGED <<status, tables, cur, timers, locks, ipis, conts>>
SmpIpiProc(c) ==
    /\ pc[c] = "ipi"
    /\ ipi' = [ipi EXCEPT ![c] = FALSE]
    /\ pc'  = [pc EXCEPT ![c] = "irqexit"]
    /\ UNCHANGED <<status, tables, cur, timers, locks, hw, conts>>

TickIrq(c) ==
    /\ c = TickCpu
    /\ Enter(c, "tickirq")
    /\ UNCHANGED <<status, tables, cur, timers, locks, ipis, conts>>

\* One tick off a count.  Mutant: off zero too.
CountedDownFree(n) == n - 1
CountedDown(n)     == IF n > 0 THEN n - 1 ELSE n

\* The sleeper expires in this tick; a delay of 0 is one of 1.
\* Mutant: a delay of 0 never does.
ExpiresAtOne(v) == left[v] = 1
Expires(v)      == left[v] <= 1

\* schedTick enters the kernel; _WakeupTick counts every sleeper down.
TickBegin(c) ==
    /\ pc[c] = "tickirq"
    /\ LockKernel(c)
    /\ pc'   = [pc EXCEPT ![c] = "tick"]
    /\ due'  = {v \in wakeq : Expires(v)}
    /\ left' = [v \in VCPU |-> IF v \in wakeq THEN CountedDown(left[v]) ELSE left[v]]
    /\ UNCHANGED <<status, tables, cur, wakeq, slock, ipis, conts>>

\* _WakeupTick wakes an expired thread.
TickExpire(c, v) ==
    /\ pc[c] = "tick"
    /\ v \in due
    /\ due'    = due \ {v}
    /\ wakeq'  = Unlisted(v)
    /\ status' = [status EXCEPT ![v] = @ \ {"DELAY"}]
    /\ IF status'[v] = {} THEN MakeReady(v) ELSE UNCHANGED tables
    /\ UNCHANGED <<cur, left, locks, ipis, pc, conts>>

\* The rest of schedTick: charge every running thread, mark for rotation the
\* processors whose thread has no slice left, leave the kernel, unlock.
TickSlice(c) ==
    LET runs(v)   == \E d \in CPU : Active(d) /\ cur[d] = v
        rotate(d) == /\ Active(d)
                     /\ counter[cur[d]] = 0
                     /\ HasReady(d) /\ BestPrio(d) <= Prio[cur[d]]
    IN  /\ pc[c] = "tick"
        /\ due = {}
        /\ rot' = [d \in CPU |-> rot[d] \/ rotate(d)]
        /\ counter' = [v \in VCPU |-> IF runs(v) THEN CountedDown(counter[v])
                                               ELSE counter[v]]
        /\ IpiLowCandCpu(c, rot')
        /\ klock'   = NoCpu
        /\ lockCnt' = [lockCnt EXCEPT ![cur[c]] = @ - 1]
        /\ pc'      = [pc EXCEPT ![c] = "irqexit"]
        /\ UNCHANGED <<status, ring, cand, cpuRun, cur, timers, slock, conts>>

\* irqExit: back at level 0, take the kernel lock, schedule, unlock.
IrqExit(c) ==
    /\ pc[c] = "irqexit"
    /\ klock = NoCpu
    /\ ScheduleAndUnlock(c, [lockCnt EXCEPT ![cur[c]] = @ + 1])
    /\ UNCHANGED <<status, timers, slock, target, resched>>
----------------------------------------------------------------------------
Init ==
    /\ status  = [v \in VCPU |-> {"INIT"}]
    /\ ring    = [k \in Table \X PRIO |-> <<>>]
    /\ cand    = [c \in CPU |-> NoVcpu]
    /\ rot     = [c \in CPU |-> FALSE]
    /\ cur     = [c \in CPU |-> NoVcpu]
    /\ counter = [v \in VCPU |-> Slice]
    /\ cpuRun  = [v \in VCPU |-> 0]
    /\ wakeq   = {}
    /\ left    = [v \in VCPU |-> 0]
    /\ due     = {}
    /\ klock   = NoCpu
    /\ lockCnt = [v \in VCPU |-> 0]
    /\ slock   = NoVcpu
    /\ ipi     = [c \in CPU |-> FALSE]
    /\ hw      = [c \in CPU |-> FALSE]
    /\ pc      = [c \in CPU |-> "off"]
    /\ saved   = [v \in VCPU |-> FALSE]
    /\ target  = [v \in VCPU |-> NoVcpu]
    /\ resched = [v \in VCPU |-> FALSE]

Call(c) ==
    \/ \E d \in Delays : Sleep(c, d)
    \/ Suspend(c)
    \/ Yield(c)
    \/ \E t \in VCPU : CallWakeup(c, t) \/ Start(c, t)
    \/ SpinLock(c)
    \/ SpinUnlock(c)

\* What a processor does without its thread deciding anything.
Kernel(c) ==
    \/ Wakeup(c)
    \/ KernelSched(c)
    \/ KernelExit(c)
    \/ Relock(c)
    \/ SmpIpiProc(c)
    \/ TickBegin(c)
    \/ \E v \in VCPU : TickExpire(c, v)
    \/ TickSlice(c)
    \/ IrqExit(c)

Next ==
    \/ \E v \in VCPU : BootStart(v)
    \/ \E c \in CPU : ActiveCpu(c) \/ CtxStart(c)
    \/ \E c \in CPU : Call(c) \/ Kernel(c) \/ Ipi(c) \/ TickIrq(c)

Spec == Init /\ [][Next]_vars
----------------------------------------------------------------------------
Flag == {"INIT", "DELAY", "SUSPEND"}

TypeOK ==
    /\ status  \in [VCPU -> SUBSET Flag]
    /\ ring    \in [Table \X PRIO -> Seq(VCPU)]
    /\ cand    \in [CPU -> VCPU \cup {NoVcpu}]
    /\ rot     \in [CPU -> BOOLEAN]
    /\ cur     \in [CPU -> VCPU \cup {NoVcpu}]
    /\ counter \in [VCPU -> 0 .. Slice]
    /\ cpuRun  \in [VCPU -> CPU]
    /\ wakeq   \subseteq VCPU
    /\ left    \in [VCPU -> Nat]
    /\ due     \subseteq VCPU
    /\ klock   \in CPU \cup {NoCpu}
    /\ lockCnt \in [VCPU -> Nat]
    /\ slock   \in VCPU \cup {NoVcpu}
    /\ ipi     \in [CPU -> BOOLEAN]
    /\ hw      \in [CPU -> BOOLEAN]
    /\ pc      \in [CPU -> PcValue]
    /\ saved   \in [VCPU -> BOOLEAN]
    /\ target  \in [VCPU -> VCPU \cup {NoVcpu}]
    /\ resched \in [VCPU -> BOOLEAN]

----------------------------------------------------------------------------
(* Safety. *)

IsCand(v) == \E c \in CPU : cand[c] = v

\* A ready ring holds only threads of its table and priority, each once, that
\* are ready and are nobody's candidate (_ReadyTableAdd, _ReadyTableDel).
RingsReady ==
    \A k \in Table \X PRIO :
        /\ Distinct(ring[k])
        /\ \A v \in Members(ring[k]) : Key(v) = k /\ status[v] = {} /\ ~IsCand(v)

\* A thread is in the scheduler's tables exactly when it is ready, and then in
\* one place: it is one processor's candidate or it waits in its ring.
OnePlace ==
    /\ RingsReady
    /\ \A v \in VCPU : status[v] = {} => IsCand(v) \/ InRing(v)
    /\ \A c \in CPU : cand[c] # NoVcpu =>
          /\ status[cand[c]] = {}
          /\ \A d \in CPU : cand[d] = cand[c] => c = d

\* No two processors ever run one thread, on its one kernel stack
\* (schedSwap, the order of context save and kernelUnlockSched).
OneCpu ==
    \A c, d \in CPU : cur[c] = cur[d] /\ cur[c] # NoVcpu => c = d

\* An active processor has a candidate, and its idle thread stays at hand, so
\* neither _CandTableTryDel nor _CandTableUpdate meets empty ready tables.
IdleAtHand ==
    \A c \in CPU : Active(c) => /\ cand[c] # NoVcpu
                                /\ cand[c] = IdleOf[c] \/ InRing(IdleOf[c])

\* Outside the kernel every processor runs its candidate: nobody leaves the
\* kernel with a switch still owed (kernelExitAndEnIrq, schedule).
RunsCandidate ==
    \A c \in CPU : Active(c) /\ cur[c] # cand[c] => pc[c] = "kernel" /\ klock = c

\* VCPU_ulLockCounter counts the locks held for the thread, although the
\* kernel lock is taken by one thread and given up by another (schedSwap).
LockAccounting ==
    \A v \in VCPU :
        lockCnt[v] = (IF \E c \in CPU : klock = c /\ cur[c] = v THEN 1 ELSE 0)
                     + (IF slock = v THEN 1 ELSE 0)

\* A pending scheduling interrupt is on its way or at its handler, so
\* __schedIpiLowCandCpu may rely on the pend bit instead of sending again.
IpiNotLost == \A c \in CPU : ipi[c] => hw[c] \/ pc[c] = "ipi"

\* The wakeup list holds the threads that are in a timed sleep.
SleepersListed ==
    \A v \in VCPU : v \in wakeq <=> "DELAY" \in status[v]

\* When no thread but the idle ones is bound and none is started late, a
\* waiting thread that is more urgent than a candidate has marked its CPU.
RotCovers ==
    \A c \in CPU : \A p \in PRIO :
        Active(c) /\ ring[Global, p] # <<>> /\ p < Prio[cand[c]] => rot[c]
----------------------------------------------------------------------------
(* The inductive invariant: what the safety properties above rest on.        *)

\* The rings r, candidates cd, flags st and last processors run fit together.
TablesOK(r, cd, st, run) ==
    /\ \A k \in Table \X PRIO :
          /\ Distinct(r[k])
          /\ \A v \in Members(r[k]) :
                Key(v) = k /\ st[v] = {} /\ \A c \in CPU : cd[c] # v
    /\ \A v \in VCPU :
          st[v] = {} => v \in Members(r[Key(v)]) \/ \E c \in CPU : cd[c] = v
    /\ \A c \in CPU : cd[c] # NoVcpu => /\ st[cd[c]] = {}
                                        /\ run[cd[c]] = c
                                        /\ Affinity[cd[c]] \in {c, NCpu}

\* A processor that still runs a thread other than its candidate is leaving
\* the kernel, and that thread is blocked and holds no other lock.
PhaseOK ==
    \A c \in CPU :
        /\ pc[c] \in {"kernel", "tick"} <=> klock = c
        /\ ~Active(c) => cand[c] = NoVcpu /\ cur[c] = NoVcpu
        /\ Active(c) => cand[c] # NoVcpu /\ cur[c] # NoVcpu
                        /\ \A v \in Boot : Started(v)
        /\ Active(c) /\ cur[c] # cand[c] =>
              /\ pc[c] = "kernel"
              /\ status[cur[c]] # {} /\ Started(cur[c]) /\ slock # cur[c]

\* An idle thread never blocks, a thread that is not started has no other
\* flag, and a caller of vcpuWakeup has a suspended thread of its own.
FlagsOK ==
    /\ \A c \in CPU : status[IdleOf[c]] \subseteq {"INIT"}
    /\ \A v \in VCPU : ~Started(v) => status[v] = {"INIT"}
    /\ \A v \in VCPU : target[v] # NoVcpu =>
          /\ "SUSPEND" \in status[target[v]]
          /\ \A w \in VCPU : target[w] = target[v] => w = v

DueOK == /\ due \subseteq wakeq
         /\ due # {} => \E c \in CPU : pc[c] = "tick"

\* Everything the scheduler keeps in step between two of its steps: tables,
\* candidates, running threads, lock counts, sleepers and pending wakeups.
IInv ==
    /\ TypeOK
    /\ TablesOK(ring, cand, status, cpuRun)
    /\ PhaseOK
    /\ FlagsOK
    /\ SleepersListed
    /\ DueOK
    /\ LockAccounting
----------------------------------------------------------------------------
(* What a step may never do. *)

\* k_vcpu.h:63: a thread that holds a spin lock does not lose its processor.
HolderKeepsCpu ==
    [][\A c \in CPU : slock # NoVcpu /\ slock = cur[c] => cur'[c] = cur[c]]_vars

\* A thread that stays ready loses its processor only to a more urgent one,
\* or to an equal one when its slice is used up (_CandTableUpdate).
FairPreemption ==
    [][\A c \in CPU :
          Active(c) /\ cur'[c] # cur[c] /\ status[cur[c]] = {} =>
              \/ Prio[cur'[c]] < Prio[cur[c]]
              \/ Prio[cur'[c]] = Prio[cur[c]] /\ counter[cur[c]] = 0]_vars
----------------------------------------------------------------------------
(* The scheduler implements Dispatcher: a processor is given to its          *)
(* candidate, also while it still runs the thread it is switching from.      *)

Stage == [v \in VCPU |-> CASE "INIT" \in status[v] -> "new"
                           [] status[v] = {}       -> IF IsCand(v) THEN "running"
                                                                   ELSE "ready"
                           [] OTHER                -> "blocked"]

Abs == INSTANCE Dispatcher WITH stage <- Stage, on <- cand

\* Every step of the ready and candidate tables is a step of Dispatcher:
\* _CandTableUpdate and _CandTableTryDel never pass over a more urgent thread.
Dispatches == Abs!Spec
----------------------------------------------------------------------------
(* Liveness.  A processor finishes the kernel code it is in.  The kernel     *)
(* lock is a test-and-set lock without a queue, and an interrupt waits until *)
(* the thread is out of the kernel: both get strong fairness, the assumption *)
(* that a processor that keeps trying succeeds.  Disjuncts of one formula    *)
(* are never enabled together on one processor.                              *)
BootStep == \/ \E v \in VCPU : BootStart(v)
            \/ \E c \in CPU : ActiveCpu(c) \/ CtxStart(c)
OwnStep(c) == \/ KernelExit(c) \/ SmpIpiProc(c) \/ TickSlice(c)
              \/ \E v \in VCPU : TickExpire(c, v)
LockStep(c) == Relock(c) \/ TickBegin(c) \/ IrqExit(c)

FairKernel ==
    /\ WF_vars(BootStep)
    /\ \A c \in CPU : WF_vars(OwnStep(c)) /\ SF_vars(LockStep(c)) /\ SF_vars(Ipi(c))
    /\ SF_vars(TickIrq(TickCpu))

FairSpec == Spec /\ FairKernel

\* A processor that is told to look for a better thread does look
\* (sched.c:163: the mark exists to rotate threads of equal priority).
RotServed == \A c \in CPU : rot[c] ~> ~rot[c]

\* A timed sleep ends.
SleepEnds == \A v \in VCPU : v \in wakeq ~> v \notin wakeq
=============================================================================
