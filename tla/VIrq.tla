--------------------------------- MODULE VIrq ---------------------------------
(***************************************************************************)
(* Virtual interrupts: a device interrupt is recorded for the thread that       *)
(* attached it and handled by that thread's service function (core/irq.c,      *)
(* vcpuOccurIrq and vcpuDoPendIsr of core/vcpu.c, core/virq/_vIrq.c), on the     *)
(* processor where the thread runs (MX_IPI_IRQ of core/sched/_SmpIpi.c).        *)
(*                                                                         *)
(* Physical interrupts are off from an interrupt to its end.  The service       *)
(* functions are external: they return and leave the thread's interrupt flag as  *)
(* it was.  Which thread runs where is the scheduler's business (MatrixSched).   *)
(***************************************************************************)
EXTENDS Naturals, FiniteSets

CONSTANTS CPU,
          VCPU,        \* the threads that handle interrupts
          None,        \* no thread; on a processor: one without interrupts
          Tick,        \* MX_CFG_TICK_VEC: every processor gets it, it is never masked
          Devices,     \* the other vectors
          Raises,      \* bound: how often a device interrupts at most
          Boards       \* the circumstances a behaviour may have

Vec == {Tick} \cup Devices
Board ==
    [ cpus : SUBSET CPU,       \* the processors that are up
      vcpus : SUBSET VCPU,     \* the threads that are scheduled
      torn : BOOLEAN,          \* a pending word is read and written in two steps
      restarts : BOOLEAN,      \* partitions are restarted
      raises : 0 .. Raises ]   \* how often a device interrupts
ASSUME VIrqAssumption ==
    /\ IsFiniteSet(VCPU) /\ IsFiniteSet(CPU) /\ Vec \subseteq Nat
    /\ None \notin VCPU \cup CPU \cup Vec
    /\ Tick \notin Devices /\ Raises \in Nat
    /\ Boards \subseteq Board

VARIABLES
    mode,      \* the circumstances, chosen once
    pend,      \* VCPU_uiIrqPend
    disInt,    \* VCPU_STAT_DIS_INT
    hasIsr,    \* VCPU_pfuncIsr is set
    vecMap,    \* _G_pvcpuVecMap
    tickAt,    \* _G_pvcpuTickAt
    masked,    \* the vectors that are masked in the interrupt controller
    cur,       \* CPU_pvcpuCur
    ipi, int,  \* MX_IPI_IRQ in CPU_ulIpiPend; an interrupt from another processor
    at,        \* where a processor is in irqIsr
    vec, who,  \* the vector it has there, and the thread it has it for
    slot,      \* the place in tickAt that it looks at next
    doing,     \* the vector that it handles in vcpuDoPendIsr
    word,      \* the pending word it has read
    dst,       \* the processor it is about to interrupt
    owed,      \* what was made pending for a thread and not handled since
    left,      \* how often a device will still interrupt
    due,       \* the threads that the tick on a processor is still to be recorded for
    gone,      \* who was taken off the tick's list and did not attach it since
    twice      \* a thread that was on the list attached the tick again (these five
               \* are not in the code)
thread == <<disInt, hasIsr, vecMap, tickAt>>
cpu    == <<at, vec, who, slot, doing, word, dst>>
hist   == <<due, gone, twice>>
still  == <<left, mode, hist>>   \* what only a few steps change
vars   == <<pend, thread, masked, cur, ipi, int, cpu, owed, still>>

Slots == 0 .. Cardinality(VCPU) - 1
Listens(v) == \E i \in Slots : tickAt[i] = v

\* The threads that irqIsr finds on the list before the first free place
Front == {tickAt[i] : i \in {k \in Slots : \A j \in 0 .. k : tickAt[j] # None}}

TypeOK ==
    /\ mode \in Boards
    /\ pend \in [VCPU -> SUBSET Vec] /\ owed \in [VCPU -> SUBSET Vec]
    /\ disInt \in [VCPU -> BOOLEAN] /\ hasIsr \in [VCPU -> BOOLEAN]
    /\ vecMap \in [Devices -> VCPU \cup {None}] /\ tickAt \in [Slots -> VCPU \cup {None}]
    /\ masked \subseteq Devices /\ cur \in [CPU -> VCPU \cup {None}]
    /\ ipi \in [CPU -> BOOLEAN] /\ int \in [CPU -> BOOLEAN]
    /\ at \in [CPU -> {"out", "slot", "set", "write", "test", "ipi", "mask", "pend",
                       "handle", "clear", "enable"}]
    /\ vec \in [CPU -> Vec \cup {None}] /\ who \in [CPU -> VCPU \cup {None}]
    /\ slot \in [CPU -> 0 .. Cardinality(VCPU)] /\ doing \in [CPU -> Vec \cup {None}]
    /\ word \in [CPU -> SUBSET Vec] /\ dst \in [CPU -> CPU \cup {None}]
    /\ left \in [Devices -> 0 .. Raises]
    /\ due \in [CPU -> SUBSET VCPU] /\ gone \in SUBSET VCPU /\ twice \in BOOLEAN

Init ==
    /\ mode \in Boards
    /\ pend = [v \in VCPU |-> {}] /\ owed = [v \in VCPU |-> {}]
    /\ disInt = [v \in VCPU |-> TRUE] /\ hasIsr = [v \in VCPU |-> FALSE]
    /\ vecMap = [d \in Devices |-> None] /\ tickAt = [i \in Slots |-> None]
    /\ masked = {} /\ cur = [c \in CPU |-> None]
    /\ ipi = [c \in CPU |-> FALSE] /\ int = [c \in CPU |-> FALSE]
    /\ at = [c \in CPU |-> "out"] /\ vec = [c \in CPU |-> None] /\ who = [c \in CPU |-> None]
    /\ slot = [c \in CPU |-> 0] /\ doing = [c \in CPU |-> None]
    /\ word = [c \in CPU |-> {}] /\ dst = [c \in CPU |-> None]
    /\ left = [d \in Devices |-> mode.raises]
    /\ due = [c \in CPU |-> {}] /\ gone = {} /\ twice = FALSE

Set(f, c, x) == [f EXCEPT ![c] = x]
Go(c, from, to) == at[c] = from /\ at' = Set(at, c, to)
-----------------------------------------------------------------------------
(* What a thread does outside interrupts: system calls of its own. *)
Runs(c, v) == at[c] = "out" /\ cur[c] = v /\ v # None

\* irqRegister
Register(v) ==
    /\ ~hasIsr[v] /\ hasIsr' = Set(hasIsr, v, TRUE)
    /\ UNCHANGED <<pend, disInt, vecMap, tickAt, masked, cur, ipi, int, cpu, owed, still>>

\* irqAttach: a vector has one thread, the tick a list of them.
AttachVec(v, d) ==
    /\ vecMap' = Set(vecMap, d, v)
    /\ UNCHANGED <<pend, disInt, hasIsr, tickAt, masked, cur, ipi, int, cpu, owed, still>>
\* Mutant: the search goes on to the last place.
Places(v)         == {i \in Slots : tickAt[i] \in {v, None}}
IsPlaceLast(v, i) == i \in Places(v) /\ \A j \in Places(v) : j <= i
IsPlace(v, i)     == i \in Places(v) /\ \A j \in Places(v) : i <= j
AttachTick(v) ==
    /\ \E i \in Slots :
        /\ IsPlace(v, i) /\ tickAt' = Set(tickAt, i, v)
        /\ twice' = (twice \/ (Listens(v) /\ tickAt[i] # v))
    /\ gone' = gone \ {v}
    /\ UNCHANGED <<pend, disInt, hasIsr, vecMap, masked, cur, ipi, int, cpu, owed, left, mode, due>>

\* irqDisAttach, when prtnRestart restarts its partition
Restart(v) ==
    /\ mode.restarts
    /\ vecMap' = [d \in Devices |-> IF vecMap[d] = v THEN None ELSE vecMap[d]]
    /\ tickAt' = [i \in Slots |-> IF tickAt[i] = v THEN None ELSE tickAt[i]]
    /\ IF Listens(v) THEN gone' = gone \cup {v} /\ due' = [c \in CPU |-> {}]
                     ELSE UNCHANGED <<gone, due>>
    /\ UNCHANGED <<pend, disInt, hasIsr, masked, cur, ipi, int, cpu, owed, left, mode, twice>>

\* vcpuDisableInt, vcpuEnableInt
DisableInt(v) ==
    /\ ~disInt[v] /\ disInt' = Set(disInt, v, TRUE)
    /\ UNCHANGED <<pend, hasIsr, vecMap, tickAt, masked, cur, ipi, int, cpu, owed, still>>
EnableInt(v) ==
    /\ disInt[v] /\ disInt' = Set(disInt, v, FALSE)
    /\ UNCHANGED <<pend, hasIsr, vecMap, tickAt, masked, cur, ipi, int, cpu, owed, still>>

\* The scheduler puts another thread on the processor ...
Switch(c, v) ==
    /\ at[c] = "out" /\ cur[c] # v
    /\ (v = None \/ \A d \in CPU : cur[d] # v)
    /\ cur' = Set(cur, c, v)
    /\ UNCHANGED <<pend, thread, masked, ipi, int, cpu, owed, still>>
\* ... or interrupts it from another one.
SchedIpi(c) ==
    /\ Cardinality(mode.cpus) > 1 /\ ~int[c] /\ int' = Set(int, c, TRUE)
    /\ UNCHANGED <<pend, thread, masked, cur, ipi, cpu, owed, still>>
-----------------------------------------------------------------------------
\* irqIsr.  A device interrupts where it is not masked, for the thread it has.
Device(c, d) ==
    /\ at[c] = "out" /\ d \notin masked /\ left[d] > 0
    /\ left' = [left EXCEPT ![d] = @ - 1]
    /\ IF vecMap[d] = None
         THEN UNCHANGED <<at, vec, who>>
         ELSE /\ at' = Set(at, c, "set") /\ vec' = Set(vec, c, d)
              /\ who' = Set(who, c, vecMap[d])
    /\ UNCHANGED <<pend, thread, masked, cur, ipi, int, slot, doing, word, dst, owed, mode, hist>>

\* The tick is for the threads of the list, up to the first free place.
TickIrq(c) ==
    /\ Go(c, "out", "slot") /\ vec' = Set(vec, c, Tick) /\ slot' = Set(slot, c, 0)
    /\ due' = Set(due, c, Front)
    /\ UNCHANGED <<pend, thread, masked, cur, ipi, int, who, doing, word, dst, owed, left, mode,
                   gone, twice>>
\* Mutant: the last place is left out.
ListedShort(c) == slot[c] + 1 \in Slots /\ tickAt[slot[c]] # None
Listed(c)      == slot[c] \in Slots /\ tickAt[slot[c]] # None
TickNext(c) ==
    LET v == tickAt[slot[c]]
    IN  /\ Go(c, "slot", "set") /\ Listed(c) /\ who' = Set(who, c, v)
        /\ slot' = [slot EXCEPT ![c] = @ + 1]
        /\ UNCHANGED <<pend, thread, masked, cur, ipi, int, vec, doing, word, dst, owed, still>>
TickEnd(c) ==
    /\ Go(c, "slot", "out") /\ ~Listed(c) /\ vec' = Set(vec, c, None)
    /\ UNCHANGED <<pend, thread, masked, cur, ipi, int, who, slot, doing, word, dst, owed, still>>

\* The end of vcpuOccurIrq and of _SmpIpiProc
Done(c) ==
    /\ at'  = Set(at, c, IF vec[c] = Tick THEN "slot" ELSE "out")
    /\ vec' = Set(vec, c, IF vec[c] = Tick THEN Tick ELSE None)
    /\ who' = Set(who, c, None)

\* vcpuOccurIrq: _vIrqPendSet, a read and a write ...
Owe(c) ==
    /\ owed' = [owed EXCEPT ![who[c]] = @ \cup {vec[c]}]
    /\ due' = IF vec[c] = Tick THEN [due EXCEPT ![c] = @ \ {who[c]}] ELSE due
PendSet(c) ==
    /\ IF mode.torn
         THEN /\ Go(c, "set", "write") /\ word' = Set(word, c, pend[who[c]])
              /\ UNCHANGED <<pend, owed, due>>
         ELSE /\ Go(c, "set", "test") /\ pend' = [pend EXCEPT ![who[c]] = @ \cup {vec[c]}]
              /\ Owe(c) /\ UNCHANGED word
    /\ UNCHANGED <<thread, masked, cur, ipi, int, vec, who, slot, doing, dst, left, mode, gone, twice>>
PendWrite(c) ==
    /\ Go(c, "write", "test") /\ pend' = Set(pend, who[c], word[c] \cup {vec[c]})
    /\ word' = Set(word, c, {}) /\ Owe(c)
    /\ UNCHANGED <<thread, masked, cur, ipi, int, vec, who, slot, doing, dst, left, mode, gone, twice>>

\* ... then what is done about it.
Enabled(v) == ~disInt[v]
TestOwn(c) ==
    /\ Go(c, "test", "pend") /\ Enabled(who[c]) /\ cur[c] = who[c]
    /\ UNCHANGED <<pend, thread, masked, cur, ipi, int, vec, who, slot, doing, word, dst, owed, still>>
TestOther(c) ==
    /\ Go(c, "test", "ipi") /\ Enabled(who[c]) /\ cur[c] # who[c]
    /\ \E d \in CPU : cur[d] = who[c] /\ dst' = Set(dst, c, d)
    /\ UNCHANGED <<pend, thread, masked, cur, ipi, int, vec, who, slot, doing, word, owed, still>>
TestNone(c) ==
    /\ at[c] = "test" /\ Enabled(who[c]) /\ (\A d \in CPU : cur[d] # who[c]) /\ Done(c)
    /\ UNCHANGED <<pend, thread, masked, cur, ipi, int, slot, doing, word, dst, owed, still>>
TestOff(c) ==
    /\ Go(c, "test", "mask") /\ ~Enabled(who[c])
    /\ UNCHANGED <<pend, thread, masked, cur, ipi, int, vec, who, slot, doing, word, dst, owed, still>>

\* _SmpIpiSend of MX_IPI_IRQ
Ipi(c) ==
    /\ at[c] = "ipi" /\ Done(c) /\ dst' = Set(dst, c, None)
    /\ ipi' = Set(ipi, dst[c], TRUE) /\ int' = Set(int, dst[c], TRUE)
    /\ UNCHANGED <<pend, thread, masked, cur, slot, doing, word, owed, still>>

\* irqDisable leaves the tick alone.
NowMasked(c) == masked \cup ({vec[c]} \cap Devices)
Mask(c) ==
    /\ at[c] = "mask" /\ Done(c) /\ masked' = NowMasked(c)
    /\ UNCHANGED <<pend, thread, cur, ipi, int, slot, doing, word, dst, owed, still>>

\* _SmpIpiProc.  MX_IPI_IRQ stays set.
IpiProc(c) ==
    /\ at[c] = "out" /\ int[c] /\ int' = Set(int, c, FALSE)
    /\ at' = IF ipi[c] /\ cur[c] # None THEN Set(at, c, "pend") ELSE at
    /\ UNCHANGED <<pend, thread, masked, cur, ipi, vec, who, slot, doing, word, dst, owed, still>>
-----------------------------------------------------------------------------
\* vcpuDoPendIsr of the current thread: the service function for the lowest pending
\* vector.
HasWork(c) == hasIsr[cur[c]] /\ pend[cur[c]] # {}
Handle(c) ==
    LET v == cur[c]
        x == CHOOSE x \in pend[v] : \A y \in pend[v] : x <= y
    IN  /\ at[c] = "pend" /\ HasWork(c) /\ at' = Set(at, c, "handle")
        /\ doing' = Set(doing, c, x) /\ owed' = [owed EXCEPT ![v] = @ \ {x}]
        /\ UNCHANGED <<pend, thread, masked, cur, ipi, int, vec, who, slot, word, dst, still>>

\* _vIrqPendClr.  Mutant: the vector that occurred is cleared.
HandledVec(c) == IF vec[c] = None THEN doing[c] ELSE vec[c]
Handled(c)    == doing[c]
PendClr(c) ==
    /\ IF mode.torn
         THEN /\ Go(c, "handle", "clear") /\ word' = Set(word, c, pend[cur[c]]) /\ UNCHANGED pend
         ELSE /\ Go(c, "handle", "enable")
              /\ pend' = [pend EXCEPT ![cur[c]] = @ \ {Handled(c)}] /\ UNCHANGED word
    /\ UNCHANGED <<thread, masked, cur, ipi, int, vec, who, slot, doing, dst, owed, still>>
ClearWrite(c) ==
    /\ Go(c, "clear", "enable") /\ pend' = Set(pend, cur[c], word[c] \ {Handled(c)})
    /\ word' = Set(word, c, {})
    /\ UNCHANGED <<thread, masked, cur, ipi, int, vec, who, slot, doing, dst, owed, still>>
\* irqEnable
Unmasked(c) == masked \ {doing[c]}
IrqEnable(c) ==
    /\ Go(c, "enable", "pend") /\ masked' = Unmasked(c) /\ doing' = Set(doing, c, None)
    /\ UNCHANGED <<pend, thread, cur, ipi, int, vec, who, slot, word, dst, owed, still>>
PendDone(c) ==
    /\ at[c] = "pend" /\ ~HasWork(c) /\ Done(c)
    /\ UNCHANGED <<pend, thread, masked, cur, ipi, int, slot, doing, word, dst, owed, still>>
-----------------------------------------------------------------------------
Syscall(c) ==
    \E v \in VCPU :
        /\ Runs(c, v)
        /\ \/ Register(v) \/ AttachTick(v) \/ Restart(v) \/ DisableInt(v) \/ EnableInt(v)
           \/ \E d \in Devices : AttachVec(v, d)
Sched(c) == SchedIpi(c) \/ \E v \in mode.vcpus \cup {None} : Switch(c, v)
Isr(c) ==
    \/ TickNext(c) \/ TickEnd(c) \/ PendSet(c) \/ PendWrite(c)
    \/ TestOwn(c) \/ TestOther(c) \/ TestNone(c) \/ TestOff(c) \/ Ipi(c) \/ Mask(c)
    \/ Handle(c) \/ PendClr(c) \/ ClearWrite(c) \/ IrqEnable(c) \/ PendDone(c)
Next == \E c \in mode.cpus :
    Syscall(c) \/ Sched(c) \/ (\E d \in Devices : Device(c, d)) \/ TickIrq(c) \/ IpiProc(c) \/ Isr(c)
Spec == Init /\ [][Next]_vars

\* An interrupt is processed to its end, and every processor gets ticks.
Ticked(c) == c \in mode.cpus /\ TickIrq(c)
FairSpec  == Spec /\ \A c \in CPU : WF_vars(Isr(c)) /\ SF_vars(Ticked(c))
-----------------------------------------------------------------------------
(* The properties, each under the circumstances that it asks for.               *)
Alone == Cardinality(mode.cpus) = 1

\* What was made pending and was not handled since is still pending, as long as nothing
\* can become pending while it is handled.
NoneLost == Alone => \A v \in VCPU : owed[v] \subseteq pend[v]

\* What is pending was made so since it was last handled, or is being handled, if the
\* word is written in one step.
NothingTwice ==
    Alone \/ ~mode.torn => \A v \in VCPU : \A x \in pend[v] :
        x \in owed[v] \/ \E c \in CPU : cur[c] = v /\ doing[c] = x

\* A service function runs only while its thread has interrupts on, and a vector is
\* masked only as long as it is pending: what handles it unmasks it.
Unmaskable ==
    Alone =>
        /\ \A c \in CPU : at[c] = "handle" => ~disInt[cur[c]]
        /\ \A d \in masked : \/ \E v \in VCPU : d \in pend[v]
                             \/ \E c \in CPU : doing[c] = d

\* Each interrupt of a thread is handled once, with the thread's leave, and no vector is
\* left masked by it.
HandledOnce == TypeOK /\ NoneLost /\ NothingTwice /\ Unmaskable

\* The tick is recorded for every thread that it found before a free place of the list,
\* whatever other processors attach meanwhile, if none is taken off.  And the list has
\* a free place before a thread (irqIsr stops there, irq.c:184-191) only as long as
\* a thread that a restart took off has not attached the tick again, and no thread twice,
\* unless one attached the tick again while it was on the list.
TickReaches ==
    /\ \A c \in CPU : at[c] = "out" => due[c] = {}
    /\ ~twice => \A i, j \in Slots :
        tickAt[i] # None /\ j < i =>
            tickAt[j] # tickAt[i] /\ (gone = {} => tickAt[j] # None)

\* A thread that has interrupts on, is on the tick's list before any free place and runs
\* on and on does not keep an interrupt pending.
Ready(v) == hasIsr[v] /\ ~disInt[v] /\ \E c \in CPU : cur[c] = v
DeliveredByTick ==
    \A v \in VCPU : \A d \in Devices :
        ~<>[](d \in pend[v] /\ Ready(v) /\ v \in Front)
=============================================================================
