------------------------------- MODULE Handover -------------------------------
(****************************************************************************)
(* The context switch, instruction by instruction where another processor    *)
(* can see the difference: schedule(), archVcpuCtxSwitch, schedSwap and the  *)
(* kernel lock.  The lock is released before the new context is loaded, so    *)
(* a thread may be switched to while the processor that switches from it is  *)
(* still on its stack (OneStack is violated).  What such a processor finds   *)
(* on that stack is not followed: the module is about the lock counts, and   *)
(* about which threads they are right for all the same.  Which thread is     *)
(* switched to is the business of MatrixSched: here it is any free one.      *)
(****************************************************************************)
EXTENDS Naturals, FiniteSets

CONSTANTS
    CPU,       \* the processors
    VCPU,      \* the threads
    NoCpu, NoVcpu,
    Boot,      \* the thread each processor starts with
    Wrap       \* lock counts are unsigned numbers below Wrap

ASSUME NullAssumption == NoCpu \notin CPU /\ NoVcpu \notin VCPU
ASSUME BootAssumption ==
    /\ Boot \in [CPU -> VCPU]
    /\ \A c, d \in CPU : Boot[c] = Boot[d] => c = d
ASSUME CpuAssumption  == IsFiniteSet(CPU)
ASSUME WrapAssumption == Wrap \in Nat /\ Wrap > Cardinality(CPU) + 1

VARIABLES
    cur,       \* CPU_pvcpuCur
    left,      \* the thread whose stack a processor that switches is still on
    klock,     \* the owner of the kernel lock
    slock,     \* the thread that holds another spin lock
    lockCnt,   \* VCPU_ulLockCounter
    reg,       \* the count a processor has read and not yet written back
    saved,     \* the thread's context is saved
    pc,
    torn       \* not in the code: the threads whose count two processors
               \* changed at the same time, so that a change was lost

vars == <<cur, left, klock, slock, lockCnt, reg, saved, pc, torn>>

NoValue == Wrap
Adds    == {"count", "recount", "spincount"}
Takes   == {"uncount", "spinuncount", "handover"}

\* run: outside the kernel;  count, decide: entering it, in schedule();
\* handover, load: in kernelUnlockSched, in the rest of archVcpuCtxSwitch;
\* relock, recount, leave: in schedule() after the switch back;
\* uncount: in __unlockKernelAndEnIrq or kernelUnlockIgnIrq
PcValue == {"run", "decide", "load", "relock", "leave"} \cup Adds \cup Takes

Init ==
    /\ cur     = Boot
    /\ left    = [c \in CPU |-> NoVcpu]
    /\ klock   = NoCpu
    /\ slock   = NoVcpu
    /\ lockCnt = [v \in VCPU |-> 0]
    /\ reg     = [c \in CPU |-> NoValue]
    /\ saved   = [v \in VCPU |-> FALSE]
    /\ pc      = [c \in CPU |-> "run"]
    /\ torn    = {}

Go(c, from, to) == pc[c] = from /\ pc' = [pc EXCEPT ![c] = to]

\* Mutant: kernelUnlockSched takes down the count of the thread switched to.
CountedCur(c) == cur[c]
\* VCPU_ulLockCounter++ and -- are a read and a write, of the running
\* thread's count but for kernelUnlockSched.
Counted(c) == IF pc[c] = "handover" THEN left[c] ELSE cur[c]
After == [p \in Adds \cup Takes |->
            CASE p = "count"    -> "decide"
              [] p = "recount"  -> "leave"
              [] p = "handover" -> "load"
              [] OTHER          -> "run"]

Up(n)   == IF n = Wrap - 1 THEN 0 ELSE n + 1
Down(n) == IF n = 0 THEN Wrap - 1 ELSE n - 1

ReadCount(c) ==
    /\ pc[c] \in Adds \cup Takes
    /\ reg[c] = NoValue
    /\ reg' = [reg EXCEPT ![c] = lockCnt[Counted(c)]]
    /\ UNCHANGED <<cur, left, klock, slock, lockCnt, saved, pc, torn>>

\* Another processor has read the count that processor c writes.
Collides(c) ==
    \E d \in CPU \ {c} : reg[d] # NoValue /\ Counted(d) = Counted(c)

WriteCount(c) ==
    /\ reg[c] # NoValue
    /\ lockCnt' = [lockCnt EXCEPT ![Counted(c)] =
                      IF pc[c] \in Adds THEN Up(reg[c]) ELSE Down(reg[c])]
    /\ reg' = [reg EXCEPT ![c] = NoValue]
    /\ pc'  = [pc EXCEPT ![c] = After[pc[c]]]
    /\ torn' = IF Collides(c) THEN torn \cup {Counted(c)} ELSE torn
    /\ UNCHANGED <<cur, left, klock, slock, saved>>

\* kernelEnterAndDisIrq, or kernelLockIgnIrq in irqExit
Enter(c) ==
    /\ klock  = NoCpu
    /\ klock' = c
    /\ Go(c, "run", "count")
    /\ UNCHANGED <<cur, left, slock, lockCnt, reg, saved, torn>>

MayLeave(v) == lockCnt[v] <= 1
\* A candidate is on no processor; a stack it may still be on is not asked.
Free(v) == \A c \in CPU : cur[c] # v

\* schedule() switches: the context is saved, CPU_pvcpuCur is set and
\* kernelUnlockSched releases the lock.
Switch(c, v) ==
    /\ MayLeave(cur[c])
    /\ Free(v)
    /\ Go(c, "decide", "handover")
    /\ saved' = [saved EXCEPT ![cur[c]] = TRUE]
    /\ left'  = [left EXCEPT ![c] = cur[c]]
    /\ cur'   = [cur EXCEPT ![c] = v]
    /\ klock' = NoCpu
    /\ UNCHANGED <<slock, lockCnt, reg, torn>>

\* archVcpuCtxSwitch loads the new context and with it the new stack.  A
\* thread that was switched from before is inside schedule() there.
Load(c) ==
    /\ Go(c, "load", IF saved[cur[c]] THEN "relock" ELSE "run")
    /\ left' = [left EXCEPT ![c] = NoVcpu]
    /\ UNCHANGED <<cur, klock, slock, lockCnt, reg, saved, torn>>

Relock(c) ==
    /\ klock  = NoCpu
    /\ klock' = c
    /\ Go(c, "relock", "recount")
    /\ UNCHANGED <<cur, left, slock, lockCnt, reg, saved, torn>>

\* Mutant: after a switch the count is not taken down.
UnlockKeeps(c) ==
    /\ Go(c, "decide", "uncount") \/ Go(c, "leave", "run")
    /\ klock' = NoCpu
    /\ UNCHANGED <<cur, left, slock, lockCnt, reg, saved, torn>>
\* schedule() did not switch, or came back from a switch: unlock.
Unlock(c) ==
    /\ Go(c, "decide", "uncount") \/ Go(c, "leave", "uncount")
    /\ klock' = NoCpu
    /\ UNCHANGED <<cur, left, slock, lockCnt, reg, saved, torn>>

SpinLock(c) ==
    /\ slock  = NoVcpu
    /\ slock' = cur[c]
    /\ Go(c, "run", "spincount")
    /\ UNCHANGED <<cur, left, klock, lockCnt, reg, saved, torn>>

SpinUnlock(c) ==
    /\ slock  = cur[c]
    /\ slock' = NoVcpu
    /\ Go(c, "run", "spinuncount")
    /\ UNCHANGED <<cur, left, klock, lockCnt, reg, saved, torn>>

Step(c) ==
    \/ ReadCount(c) \/ WriteCount(c)
    \/ Enter(c) \/ Load(c) \/ Relock(c) \/ Unlock(c)
    \/ SpinLock(c) \/ SpinUnlock(c)
    \/ \E v \in VCPU : Switch(c, v)

Next == \E c \in CPU : Step(c)
Spec == Init /\ [][Next]_vars
----------------------------------------------------------------------------
TypeOK ==
    /\ cur     \in [CPU -> VCPU]
    /\ left    \in [CPU -> VCPU \cup {NoVcpu}]
    /\ klock   \in CPU \cup {NoCpu}
    /\ slock   \in VCPU \cup {NoVcpu}
    /\ lockCnt \in [VCPU -> 0 .. Wrap - 1]
    /\ reg     \in [CPU -> 0 .. Wrap]
    /\ saved   \in [VCPU -> BOOLEAN]
    /\ pc      \in [CPU -> PcValue]
    /\ torn    \in SUBSET VCPU

\* The processors on which the kernel lock is counted for thread v, and
\* whether the spin lock is.
Counting(v) ==
    {c \in CPU : \/ cur[c] = v /\ pc[c] \in {"decide", "leave", "uncount"}
                 \/ left[c] = v /\ pc[c] = "handover"}
SpinCounted(v) ==
    \/ slock = v /\ \A c \in CPU : cur[c] = v => pc[c] # "spincount"
    \/ \E c \in CPU : cur[c] = v /\ pc[c] = "spinuncount"

\* VCPU_ulLockCounter counts the locks of its thread, also while the kernel
\* lock changes hands in kernelUnlockSched and kernelLockIgnIrq and while
\* processors that left the thread have not taken its count down.
CountRight ==
    \A v \in VCPU \ torn :
        lockCnt[v] = Cardinality(Counting(v)) + (IF SpinCounted(v) THEN 1 ELSE 0)

\* _CandTable.c:206-209: outside interrupts and the kernel, schedule() refuses
\* a switch only to a thread that holds another spin lock, unless a processor
\* that switched from the thread has still to take its count down.
Leaving(v) == \E c \in CPU : pc[c] = "handover" /\ left[c] = v
SwitchAllowed ==
    \A c \in CPU :
        /\ pc[c] = "decide" /\ slock # cur[c]
        /\ cur[c] \notin torn /\ ~Leaving(cur[c])
        => MayLeave(cur[c])

\* kernel.c:165: kernelUnlockSched is for after the switch.  Two processors
\* are never on one kernel stack.
Stack(c) == IF left[c] # NoVcpu THEN left[c] ELSE cur[c]
OneStack == \A c, d \in CPU : Stack(c) = Stack(d) => c = d

\* k_vcpu.h:63: a thread that holds a spin lock keeps its processor, also when
\* another processor is still leaving it, as long as no change of its count
\* was lost.
HolderStays ==
    [][\A c \in CPU : slock = cur[c] /\ cur[c] \notin torn => cur'[c] = cur[c]]_vars
----------------------------------------------------------------------------
(* The inductive invariant. *)

\* A thread runs on one processor, which is leaving another thread.
Apart ==
    \A c, d \in CPU : (cur[c] = cur[d] => c = d) /\ left[c] # cur[c]

PhaseAt(c) ==
    /\ klock = c <=> pc[c] \in {"count", "decide", "recount", "leave"}
    /\ left[c] # NoVcpu <=> pc[c] \in {"handover", "load"}
    /\ pc[c] = "spincount" => slock = cur[c]
    /\ pc[c] = "spinuncount" => slock # cur[c]
    /\ pc[c] \in {"relock", "recount", "leave", "handover", "load"}
          => slock # cur[c] \/ slock \in torn
    /\ reg[c] # NoValue => /\ pc[c] \in Adds \cup Takes
                           /\ reg[c] = lockCnt[Counted(c)] \/ Counted(c) \in torn
PhaseOK == \A c \in CPU : PhaseAt(c)

HolderRuns ==
    slock \notin torn \cup {NoVcpu} => \E c \in CPU : cur[c] = slock

IInv == TypeOK /\ Apart /\ PhaseOK /\ HolderRuns /\ CountRight
=============================================================================
