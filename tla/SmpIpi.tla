-------------------------------- MODULE SmpIpi --------------------------------
(***************************************************************************)
(* Calls from one processor to others by interrupt (core/sched/_SmpIpi.c),     *)
(* together with the kernel lock, whose spinners serve such calls              *)
(* (core/kernel.c).                                                            *)
(*                                                                         *)
(* A caller has scheduling locked and one call at a time; its message lies on  *)
(* its stack, so the caller names the message.  The called functions are       *)
(* external: they return, take no kernel lock (as _SmpCallFunc asks) and make  *)
(* no calls.  Interrupts are off in the kernel and in an interrupt.            *)
(***************************************************************************)
EXTENDS Naturals, Sequences, FiniteSets

CONSTANTS CPU,       \* the processors
          Loads,     \* bounds: for the processors that are up, how often each one
                     \* calls and enters the kernel
          None

ASSUME IpiAssumption ==
    /\ CPU \subseteq Nat /\ IsFiniteSet(CPU) /\ None \notin CPU
    /\ \A l \in Loads : DOMAIN l \subseteq CPU /\ l \in [DOMAIN l -> [calls : Nat, locks : Nat]]

VARIABLES
    pc,       \* run; spin: for the kernel lock; add, send: for the target's slIpi,
              \* to call or to ask it to schedule; wait: for the answer; leave
    dst,      \* the target
    todo,     \* the targets that follow
    load,     \* the calls and kernel entries that are left (not in the code)
    klock,    \* the owner of the kernel lock
    ring,     \* CPU_pringMsg, CPU_uiMsgCnt long
    pend,     \* CPU_ulIpiPend
    int,      \* an interrupt is raised
    slIpi,    \* the owner of CPU_slIpi
    iWait,    \* IPIM_iWait of the caller's message
    isr,      \* where the processor is in its interrupt
    proc,     \* where it is in __smpProcMsg
    msg,      \* the message it has there
    left,     \* uiCnt - i
    due       \* the processors that have yet to run the function of a caller
              \* (not in the code)
base  == <<pc, dst, todo, load>>
serve == <<isr, proc, msg, left>>
vars  == <<base, klock, ring, pend, int, slIpi, iWait, serve, due>>

\* The processors that are up, by MX_CPU_IS_ACTIVE
Active == DOMAIN load

TypeOK ==
    /\ pc \in [Active -> {"run", "spin", "add", "send", "wait", "leave"}]
    /\ dst \in [Active -> CPU \cup {None}] /\ todo \in [Active -> SUBSET CPU]
    /\ load \in [Active -> [calls : Nat, locks : Nat]] /\ klock \in Active \cup {None}
    /\ ring \in [Active -> Seq(Active)]
    /\ \A c \in Active : Len(ring[c]) < Cardinality(Active) /\ left[c] <= Len(ring[c]) + 1
    /\ pend \in [Active -> SUBSET {"SCHED", "CALL"}]
    /\ int \in [Active -> BOOLEAN] /\ slIpi \in [Active -> Active \cup {None}]
    /\ iWait \in [Active -> BOOLEAN] /\ isr \in [Active -> {"no", "sched", "call", "exit"}]
    /\ proc \in [Active -> {"no", "lock", "next", "end", "async"}]
    /\ msg \in [Active -> Active \cup {None}] /\ left \in [Active -> Nat]
    /\ due \in [Active -> SUBSET Active]

Init ==
    /\ load \in Loads
    /\ pc = [c \in Active |-> "run"] /\ dst = [c \in Active |-> None]
    /\ todo = [c \in Active |-> {}] /\ klock = None
    /\ ring = [c \in Active |-> <<>>] /\ pend = [c \in Active |-> {}]
    /\ int = [c \in Active |-> FALSE] /\ slIpi = [c \in Active |-> None]
    /\ iWait = [c \in Active |-> FALSE] /\ isr = [c \in Active |-> "no"]
    /\ proc = [c \in Active |-> "no"] /\ msg = [c \in Active |-> None]
    /\ left = [c \in Active |-> 0] /\ due = [c \in Active |-> {}]

\* In its own code, not in an interrupt and not serving a call.
Own(c, at)        == isr[c] = "no" /\ proc[c] = "no" /\ pc[c] = at
Go(c, at)         == pc' = [pc EXCEPT ![c] = at]
-----------------------------------------------------------------------------
\* __disIrqAndLockKernel, __unlockKernelAndEnIrq
Enter(c) ==
    /\ Own(c, "run") /\ klock # c /\ Go(c, "spin")
    /\ load[c].locks > 0 /\ load' = [load EXCEPT ![c].locks = @ - 1]
    /\ UNCHANGED <<dst, todo, klock, ring, pend, int, slIpi, iWait, serve, due>>
Lock(c) ==
    /\ Own(c, "spin") /\ klock = None /\ klock' = c /\ Go(c, "run")
    /\ UNCHANGED <<dst, todo, load, ring, pend, int, slIpi, iWait, serve, due>>
Leave(c) ==
    /\ Own(c, "run") \/ Own(c, "leave")
    /\ klock = c /\ klock' = None /\ Go(c, "run")
    /\ UNCHANGED <<dst, todo, load, ring, pend, int, slIpi, iWait, serve, due>>

\* _SmpIpiSend of MX_IPI_SCHED, from schedule() under the kernel lock
Send(c, d) ==
    /\ Own(c, "run") /\ klock = c /\ d \in Active \ {c} /\ "SCHED" \notin pend[d]
    /\ Go(c, "send") /\ dst' = [dst EXCEPT ![c] = d]
    /\ UNCHANGED <<todo, load, klock, ring, pend, int, slIpi, iWait, serve, due>>
Sent(c) ==
    /\ Own(c, "send") /\ slIpi[dst[c]] = None
    /\ pend' = [pend EXCEPT ![dst[c]] = @ \cup {"SCHED"}]
    /\ int' = [int EXCEPT ![dst[c]] = TRUE]
    /\ Go(c, "leave") /\ dst' = [dst EXCEPT ![c] = None]
    /\ UNCHANGED <<todo, load, klock, ring, slIpi, iWait, serve, due>>
-----------------------------------------------------------------------------
\* _SmpCallFunc and _SmpCallFuncAllOther: a message for one target or all others,
\* in the order of their numbers; without any other processor there is none to call
To(c, targets) ==
    LET d == CHOOSE d \in targets : \A e \in targets : d <= e
    IN  dst' = [dst EXCEPT ![c] = d] /\ todo' = [todo EXCEPT ![c] = targets \ {d}]
Call(c, targets) ==
    /\ Own(c, "run") /\ load[c].calls > 0 /\ targets # {}
    /\ load' = [load EXCEPT ![c].calls = @ - 1]
    /\ To(c, targets) /\ iWait' = [iWait EXCEPT ![c] = TRUE] /\ Go(c, "add")
    /\ due' = [due EXCEPT ![c] = targets \cap Active]
    /\ UNCHANGED <<klock, ring, pend, int, slIpi, serve>>

\* __smpIpiCall puts the message into the ring of the target ...
Add(c) ==
    LET d == dst[c]
    IN  /\ Own(c, "add") /\ d \in Active /\ slIpi[d] = None
        /\ ring' = [ring EXCEPT ![d] = Append(@, c)]
        /\ pend' = [pend EXCEPT ![d] = @ \cup {"CALL"}] /\ int' = [int EXCEPT ![d] = TRUE]
        /\ Go(c, "wait")
        /\ UNCHANGED <<dst, todo, load, klock, slIpi, iWait, serve, due>>

\* ... and waits; __smpIpiCallOther sets it up again for the next target.
\* Mutant: it does not.
NextWaitNot(c) == UNCHANGED iWait
NextWait(c)    == iWait' = [iWait EXCEPT ![c] = TRUE]
Onward(c) ==
    /\ \/ /\ todo[c] = {} /\ Go(c, "run") /\ dst' = [dst EXCEPT ![c] = None]
          /\ UNCHANGED <<todo, iWait>>
       \/ todo[c] # {} /\ Go(c, "add") /\ To(c, todo[c]) /\ NextWait(c)
    /\ UNCHANGED <<load, klock, ring, pend, int, slIpi, serve, due>>
\* Mutant: it does not wait.
ReturnSoon(c) == Own(c, "wait") /\ Onward(c)
Return(c)     == Own(c, "wait") /\ ~iWait[c] /\ Onward(c)

\* A target that is not up is passed over.
Pass(c) == Own(c, "add") /\ dst[c] \notin Active /\ Onward(c)
-----------------------------------------------------------------------------
\* irqIsr and _SmpIpiProc: first MX_IPI_SCHED ...
Interrupt(c) ==
    /\ isr[c] = "no" /\ proc[c] = "no" /\ klock # c /\ pc[c] \in {"run", "spin", "wait"}
    /\ int[c] /\ int' = [int EXCEPT ![c] = FALSE]
    /\ isr' = [isr EXCEPT ![c] = IF "SCHED" \in pend[c] THEN "sched" ELSE "call"]
    /\ UNCHANGED <<base, klock, ring, pend, slIpi, iWait, proc, msg, left, due>>
ClearSched(c) ==
    /\ isr[c] = "sched" /\ slIpi[c] = None
    /\ pend' = [pend EXCEPT ![c] = @ \ {"SCHED"}] /\ isr' = [isr EXCEPT ![c] = "call"]
    /\ UNCHANGED <<base, klock, ring, int, slIpi, iWait, proc, msg, left, due>>
\* ... then MX_IPI_CALL, if it is there ...
NoCalls(c) ==
    /\ isr[c] = "call" /\ proc[c] = "no" /\ "CALL" \notin pend[c]
    /\ isr' = [isr EXCEPT ![c] = "exit"]
    /\ UNCHANGED <<base, klock, ring, pend, int, slIpi, iWait, proc, msg, left, due>>
\* ... and irqExit, which takes the kernel lock and leaves it: scheduling is
\* MatrixSched's.
IrqExit(c) ==
    /\ isr[c] = "exit" /\ proc[c] = "no" /\ klock = None
    /\ isr' = [isr EXCEPT ![c] = "no"]
    /\ UNCHANGED <<base, klock, ring, pend, int, slIpi, iWait, proc, msg, left, due>>

\* Where calls are served: in the interrupt, and while the processor waits for an
\* answer or for the kernel lock.
Serves(c) == isr[c] \in {"call", "exit"} \/ (isr[c] = "no" /\ pc[c] \in {"spin", "wait"})

\* __smpProcMsg.  Mutant: the last message is not counted.
ListedShort(c) == IF ring[c] = <<>> THEN 0 ELSE Len(ring[c]) - 1
Listed(c)      == Len(ring[c])
ProcMsg(c) ==
    /\ Serves(c) /\ proc[c] = "no" /\ "CALL" \in pend[c]
    /\ proc' = [proc EXCEPT ![c] = "lock"]
    /\ UNCHANGED <<base, klock, ring, pend, int, slIpi, iWait, isr, msg, left, due>>
ProcLock(c) ==
    /\ proc[c] = "lock" /\ slIpi[c] = None
    /\ slIpi' = [slIpi EXCEPT ![c] = c] /\ left' = [left EXCEPT ![c] = Listed(c)]
    /\ proc' = [proc EXCEPT ![c] = "next"]
    /\ UNCHANGED <<base, klock, ring, pend, int, iWait, isr, msg, due>>
ProcCall(c) ==
    LET m == Head(ring[c])
    IN  /\ proc[c] = "next" /\ left[c] > 0
        /\ ring' = [ring EXCEPT ![c] = Tail(@)] /\ msg' = [msg EXCEPT ![c] = m]
        /\ due' = [due EXCEPT ![m] = @ \ {c}] /\ proc' = [proc EXCEPT ![c] = "end"]
        /\ UNCHANGED <<base, klock, pend, int, slIpi, iWait, isr, left>>
ProcEnd(c) ==
    /\ proc[c] = "end" /\ iWait' = [iWait EXCEPT ![msg[c]] = FALSE]
    /\ proc' = [proc EXCEPT ![c] = "async"]
    /\ UNCHANGED <<base, klock, ring, pend, int, slIpi, isr, msg, left, due>>
ProcAsync(c) ==
    /\ proc[c] = "async" /\ msg' = [msg EXCEPT ![c] = None]
    /\ left' = [left EXCEPT ![c] = @ - 1] /\ proc' = [proc EXCEPT ![c] = "next"]
    /\ UNCHANGED <<base, klock, ring, pend, int, slIpi, iWait, isr, due>>
ProcDone(c) ==
    /\ proc[c] = "next" /\ left[c] = 0
    /\ pend' = IF ring[c] = <<>> THEN [pend EXCEPT ![c] = @ \ {"CALL"}] ELSE pend
    /\ slIpi' = [slIpi EXCEPT ![c] = None] /\ proc' = [proc EXCEPT ![c] = "no"]
    /\ isr' = IF isr[c] = "call" THEN [isr EXCEPT ![c] = "exit"] ELSE isr
    /\ UNCHANGED <<base, klock, ring, int, iWait, msg, left, due>>
-----------------------------------------------------------------------------
Kernel(c) == Enter(c) \/ Lock(c) \/ Leave(c) \/ (\E d \in Active : Send(c, d)) \/ Sent(c)
Calling(c) ==
    \/ \E d \in CPU \ {c} : Call(c, {d})
    \/ Call(c, CPU \ {c})
    \/ Add(c) \/ Return(c) \/ Pass(c)
Isr(c) == Interrupt(c) \/ ClearSched(c) \/ NoCalls(c) \/ IrqExit(c)
Proc(c) == ProcMsg(c) \/ ProcLock(c) \/ ProcCall(c) \/ ProcEnd(c) \/ ProcAsync(c) \/ ProcDone(c)
Next == \E c \in Active : Kernel(c) \/ Calling(c) \/ Isr(c) \/ Proc(c)
Spec == Init /\ [][Next]_vars

\* A processor takes its steps, an interrupt as soon as interrupts are on, and
\* gets a lock that is free again and again.  Nobody has to call or to enter.
Takes(c) == c \in Active /\ (Lock(c) \/ Sent(c) \/ Add(c) \/ ClearSched(c) \/ IrqExit(c) \/ ProcLock(c))
Steps(c) ==
    /\ c \in Active
    /\ \/ Leave(c) \/ Pass(c) \/ NoCalls(c)
       \/ ProcMsg(c) \/ ProcCall(c) \/ ProcEnd(c) \/ ProcAsync(c) \/ ProcDone(c)
Interrupted(c) == c \in Active /\ Interrupt(c)
Returns(c)     == c \in Active /\ Return(c)
FairSpec ==
    /\ Spec
    /\ \A c \in CPU : /\ WF_vars(Steps(c)) /\ SF_vars(Takes(c))
                      /\ SF_vars(Interrupted(c)) /\ SF_vars(Returns(c))
-----------------------------------------------------------------------------
\* A call returns when every processor it is for has run the function, and not before.
AnsweredByAll ==
    \A c \in Active :
        /\ pc[c] \notin {"add", "wait"} => due[c] = {}
        /\ pc[c] = "add" => due[c] = (todo[c] \cup {dst[c]}) \cap Active
        /\ pc[c] = "wait" /\ ~iWait[c] => due[c] = todo[c] \cap Active

\* A message that is listed or being run is on the stack of a caller that waits for
\* this processor, and is listed once; and what is listed will be seen: the request is
\* marked until it is served.
MessagesLive ==
    /\ TypeOK
    /\ \A c \in Active : \A i \in 1 .. Len(ring[c]) :
          LET m == ring[c][i]
          IN  /\ pc[m] = "wait" /\ iWait[m] /\ dst[m] = c /\ c \in due[m]
              /\ \A j \in 1 .. Len(ring[c]) : ring[c][j] = m => i = j
    /\ \A c \in Active : proc[c] = "end" => pc[msg[c]] = "wait" /\ iWait[msg[c]] /\ dst[msg[c]] = c
    /\ \A c \in Active : ring[c] # <<>> => "CALL" \in pend[c]

\* Calls of each other, under the kernel lock or not, all end.
InCall(c) == c \in Active /\ pc[c] \in {"add", "wait"}
CallsEnd  == \A c \in CPU : InCall(c) ~> ~InCall(c)
=============================================================================
