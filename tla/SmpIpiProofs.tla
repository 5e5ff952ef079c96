----------------------------- MODULE SmpIpiProofs -----------------------------
(****************************************************************************)
(* Calls from one processor to others, for any number of processors and any  *)
(* number of calls: a call returns when all have run its function, and a     *)
(* processor reads no message whose caller is gone.                          *)
(****************************************************************************)
EXTENDS SmpIpi, FiniteSetTheorems, WellFoundedInduction, TLAPS

Place == {"run", "spin", "add", "send", "wait", "leave"}

\* The types of the variables, without the lengths of the rings.
Typed ==
    /\ Active \subseteq CPU
    /\ pc \in [Active -> Place]
    /\ dst \in [Active -> CPU \cup {None}] /\ todo \in [Active -> SUBSET CPU]
    /\ load \in [Active -> [calls : Nat, locks : Nat]] /\ klock \in Active \cup {None}
    /\ ring \in [Active -> Seq(Active)]
    /\ pend \in [Active -> SUBSET {"SCHED", "CALL"}]
    /\ int \in [Active -> BOOLEAN] /\ slIpi \in [Active -> Active \cup {None}]
    /\ iWait \in [Active -> BOOLEAN] /\ isr \in [Active -> {"no", "sched", "call", "exit"}]
    /\ proc \in [Active -> {"no", "lock", "next", "end", "async"}]
    /\ msg \in [Active -> Active \cup {None}] /\ left \in [Active -> Nat]
    /\ due \in [Active -> SUBSET Active]

\* A caller has a target, which is neither itself nor one that follows.
Aiming ==
    \A c \in Active :
        /\ todo[c] \subseteq CPU \ {c}
        /\ pc[c] \in {"add", "wait"} => dst[c] \in CPU \ {c} /\ dst[c] \notin todo[c]
        /\ pc[c] \in {"send", "wait"} => dst[c] \in Active
        /\ pc[c] = "add" => iWait[c]

\* The caller m waits for processor c, which has yet to run its function, or
\* has run it just now.
WaitsFor(m, c) == pc[m] = "wait" /\ iWait[m] /\ dst[m] = c
ToRun(m, c)    == WaitsFor(m, c) /\ due[m] = (todo[m] \cup {c}) \cap Active
HasRun(m, c)   == WaitsFor(m, c) /\ due[m] = todo[m] \cap Active

Waiting ==
    \A c \in Active :
        /\ \A i \in 1 .. Len(ring[c]), m \in Active : ring[c][i] = m => ToRun(m, c)
        /\ \A i, j \in 1 .. Len(ring[c]) : ring[c][i] = ring[c][j] => i = j
        /\ proc[c] = "end" => msg[c] \in Active
        /\ \A m \in Active : proc[c] = "end" /\ msg[c] = m => HasRun(m, c)

\* What __smpProcMsg has still to serve is in the ring.
Serving ==
    \A c \in Active :
        /\ proc[c] \in {"no", "lock"} => left[c] = 0
        /\ proc[c] = "next" => left[c] <= Len(ring[c])
        /\ proc[c] \in {"end", "async"} => left[c] > 0 /\ left[c] <= Len(ring[c]) + 1
        /\ ring[c] # <<>> => "CALL" \in pend[c]

IInv == Typed /\ Aiming /\ AnsweredByAll /\ Waiting /\ Serving
-----------------------------------------------------------------------------
(* The steps keep the types.                                                  *)

\* A set of processor numbers has a least one.
LEMMA LeastCpu ==
  ASSUME NEW P, P \subseteq CPU, P # {}
  PROVE  \E d \in P : \A e \in P : d <= e
<1>0. P \subseteq Nat
  BY IpiAssumption
<1> DEFINE R == {ss \in Nat \X Nat : ss[1] < ss[2]}
<1>1. IsWellFoundedOn(R, Nat)
  BY NatLessThanWellFounded DEF OpToRel
<1> HIDE DEF R
<1>2. PICK x \in P : \A y \in P : ~ (<<y, x>> \in R)
  BY <1>0, <1>1, WFMin
<1>3. \A y \in P : ~(y < x)
  BY <1>0, <1>2 DEF R
<1>4. \A y \in P : x <= y
  BY <1>0, <1>3
<1> QED BY <1>4

\* The next target is one of the targets, and the others follow.
LEMMA ToFacts ==
  ASSUME Typed, NEW c \in Active, NEW P, P \subseteq CPU, P # {}, To(c, P)
  PROVE  \E d \in P : dst' = [dst EXCEPT ![c] = d] /\ todo' = [todo EXCEPT ![c] = P \ {d}]
<1> DEFINE d == CHOOSE d \in P : \A e \in P : d <= e
<1>1. d \in P
  BY LeastCpu
<1>2. dst' = [dst EXCEPT ![c] = d] /\ todo' = [todo EXCEPT ![c] = P \ {d}]
  BY DEF To
<1> QED BY <1>1, <1>2

\* The processors that are up stay up.
LEMMA ActiveSame ==
  ASSUME Typed, [Next]_vars
  PROVE  Active' = Active
<1>1. ASSUME NEW c \in Active, Enter(c) PROVE DOMAIN load' = DOMAIN load
  BY <1>1 DEF Enter
<1>2. ASSUME NEW c \in Active, NEW P, Call(c, P) PROVE DOMAIN load' = DOMAIN load
  BY <1>2 DEF Call
<1>3. ASSUME NEW c \in Active, Onward(c) PROVE load' = load
  BY <1>3 DEF Onward
<1>4. ASSUME NEW c \in Active, Lock(c) \/ Leave(c) \/ (\E d \in Active : Send(c, d)) \/ Sent(c)
      PROVE  load' = load
  BY <1>4 DEF Lock, Leave, Send, Sent
<1>5. ASSUME NEW c \in Active, Add(c) \/ Isr(c) \/ Proc(c)
      PROVE  load' = load
  BY <1>5 DEF Add, Isr, Interrupt, ClearSched, NoCalls, IrqExit, Proc, ProcMsg, ProcLock,
              ProcCall, ProcEnd, ProcAsync, ProcDone, base
<1> QED BY <1>1, <1>2, <1>3, <1>4, <1>5
        DEF Next, Kernel, Calling, Return, Pass, vars, base, Active

\* What moves a caller on, besides the call itself: the next target, if there is one.
LEMMA OnwardIs ==
  ASSUME Typed, NEW c \in Active, Onward(c)
  PROVE  \/ /\ todo[c] = {} /\ pc' = [pc EXCEPT ![c] = "run"] /\ dst' = [dst EXCEPT ![c] = None]
            /\ todo' = todo /\ iWait' = iWait
         \/ /\ pc' = [pc EXCEPT ![c] = "add"] /\ iWait' = [iWait EXCEPT ![c] = TRUE]
            /\ \E d \in todo[c] : /\ dst' = [dst EXCEPT ![c] = d]
                                  /\ todo' = [todo EXCEPT ![c] = todo[c] \ {d}]
<1>1. CASE todo[c] = {}
  BY <1>1 DEF Onward, Go
<1>2. CASE todo[c] # {}
  <2>1. todo[c] \subseteq CPU
    BY DEF Typed
  <2>2. To(c, todo[c]) /\ pc' = [pc EXCEPT ![c] = "add"] /\ iWait' = [iWait EXCEPT ![c] = TRUE]
    BY <1>2 DEF Onward, Go, NextWait
  <2>3. \E d \in todo[c] : /\ dst' = [dst EXCEPT ![c] = d]
                           /\ todo' = [todo EXCEPT ![c] = todo[c] \ {d}]
    BY <1>2, <2>1, <2>2, ToFacts
  <2> QED BY <2>2, <2>3
<1> QED BY <1>1, <1>2

\* The same for the first target of a call.
LEMMA CallIs ==
  ASSUME Typed, NEW c \in Active, NEW P, P \subseteq CPU \ {c}, Call(c, P)
  PROVE  /\ Own(c, "run") /\ load[c].calls > 0 /\ load' = [load EXCEPT ![c].calls = @ - 1]
         /\ pc' = [pc EXCEPT ![c] = "add"] /\ iWait' = [iWait EXCEPT ![c] = TRUE]
         /\ due' = [due EXCEPT ![c] = P \cap Active]
         /\ UNCHANGED <<klock, ring, pend, int, slIpi, serve>>
         /\ \E d \in P : dst' = [dst EXCEPT ![c] = d] /\ todo' = [todo EXCEPT ![c] = P \ {d}]
<1>1. P \subseteq CPU /\ P # {} /\ To(c, P)
  BY DEF Call
<1>2. \E d \in P : dst' = [dst EXCEPT ![c] = d] /\ todo' = [todo EXCEPT ![c] = P \ {d}]
  BY <1>1, ToFacts
<1> QED BY <1>2 DEF Call, Go

\* What is left to do is counted off from what there is.
LEMMA LoadTyped ==
  ASSUME NEW A, NEW f \in [A -> [calls : Nat, locks : Nat]], NEW c \in A
  PROVE  /\ f[c].calls > 0 => [f EXCEPT ![c].calls = @ - 1] \in [A -> [calls : Nat, locks : Nat]]
         /\ f[c].locks > 0 => [f EXCEPT ![c].locks = @ - 1] \in [A -> [calls : Nat, locks : Nat]]
<1>1. f[c].calls > 0 => [f[c] EXCEPT !.calls = @ - 1] \in [calls : Nat, locks : Nat]
  OBVIOUS
<1>2. f[c].locks > 0 => [f[c] EXCEPT !.locks = @ - 1] \in [calls : Nat, locks : Nat]
  OBVIOUS
<1>3. /\ [f EXCEPT ![c].calls = @ - 1] = [f EXCEPT ![c] = [f[c] EXCEPT !.calls = @ - 1]]
      /\ [f EXCEPT ![c].locks = @ - 1] = [f EXCEPT ![c] = [f[c] EXCEPT !.locks = @ - 1]]
  OBVIOUS
<1> QED BY <1>1, <1>2, <1>3

\* The steps in the kernel keep the types.
LEMMA KernelTyped ==
  ASSUME Typed, NEW c \in Active, Kernel(c), Active' = Active
  PROVE  Typed'
<1> USE DEF Typed, Place, Own, Go, serve
<1>1. CASE Enter(c)
  <2>1. load' \in [Active -> [calls : Nat, locks : Nat]]
    <3>1. load \in [Active -> [calls : Nat, locks : Nat]] /\ load[c].locks > 0
          /\ load' = [load EXCEPT ![c].locks = @ - 1]
      BY <1>1 DEF Enter
    <3> QED BY <3>1, LoadTyped
  <2> QED BY <1>1, <2>1 DEF Enter
<1>2. CASE Lock(c)
  BY <1>2 DEF Lock
<1>3. CASE Leave(c)
  BY <1>3 DEF Leave
<1>4. ASSUME NEW d \in Active, Send(c, d) PROVE Typed'
  BY <1>4 DEF Send
<1>5. CASE Sent(c)
  <2>1. pend' \in [Active -> SUBSET {"SCHED", "CALL"}] /\ int' \in [Active -> BOOLEAN]
    BY <1>5 DEF Sent
  <2> QED BY <1>5, <2>1 DEF Sent
<1> QED BY <1>1, <1>2, <1>3, <1>4, <1>5 DEF Kernel

\* The steps of callers keep the types.
LEMMA CallingTyped ==
  ASSUME Typed, NEW c \in Active, Calling(c), Active' = Active
  PROVE  Typed'
<1>1. ASSUME NEW P, P \subseteq CPU \ {c}, Call(c, P) PROVE Typed'
  <2>1. load' \in [Active -> [calls : Nat, locks : Nat]]
    <3>1. load \in [Active -> [calls : Nat, locks : Nat]] /\ load[c].calls > 0
          /\ load' = [load EXCEPT ![c].calls = @ - 1]
      BY <1>1, CallIs DEF Typed
    <3> QED BY <3>1, LoadTyped
  <2>2. pc' = [pc EXCEPT ![c] = "add"] /\ iWait' = [iWait EXCEPT ![c] = TRUE]
        /\ due' = [due EXCEPT ![c] = P \cap Active]
        /\ UNCHANGED <<klock, ring, pend, int, slIpi, serve>>
    BY <1>1, CallIs
  <2>3. PICK d \in P : dst' = [dst EXCEPT ![c] = d] /\ todo' = [todo EXCEPT ![c] = P \ {d}]
    BY <1>1, CallIs
  <2> QED BY <1>1, <2>1, <2>2, <2>3 DEF Typed, Place, serve
<1>2. ASSUME Onward(c) PROVE Typed'
  <2>1. UNCHANGED <<load, klock, ring, pend, int, slIpi, serve, due>>
    BY <1>2 DEF Onward
  <2>2. CASE /\ todo[c] = {} /\ pc' = [pc EXCEPT ![c] = "run"] /\ dst' = [dst EXCEPT ![c] = None]
             /\ todo' = todo /\ iWait' = iWait
    BY <2>1, <2>2 DEF Typed, Place, serve
  <2>3. CASE /\ pc' = [pc EXCEPT ![c] = "add"] /\ iWait' = [iWait EXCEPT ![c] = TRUE]
             /\ \E d \in todo[c] : /\ dst' = [dst EXCEPT ![c] = d]
                                   /\ todo' = [todo EXCEPT ![c] = todo[c] \ {d}]
    BY <2>1, <2>3 DEF Typed, Place, serve
  <2> QED BY <1>2, <2>2, <2>3, OnwardIs
<1>3. CASE Add(c)
  <2>1. ring' \in [Active -> Seq(Active)] /\ pend' \in [Active -> SUBSET {"SCHED", "CALL"}]
    BY <1>3 DEF Add, Typed
  <2> QED BY <1>3, <2>1 DEF Add, Typed, Place, Go, serve
<1>4. \A d \in CPU \ {c} : {d} \subseteq CPU \ {c}
  OBVIOUS
<1> QED BY <1>1, <1>2, <1>3, <1>4 DEF Calling, Return, Pass

\* The steps in an interrupt keep the types.
LEMMA IsrTyped ==
  ASSUME Typed, NEW c \in Active, Isr(c), Active' = Active
  PROVE  Typed'
<1> USE DEF Typed, base
<1>1. CASE Interrupt(c)
  BY <1>1 DEF Interrupt
<1>2. CASE ClearSched(c)
  BY <1>2 DEF ClearSched
<1>3. CASE NoCalls(c)
  BY <1>3 DEF NoCalls
<1>4. CASE IrqExit(c)
  BY <1>4 DEF IrqExit
<1> QED BY <1>1, <1>2, <1>3, <1>4 DEF Isr

\* The steps in __smpProcMsg keep the types.
LEMMA ProcTyped ==
  ASSUME IInv, NEW c \in Active, Proc(c), Active' = Active
  PROVE  Typed'
<1> USE DEF IInv, Typed, base
<1>1. CASE ProcMsg(c)
  BY <1>1 DEF ProcMsg
<1>2. CASE ProcLock(c)
  BY <1>2 DEF ProcLock, Listed
<1>3. CASE ProcCall(c)
  <2>1. ring[c] # <<>>
    BY <1>3 DEF ProcCall, Serving
  <2>2. Head(ring[c]) \in Active /\ Tail(ring[c]) \in Seq(Active)
    BY <2>1
  <2>3. due' \in [Active -> SUBSET Active]
    BY <1>3, <2>2 DEF ProcCall
  <2> QED BY <1>3, <2>2, <2>3 DEF ProcCall
<1>4. CASE ProcEnd(c)
  BY <1>4 DEF ProcEnd
<1>5. CASE ProcAsync(c)
  <2>1. left[c] > 0
    BY <1>5 DEF ProcAsync, Serving
  <2>2. left' \in [Active -> Nat]
    BY <1>5, <2>1 DEF ProcAsync
  <2> QED BY <1>5, <2>2 DEF ProcAsync
<1>6. CASE ProcDone(c)
  BY <1>6 DEF ProcDone
<1> QED BY <1>1, <1>2, <1>3, <1>4, <1>5, <1>6 DEF Proc
-----------------------------------------------------------------------------
(* The steps keep the relations between callers and the processors they call. *)

\* What a step of a caller's own code leaves alone.
LEMMA KernelIs ==
  ASSUME Typed, NEW c \in Active, Kernel(c)
  PROVE  /\ pc[c] \in {"run", "spin", "leave", "send"}
         /\ \E q \in {"run", "spin", "leave", "send"}, d \in Active \cup {None} :
               /\ pc' = [pc EXCEPT ![c] = q]
               /\ dst' = dst \/ dst' = [dst EXCEPT ![c] = d]
               /\ q = "send" => d \in Active /\ dst' = [dst EXCEPT ![c] = d]
         /\ UNCHANGED <<todo, ring, iWait, proc, msg, left, due>>
         /\ \A d \in Active : "CALL" \in pend[d] => "CALL" \in pend'[d]
<1> USE DEF Typed, Place, Own, Go, serve
<1>1. CASE Enter(c)
  BY <1>1 DEF Enter
<1>2. CASE Lock(c)
  BY <1>2 DEF Lock
<1>3. CASE Leave(c)
  BY <1>3 DEF Leave
<1>4. ASSUME NEW d \in Active, Send(c, d)
      PROVE  /\ pc[c] = "run" /\ pc' = [pc EXCEPT ![c] = "send"]
             /\ dst' = [dst EXCEPT ![c] = d]
             /\ UNCHANGED <<todo, ring, iWait, proc, msg, left, due, pend>>
  BY <1>4 DEF Send
<1>5. CASE Sent(c)
  <2>1. \A d \in Active : "CALL" \in pend[d] => "CALL" \in pend'[d]
    BY <1>5 DEF Sent
  <2> QED BY <1>5, <2>1 DEF Sent
<1>6. CASE \E d \in Active : Send(c, d)
  BY <1>4, <1>6
<1> QED BY <1>1, <1>2, <1>3, <1>5, <1>6 DEF Kernel

\* Callers keep their aim.
LEMMA AimingKept ==
  ASSUME IInv, [Next]_vars, Active' = Active
  PROVE  Aiming'
<1>0. Typed /\ Aiming /\ Waiting
  BY DEF IInv
<1>1. ASSUME NEW c \in Active, Kernel(c) PROVE Aiming'
  <2>1. PICK q \in {"run", "spin", "leave", "send"}, d \in Active \cup {None} :
               /\ pc' = [pc EXCEPT ![c] = q]
               /\ dst' = dst \/ dst' = [dst EXCEPT ![c] = d]
               /\ q = "send" => d \in Active /\ dst' = [dst EXCEPT ![c] = d]
    BY <1>0, <1>1, KernelIs
  <2>2. UNCHANGED <<todo, iWait>>
    BY <1>0, <1>1, KernelIs
  <2> QED BY <1>0, <2>1, <2>2 DEF Aiming, Typed
<1>2. ASSUME NEW c \in Active, NEW P, P \subseteq CPU \ {c}, Call(c, P) PROVE Aiming'
  <2>1. /\ pc' = [pc EXCEPT ![c] = "add"] /\ iWait' = [iWait EXCEPT ![c] = TRUE]
        /\ \E d \in P : dst' = [dst EXCEPT ![c] = d] /\ todo' = [todo EXCEPT ![c] = P \ {d}]
    BY <1>0, <1>2, CallIs
  <2> QED BY <1>0, <1>2, <2>1 DEF Aiming, Typed
<1>3. ASSUME NEW c \in Active, Onward(c) PROVE Aiming'
  <2>1. CASE /\ todo[c] = {} /\ pc' = [pc EXCEPT ![c] = "run"] /\ dst' = [dst EXCEPT ![c] = None]
             /\ todo' = todo /\ iWait' = iWait
    BY <1>0, <2>1 DEF Aiming, Typed
  <2>2. CASE /\ pc' = [pc EXCEPT ![c] = "add"] /\ iWait' = [iWait EXCEPT ![c] = TRUE]
             /\ \E d \in todo[c] : /\ dst' = [dst EXCEPT ![c] = d]
                                   /\ todo' = [todo EXCEPT ![c] = todo[c] \ {d}]
    BY <1>0, <2>2 DEF Aiming, Typed
  <2> QED BY <1>0, <1>3, <2>1, <2>2, OnwardIs
<1>4. ASSUME NEW c \in Active, Add(c) PROVE Aiming'
  BY <1>0, <1>4 DEF Add, Aiming, Typed, Own, Go
<1>5. ASSUME NEW c \in Active, ProcEnd(c) PROVE Aiming'
  <2>1. /\ msg[c] \in Active /\ pc[msg[c]] = "wait" /\ iWait' = [iWait EXCEPT ![msg[c]] = FALSE]
        /\ UNCHANGED base
    BY <1>0, <1>5 DEF ProcEnd, Waiting, HasRun, WaitsFor
  <2> QED BY <1>0, <2>1 DEF Aiming, Typed, base
<1>6. ASSUME NEW c \in Active,
             Isr(c) \/ ProcMsg(c) \/ ProcLock(c) \/ ProcCall(c) \/ ProcAsync(c) \/ ProcDone(c)
      PROVE  UNCHANGED <<pc, dst, todo, iWait>>
  BY <1>6 DEF Isr, Interrupt, ClearSched, NoCalls, IrqExit, ProcMsg, ProcLock,
              ProcCall, ProcAsync, ProcDone, base
<1>7. CASE UNCHANGED <<pc, dst, todo, iWait>>
  BY <1>0, <1>7 DEF Aiming
<1>8. \A c \in CPU : \A d \in CPU \ {c} : {d} \subseteq CPU \ {c}
  OBVIOUS
<1> QED BY <1>1, <1>2, <1>3, <1>4, <1>5, <1>6, <1>7, <1>8
        DEF Next, Calling, Return, Pass, Proc, vars, base, Typed, IInv

\* The set of those that have yet to run a caller's function is what the
\* caller's place says.
LEMMA AnsweredKept ==
  ASSUME IInv, [Next]_vars, Active' = Active
  PROVE  AnsweredByAll'
<1>0. Typed /\ Aiming /\ Waiting /\ Serving /\ AnsweredByAll
  BY DEF IInv
<1>1. ASSUME NEW c \in Active, Kernel(c) PROVE AnsweredByAll'
  <2>1. PICK q \in {"run", "spin", "leave", "send"}, d \in Active \cup {None} :
           pc' = [pc EXCEPT ![c] = q] /\ (dst' = dst \/ dst' = [dst EXCEPT ![c] = d])
    BY <1>0, <1>1, KernelIs
  <2>2. UNCHANGED <<todo, iWait, due>> /\ pc[c] \in {"run", "spin", "leave", "send"}
    BY <1>0, <1>1, KernelIs
  <2> QED BY <1>0, <2>1, <2>2 DEF AnsweredByAll, Typed
<1>2. ASSUME NEW c \in Active, NEW P, P \subseteq CPU \ {c}, Call(c, P) PROVE AnsweredByAll'
  <2>1. /\ pc' = [pc EXCEPT ![c] = "add"] /\ iWait' = [iWait EXCEPT ![c] = TRUE]
        /\ due' = [due EXCEPT ![c] = P \cap Active]
    BY <1>0, <1>2, CallIs
  <2>2. PICK d \in P : dst' = [dst EXCEPT ![c] = d] /\ todo' = [todo EXCEPT ![c] = P \ {d}]
    BY <1>0, <1>2, CallIs
  <2>3. P = (P \ {d}) \cup {d}
    OBVIOUS
  <2> QED BY <1>0, <1>2, <2>1, <2>2, <2>3 DEF AnsweredByAll, Typed
<1>3. ASSUME NEW c \in Active, Return(c) \/ Pass(c) PROVE AnsweredByAll'
  <2>0. due' = due /\ due[c] = todo[c] \cap Active /\ Onward(c)
    BY <1>0, <1>3 DEF Return, Pass, Onward, Own, AnsweredByAll
  <2>1. CASE /\ todo[c] = {} /\ pc' = [pc EXCEPT ![c] = "run"] /\ dst' = [dst EXCEPT ![c] = None]
             /\ todo' = todo /\ iWait' = iWait
    BY <1>0, <2>0, <2>1 DEF AnsweredByAll, Typed
  <2>2. ASSUME NEW d \in todo[c],
               pc' = [pc EXCEPT ![c] = "add"], iWait' = [iWait EXCEPT ![c] = TRUE],
               dst' = [dst EXCEPT ![c] = d], todo' = [todo EXCEPT ![c] = todo[c] \ {d}]
        PROVE  AnsweredByAll'
    <3>1. todo[c] = (todo[c] \ {d}) \cup {d}
      OBVIOUS
    <3> QED BY <1>0, <2>0, <2>2, <3>1 DEF AnsweredByAll, Typed
  <2> QED BY <1>0, <2>0, <2>1, <2>2, OnwardIs
<1>4. ASSUME NEW c \in Active, Add(c) PROVE AnsweredByAll'
  <2>1. iWait[c] /\ iWait' = iWait /\ due' = due /\ todo' = todo /\ dst' = dst
        /\ pc[c] = "add" /\ pc' = [pc EXCEPT ![c] = "wait"]
    BY <1>0, <1>4 DEF Add, Aiming, Own, Go
  <2> QED BY <1>0, <2>1 DEF AnsweredByAll, Typed
<1>5. ASSUME NEW c \in Active, ProcEnd(c) PROVE AnsweredByAll'
  <2>1. /\ msg[c] \in Active /\ pc[msg[c]] = "wait" /\ iWait' = [iWait EXCEPT ![msg[c]] = FALSE]
        /\ due[msg[c]] = todo[msg[c]] \cap Active /\ UNCHANGED <<base, due>>
    BY <1>0, <1>5 DEF ProcEnd, Waiting, HasRun, WaitsFor
  <2> QED BY <1>0, <2>1 DEF AnsweredByAll, Typed, base
<1>6. ASSUME NEW c \in Active, ProcCall(c) PROVE AnsweredByAll'
  <2> DEFINE m == Head(ring[c])
  <2>1. m = ring[c][1] /\ 1 \in 1 .. Len(ring[c])
    BY <1>0, <1>6 DEF ProcCall, Serving, Typed
  <2>2. ToRun(m, c) /\ m \in Active
    BY <1>0, <2>1 DEF Waiting, Typed
  <2>3. due' = [due EXCEPT ![m] = @ \ {c}] /\ UNCHANGED <<base, iWait>>
    BY <1>6 DEF ProcCall
  <2> HIDE DEF m
  <2> QED BY <1>0, <2>2, <2>3 DEF AnsweredByAll, Typed, base, ToRun, WaitsFor
<1>7. ASSUME NEW c \in Active, Isr(c) \/ ProcMsg(c) \/ ProcLock(c) \/ ProcAsync(c) \/ ProcDone(c)
      PROVE  UNCHANGED <<pc, dst, todo, iWait, due>>
  BY <1>7 DEF Isr, Interrupt, ClearSched, NoCalls, IrqExit, ProcMsg, ProcLock,
              ProcAsync, ProcDone, base
<1>8. CASE UNCHANGED <<pc, dst, todo, iWait, due>>
  BY <1>0, <1>8 DEF AnsweredByAll
<1>9. \A c \in CPU : \A d \in CPU \ {c} : {d} \subseteq CPU \ {c}
  OBVIOUS
<1> QED BY <1>0, <1>1, <1>2, <1>3, <1>4, <1>5, <1>6, <1>7, <1>8, <1>9
        DEF Next, Calling, Proc, vars, base, Typed

\* A step that leaves the waiting callers, the rings and the messages alone keeps
\* them waiting.
LEMMA WaitingFrame ==
  ASSUME Typed, Waiting, Active' = Active, ring' = ring,
         \A m \in Active : pc[m] = "wait" /\ iWait[m] =>
            pc'[m] = "wait" /\ iWait'[m] /\ dst'[m] = dst[m] /\ due'[m] = due[m] /\ todo'[m] = todo[m],
         \A c \in Active : proc'[c] = "end" => proc[c] = "end" /\ msg'[c] = msg[c]
  PROVE  Waiting'
<1>1. ASSUME NEW c \in Active, NEW m \in Active
      PROVE  (ToRun(m, c) => ToRun(m, c)') /\ (HasRun(m, c) => HasRun(m, c)')
  BY DEF ToRun, HasRun, WaitsFor
<1> QED BY <1>1 DEF Waiting

\* The callers in a ring wait for its processor.
LEMMA ListedRuns ==
  ASSUME Typed, Waiting, NEW c \in Active, NEW i \in 1 .. Len(ring[c])
  PROVE  ring[c][i] \in Active /\ ToRun(ring[c][i], c)
<1>1. ring[c] \in Seq(Active)
  BY DEF Typed
<1>2. ring[c][i] \in Active
  BY <1>1
<1> QED BY <1>2 DEF Waiting

\* Messages stay with callers that wait.
LEMMA WaitingKept ==
  ASSUME IInv, [Next]_vars, Active' = Active
  PROVE  Waiting'
<1>0. Typed /\ Aiming /\ Waiting /\ Serving /\ AnsweredByAll
  BY DEF IInv
<1>1. ASSUME NEW c \in Active, Kernel(c) PROVE Waiting'
  <2>1. PICK q \in {"run", "spin", "leave", "send"}, d \in Active \cup {None} :
           pc' = [pc EXCEPT ![c] = q] /\ (dst' = dst \/ dst' = [dst EXCEPT ![c] = d])
    BY <1>0, <1>1, KernelIs
  <2>2. /\ UNCHANGED <<todo, ring, iWait, proc, msg, due>> /\ pc[c] # "wait"
    BY <1>0, <1>1, KernelIs
  <2> QED BY <1>0, <2>1, <2>2, WaitingFrame DEF Typed
<1>2. ASSUME NEW c \in Active, NEW P, P \subseteq CPU \ {c}, Call(c, P) PROVE Waiting'
  <2>1. /\ pc[c] = "run" /\ pc' = [pc EXCEPT ![c] = "add"] /\ iWait' = [iWait EXCEPT ![c] = TRUE]
        /\ due' = [due EXCEPT ![c] = P \cap Active] /\ UNCHANGED <<ring, proc, msg>>
    BY <1>0, <1>2, CallIs DEF Own, serve
  <2>2. PICK d \in P : dst' = [dst EXCEPT ![c] = d] /\ todo' = [todo EXCEPT ![c] = P \ {d}]
    BY <1>0, <1>2, CallIs
  <2> QED BY <1>0, <2>1, <2>2, WaitingFrame DEF Typed
<1>3. ASSUME NEW c \in Active, Return(c) \/ Pass(c) PROVE Waiting'
  <2>0. UNCHANGED <<ring, proc, msg, due>> /\ ~(pc[c] = "wait" /\ iWait[c]) /\ Onward(c)
    BY <1>0, <1>3 DEF Return, Pass, Onward, Own, serve
  <2>1. CASE /\ todo[c] = {} /\ pc' = [pc EXCEPT ![c] = "run"] /\ dst' = [dst EXCEPT ![c] = None]
             /\ todo' = todo /\ iWait' = iWait
    BY <1>0, <2>0, <2>1, WaitingFrame DEF Typed
  <2>2. ASSUME NEW d \in todo[c],
               pc' = [pc EXCEPT ![c] = "add"], iWait' = [iWait EXCEPT ![c] = TRUE],
               dst' = [dst EXCEPT ![c] = d], todo' = [todo EXCEPT ![c] = todo[c] \ {d}]
        PROVE  Waiting'
    BY <1>0, <2>0, <2>2, WaitingFrame DEF Typed
  <2> QED BY <1>0, <2>0, <2>1, <2>2, OnwardIs
<1>4. ASSUME NEW d \in Active, Add(d) PROVE Waiting'
  <2> DEFINE t == dst[d]
  <2>1. /\ t \in Active /\ t # d /\ iWait[d] /\ pc[d] = "add"
        /\ due[d] = (todo[d] \cup {t}) \cap Active
        /\ ring' = [ring EXCEPT ![t] = Append(@, d)] /\ pc' = [pc EXCEPT ![d] = "wait"]
        /\ UNCHANGED <<dst, todo, iWait, due, proc, msg>>
    BY <1>0, <1>4 DEF Add, Own, Go, Aiming, AnsweredByAll, serve
  <2>2. ASSUME NEW c \in Active, c = t PROVE ToRun(d, c)'
    BY <2>2, <1>0, <1>4, <2>1 DEF ToRun, WaitsFor, Typed
  <2>3. ASSUME NEW c \in Active, NEW m \in Active, ToRun(m, c) PROVE ToRun(m, c)' /\ m # d
    BY <1>0, <1>4, <2>1, <2>3 DEF ToRun, WaitsFor, Typed
  <2>4. ASSUME NEW c \in Active, NEW m \in Active, HasRun(m, c) PROVE HasRun(m, c)'
    BY <1>0, <1>4, <2>1, <2>4 DEF HasRun, WaitsFor, Typed
  <2>5. ASSUME NEW c \in Active
        PROVE  /\ \A i \in 1 .. Len(ring'[c]), m \in Active : ring'[c][i] = m => ToRun(m, c)'
               /\ \A i, j \in 1 .. Len(ring'[c]) : ring'[c][i] = ring'[c][j] => i = j
    <3> DEFINE s == ring[c]
    <3>1. s \in Seq(Active) /\ (\A i \in 1 .. Len(s) : s[i] \in Active /\ ToRun(s[i], c))
          /\ (\A i, j \in 1 .. Len(s) : s[i] = s[j] => i = j)
      <4>1. \A i \in 1 .. Len(s) : s[i] \in Active /\ ToRun(s[i], c)
        BY <1>0, ListedRuns
      <4>2. s \in Seq(Active) /\ \A i, j \in 1 .. Len(s) : s[i] = s[j] => i = j
        BY <1>0 DEF Typed, Waiting
      <4> QED BY <4>1, <4>2
    <3>2. CASE c # t
      <4>1. ring'[c] = s
        BY <1>0, <2>1, <3>2 DEF Typed
      <4> HIDE DEF s
      <4> QED BY <3>1, <4>1, <2>3
    <3>3. CASE c = t
      <4>1. ring'[c] = Append(s, d)
        BY <1>0, <2>1, <3>3 DEF Typed
      <4> HIDE DEF s, t
      <4>2. /\ Len(Append(s, d)) = Len(s) + 1
            /\ \A i \in 1 .. Len(s) + 1 : Append(s, d)[i] = IF i = Len(s) + 1 THEN d ELSE s[i]
        BY <3>1
      <4>3. \A i \in 1 .. Len(s) : s[i] # d /\ \A m \in Active : s[i] = m => ToRun(m, c)'
        BY <3>1, <2>3
      <4>4. \A m \in Active : m = d => ToRun(m, c)'
        BY <2>2, <3>3
      <4>5. \A i \in 1 .. Len(s) + 1 : i \in 1 .. Len(s) \/ i = Len(s) + 1
        BY <3>1
      <4>6. ASSUME NEW i \in 1 .. Len(ring'[c]), NEW m \in Active, ring'[c][i] = m
            PROVE  ToRun(m, c)'
        BY <4>1, <4>2, <4>3, <4>4, <4>5, <4>6
      <4>7. ASSUME NEW i \in 1 .. Len(ring'[c]), NEW j \in 1 .. Len(ring'[c]),
                   ring'[c][i] = ring'[c][j]
            PROVE  i = j
        BY <4>1, <4>2, <4>3, <4>5, <4>7, <3>1
      <4> QED BY <4>6, <4>7
    <3> QED BY <3>2, <3>3
  <2> QED BY <1>0, <2>1, <2>4, <2>5 DEF Waiting
<1>5. ASSUME NEW c \in Active, ProcEnd(c) PROVE Waiting'
  <2>1. /\ msg[c] \in Active /\ HasRun(msg[c], c) /\ iWait' = [iWait EXCEPT ![msg[c]] = FALSE]
        /\ proc' = [proc EXCEPT ![c] = "async"]
        /\ UNCHANGED <<pc, dst, todo, due, ring, msg>> /\ proc[c] = "end"
    BY <1>0, <1>5 DEF ProcEnd, Waiting, base
  <2>2. ASSUME NEW d \in Active, NEW m \in Active, ToRun(m, d) PROVE ToRun(m, d)'
    <3>1. m # msg[c]
      BY <1>0, <2>1, <2>2 DEF ToRun, HasRun, WaitsFor, Aiming
    <3> QED BY <1>0, <1>5, <2>1, <2>2, <3>1 DEF ToRun, WaitsFor, Typed
  <2>3. ASSUME NEW d \in Active, NEW m \in Active, d # c, HasRun(m, d) PROVE HasRun(m, d)'
    <3>1. m # msg[c]
      BY <1>0, <2>1, <2>3 DEF HasRun, WaitsFor
    <3> QED BY <1>0, <1>5, <2>1, <2>3, <3>1 DEF HasRun, WaitsFor, Typed
  <2>4. proc'[c] # "end" /\ \A d \in Active \ {c} : proc'[d] = proc[d]
    BY <1>0, <2>1 DEF Typed
  <2> QED BY <1>0, <2>1, <2>2, <2>3, <2>4 DEF Waiting
<1>6. ASSUME NEW c \in Active, ProcCall(c) PROVE Waiting'
  <2> DEFINE s == ring[c]
             x == Head(s)
  <2>1. /\ s \in Seq(Active) /\ s # <<>> /\ x = s[1] /\ x \in Active /\ 1 \in 1 .. Len(s)
    BY <1>0, <1>6 DEF ProcCall, Serving, Typed
  <2>2. ToRun(x, c) /\ c \notin todo[x]
    BY <1>0, <2>1 DEF Waiting, Aiming, ToRun, WaitsFor
  <2>3. /\ due' = [due EXCEPT ![x] = @ \ {c}] /\ UNCHANGED <<pc, dst, todo, iWait>>
        /\ ring' = [ring EXCEPT ![c] = Tail(s)] /\ msg' = [msg EXCEPT ![c] = x]
        /\ proc' = [proc EXCEPT ![c] = "end"]
    BY <1>6 DEF ProcCall, base
  <2> HIDE DEF x
  <2>4. ASSUME NEW m \in Active, m = x PROVE HasRun(m, c)'
    BY <2>4, <1>0, <1>6, <2>1, <2>2, <2>3 DEF ToRun, HasRun, WaitsFor, Typed
  <2>5. ASSUME NEW d \in Active, NEW m \in Active, m # x
        PROVE  (ToRun(m, d) => ToRun(m, d)') /\ (HasRun(m, d) => HasRun(m, d)')
    BY <1>0, <1>6, <2>1, <2>3, <2>5 DEF ToRun, HasRun, WaitsFor, Typed
  <2>6. ASSUME NEW d \in Active, d # c
        PROVE  /\ ring'[d] = ring[d] /\ proc'[d] = proc[d] /\ msg'[d] = msg[d]
               /\ \A m \in Active : ToRun(m, d) \/ HasRun(m, d) => m # x
    BY <1>0, <2>2, <2>3, <2>6 DEF Typed, ToRun, HasRun, WaitsFor
  <2>7. proc'[c] = "end" /\ msg'[c] = x /\ ring'[c] = Tail(s)
    BY <1>0, <2>3 DEF Typed
  <2>8. (\A i \in 1 .. Len(s) : s[i] \in Active /\ ToRun(s[i], c))
          /\ (\A i, j \in 1 .. Len(s) : s[i] = s[j] => i = j)
    <3>1. \A i \in 1 .. Len(s) : s[i] \in Active /\ ToRun(s[i], c)
      BY <1>0, ListedRuns
    <3>2. \A i, j \in 1 .. Len(s) : s[i] = s[j] => i = j
      BY <1>0 DEF Waiting
    <3> QED BY <3>1, <3>2
  <2>9. /\ \A i \in 1 .. Len(Tail(s)), m \in Active : Tail(s)[i] = m => ToRun(m, c)'
        /\ \A i, j \in 1 .. Len(Tail(s)) : Tail(s)[i] = Tail(s)[j] => i = j
    <3> HIDE DEF s
    <3>1. /\ Len(Tail(s)) = Len(s) - 1
          /\ \A i \in 1 .. Len(Tail(s)) : Tail(s)[i] = s[i + 1] /\ i + 1 \in 1 .. Len(s) /\ i + 1 # 1
      BY <2>1
    <3>2. \A i \in 1 .. Len(Tail(s)) : s[i + 1] # x /\ ToRun(s[i + 1], c) /\ s[i + 1] \in Active
      BY <2>1, <2>8, <3>1
    <3>3. \A i, j \in 1 .. Len(Tail(s)) : i + 1 = j + 1 => i = j
      OBVIOUS
    <3> QED BY <2>5, <2>8, <3>1, <3>2, <3>3
  <2> HIDE DEF s
  <2>10. ASSUME NEW d \in Active, d # c
         PROVE  /\ \A i \in 1 .. Len(ring'[d]), m \in Active : ring'[d][i] = m => ToRun(m, d)'
                /\ \A i, j \in 1 .. Len(ring'[d]) : ring'[d][i] = ring'[d][j] => i = j
                /\ proc'[d] = "end" => msg'[d] \in Active
                /\ \A m \in Active : proc'[d] = "end" /\ msg'[d] = m => HasRun(m, d)'
    BY <1>0, <2>5, <2>6, <2>10 DEF Waiting
  <2>11. /\ \A i \in 1 .. Len(ring'[c]), m \in Active : ring'[c][i] = m => ToRun(m, c)'
         /\ \A i, j \in 1 .. Len(ring'[c]) : ring'[c][i] = ring'[c][j] => i = j
         /\ proc'[c] = "end" => msg'[c] \in Active
         /\ \A m \in Active : proc'[c] = "end" /\ msg'[c] = m => HasRun(m, c)'
    <3>1. \A i \in 1 .. Len(ring'[c]), m \in Active : ring'[c][i] = m => ToRun(m, c)'
      BY <2>7, <2>9
    <3>2. \A i, j \in 1 .. Len(ring'[c]) : ring'[c][i] = ring'[c][j] => i = j
      BY <2>7, <2>9
    <3>3. \A m \in Active : proc'[c] = "end" /\ msg'[c] = m => HasRun(m, c)'
      BY <2>4, <2>7
    <3> QED BY <2>1, <2>7, <3>1, <3>2, <3>3
  <2>12. ASSUME NEW d \in Active, d = c
         PROVE  /\ \A i \in 1 .. Len(ring'[d]), m \in Active : ring'[d][i] = m => ToRun(m, d)'
                /\ \A i, j \in 1 .. Len(ring'[d]) : ring'[d][i] = ring'[d][j] => i = j
                /\ proc'[d] = "end" => msg'[d] \in Active
                /\ \A m \in Active : proc'[d] = "end" /\ msg'[d] = m => HasRun(m, d)'
    BY <2>11, <2>12 DEF ToRun, HasRun, WaitsFor
  <2> QED BY <2>10, <2>12 DEF Waiting
<1>7. ASSUME NEW c \in Active, Isr(c) \/ ProcMsg(c) \/ ProcLock(c) \/ ProcAsync(c) \/ ProcDone(c)
      PROVE  Waiting'
  <2>1. /\ UNCHANGED <<pc, dst, todo, iWait, due, ring>>
        /\ \/ proc' = proc /\ msg' = msg
           \/ /\ proc[c] # "end" /\ \E p \in {"no", "lock", "next"} : proc' = [proc EXCEPT ![c] = p]
              /\ msg' = msg \/ msg' = [msg EXCEPT ![c] = None]
    BY <1>7 DEF Isr, Interrupt, ClearSched, NoCalls, IrqExit, ProcMsg, ProcLock,
              ProcAsync, ProcDone, base
  <2> QED BY <1>0, <2>1, WaitingFrame DEF Typed
<1>8. CASE UNCHANGED vars
  BY <1>0, <1>8, WaitingFrame DEF vars, base, serve
<1>9. \A c \in CPU : \A d \in CPU \ {c} : {d} \subseteq CPU \ {c}
  OBVIOUS
<1> QED BY <1>0, <1>1, <1>2, <1>3, <1>4, <1>5, <1>6, <1>7, <1>8, <1>9
        DEF Next, Calling, Proc, Typed

\* What is still to be served is in the ring, and marked.
LEMMA ServingKept ==
  ASSUME IInv, [Next]_vars, Active' = Active
  PROVE  Serving'
<1>0. Typed /\ Serving
  BY DEF IInv
<1>1. ASSUME UNCHANGED <<ring, proc, left>>,
             \A d \in Active : "CALL" \in pend[d] => "CALL" \in pend'[d]
      PROVE  Serving'
  BY <1>0, <1>1 DEF Serving
<1>2. ASSUME NEW c \in Active, Kernel(c) PROVE Serving'
  BY <1>0, <1>1, <1>2, KernelIs
<1>3. ASSUME NEW c \in Active, NEW P, P \subseteq CPU \ {c}, Call(c, P) PROVE Serving'
  BY <1>0, <1>1, <1>3 DEF Call, serve
<1>4. ASSUME NEW c \in Active, Onward(c) PROVE Serving'
  BY <1>0, <1>1, <1>4 DEF Onward, serve
<1>5. ASSUME NEW d \in Active, Add(d) PROVE Serving'
  <2> DEFINE t == dst[d]
  <2>1. /\ t \in Active /\ ring' = [ring EXCEPT ![t] = Append(@, d)]
        /\ pend' = [pend EXCEPT ![t] = @ \cup {"CALL"}] /\ UNCHANGED <<proc, left>>
    BY <1>5 DEF Add, serve
  <2> HIDE DEF t
  <2>2. /\ ring[t] \in Seq(Active) /\ ring'[t] = Append(ring[t], d) /\ "CALL" \in pend'[t]
        /\ \A e \in Active \ {t} : ring'[e] = ring[e] /\ pend'[e] = pend[e]
    BY <1>0, <2>1 DEF Typed
  <2>3. Len(ring'[t]) = Len(ring[t]) + 1 /\ Len(ring[t]) \in Nat
    BY <1>5, <2>2
  <2>4. left \in [Active -> Nat]
    BY <1>0 DEF Typed
  <2>5. ASSUME NEW e \in Active, e # t
        PROVE  /\ proc'[e] \in {"no", "lock"} => left'[e] = 0
               /\ proc'[e] = "next" => left'[e] <= Len(ring'[e])
               /\ proc'[e] \in {"end", "async"} => left'[e] > 0 /\ left'[e] <= Len(ring'[e]) + 1
               /\ ring'[e] # <<>> => "CALL" \in pend'[e]
    BY <1>0, <2>1, <2>2, <2>5 DEF Serving
  <2>6. /\ proc'[t] \in {"no", "lock"} => left'[t] = 0
        /\ proc'[t] = "next" => left'[t] <= Len(ring'[t])
        /\ proc'[t] \in {"end", "async"} => left'[t] > 0 /\ left'[t] <= Len(ring'[t]) + 1
        /\ ring'[t] # <<>> => "CALL" \in pend'[t]
    BY <1>0, <2>1, <2>2, <2>3, <2>4 DEF Serving
  <2> QED BY <2>5, <2>6 DEF Serving
<1>6. ASSUME NEW c \in Active, Isr(c) PROVE Serving'
  <2>1. UNCHANGED <<ring, proc, left>> /\ \A d \in Active : "CALL" \in pend[d] => "CALL" \in pend'[d]
    BY <1>0, <1>6 DEF Isr, Interrupt, ClearSched, NoCalls, IrqExit, Typed
  <2> QED BY <1>1, <2>1
<1>7. ASSUME NEW c \in Active, ProcMsg(c) \/ ProcLock(c) \/ ProcEnd(c) PROVE Serving'
  <2>1. CASE ProcMsg(c)
    BY <1>0, <2>1 DEF ProcMsg, Serving, Typed
  <2>2. CASE ProcLock(c)
    <3>1. /\ proc' = [proc EXCEPT ![c] = "next"] /\ left' = [left EXCEPT ![c] = Len(ring[c])]
          /\ UNCHANGED <<ring, pend>> /\ Len(ring[c]) \in Nat
      BY <1>0, <2>2 DEF ProcLock, Listed, Typed
    <3> QED BY <1>0, <3>1 DEF Serving, Typed
  <2>3. CASE ProcEnd(c)
    <3>1. /\ proc[c] = "end" /\ proc' = [proc EXCEPT ![c] = "async"] /\ UNCHANGED <<left, ring, pend>>
      BY <2>3 DEF ProcEnd
    <3> QED BY <1>0, <3>1 DEF Serving, Typed
  <2> QED BY <1>7, <2>1, <2>2, <2>3
<1>8. ASSUME NEW c \in Active, ProcAsync(c) PROVE Serving'
  <2>1. /\ proc[c] = "async" /\ left' = [left EXCEPT ![c] = @ - 1]
        /\ proc' = [proc EXCEPT ![c] = "next"] /\ UNCHANGED <<ring, pend>>
    BY <1>8 DEF ProcAsync
  <2>2. Len(ring[c]) \in Nat /\ left[c] \in Nat
    BY <1>0 DEF Typed
  <2> QED BY <1>0, <2>1, <2>2 DEF Serving, Typed
<1>9. ASSUME NEW c \in Active, ProcDone(c) PROVE Serving'
  <2>1. /\ proc[c] = "next" /\ left[c] = 0 /\ proc' = [proc EXCEPT ![c] = "no"]
        /\ UNCHANGED <<left, ring>>
        /\ \/ pend' = pend
           \/ ring[c] = <<>> /\ pend' = [pend EXCEPT ![c] = @ \ {"CALL"}]
    BY <1>9 DEF ProcDone
  <2> QED BY <1>0, <2>1 DEF Serving, Typed
<1>10. ASSUME NEW c \in Active, ProcCall(c) PROVE Serving'
  <2>1. /\ proc[c] = "next" /\ left[c] > 0 /\ proc' = [proc EXCEPT ![c] = "end"]
        /\ ring' = [ring EXCEPT ![c] = Tail(@)] /\ UNCHANGED <<left, pend>>
        /\ ring[c] # <<>> /\ left[c] <= Len(ring[c]) /\ ring[c] \in Seq(Active)
    BY <1>0, <1>10 DEF ProcCall, Serving, Typed
  <2>2. Len(Tail(ring[c])) = Len(ring[c]) - 1 /\ Len(ring[c]) \in Nat
    BY <2>1
  <2>3. "CALL" \in pend[c]
    BY <1>0, <2>1 DEF Serving
  <2> QED BY <1>0, <2>1, <2>2, <2>3 DEF Serving, Typed
<1>11. CASE UNCHANGED vars
  BY <1>1, <1>11 DEF vars, serve
<1>12. \A c \in CPU : \A d \in CPU \ {c} : {d} \subseteq CPU \ {c}
  OBVIOUS
<1> QED BY <1>0, <1>2, <1>3, <1>4, <1>5, <1>6, <1>7, <1>8, <1>9, <1>10, <1>11, <1>12
        DEF Next, Calling, Return, Pass, Proc, Typed
-----------------------------------------------------------------------------
\* The invariant holds at first.
LEMMA InitOK == Init => IInv
<1> SUFFICES ASSUME Init PROVE IInv
  OBVIOUS
<1>1. Active \subseteq CPU /\ load \in [Active -> [calls : Nat, locks : Nat]]
  BY IpiAssumption DEF Init, Active
<1>2. <<>> \in Seq(Active) /\ Len(<<>>) = 0 /\ {} \in SUBSET CPU
  OBVIOUS
<1>3. Typed
  BY <1>1, <1>2 DEF Init, Typed, Place
<1>4. Aiming /\ AnsweredByAll
  BY DEF Init, Aiming, AnsweredByAll
<1>5. Waiting /\ Serving
  BY <1>2 DEF Init, Waiting, Serving
<1> QED BY <1>3, <1>4, <1>5 DEF IInv

\* Every step keeps it.
LEMMA StepOK == IInv /\ [Next]_vars => IInv'
<1> SUFFICES ASSUME IInv, [Next]_vars PROVE IInv'
  OBVIOUS
<1>1. Active' = Active
  BY ActiveSame DEF IInv
<1>2. Typed'
  <2>1. CASE UNCHANGED vars
    BY <2>1, <1>1 DEF IInv, Typed, vars, base, serve
  <2> QED BY <1>1, <2>1, KernelTyped, CallingTyped, IsrTyped, ProcTyped DEF Next, IInv
<1> QED BY <1>1, <1>2, AimingKept, AnsweredKept, WaitingKept, ServingKept DEF IInv

\* The invariant holds always.
LEMMA Inductive == Spec => []IInv
BY InitOK, StepOK, PTL DEF Spec

\* No ring holds more messages than there are other processors: each lists a caller once.
LEMMA RingShort ==
  ASSUME IInv, NEW c \in Active
  PROVE  Len(ring[c]) < Cardinality(Active)
<1> DEFINE s == ring[c]
           S == 1 .. Len(s)
           T == Active \ {c}
<1>1. Typed /\ Waiting /\ Aiming
  BY DEF IInv
<1>2. s \in Seq(Active) /\ Len(s) \in Nat
  BY <1>1 DEF Typed
<1>3. IsFiniteSet(Active)
  <2>1. Active \subseteq CPU /\ IsFiniteSet(CPU)
    BY <1>1, IpiAssumption DEF Typed
  <2> QED BY <2>1, FS_Subset
<1>4. IsFiniteSet(T) /\ Cardinality(T) = Cardinality(Active) - 1 /\ Cardinality(Active) \in Nat
  BY <1>3, FS_RemoveElement, FS_CardinalityType
<1>5. ASSUME NEW i \in S PROVE s[i] \in T
  <2>1. s[i] \in Active /\ ToRun(s[i], c)
    BY <1>1, <1>5, ListedRuns
  <2>2. dst[s[i]] = c /\ dst[s[i]] # s[i]
    BY <1>1, <2>1 DEF ToRun, WaitsFor, Aiming
  <2> QED BY <2>1, <2>2
<1>6. \A i, j \in S : s[i] = s[j] => i = j
  BY <1>1 DEF Waiting
<1> DEFINE f == [i \in S |-> s[i]]
<1>7. f \in Injection(S, T)
  BY <1>5, <1>6 DEF Injection, IsInjective
<1>8. Cardinality(S) <= Cardinality(T)
  BY <1>4, <1>7, FS_Injection
<1>9. Cardinality(S) = Len(s)
  <2>1. Cardinality(1 .. Len(s)) = IF 1 > Len(s) THEN 0 ELSE Len(s) - 1 + 1
    BY <1>2, FS_Interval
  <2> QED BY <1>2, <2>1
<1> QED BY <1>2, <1>4, <1>8, <1>9

\* The call returns when every processor has run its function, and not before
\* (_SmpCallFunc, _SmpCallFuncAllOther), for any number of processors.
THEOREM AnsweredByAllOK == Spec => []AnsweredByAll
BY Inductive, PTL DEF IInv

\* __smpProcMsg finds only messages whose caller waits for this very processor,
\* and what is listed is marked: for any number of processors and calls.
THEOREM MessagesLiveOK == Spec => []MessagesLive
<1>1. IInv => MessagesLive
  <2> SUFFICES ASSUME IInv PROVE MessagesLive
    OBVIOUS
  <2>1. TypeOK
    <3>1. \A c \in Active : Len(ring[c]) < Cardinality(Active)
      BY RingShort
    <3>2. ASSUME NEW c \in Active PROVE left[c] <= Len(ring[c]) + 1
      <4>1. left[c] \in Nat /\ Len(ring[c]) \in Nat /\ proc[c] \in {"no", "lock", "next", "end", "async"}
        BY DEF IInv, Typed
      <4> QED BY <4>1 DEF IInv, Serving
    <3> QED BY <3>1, <3>2 DEF TypeOK, IInv, Typed, Place
  <2>2. ASSUME NEW c \in Active, NEW i \in 1 .. Len(ring[c])
        PROVE  /\ ring[c][i] \in Active
               /\ pc[ring[c][i]] = "wait" /\ iWait[ring[c][i]] /\ dst[ring[c][i]] = c
               /\ c \in due[ring[c][i]]
               /\ \A j \in 1 .. Len(ring[c]) : ring[c][j] = ring[c][i] => i = j
    <3>1. ring[c][i] \in Active /\ ToRun(ring[c][i], c)
      BY ListedRuns DEF IInv
    <3>2. \A j \in 1 .. Len(ring[c]) : ring[c][j] = ring[c][i] => i = j
      BY DEF IInv, Waiting
    <3> QED BY <3>1, <3>2 DEF ToRun, WaitsFor
  <2>3. ASSUME NEW c \in Active, proc[c] = "end"
        PROVE  pc[msg[c]] = "wait" /\ iWait[msg[c]] /\ dst[msg[c]] = c
    BY <2>3 DEF IInv, Waiting, HasRun, WaitsFor
  <2>4. \A c \in Active : ring[c] # <<>> => "CALL" \in pend[c]
    BY DEF IInv, Serving
  <2> QED BY <2>1, <2>2, <2>3, <2>4 DEF MessagesLive
<1> QED BY <1>1, Inductive, PTL
-----------------------------------------------------------------------------
\* A caller that waits is in the ring of the processor it calls, or that processor
\* is running its function: no call is dropped.
Known(m, c) ==
    \/ \E i \in 1 .. Len(ring[c]) : ring[c][i] = m
    \/ proc[c] = "end" /\ msg[c] = m
NoCallDropped == \A m, c \in Active : WaitsFor(m, c) => Known(m, c)

\* Every step keeps waiting callers known.
LEMMA DroppedNone ==
  ASSUME IInv, NoCallDropped, [Next]_vars, Active' = Active
  PROVE  NoCallDropped'
<1>0. Typed /\ Aiming /\ Waiting /\ Serving
  BY DEF IInv
<1>1. ASSUME UNCHANGED <<ring, proc, msg>>, \A m, c \in Active : WaitsFor(m, c)' => WaitsFor(m, c)
      PROVE  NoCallDropped'
  BY <1>1 DEF NoCallDropped, Known
<1>2. ASSUME NEW c \in Active, Kernel(c) PROVE NoCallDropped'
  <2>1. PICK q \in {"run", "spin", "leave", "send"}, d \in Active \cup {None} :
           pc' = [pc EXCEPT ![c] = q] /\ (dst' = dst \/ dst' = [dst EXCEPT ![c] = d])
    BY <1>0, <1>2, KernelIs
  <2>2. UNCHANGED <<ring, proc, msg, iWait>>
    BY <1>0, <1>2, KernelIs
  <2>3. \A m, e \in Active : WaitsFor(m, e)' => WaitsFor(m, e)
    BY <1>0, <2>1, <2>2 DEF WaitsFor, Typed
  <2> QED BY <1>1, <2>2, <2>3
<1>3. ASSUME NEW c \in Active, UNCHANGED <<ring, proc, msg>>, pc' = [pc EXCEPT ![c] = "add"],
             NEW d, dst' = [dst EXCEPT ![c] = d], iWait' = [iWait EXCEPT ![c] = TRUE]
      PROVE  NoCallDropped'
  <2>1. \A m, e \in Active : WaitsFor(m, e)' => WaitsFor(m, e)
    BY <1>0, <1>3 DEF WaitsFor, Typed
  <2> QED BY <1>1, <1>3, <2>1
<1>4. ASSUME NEW c \in Active, NEW P, P \subseteq CPU \ {c}, Call(c, P) PROVE NoCallDropped'
  <2>1. /\ pc' = [pc EXCEPT ![c] = "add"] /\ iWait' = [iWait EXCEPT ![c] = TRUE]
        /\ UNCHANGED <<ring, proc, msg>> /\ \E d \in P : dst' = [dst EXCEPT ![c] = d]
    BY <1>0, <1>4, CallIs DEF serve
  <2> QED BY <1>3, <2>1
<1>5. ASSUME NEW c \in Active, Onward(c) PROVE NoCallDropped'
  <2>1. UNCHANGED <<ring, proc, msg>>
    BY <1>5 DEF Onward, serve
  <2>2. CASE /\ pc' = [pc EXCEPT ![c] = "run"] /\ dst' = [dst EXCEPT ![c] = None]
             /\ iWait' = iWait
    <3>1. \A m, e \in Active : WaitsFor(m, e)' => WaitsFor(m, e)
      BY <1>0, <2>2 DEF WaitsFor, Typed
    <3> QED BY <1>1, <2>1, <3>1
  <2>3. CASE /\ pc' = [pc EXCEPT ![c] = "add"] /\ iWait' = [iWait EXCEPT ![c] = TRUE]
             /\ \E d \in todo[c] : dst' = [dst EXCEPT ![c] = d]
    BY <1>3, <2>1, <2>3
  <2> QED BY <1>0, <1>5, <2>2, <2>3, OnwardIs
<1>6. ASSUME NEW m \in Active, NEW c \in Active, Known(m, c), ring'[c] = ring[c],
             proc[c] = "end" => proc'[c] = "end" /\ msg'[c] = msg[c]
      PROVE  Known(m, c)'
  BY <1>6 DEF Known
<1>7. ASSUME NEW d \in Active, Add(d) PROVE NoCallDropped'
  <2>1. /\ ring' = [ring EXCEPT ![dst[d]] = Append(@, d)] /\ dst[d] \in Active
        /\ UNCHANGED <<dst, iWait, proc, msg>> /\ pc' = [pc EXCEPT ![d] = "wait"]
    BY <1>7 DEF Add, Go, serve
  <2>2. ASSUME NEW c \in Active, c # dst[d] PROVE ring'[c] = ring[c]
    BY <1>0, <2>1, <2>2 DEF Typed
  <2>3. ASSUME NEW c \in Active, c = dst[d]
        PROVE  /\ Len(ring'[c]) = Len(ring[c]) + 1 /\ Len(ring[c]) \in Nat
               /\ ring'[c][Len(ring[c]) + 1] = d
               /\ \A i \in 1 .. Len(ring[c]) : ring'[c][i] = ring[c][i]
    <3>1. ring[c] \in Seq(Active) /\ ring'[c] = Append(ring[c], d)
      BY <1>0, <2>1, <2>3 DEF Typed
    <3> QED BY <3>1, <1>7
  <2>4. ASSUME NEW m \in Active, NEW c \in Active, WaitsFor(m, c)' PROVE Known(m, c)'
    <3>1. m = d \/ WaitsFor(m, c)
      BY <1>0, <2>1, <2>4 DEF WaitsFor, Typed
    <3>2. CASE m = d
      <4>1. c = dst[d]
        BY <2>1, <2>4, <3>2 DEF WaitsFor
      <4>2. Len(ring[c]) + 1 \in 1 .. Len(ring'[c]) /\ ring'[c][Len(ring[c]) + 1] = m
        BY <2>3, <3>2, <4>1
      <4> QED BY <4>2 DEF Known
    <3>3. CASE WaitsFor(m, c)
      <4>1. Known(m, c)
        BY <3>3 DEF NoCallDropped
      <4>2. \A i \in 1 .. Len(ring[c]) : i \in 1 .. Len(ring'[c]) /\ ring'[c][i] = ring[c][i]
        <5>1. CASE c = dst[d]
          BY <2>3, <5>1
        <5>2. CASE c # dst[d]
          BY <2>2, <5>2
        <5> QED BY <5>1, <5>2
      <4> QED BY <2>1, <4>1, <4>2 DEF Known
    <3> QED BY <3>1, <3>2, <3>3
  <2> QED BY <2>4, <1>0 DEF NoCallDropped
<1>8. ASSUME NEW c \in Active, ProcCall(c) PROVE NoCallDropped'
  <2> DEFINE s == ring[c]
  <2>1. /\ s \in Seq(Active) /\ s # <<>> /\ proc[c] = "next"
        /\ UNCHANGED <<pc, dst, iWait>> /\ ring' = [ring EXCEPT ![c] = Tail(s)]
        /\ msg' = [msg EXCEPT ![c] = s[1]] /\ proc' = [proc EXCEPT ![c] = "end"]
    BY <1>0, <1>8 DEF ProcCall, Serving, Typed, base
  <2>2. /\ Len(Tail(s)) = Len(s) - 1 /\ Len(s) \in Nat /\ Len(s) > 0
        /\ \A i \in 1 .. Len(Tail(s)) : Tail(s)[i] = s[i + 1]
    BY <2>1
  <2> HIDE DEF s
  <2>3. ASSUME NEW m \in Active, NEW e \in Active, WaitsFor(m, e)' PROVE Known(m, e)'
    <3>1. WaitsFor(m, e)
      BY <2>1, <2>3 DEF WaitsFor
    <3>2. Known(m, e)
      BY <3>1 DEF NoCallDropped
    <3>3. CASE e # c
      <4>1. ring'[e] = ring[e] /\ proc'[e] = proc[e] /\ msg'[e] = msg[e]
        BY <1>0, <2>1, <3>3 DEF Typed
      <4> QED BY <1>6, <3>2, <4>1
    <3>4. CASE e = c
      <4>1. proc'[e] = "end" /\ msg'[e] = s[1] /\ ring'[e] = Tail(s) /\ proc[e] # "end"
        BY <1>0, <2>1, <3>4 DEF Typed
      <4>2. PICK i \in 1 .. Len(s) : s[i] = m
        BY <3>2, <3>4, <4>1 DEF Known, s
      <4>3. CASE i = 1
        BY <4>1, <4>2, <4>3 DEF Known
      <4>4. CASE i # 1
        <5>1. i - 1 \in 1 .. Len(Tail(s)) /\ Tail(s)[i - 1] = m
          BY <2>2, <4>2, <4>4
        <5> QED BY <4>1, <5>1 DEF Known
      <4> QED BY <4>3, <4>4
    <3> QED BY <3>3, <3>4
  <2> QED BY <2>3, <1>0 DEF NoCallDropped
<1>9. ASSUME NEW c \in Active, ProcEnd(c) PROVE NoCallDropped'
  <2>1. /\ iWait' = [iWait EXCEPT ![msg[c]] = FALSE] /\ msg[c] \in Active /\ HasRun(msg[c], c)
        /\ proc' = [proc EXCEPT ![c] = "async"] /\ UNCHANGED <<pc, dst, ring, msg>>
    BY <1>0, <1>9 DEF ProcEnd, Waiting, base
  <2>2. ASSUME NEW m \in Active, NEW e \in Active, WaitsFor(m, e)' PROVE Known(m, e)'
    <3>1. WaitsFor(m, e) /\ m # msg[c]
      BY <1>0, <2>1, <2>2 DEF WaitsFor, Typed
    <3>2. Known(m, e)
      BY <3>1 DEF NoCallDropped
    <3>3. proc'[e] = (IF e = c THEN "async" ELSE proc[e]) /\ ring'[e] = ring[e] /\ msg'[e] = msg[e]
      BY <1>0, <2>1 DEF Typed
    <3> QED BY <3>1, <3>2, <3>3 DEF Known
  <2> QED BY <2>2, <1>0 DEF NoCallDropped
<1>10. ASSUME NEW c \in Active, Isr(c) \/ ProcMsg(c) \/ ProcLock(c) \/ ProcAsync(c) \/ ProcDone(c)
       PROVE  NoCallDropped'
  <2>1. /\ UNCHANGED <<pc, dst, iWait, ring>>
        /\ \/ proc' = proc /\ msg' = msg
           \/ /\ proc[c] # "end" /\ \E p \in {"no", "lock", "next"} : proc' = [proc EXCEPT ![c] = p]
              /\ msg' = msg \/ msg' = [msg EXCEPT ![c] = None]
    BY <1>10 DEF Isr, Interrupt, ClearSched, NoCalls, IrqExit, ProcMsg, ProcLock,
              ProcAsync, ProcDone, base
  <2>2. \A e \in Active : proc[e] = "end" => proc'[e] = "end" /\ msg'[e] = msg[e]
    BY <1>0, <2>1 DEF Typed
  <2>3. ASSUME NEW m \in Active, NEW e \in Active, WaitsFor(m, e)' PROVE Known(m, e)'
    <3>1. WaitsFor(m, e)
      BY <2>1, <2>3 DEF WaitsFor
    <3> QED BY <1>6, <2>1, <2>2, <3>1 DEF NoCallDropped
  <2> QED BY <2>3, <1>0 DEF NoCallDropped
<1>11. CASE UNCHANGED vars
  BY <1>1, <1>11 DEF vars, base, serve, WaitsFor
<1>12. \A c \in CPU : \A d \in CPU \ {c} : {d} \subseteq CPU \ {c}
  OBVIOUS
<1> QED BY <1>0, <1>2, <1>4, <1>5, <1>7, <1>8, <1>9, <1>10, <1>11, <1>12
        DEF Next, Calling, Return, Pass, Proc, Typed

\* No call is dropped: as long as a caller waits, the processor it calls has its
\* message (__smpIpiCall, __smpProcMsg).
THEOREM NoCallDroppedOK == Spec => []NoCallDropped
<1>1. Init => NoCallDropped
  BY DEF Init, NoCallDropped, WaitsFor
<1>2. IInv /\ NoCallDropped /\ [Next]_vars => NoCallDropped'
  BY DroppedNone, ActiveSame DEF IInv
<1> QED BY <1>1, <1>2, Inductive, PTL DEF Spec
=============================================================================
