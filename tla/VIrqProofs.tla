------------------------------ MODULE VIrqProofs ------------------------------
(****************************************************************************)
(* Virtual interrupts, for any number of threads, processors and devices:    *)
(* on one processor each interrupt is handled once, and the tick is recorded *)
(* for every thread that is on its list before a free place.                 *)
(****************************************************************************)
EXTENDS VIrq, FiniteSetTheorems, WellFoundedInduction, TLAPS

USE DEF still

\* Where a processor records an interrupt for a thread, and where it handles one.
Recording == {"set", "write", "test", "ipi", "mask"}
Handling  == {"handle", "clear", "enable"}

\* What a processor has at each place of irqIsr.
Placed ==
    \A c \in CPU :
        /\ at[c] \in Recording => who[c] \in VCPU /\ vec[c] \in Vec
        /\ at[c] \in Handling \cup {"pend"} => cur[c] \in VCPU
        /\ at[c] = "slot" => vec[c] = Tick
        /\ at[c] = "ipi" => dst[c] \in CPU
        /\ at[c] \in Handling <=> doing[c] # None
        /\ at[c] \in {"write", "clear"} => mode.torn
        /\ c \notin mode.cpus => at[c] = "out" /\ cur[c] = None
        /\ \A d \in CPU : cur[c] = cur[d] /\ cur[c] # None => c = d

\* What a processor that is alone knows at each place: nobody interrupts it, and
\* the words it has read are still true.
Undisturbed(c) ==
    /\ ~ipi[c] /\ ~int[c] /\ at[c] # "ipi"
    /\ at[c] = "write" => word[c] = pend[who[c]]
    /\ at[c] = "clear" => word[c] = pend[cur[c]]
    /\ at[c] \in {"test", "mask"} => vec[c] \in pend[who[c]]
    /\ at[c] \in Handling \cup {"pend"} => ~disInt[cur[c]]
    /\ at[c] \in {"handle", "clear"} => doing[c] \notin owed[cur[c]]
Solitude == Alone => \A c \in CPU : Undisturbed(c)

\* A vector that was cleared and is pending again was made so since.
Cleared ==
    Alone \/ ~mode.torn => \A c \in CPU :
        at[c] = "enable" /\ doing[c] \in pend[cur[c]] => doing[c] \in owed[cur[c]]

-----------------------------------------------------------------------------
(* The steps, in groups: system calls, what begins at a processor that is not in   *)
(* an interrupt, what records an interrupt and what handles one.                  *)
Call(v)   == Register(v) \/ AttachTick(v) \/ Restart(v) \/ DisableInt(v) \/ EnableInt(v)
             \/ \E d \in Devices : AttachVec(v, d)
Begin(c)  == SchedIpi(c) \/ (\E v \in VCPU \cup {None} : Switch(c, v))
             \/ (\E d \in Devices : Device(c, d)) \/ TickIrq(c) \/ IpiProc(c)
Record(c) == TickNext(c) \/ TickEnd(c) \/ PendSet(c) \/ PendWrite(c)
             \/ TestOwn(c) \/ TestOther(c) \/ TestNone(c) \/ TestOff(c) \/ Ipi(c) \/ Mask(c)
Serve(c)  == Handle(c) \/ PendClr(c) \/ ClearWrite(c) \/ IrqEnable(c) \/ PendDone(c)

\* A step is in one of the groups, on a processor that is up.
LEMMA StepIs ==
  ASSUME TypeOK, Next
  PROVE  \E c \in CPU :
            /\ c \in mode.cpus
            /\ \/ \E v \in VCPU : Runs(c, v) /\ Call(v)
               \/ Begin(c) \/ Record(c) \/ Serve(c)
<1>1. mode.cpus \subseteq CPU /\ mode.vcpus \subseteq VCPU
  BY VIrqAssumption DEF TypeOK, Board
<1> QED BY <1>1 DEF Next, Syscall, Sched, Isr, Call, Begin, Record, Serve

\* The circumstances do not change, and name processors that exist.
LEMMA ModeSame ==
  ASSUME TypeOK, [Next]_vars
  PROVE  mode' = mode /\ mode.cpus \in SUBSET CPU
<1>1. mode.cpus \in SUBSET CPU
  BY VIrqAssumption DEF TypeOK, Board
<1>2. ASSUME NEW v \in VCPU, Call(v) PROVE mode' = mode
  BY <1>2 DEF Call, Register, AttachTick, Restart, DisableInt, EnableInt, AttachVec
<1>3. ASSUME NEW c \in CPU, Begin(c) PROVE mode' = mode
  BY <1>3 DEF Begin, SchedIpi, Switch, Device, TickIrq, IpiProc
<1>4. ASSUME NEW c \in CPU, Record(c) PROVE mode' = mode
  BY <1>4 DEF Record, TickNext, TickEnd, PendSet, PendWrite, TestOwn, TestOther, TestNone,
              TestOff, Ipi, Mask
<1>5. ASSUME NEW c \in CPU, Serve(c) PROVE mode' = mode
  BY <1>5 DEF Serve, Handle, PendClr, ClearWrite, IrqEnable, PendDone
<1> QED BY <1>1, <1>2, <1>3, <1>4, <1>5, StepIs DEF vars

\* Sets of vectors have a least one.
LEMMA LeastVec ==
  ASSUME NEW P, P \subseteq Vec, P # {}
  PROVE  \E d \in P : \A e \in P : d <= e
<1>0. P \subseteq Nat
  BY VIrqAssumption
<1> DEFINE R == {ss \in Nat \X Nat : ss[1] < ss[2]}
<1>1. IsWellFoundedOn(R, Nat)
  BY NatLessThanWellFounded DEF OpToRel
<1> HIDE DEF R
<1>2. PICK x \in P : \A y \in P : ~ (<<y, x>> \in R)
  BY <1>0, <1>1, WFMin
<1>3. \A y \in P : ~(y < x)
  BY <1>0, <1>2 DEF R
<1>4. \A y \in P : x <= y
  BY <1>0, <1>3
<1> QED BY <1>4

\* vcpuDoPendIsr handles a vector that is pending.
LEMMA HandleIs ==
  ASSUME TypeOK, NEW c \in CPU, cur[c] \in VCPU, Handle(c)
  PROVE  \E x \in pend[cur[c]] :
            /\ at[c] = "pend" /\ at' = [at EXCEPT ![c] = "handle"] /\ x \in Vec
            /\ doing' = [doing EXCEPT ![c] = x] /\ owed' = [owed EXCEPT ![cur[c]] = @ \ {x}]
            /\ UNCHANGED <<pend, thread, masked, cur, ipi, int, vec, who, slot, word, dst, left, mode, hist>>
<1> DEFINE P == pend[cur[c]]
           x == CHOOSE x \in P : \A y \in P : x <= y
<1>1. P \subseteq Vec /\ P # {}
  BY DEF TypeOK, Handle, HasWork
<1>2. x \in P
  BY <1>1, LeastVec
<1>3. /\ at[c] = "pend" /\ at' = [at EXCEPT ![c] = "handle"]
      /\ doing' = [doing EXCEPT ![c] = x] /\ owed' = [owed EXCEPT ![cur[c]] = @ \ {x}]
      /\ UNCHANGED <<pend, thread, masked, cur, ipi, int, vec, who, slot, word, dst, left, mode, hist>>
  BY DEF Handle, Set
<1> HIDE DEF x
<1> QED BY <1>1, <1>2, <1>3

\* A vector and a number of places are not None, and the number is a number.
LEMMA ConstFacts ==
  /\ Tick \in Vec /\ Devices \subseteq Vec /\ None \notin Vec /\ None \notin VCPU /\ None \notin CPU
  /\ Cardinality(VCPU) \in Nat /\ Slots = 0 .. Cardinality(VCPU) - 1
  /\ "out" \notin Recording \cup Handling
BY VIrqAssumption, FS_CardinalityType DEF Vec, Slots, Recording, Handling
-----------------------------------------------------------------------------
(* The steps keep the types.                                                  *)

\* System calls keep the types.
LEMMA CallTyped ==
  ASSUME TypeOK, NEW v \in VCPU, Call(v)
  PROVE  TypeOK'
<1> USE DEF TypeOK, Set, cpu, hist
<1>1. CASE Register(v)
  BY <1>1 DEF Register
<1>2. CASE AttachTick(v)
  <2>1. tickAt' \in [Slots -> VCPU \cup {None}]
    BY <1>2 DEF AttachTick
  <2>2. gone' \in SUBSET VCPU /\ twice' \in BOOLEAN
    BY <1>2 DEF AttachTick
  <2> QED BY <1>2, <2>1, <2>2 DEF AttachTick
<1>3. CASE Restart(v)
  <2>1. gone' \in SUBSET VCPU /\ due' \in [CPU -> SUBSET VCPU]
    BY <1>3 DEF Restart
  <2> QED BY <1>3, <2>1 DEF Restart
<1>4. CASE DisableInt(v)
  BY <1>4 DEF DisableInt
<1>5. CASE EnableInt(v)
  BY <1>5 DEF EnableInt
<1>6. ASSUME NEW d \in Devices, AttachVec(v, d) PROVE TypeOK'
  BY <1>6 DEF AttachVec
<1> QED BY <1>1, <1>2, <1>3, <1>4, <1>5, <1>6 DEF Call

\* What begins at a processor keeps the types.
LEMMA BeginTyped ==
  ASSUME TypeOK, Placed, NEW c \in CPU, Begin(c)
  PROVE  TypeOK'
<1> USE ConstFacts DEF TypeOK, Set, cpu, thread, hist, Go
<1>1. CASE SchedIpi(c)
  BY <1>1 DEF SchedIpi
<1>2. ASSUME NEW v \in VCPU \cup {None}, Switch(c, v) PROVE TypeOK'
  BY <1>2 DEF Switch
<1>3. ASSUME NEW d \in Devices, Device(c, d) PROVE TypeOK'
  <2>1. left' \in [Devices -> 0 .. Raises]
    <3>1. left[d] \in 0 .. Raises /\ left[d] > 0 /\ Raises \in Nat
      BY <1>3, VIrqAssumption DEF Device
    <3>2. left[d] - 1 \in 0 .. Raises
      BY <3>1
    <3> QED BY <1>3, <3>2 DEF Device
  <2>2. CASE vecMap[d] = None
    BY <1>3, <2>1, <2>2 DEF Device
  <2>3. CASE vecMap[d] # None
    <3>1. /\ at' = [at EXCEPT ![c] = "set"] /\ vec' = [vec EXCEPT ![c] = d]
          /\ who' = [who EXCEPT ![c] = vecMap[d]] /\ d \in Vec /\ vecMap[d] \in VCPU
          /\ UNCHANGED <<pend, thread, masked, cur, ipi, int, slot, doing, word, dst, owed, mode, hist>>
      BY <1>3, <2>3 DEF Device
    <3> QED BY <2>1, <3>1
  <2> QED BY <2>2, <2>3
<1>4. CASE TickIrq(c)
  <2>1. Front \subseteq VCPU
    BY DEF Front, Slots
  <2> QED BY <1>4, <2>1 DEF TickIrq
<1>5. CASE IpiProc(c)
  BY <1>5 DEF IpiProc
<1> QED BY <1>1, <1>2, <1>3, <1>4, <1>5 DEF Begin

\* The end of an interrupt keeps the types.
LEMMA DoneTyped ==
  ASSUME TypeOK, NEW c \in CPU, Done(c)
  PROVE  /\ at' \in [CPU -> {"out", "slot", "set", "write", "test", "ipi", "mask", "pend",
                             "handle", "clear", "enable"}]
         /\ vec' \in [CPU -> Vec \cup {None}] /\ who' \in [CPU -> VCPU \cup {None}]
BY ConstFacts DEF TypeOK, Done, Set

\* Recording an interrupt keeps the types.
LEMMA RecordTyped ==
  ASSUME TypeOK, Placed, NEW c \in CPU, Record(c)
  PROVE  TypeOK'
<1> USE ConstFacts DEF TypeOK, Set, cpu, thread, hist, Go
<1>1. CASE TickNext(c)
  <2>1. slot' \in [CPU -> 0 .. Cardinality(VCPU)]
    <3>1. slot[c] \in Slots /\ slot' = [slot EXCEPT ![c] = @ + 1]
      BY <1>1 DEF TickNext, Listed
    <3>2. slot[c] + 1 \in 0 .. Cardinality(VCPU)
      BY <3>1
    <3> QED BY <3>1, <3>2
  <2> QED BY <1>1, <2>1 DEF TickNext, Listed
<1>2. CASE TickEnd(c)
  BY <1>2 DEF TickEnd
<1>3. CASE PendSet(c)
  <2>1. who[c] \in VCPU /\ vec[c] \in Vec
    BY <1>3 DEF PendSet, Placed, Recording
  <2>2. CASE mode.torn
    <3>1. /\ at' = [at EXCEPT ![c] = "write"] /\ word' = [word EXCEPT ![c] = pend[who[c]]]
          /\ UNCHANGED <<pend, owed, thread, masked, cur, ipi, int, vec, who, slot, doing, dst,
                         left, mode, hist>>
      BY <1>3, <2>2 DEF PendSet
    <3> QED BY <2>1, <3>1
  <2>3. CASE ~mode.torn
    <3>0. due' \in [CPU -> SUBSET VCPU]
      <4>1. Owe(c)
        BY <1>3, <2>3 DEF PendSet
      <4> QED BY <4>1 DEF Owe
    <3>1. /\ at' = [at EXCEPT ![c] = "test"] /\ pend' = [pend EXCEPT ![who[c]] = @ \cup {vec[c]}]
          /\ owed' = [owed EXCEPT ![who[c]] = @ \cup {vec[c]}]
          /\ due' \in [CPU -> SUBSET VCPU]
          /\ UNCHANGED <<word, thread, masked, cur, ipi, int, vec, who, slot, doing, dst, left,
                         mode, gone, twice>>
      BY <1>3, <2>3, <3>0 DEF PendSet, Owe
    <3> QED BY <2>1, <3>1
  <2> QED BY <2>2, <2>3
<1>4. CASE PendWrite(c)
  <2>1. who[c] \in VCPU /\ vec[c] \in Vec
    BY <1>4 DEF PendWrite, Placed, Recording
  <2>2. due' \in [CPU -> SUBSET VCPU]
    BY <1>4 DEF PendWrite, Owe
  <2> QED BY <1>4, <2>1, <2>2 DEF PendWrite, Owe
<1>5. CASE TestOwn(c)
  BY <1>5 DEF TestOwn
<1>6. CASE TestOther(c)
  BY <1>6 DEF TestOther
<1>7. CASE TestNone(c)
  BY <1>7, DoneTyped DEF TestNone
<1>8. CASE TestOff(c)
  BY <1>8 DEF TestOff
<1>9. CASE Ipi(c)
  BY <1>9, DoneTyped DEF Ipi
<1>10. CASE Mask(c)
  BY <1>10, DoneTyped DEF Mask, NowMasked
<1> QED BY <1>1, <1>2, <1>3, <1>4, <1>5, <1>6, <1>7, <1>8, <1>9, <1>10 DEF Record

\* Handling an interrupt keeps the types.
LEMMA ServeTyped ==
  ASSUME TypeOK, Placed, NEW c \in CPU, Serve(c)
  PROVE  TypeOK'
<1> USE ConstFacts DEF TypeOK, Set, cpu, thread, hist, Go
<1>1. CASE Handle(c)
  <2>1. cur[c] \in VCPU
    BY <1>1 DEF Handle, Placed
  <2>2. PICK x \in pend[cur[c]] :
            /\ at[c] = "pend" /\ at' = [at EXCEPT ![c] = "handle"] /\ x \in Vec
            /\ doing' = [doing EXCEPT ![c] = x] /\ owed' = [owed EXCEPT ![cur[c]] = @ \ {x}]
            /\ UNCHANGED <<pend, thread, masked, cur, ipi, int, vec, who, slot, word, dst, left, mode, hist>>
    BY <1>1, <2>1, HandleIs
  <2> QED BY <2>1, <2>2
<1>2. CASE PendClr(c)
  <2>1. cur[c] \in VCPU
    BY <1>2 DEF PendClr, Placed, Handling
  <2>2. CASE mode.torn
    <3>1. /\ at' = [at EXCEPT ![c] = "clear"] /\ word' = [word EXCEPT ![c] = pend[cur[c]]]
          /\ UNCHANGED <<pend, owed, thread, masked, cur, ipi, int, vec, who, slot, doing, dst, left, mode, hist>>
      BY <1>2, <2>2 DEF PendClr
    <3> QED BY <2>1, <3>1
  <2>3. CASE ~mode.torn
    <3>1. /\ at' = [at EXCEPT ![c] = "enable"] /\ pend' = [pend EXCEPT ![cur[c]] = @ \ {Handled(c)}]
          /\ UNCHANGED <<word, owed, thread, masked, cur, ipi, int, vec, who, slot, doing, dst, left, mode, hist>>
      BY <1>2, <2>3 DEF PendClr
    <3> QED BY <2>1, <3>1
  <2> QED BY <2>2, <2>3
<1>3. CASE ClearWrite(c)
  BY <1>3 DEF ClearWrite
<1>4. CASE IrqEnable(c)
  BY <1>4 DEF IrqEnable, Unmasked
<1>5. CASE PendDone(c)
  BY <1>5, DoneTyped DEF PendDone
<1> QED BY <1>1, <1>2, <1>3, <1>4, <1>5 DEF Serve

\* The types hold after every step.
LEMMA TypesKept ==
  ASSUME TypeOK, Placed, [Next]_vars
  PROVE  TypeOK'
<1>1. CASE UNCHANGED vars
  BY <1>1 DEF TypeOK, vars, thread, cpu, hist
<1> QED BY <1>1, StepIs, CallTyped, BeginTyped, RecordTyped, ServeTyped
-----------------------------------------------------------------------------
(* The steps keep what a processor has at each place.                          *)

\* System calls leave the processors as they are.
LEMMA CallFrame ==
  ASSUME NEW v \in VCPU, Call(v)
  PROVE  UNCHANGED <<pend, masked, cur, ipi, int, cpu, owed, left, mode>>
BY DEF Call, Register, AttachTick, Restart, DisableInt, EnableInt, AttachVec

\* What begins at a processor puts it in its place.
LEMMA BeginPlaced ==
  ASSUME TypeOK, Placed, NEW c \in CPU, c \in mode.cpus, Begin(c)
  PROVE  Placed'
<1> USE ConstFacts DEF Recording, Handling
<1>1. CASE SchedIpi(c)
  BY <1>1 DEF SchedIpi, Placed, cpu
<1>2. ASSUME NEW v \in VCPU \cup {None}, Switch(c, v) PROVE Placed'
  <2>1. /\ at[c] = "out" /\ (v = None \/ \A d \in CPU : cur[d] # v)
        /\ cur' = [cur EXCEPT ![c] = v] /\ UNCHANGED <<cpu, mode>>
    BY <1>2 DEF Switch, Set
  <2> QED BY <2>1 DEF Placed, TypeOK, cpu
<1>3. ASSUME NEW d \in Devices, Device(c, d) PROVE Placed'
  <2>1. CASE vecMap[d] = None
    BY <1>3, <2>1 DEF Device, Placed
  <2>2. CASE vecMap[d] # None
    <3>1. /\ at' = [at EXCEPT ![c] = "set"] /\ vec' = [vec EXCEPT ![c] = d] /\ at[c] = "out"
          /\ who' = [who EXCEPT ![c] = vecMap[d]] /\ d \in Vec /\ vecMap[d] \in VCPU
          /\ UNCHANGED <<cur, doing, dst, mode>>
      BY <1>3, <2>2 DEF Device, Set, TypeOK
    <3> QED BY <3>1 DEF Placed, TypeOK
  <2> QED BY <2>1, <2>2
<1>4. CASE TickIrq(c)
  BY <1>4 DEF TickIrq, Go, Set, Placed, TypeOK
<1>5. CASE IpiProc(c)
  BY <1>5 DEF IpiProc, Set, Placed, TypeOK
<1> QED BY <1>1, <1>2, <1>3, <1>4, <1>5 DEF Begin

\* The end of an interrupt leaves the processor in its place.
LEMMA DonePlaced ==
  ASSUME TypeOK, Placed, NEW c \in CPU, c \in mode.cpus, at[c] \notin Handling, Done(c),
         UNCHANGED <<cur, doing, mode>>, dst' = dst \/ (at[c] = "ipi" /\ dst' = [dst EXCEPT ![c] = None])
  PROVE  Placed'
BY ConstFacts DEF Recording, Handling, Done, Set, Placed, TypeOK

\* Recording an interrupt keeps a processor in its place.
LEMMA RecordPlaced ==
  ASSUME TypeOK, Placed, NEW c \in CPU, c \in mode.cpus, Record(c)
  PROVE  Placed'
<1> USE ConstFacts DEF Recording, Handling
<1>1. CASE TickNext(c)
  BY <1>1 DEF TickNext, Listed, Go, Set, Placed, TypeOK
<1>2. CASE TickEnd(c)
  BY <1>2 DEF TickEnd, Go, Set, Placed, TypeOK
<1>3. CASE PendSet(c)
  <2>1. /\ at[c] = "set" /\ UNCHANGED <<cur, vec, who, doing, dst, mode>>
        /\ \/ mode.torn /\ at' = [at EXCEPT ![c] = "write"]
           \/ at' = [at EXCEPT ![c] = "test"]
    BY <1>3 DEF PendSet, Go, Set
  <2> QED BY <2>1 DEF Placed, TypeOK
<1>4. CASE PendWrite(c)
  BY <1>4 DEF PendWrite, Go, Set, Placed, TypeOK
<1>5. CASE TestOwn(c)
  BY <1>5 DEF TestOwn, Go, Set, Placed, TypeOK
<1>6. CASE TestOther(c)
  BY <1>6 DEF TestOther, Go, Set, Placed, TypeOK
<1>7. CASE TestNone(c)
  <2>1. at[c] = "test" /\ Done(c) /\ UNCHANGED <<cur, doing, dst, mode>>
    BY <1>7 DEF TestNone
  <2> QED BY <2>1, DonePlaced
<1>8. CASE TestOff(c)
  BY <1>8 DEF TestOff, Go, Set, Placed, TypeOK
<1>9. CASE Ipi(c)
  BY <1>9, DonePlaced DEF Ipi, Set
<1>10. CASE Mask(c)
  <2>1. at[c] = "mask" /\ Done(c) /\ UNCHANGED <<cur, doing, dst, mode>>
    BY <1>10 DEF Mask
  <2> QED BY <2>1, DonePlaced
<1> QED BY <1>1, <1>2, <1>3, <1>4, <1>5, <1>6, <1>7, <1>8, <1>9, <1>10 DEF Record

\* Handling an interrupt keeps a processor in its place.
LEMMA ServePlaced ==
  ASSUME TypeOK, Placed, NEW c \in CPU, c \in mode.cpus, Serve(c)
  PROVE  Placed'
<1> USE ConstFacts DEF Recording, Handling
<1>1. CASE Handle(c)
  <2>1. cur[c] \in VCPU
    BY <1>1 DEF Handle, Placed
  <2>2. PICK x \in Vec : /\ at[c] = "pend" /\ at' = [at EXCEPT ![c] = "handle"]
                         /\ doing' = [doing EXCEPT ![c] = x]
                         /\ UNCHANGED <<cur, vec, who, dst, mode>>
    BY <1>1, <2>1, HandleIs
  <2> QED BY <2>1, <2>2 DEF Placed, TypeOK
<1>2. CASE PendClr(c)
  <2>1. /\ at[c] = "handle" /\ UNCHANGED <<cur, vec, who, doing, dst, mode>>
        /\ \/ mode.torn /\ at' = [at EXCEPT ![c] = "clear"]
           \/ at' = [at EXCEPT ![c] = "enable"]
    BY <1>2 DEF PendClr, Go, Set
  <2> QED BY <2>1 DEF Placed, TypeOK
<1>3. CASE ClearWrite(c)
  BY <1>3 DEF ClearWrite, Go, Set, Placed, TypeOK
<1>4. CASE IrqEnable(c)
  BY <1>4 DEF IrqEnable, Go, Set, Placed, TypeOK
<1>5. CASE PendDone(c)
  <2>1. at[c] = "pend" /\ Done(c) /\ UNCHANGED <<cur, doing, dst, mode>>
    BY <1>5 DEF PendDone
  <2> QED BY <2>1, DonePlaced
<1> QED BY <1>1, <1>2, <1>3, <1>4, <1>5 DEF Serve

\* After every step a processor is in its place.
LEMMA PlacesKept ==
  ASSUME TypeOK, Placed, [Next]_vars
  PROVE  Placed'
<1>1. ASSUME NEW v \in VCPU, Call(v) PROVE Placed'
  BY <1>1, CallFrame DEF Placed, cpu
<1>2. CASE UNCHANGED vars
  BY <1>2 DEF Placed, vars, cpu
<1> QED BY <1>1, <1>2, StepIs, BeginPlaced, RecordPlaced, ServePlaced
-----------------------------------------------------------------------------
(* The list of the tick.                                                      *)

\* The free places before a place
Holes(i) == {j \in Slots : j < i /\ tickAt[j] = None}

\* Unless a thread attached twice, none is on the list twice, and there are no more
\* free places before a thread than threads that were taken off and are still off.
ListOK ==
    /\ \A v \in gone : ~Listens(v)
    /\ ~twice => \A i, j \in Slots : tickAt[i] # None /\ j < i => tickAt[j] # tickAt[i]
    /\ ~twice => \A i \in Slots :
        tickAt[i] # None => Cardinality(Holes(i)) <= Cardinality(gone)

\* Free places are finitely many, and so are threads that are off the list.
LEMMA Counts ==
  ASSUME TypeOK, NEW i \in Slots
  PROVE  /\ IsFiniteSet(Holes(i)) /\ Cardinality(Holes(i)) \in Nat
         /\ IsFiniteSet(gone) /\ Cardinality(gone) \in Nat
<1>1. IsFiniteSet(Slots)
  BY ConstFacts, FS_Interval
<1>2. IsFiniteSet(Holes(i))
  BY <1>1, FS_Subset DEF Holes
<1>3. IsFiniteSet(gone)
  BY VIrqAssumption, FS_Subset DEF TypeOK
<1> QED BY <1>2, <1>3, FS_CardinalityType

\* irqAttach keeps the list in order.
LEMMA AttachList ==
  ASSUME TypeOK, TypeOK', ListOK, NEW v \in VCPU, AttachTick(v)
  PROVE  ListOK'
<1>1. PICK k \in Slots : /\ IsPlace(v, k) /\ tickAt' = [tickAt EXCEPT ![k] = v]
                         /\ twice' = (twice \/ (Listens(v) /\ tickAt[k] # v))
                         /\ gone' = gone \ {v}
  BY DEF AttachTick, Set
<1>2. tickAt[k] \in {v, None} /\ \A j \in Slots : tickAt[j] \in {v, None} => k <= j
  BY <1>1 DEF IsPlace, Places
<1>3. Slots \subseteq Int /\ v # None
  BY ConstFacts
<1>4. tickAt'[k] = v /\ \A m \in Slots \ {k} : tickAt'[m] = tickAt[m]
  BY <1>1 DEF TypeOK
<1>5. \A u \in gone' : ~Listens(u)'
  BY <1>1, <1>4 DEF ListOK, Listens
<1>6. SUFFICES ASSUME ~twice'
               PROVE  /\ \A i, j \in Slots : tickAt'[i] # None /\ j < i => tickAt'[j] # tickAt'[i]
                      /\ \A i \in Slots : tickAt'[i] # None
                            => Cardinality(Holes(i)') <= Cardinality(gone')
  BY <1>5 DEF ListOK
<1>7. /\ ~twice /\ (Listens(v) => tickAt[k] = v)
      /\ \A i, j \in Slots : tickAt[i] # None /\ j < i => tickAt[j] # tickAt[i]
      /\ \A i \in Slots : tickAt[i] # None => Cardinality(Holes(i)) <= Cardinality(gone)
  BY <1>1, <1>6 DEF ListOK
<1>8. CASE tickAt[k] = v
  <2>1. tickAt' = tickAt /\ v \notin gone
    BY <1>1, <1>8 DEF TypeOK, ListOK, Listens
  <2>2. gone' = gone /\ \A i : Holes(i)' = Holes(i)
    BY <1>1, <2>1 DEF Holes
  <2> QED BY <1>7, <2>1, <2>2
<1>9. CASE tickAt[k] # v
  <2>1. \A m \in Slots : tickAt[m] # v
    BY <1>7, <1>9 DEF Listens
  <2>2. tickAt[k] = None
    BY <1>2, <1>9
  <2>3. ASSUME NEW i \in Slots, NEW j \in Slots, tickAt'[i] # None, j < i
        PROVE  tickAt'[j] # tickAt'[i]
    BY <1>3, <1>4, <1>7, <2>1, <2>3
  <2>4. ASSUME NEW i \in Slots, tickAt'[i] # None
        PROVE  Cardinality(Holes(i)') <= Cardinality(gone')
    <3>1. /\ IsFiniteSet(Holes(i)) /\ Cardinality(Holes(i)) \in Nat
          /\ IsFiniteSet(gone) /\ Cardinality(gone) \in Nat
      BY Counts
    <3>2. Cardinality(gone') \in Nat /\ Cardinality(gone') >= Cardinality(gone) - 1
      <4>1. CASE v \in gone
        <5>1. IsFiniteSet(gone') /\ Cardinality(gone') = Cardinality(gone) - 1
          BY <1>1, <3>1, <4>1, FS_RemoveElement
        <5>2. Cardinality(gone') \in Nat
          BY <5>1, FS_CardinalityType
        <5> QED BY <3>1, <5>1, <5>2
      <4>2. CASE v \notin gone
        <5>1. gone' = gone
          BY <1>1, <4>2
        <5> QED BY <3>1, <5>1
      <4> QED BY <4>1, <4>2
    <3>3. CASE i = k
      <4>0. ASSUME NEW j \in Slots, j < k PROVE tickAt'[j] # None
        <5>1. ~(k <= j) /\ j # k
          BY <1>3, <4>0
        <5> QED BY <1>2, <1>4, <5>1
      <4>1. Holes(i)' = {}
        BY <3>3, <4>0 DEF Holes
      <4>2. Cardinality(Holes(i)') = 0
        BY <4>1, FS_EmptySet
      <4> QED BY <3>2, <4>2
    <3>4. CASE i # k
      <4>1. tickAt[i] # None
        BY <1>4, <2>4, <3>4
      <4>2. Cardinality(Holes(i)) <= Cardinality(gone)
        BY <1>7, <4>1
      <4>3. CASE k < i
        <5>1. k \in Holes(i) /\ Holes(i)' = Holes(i) \ {k}
          BY <1>3, <1>4, <2>2, <4>3 DEF Holes
        <5>2. Cardinality(Holes(i)') = Cardinality(Holes(i)) - 1
          BY <3>1, <5>1, FS_RemoveElement
        <5> QED BY <3>1, <3>2, <4>2, <5>2
      <4>4. CASE ~(k < i)
        <5>1. Holes(i)' = {} /\ Holes(i) = {}
          BY <1>2, <1>3, <1>4, <4>4 DEF Holes
        <5>2. Cardinality(Holes(i)') = 0
          BY <5>1, FS_EmptySet
        <5> QED BY <3>2, <5>2
      <4> QED BY <4>3, <4>4
    <3> QED BY <3>3, <3>4
  <2> QED BY <2>3, <2>4
<1> QED BY <1>8, <1>9

\* irqDisAttach leaves one free place for the thread it takes off.
LEMMA RestartList ==
  ASSUME TypeOK, TypeOK', ListOK, NEW v \in VCPU, Restart(v)
  PROVE  ListOK'
<1>1. /\ tickAt' = [i \in Slots |-> IF tickAt[i] = v THEN None ELSE tickAt[i]]
      /\ twice' = twice
  BY DEF Restart
<1>2. v # None /\ Slots \subseteq Int
  BY ConstFacts
<1>3. CASE ~Listens(v)
  <2>1. tickAt' = tickAt /\ gone' = gone
    BY <1>1, <1>3 DEF Listens, TypeOK, Restart
  <2>2. \A i : Holes(i)' = Holes(i) /\ (Listens(i)' <=> Listens(i))
    BY <2>1 DEF Holes, Listens
  <2> QED BY <1>1, <2>1, <2>2 DEF ListOK
<1>4. CASE Listens(v)
  <2>1. gone' = gone \cup {v} /\ v \notin gone
    BY <1>4 DEF Restart, ListOK
  <2>2. \A u \in gone' : ~Listens(u)'
    <3>1. SUFFICES ASSUME NEW u \in gone', NEW i \in Slots, tickAt'[i] = u PROVE FALSE
      BY DEF Listens
    <3>2. u # None /\ (u = v \/ u \in gone)
      BY <1>2, <2>1, ConstFacts DEF TypeOK
    <3>3. tickAt[i] = u /\ u # v
      BY <1>1, <3>1, <3>2
    <3> QED BY <3>2, <3>3 DEF ListOK, Listens
  <2>3. SUFFICES ASSUME ~twice
                 PROVE  /\ \A i, j \in Slots : tickAt'[i] # None /\ j < i => tickAt'[j] # tickAt'[i]
                        /\ \A i \in Slots : tickAt'[i] # None
                              => Cardinality(Holes(i)') <= Cardinality(gone')
    BY <1>1, <2>2 DEF ListOK
  <2>4. /\ \A i, j \in Slots : tickAt[i] # None /\ j < i => tickAt[j] # tickAt[i]
        /\ \A i \in Slots : tickAt[i] # None => Cardinality(Holes(i)) <= Cardinality(gone)
    BY <2>3 DEF ListOK
  <2>5. PICK k \in Slots : tickAt[k] = v
    BY <1>4 DEF Listens
  <2>6. \A i \in Slots \ {k} : tickAt[i] # v
    BY <1>2, <2>4, <2>5
  <2>7. tickAt'[k] = None /\ \A i \in Slots \ {k} : tickAt'[i] = tickAt[i]
    BY <1>1, <2>5, <2>6
  <2>8. ASSUME NEW i \in Slots, tickAt'[i] # None
        PROVE  Cardinality(Holes(i)') <= Cardinality(gone')
    <3>1. /\ IsFiniteSet(Holes(i)) /\ Cardinality(Holes(i)) \in Nat
          /\ IsFiniteSet(gone) /\ Cardinality(gone) \in Nat
      BY Counts
    <3>2. Cardinality(gone') = Cardinality(gone) + 1
      BY <2>1, <3>1, FS_AddElement
    <3>3. Cardinality(Holes(i)) <= Cardinality(gone) /\ i # k
      BY <2>4, <2>7, <2>8
    <3>4. Holes(i)' = IF k < i THEN Holes(i) \cup {k} ELSE Holes(i)
      <4>1. \A j \in Slots : tickAt'[j] = None <=> tickAt[j] = None \/ j = k
        BY <2>7
      <4>2. Holes(i)' = {j \in Slots : j < i /\ (tickAt[j] = None \/ j = k)}
        BY <4>1 DEF Holes
      <4> QED BY <4>2 DEF Holes
    <3>5. Cardinality(Holes(i) \cup {k}) = Cardinality(Holes(i)) + 1
      <4>1. k \notin Holes(i)
        BY <1>2, <2>5 DEF Holes
      <4> QED BY <3>1, <4>1, FS_AddElement
    <3>6. Cardinality(Holes(i)') <= Cardinality(Holes(i)) + 1
      <4>1. CASE k < i
        <5>1. Cardinality(Holes(i)') = Cardinality(Holes(i)) + 1
          BY <3>4, <3>5, <4>1
        <5> QED BY <3>1, <5>1
      <4>2. CASE ~(k < i)
        BY <3>1, <3>4, <4>2
      <4> QED BY <4>1, <4>2
    <3>7. Cardinality(Holes(i)') \in Nat
      <4>1. IsFiniteSet(Holes(i) \cup {k})
        BY <3>1, FS_AddElement
      <4> QED BY <3>1, <3>4, <4>1, FS_CardinalityType
    <3> QED BY <3>1, <3>2, <3>3, <3>6, <3>7
  <2>9. ASSUME NEW i \in Slots, NEW j \in Slots, tickAt'[i] # None, j < i
        PROVE  tickAt'[j] # tickAt'[i]
    BY <2>4, <2>7, <2>9
  <2> QED BY <2>8, <2>9
<1> QED BY <1>3, <1>4

\* Only irqAttach and irqDisAttach change the list.
LEMMA ListFrame ==
  ASSUME TypeOK, [Next]_vars, \A v \in VCPU : ~AttachTick(v) /\ ~Restart(v)
  PROVE  UNCHANGED <<tickAt, gone, twice>>
<1>1. ASSUME NEW v \in VCPU, Call(v) PROVE UNCHANGED <<tickAt, gone, twice>>
  BY <1>1 DEF Call, Register, DisableInt, EnableInt, AttachVec, hist
<1>2. ASSUME NEW c \in CPU, Begin(c) PROVE UNCHANGED <<tickAt, gone, twice>>
  BY <1>2 DEF Begin, SchedIpi, Switch, Device, TickIrq, IpiProc, thread, hist
<1>3. ASSUME NEW c \in CPU, Record(c) PROVE UNCHANGED <<tickAt, gone, twice>>
  BY <1>3 DEF Record, TickNext, TickEnd, PendSet, PendWrite, TestOwn, TestOther, TestNone,
              TestOff, Ipi, Mask, thread, hist
<1>4. ASSUME NEW c \in CPU, Serve(c) PROVE UNCHANGED <<tickAt, gone, twice>>
  BY <1>4 DEF Serve, Handle, PendClr, ClearWrite, IrqEnable, PendDone, thread, hist
<1>5. CASE UNCHANGED vars
  BY <1>5 DEF vars, thread, hist
<1> QED BY <1>1, <1>2, <1>3, <1>4, <1>5, StepIs

\* The list stays in order.
LEMMA ListKept ==
  ASSUME TypeOK, TypeOK', ListOK, [Next]_vars
  PROVE  ListOK'
<1>1. ASSUME UNCHANGED <<tickAt, gone, twice>> PROVE ListOK'
  <2>1. \A i : Holes(i)' = Holes(i) /\ (Listens(i)' <=> Listens(i))
    BY <1>1 DEF Holes, Listens
  <2> QED BY <1>1, <2>1 DEF ListOK
<1> QED BY <1>1, ListFrame, AttachList, RestartList
-----------------------------------------------------------------------------
(* The tick on its way along the list.                                        *)

\* Thread v is still to come on the way of processor c along the list.
Coming(c, v) ==
    \E i \in Slots : /\ slot[c] <= i /\ tickAt[i] = v
                     /\ \A j \in Slots : j <= i => tickAt[j] # None

\* Who the tick is due for is still to come, or is about to have it recorded.
DueAt(c) ==
    /\ at[c] = "out" => due[c] = {}
    /\ due[c] # {} => vec[c] = Tick
    /\ \A v \in due[c] : (at[c] \in {"set", "write"} /\ who[c] = v) \/ Coming(c, v)
DueOK == \A c \in CPU : DueAt(c)

\* Interrupts are on their own processors, and leave the list alone.
LEMMA IsrFrame ==
  ASSUME TypeOK, NEW c \in CPU, Begin(c) \/ Record(c) \/ Serve(c)
  PROVE  /\ tickAt' = tickAt
         /\ \A d \in CPU \ {c} : /\ at'[d] = at[d] /\ vec'[d] = vec[d] /\ who'[d] = who[d]
                                 /\ slot'[d] = slot[d] /\ due'[d] = due[d]
<1> USE DEF TypeOK, Set, Go, Done, thread, cpu, hist
<1>1. CASE Begin(c)
  BY <1>1 DEF Begin, SchedIpi, Switch, Device, TickIrq, IpiProc
<1>2. CASE Record(c)
  BY <1>2 DEF Record, TickNext, TickEnd, PendSet, PendWrite, Owe, TestOwn, TestOther, TestNone,
              TestOff, Ipi, Mask
<1>3. CASE Serve(c)
  BY <1>3 DEF Serve, Handle, PendClr, ClearWrite, IrqEnable, PendDone
<1> QED BY <1>1, <1>2, <1>3

\* The end of an interrupt takes a processor back on its way, or out with nothing due.
LEMMA DoneDue ==
  ASSUME TypeOK, NEW c \in CPU, DueAt(c), Done(c), at[c] \notin {"set", "write"},
         UNCHANGED <<slot, tickAt, due>>
  PROVE  DueAt(c)'
<1>1. CASE vec[c] = Tick
  <2>1. at'[c] = "slot" /\ vec'[c] = Tick
    BY <1>1 DEF Done, Set, TypeOK
  <2> QED BY <2>1 DEF DueAt, Coming
<1>2. CASE vec[c] # Tick
  <2>1. due'[c] = {}
    BY <1>2 DEF DueAt
  <2> QED BY <2>1 DEF DueAt
<1> QED BY <1>1, <1>2

\* On the way nothing is lost: what begins at a processor ...
LEMMA BeginDue ==
  ASSUME TypeOK, DueOK, NEW c \in CPU, Begin(c)
  PROVE  DueAt(c)'
<1>0. DueAt(c)
  BY DEF DueOK
<1>1. CASE TickIrq(c)
  <2>1. /\ at'[c] = "slot" /\ vec'[c] = Tick /\ slot'[c] = 0 /\ due'[c] = Front
        /\ tickAt' = tickAt
    BY <1>1 DEF TickIrq, Go, Set, TypeOK, thread
  <2>2. ASSUME NEW v \in Front PROVE Coming(c, v)'
    <3>1. PICK i \in Slots : tickAt[i] = v /\ \A j \in 0 .. i : tickAt[j] # None
      BY <2>2 DEF Front
    <3>2. 0 <= i /\ \A j \in Slots : j <= i => j \in 0 .. i
      BY ConstFacts
    <3> QED BY <2>1, <3>1, <3>2 DEF Coming
  <2> QED BY <2>1, <2>2 DEF DueAt
<1>2. CASE SchedIpi(c) \/ \E v \in VCPU \cup {None} : Switch(c, v)
  BY <1>0, <1>2 DEF SchedIpi, Switch, DueAt, Coming, cpu, hist, thread
<1>3. CASE IpiProc(c) \/ \E d \in Devices : Device(c, d)
  <2>1. at[c] = "out" /\ due' = due
    BY <1>3 DEF IpiProc, Device, hist
  <2> QED BY <1>0, <2>1 DEF DueAt
<1> QED BY <1>1, <1>2, <1>3 DEF Begin

\* ... what records an interrupt ...
LEMMA RecordDue ==
  ASSUME TypeOK, Placed, DueOK, NEW c \in CPU, Record(c)
  PROVE  DueAt(c)'
<1>0. DueAt(c) /\ Slots \subseteq Int /\ Slots = 0 .. Cardinality(VCPU) - 1
      /\ slot[c] \in Nat /\ Cardinality(VCPU) \in Nat
  BY ConstFacts DEF DueOK, TypeOK
<1>1. CASE TickNext(c)
  <2>1. /\ at[c] = "slot" /\ at'[c] = "set" /\ who'[c] = tickAt[slot[c]]
        /\ slot'[c] = slot[c] + 1 /\ vec' = vec /\ due' = due /\ tickAt' = tickAt
    BY <1>1 DEF TickNext, Go, Set, TypeOK, thread, hist
  <2>2. vec[c] = Tick
    BY <2>1 DEF Placed
  <2>3. ASSUME NEW v \in due[c], v # who'[c] PROVE Coming(c, v)'
    <3>1. PICK i \in Slots : /\ slot[c] <= i /\ tickAt[i] = v
                             /\ \A j \in Slots : j <= i => tickAt[j] # None
      BY <1>0, <2>1, <2>3 DEF DueAt, Coming
    <3>2. slot[c] + 1 <= i
      BY <1>0, <2>1, <2>3, <3>1
    <3> QED BY <2>1, <3>1, <3>2 DEF Coming
  <2> QED BY <2>1, <2>2, <2>3 DEF DueAt
<1>2. CASE TickEnd(c)
  <2>1. at[c] = "slot" /\ ~Listed(c) /\ due' = due
    BY <1>2 DEF TickEnd, Go, hist
  <2>2. ASSUME NEW v \in due[c] PROVE FALSE
    <3>1. PICK i \in Slots : /\ slot[c] <= i /\ tickAt[i] = v
                             /\ \A j \in Slots : j <= i => tickAt[j] # None
      BY <1>0, <2>1 DEF DueAt, Coming
    <3>2. slot[c] \in Slots /\ tickAt[slot[c]] # None
      BY <1>0, <3>1
    <3> QED BY <2>1, <3>2 DEF Listed
  <2>3. due'[c] = {}
    BY <2>1, <2>2
  <2> QED BY <2>3 DEF DueAt
<1>3. CASE PendSet(c) \/ PendWrite(c)
  <2>1. /\ at'[c] \in {"write", "test"} /\ UNCHANGED <<vec, who, slot, tickAt>>
        /\ at[c] \in {"set", "write"}
    BY <1>3 DEF PendSet, PendWrite, Go, Set, TypeOK, thread
  <2>2. \A v \in VCPU : Coming(c, v)' <=> Coming(c, v)
    BY <2>1 DEF Coming
  <2>3. CASE due' = due /\ at'[c] = "write"
    BY <1>0, <2>1, <2>2, <2>3 DEF DueAt, TypeOK
  <2>4. CASE Owe(c)
    <3>1. CASE vec[c] = Tick
      <4>1. due'[c] = due[c] \ {who[c]}
        BY <2>4, <3>1 DEF Owe, TypeOK
      <4> QED BY <1>0, <2>1, <2>2, <3>1, <4>1 DEF DueAt, TypeOK
    <3>2. CASE vec[c] # Tick
      <4>1. due'[c] = {}
        BY <1>0, <2>4, <3>2 DEF Owe, DueAt
      <4> QED BY <4>1 DEF DueAt
    <3> QED BY <3>1, <3>2
  <2> QED BY <1>3, <2>3, <2>4 DEF PendSet, PendWrite, Go, Set, TypeOK
<1>4. CASE TestOwn(c) \/ TestOther(c) \/ TestOff(c)
  <2>1. /\ at[c] = "test" /\ at'[c] # "out" /\ UNCHANGED <<vec, who, slot, tickAt, due>>
    BY <1>4 DEF TestOwn, TestOther, TestOff, Go, Set, TypeOK, thread, hist
  <2> QED BY <1>0, <2>1 DEF DueAt, Coming
<1>5. CASE TestNone(c) \/ Ipi(c) \/ Mask(c)
  <2>1. /\ at[c] \in {"test", "ipi", "mask"} /\ Done(c) /\ UNCHANGED <<slot, tickAt, due>>
    BY <1>5 DEF TestNone, Ipi, Mask, thread, hist
  <2> QED BY <1>0, <2>1, DoneDue
<1> QED BY <1>1, <1>2, <1>3, <1>4, <1>5 DEF Record

\* ... and what handles one.
LEMMA ServeDue ==
  ASSUME TypeOK, DueOK, NEW c \in CPU, Serve(c)
  PROVE  DueAt(c)'
<1>0. DueAt(c)
  BY DEF DueOK
<1>1. CASE PendDone(c)
  <2>1. /\ at[c] = "pend" /\ Done(c) /\ UNCHANGED <<slot, tickAt, due>>
    BY <1>1 DEF PendDone, thread, hist
  <2> QED BY <1>0, <2>1, DoneDue
<1>2. CASE Handle(c) \/ PendClr(c) \/ ClearWrite(c) \/ IrqEnable(c)
  <2>1. /\ at[c] \notin {"out", "set", "write"} /\ at'[c] # "out"
        /\ UNCHANGED <<vec, who, slot, tickAt, due>>
    BY <1>2 DEF Handle, PendClr, ClearWrite, IrqEnable, Go, Set, TypeOK, thread, hist
  <2> QED BY <1>0, <2>1 DEF DueAt, Coming
<1> QED BY <1>1, <1>2 DEF Serve

\* Nothing is lost on the way, whatever is attached or taken off meanwhile.
LEMMA DueKept ==
  ASSUME TypeOK, TypeOK', Placed, DueOK, [Next]_vars
  PROVE  DueOK'
<1>1. ASSUME NEW c \in CPU, Begin(c) \/ Record(c) \/ Serve(c) PROVE DueOK'
  <2>1. DueAt(c)'
    BY <1>1, BeginDue, RecordDue, ServeDue
  <2>2. ASSUME NEW d \in CPU, d # c PROVE DueAt(d)'
    BY <1>1, <2>2, IsrFrame DEF DueOK, DueAt, Coming
  <2> QED BY <2>1, <2>2 DEF DueOK
<1>2. ASSUME NEW v \in VCPU, AttachTick(v) PROVE DueOK'
  <2>1. PICK k \in Slots : tickAt[k] \in {v, None} /\ tickAt' = [tickAt EXCEPT ![k] = v]
    BY <1>2 DEF AttachTick, Set, IsPlace, Places
  <2>2. \A i \in Slots : tickAt[i] # None => tickAt'[i] = tickAt[i]
    BY <2>1 DEF TypeOK
  <2>3. UNCHANGED <<at, vec, who, slot, due>>
    BY <1>2 DEF AttachTick, cpu
  <2>4. ASSUME NEW c \in CPU, NEW u \in VCPU, Coming(c, u) PROVE Coming(c, u)'
    <3>1. PICK i \in Slots : /\ slot[c] <= i /\ tickAt[i] = u
                             /\ \A j \in Slots : j <= i => tickAt[j] # None
      BY <2>4 DEF Coming
    <3>2. i <= i
      BY ConstFacts
    <3> QED BY <2>2, <2>3, <3>1, <3>2 DEF Coming
  <2> QED BY <2>3, <2>4 DEF DueOK, DueAt, TypeOK
<1>3. ASSUME NEW v \in VCPU, Restart(v) PROVE DueOK'
  <2>1. CASE Listens(v)
    <3>1. \A c \in CPU : due'[c] = {}
      BY <1>3, <2>1 DEF Restart
    <3> QED BY <3>1 DEF DueOK, DueAt
  <2>2. CASE ~Listens(v)
    <3>1. tickAt' = tickAt /\ UNCHANGED <<at, vec, who, slot, due>>
      BY <1>3, <2>2 DEF Restart, cpu, Listens, TypeOK
    <3> QED BY <3>1 DEF DueOK, DueAt, Coming
  <2> QED BY <2>1, <2>2
<1>4. ASSUME NEW v \in VCPU, Register(v) \/ DisableInt(v) \/ EnableInt(v)
                             \/ \E d \in Devices : AttachVec(v, d)
      PROVE  DueOK'
  <2>1. UNCHANGED <<at, vec, who, slot, due, tickAt>>
    BY <1>4 DEF Register, DisableInt, EnableInt, AttachVec, cpu, hist
  <2> QED BY <2>1 DEF DueOK, DueAt, Coming
<1>5. CASE UNCHANGED vars
  BY <1>5 DEF vars, thread, cpu, hist, DueOK, DueAt, Coming
<1> QED BY <1>1, <1>2, <1>3, <1>4, <1>5, StepIs DEF Call
-----------------------------------------------------------------------------
(* What becomes pending and what is cleared, where the words that are read are      *)
(* still true when they are written.                                              *)
Sound == Alone \/ ~mode.torn

\* Of a processor that is alone the other processors are out of interrupts, and the
\* thread of an interrupt runs there or nowhere.
LEMMA OthersOut ==
  ASSUME TypeOK, Placed, Alone, NEW c \in CPU, c \in mode.cpus, NEW d \in CPU, d # c
  PROVE  at[d] = "out" /\ cur[d] = None /\ doing[d] = None
<1>1. mode.cpus \in SUBSET CPU
  BY VIrqAssumption DEF TypeOK, Board
<1>2. IsFiniteSet(mode.cpus)
  BY <1>1, VIrqAssumption, FS_Subset
<1>3. d \notin mode.cpus
  BY <1>2, FS_Singleton DEF Alone
<1> QED BY <1>3, ConstFacts DEF Placed

\* _vIrqPendSet adds one vector, to what is pending and to what is owed.
LEMMA AddIs ==
  ASSUME TypeOK, Placed, Solitude, Sound, NEW c \in CPU, PendSet(c) \/ PendWrite(c)
  PROVE  /\ who[c] \in VCPU /\ vec[c] \in Vec
         /\ at[c] \in {"set", "write"}
         /\ UNCHANGED <<masked, cur, ipi, int, thread, vec, who, doing, dst, mode>>
         /\ \/ /\ at' = [at EXCEPT ![c] = "write"] /\ word' = [word EXCEPT ![c] = pend[who[c]]]
               /\ UNCHANGED <<pend, owed>>
            \/ /\ at' = [at EXCEPT ![c] = "test"]
               /\ pend' = [pend EXCEPT ![who[c]] = @ \cup {vec[c]}]
               /\ owed' = [owed EXCEPT ![who[c]] = @ \cup {vec[c]}]
<1>1. at[c] \in {"set", "write"}
  BY DEF PendSet, PendWrite, Go
<1>2. who[c] \in VCPU /\ vec[c] \in Vec
  BY <1>1 DEF Placed, Recording
<1>3. CASE PendSet(c)
  BY <1>1, <1>2, <1>3 DEF PendSet, Go, Set, Owe
<1>4. CASE PendWrite(c)
  <2>1. at[c] = "write" /\ mode.torn /\ word[c] = pend[who[c]]
    BY <1>4 DEF PendWrite, Go, Sound, Placed, Solitude, Undisturbed
  <2>2. /\ at' = [at EXCEPT ![c] = "test"] /\ pend' = [pend EXCEPT ![who[c]] = word[c] \cup {vec[c]}]
        /\ owed' = [owed EXCEPT ![who[c]] = @ \cup {vec[c]}]
        /\ UNCHANGED <<masked, cur, ipi, int, thread, vec, who, doing, dst, mode>>
    BY <1>4 DEF PendWrite, Go, Set, Owe
  <2> QED BY <1>1, <1>2, <2>1, <2>2
<1> QED BY <1>3, <1>4

\* _vIrqPendClr takes the vector off that was handled.
LEMMA ClearIs ==
  ASSUME TypeOK, Placed, Solitude, Sound, NEW c \in CPU, PendClr(c) \/ ClearWrite(c)
  PROVE  /\ cur[c] \in VCPU /\ at[c] \in {"handle", "clear"}
         /\ UNCHANGED <<masked, cur, ipi, int, thread, vec, who, doing, dst, owed, mode>>
         /\ \/ /\ at' = [at EXCEPT ![c] = "clear"] /\ word' = [word EXCEPT ![c] = pend[cur[c]]]
               /\ UNCHANGED pend
            \/ /\ at' = [at EXCEPT ![c] = "enable"]
               /\ pend' = [pend EXCEPT ![cur[c]] = @ \ {doing[c]}]
<1>1. at[c] \in {"handle", "clear"}
  BY DEF PendClr, ClearWrite, Go
<1>2. cur[c] \in VCPU
  BY <1>1 DEF Placed, Handling
<1>3. CASE PendClr(c)
  BY <1>1, <1>2, <1>3 DEF PendClr, Go, Set, Handled
<1>4. CASE ClearWrite(c)
  <2>1. at[c] = "clear" /\ mode.torn /\ word[c] = pend[cur[c]]
    BY <1>4 DEF ClearWrite, Go, Sound, Placed, Solitude, Undisturbed
  <2>2. /\ at' = [at EXCEPT ![c] = "enable"] /\ pend' = [pend EXCEPT ![cur[c]] = word[c] \ {doing[c]}]
        /\ UNCHANGED <<masked, cur, ipi, int, thread, vec, who, doing, dst, owed, mode>>
    BY <1>4 DEF ClearWrite, Go, Set, Handled
  <2> QED BY <1>1, <1>2, <2>1, <2>2
<1> QED BY <1>3, <1>4

\* The other steps that record an interrupt change neither what is pending nor what
\* is owed.
LEMMA RecordFrame ==
  ASSUME NEW c \in CPU, Record(c), ~PendSet(c), ~PendWrite(c)
  PROVE  UNCHANGED <<pend, owed, cur, doing, mode, thread>>
BY DEF Record, TickNext, TickEnd, TestOwn, TestOther, TestNone, TestOff, Ipi, Mask

\* The same for what begins at a processor.
LEMMA BeginFrame ==
  ASSUME NEW c \in CPU, Begin(c)
  PROVE  /\ UNCHANGED <<pend, owed, doing, mode, thread, masked>>
         /\ cur' = cur \/ (at[c] = "out" /\ \E v \in VCPU \cup {None} : cur' = [cur EXCEPT ![c] = v])
<1>1. ASSUME NEW v \in VCPU \cup {None}, Switch(c, v)
      PROVE  /\ UNCHANGED <<pend, owed, doing, mode, thread, masked>>
             /\ at[c] = "out" /\ cur' = [cur EXCEPT ![c] = v]
  BY <1>1 DEF Switch, Set, cpu
<1>2. ASSUME SchedIpi(c) \/ (\E d \in Devices : Device(c, d)) \/ TickIrq(c) \/ IpiProc(c)
      PROVE  UNCHANGED <<pend, owed, doing, mode, thread, masked, cur>>
  BY <1>2 DEF SchedIpi, Device, TickIrq, IpiProc, cpu
<1> QED BY <1>1, <1>2 DEF Begin
-----------------------------------------------------------------------------
(* What is pending was made so since it was handled, or is being handled.        *)
HandledNow(v, x) == \E c \in CPU : cur[c] = v /\ doing[c] = x

\* The two parts that a step has to keep.
LEMMA TwiceIs ==
  /\ NothingTwice <=> (Sound => \A v \in VCPU : \A x \in pend[v] : x \in owed[v] \/ HandledNow(v, x))
  /\ Cleared <=> (Sound => \A c \in CPU :
        at[c] = "enable" /\ doing[c] \in pend[cur[c]] => doing[c] \in owed[cur[c]])
BY DEF NothingTwice, Cleared, Sound, HandledNow

\* Nothing is handled twice, and what was cleared is pending only if it came again.
LEMMA TwiceKept ==
  ASSUME TypeOK, Placed, Solitude, NothingTwice, Cleared, [Next]_vars
  PROVE  NothingTwice' /\ Cleared'
<1>1. mode' = mode
  BY ModeSame
<1>2. Sound' <=> Sound
  BY <1>1 DEF Sound, Alone
<1>3. NothingTwice' <=> (Sound' => \A v \in VCPU : \A x \in pend'[v] : x \in owed'[v] \/ HandledNow(v, x)')
  BY DEF NothingTwice, Sound, HandledNow
<1>4. Cleared' <=> (Sound' => \A c \in CPU :
        at'[c] = "enable" /\ doing'[c] \in pend'[cur'[c]] => doing'[c] \in owed'[cur'[c]])
  BY DEF Cleared, Sound
<1>5. SUFFICES ASSUME Sound
               PROVE  /\ \A v \in VCPU : \A x \in pend'[v] : x \in owed'[v] \/ HandledNow(v, x)'
                      /\ \A c \in CPU : at'[c] = "enable" /\ doing'[c] \in pend'[cur'[c]]
                                           => doing'[c] \in owed'[cur'[c]]
  BY <1>2, <1>3, <1>4
<1> DEFINE Twice == \A v \in VCPU : \A x \in pend'[v] : x \in owed'[v] \/ HandledNow(v, x)'
           Clear == \A c \in CPU : at'[c] = "enable" /\ doing'[c] \in pend'[cur'[c]]
                                     => doing'[c] \in owed'[cur'[c]]
<1>6. /\ \A v \in VCPU : \A x \in pend[v] : x \in owed[v] \/ HandledNow(v, x)
      /\ \A c \in CPU : at[c] = "enable" /\ doing[c] \in pend[cur[c]] => doing[c] \in owed[cur[c]]
  BY <1>5, TwiceIs
<1>7. \A c \in CPU : at[c] = "enable" => cur[c] \in VCPU
  BY DEF Placed, Handling
<1>8. ASSUME UNCHANGED <<pend, owed, cur, doing>>,
             \A c \in CPU : at'[c] = "enable" => at[c] = "enable"
      PROVE  Twice /\ Clear
  BY <1>6, <1>8 DEF HandledNow
<1>9. ASSUME NEW c \in CPU, Begin(c) PROVE Twice /\ Clear
  <2>1. \A d \in CPU : at'[d] = "enable" => at[d] = "enable" /\ (d # c \/ at[c] # "out")
    BY <1>9 DEF Begin, SchedIpi, Switch, Device, TickIrq, IpiProc, Set, Go, cpu, TypeOK
  <2>2. CASE cur' = cur
    BY <1>8, <1>9, <2>1, <2>2, BeginFrame
  <2>3. CASE at[c] = "out" /\ \E v \in VCPU \cup {None} : cur' = [cur EXCEPT ![c] = v]
    <3>1. doing[c] = None /\ UNCHANGED <<pend, owed, doing>>
      BY <1>9, <2>3, BeginFrame, ConstFacts DEF Placed
    <3>2. \A d \in CPU \ {c} : cur'[d] = cur[d]
      BY <2>3 DEF TypeOK
    <3>3. ASSUME NEW v \in VCPU, NEW x \in pend[v], HandledNow(v, x) PROVE HandledNow(v, x)'
      <4>1. x # None
        BY <3>3, ConstFacts DEF TypeOK
      <4> QED BY <3>1, <3>2, <3>3, <4>1 DEF HandledNow
    <3>4. Twice
      BY <1>6, <3>1, <3>3
    <3>5. Clear
      BY <1>6, <2>1, <2>3, <3>1, <3>2
    <3> QED BY <3>4, <3>5
  <2> QED BY <1>9, <2>2, <2>3, BeginFrame
<1>10. ASSUME NEW c \in CPU, Record(c), ~PendSet(c), ~PendWrite(c) PROVE Twice /\ Clear
  <2>1. \A d \in CPU : at'[d] = "enable" => at[d] = "enable"
    BY <1>10 DEF Record, TickNext, TickEnd, TestOwn, TestOther, TestNone, TestOff, Ipi, Mask,
                 Done, Set, Go, TypeOK
  <2> QED BY <1>8, <1>10, <2>1, RecordFrame
<1>11. ASSUME NEW c \in CPU, PendSet(c) \/ PendWrite(c) PROVE Twice /\ Clear
  <2>1. \A d \in CPU : at'[d] = "enable" => at[d] = "enable"
    BY <1>5, <1>11, AddIs DEF TypeOK
  <2>2. CASE UNCHANGED <<pend, owed>>
    BY <1>5, <1>8, <1>11, <2>1, <2>2, AddIs
  <2>3. CASE /\ pend' = [pend EXCEPT ![who[c]] = @ \cup {vec[c]}]
             /\ owed' = [owed EXCEPT ![who[c]] = @ \cup {vec[c]}]
    <3>1. UNCHANGED <<cur, doing>> /\ who[c] \in VCPU
      BY <1>5, <1>11, AddIs
    <3>2. \A v \in VCPU : /\ pend'[v] = IF v = who[c] THEN pend[v] \cup {vec[c]} ELSE pend[v]
                          /\ owed'[v] = IF v = who[c] THEN owed[v] \cup {vec[c]} ELSE owed[v]
      BY <2>3 DEF TypeOK
    <3>3. ASSUME NEW v \in VCPU, NEW x \in pend'[v] PROVE x \in owed'[v] \/ HandledNow(v, x)'
      <4>1. CASE x \in pend[v]
        <5>1. x \in owed[v] \/ HandledNow(v, x)
          BY <1>6, <4>1
        <5>2. x \in owed[v] => x \in owed'[v]
          BY <3>2
        <5> QED BY <3>1, <5>1, <5>2 DEF HandledNow
      <4>2. CASE x \notin pend[v]
        BY <3>2, <3>3, <4>2
      <4> QED BY <4>1, <4>2
    <3>4. Clear
      BY <1>6, <1>7, <2>1, <3>1, <3>2
    <3> QED BY <3>3, <3>4
  <2> QED BY <1>5, <1>11, <2>2, <2>3, AddIs
<1>12. ASSUME NEW c \in CPU, Handle(c) PROVE Twice /\ Clear
  <2>1. at[c] = "pend" /\ cur[c] \in VCPU /\ doing[c] = None
    BY <1>12, ConstFacts DEF Handle, Placed, Handling, Go
  <2>2. PICK x \in pend[cur[c]] :
            /\ at' = [at EXCEPT ![c] = "handle"] /\ x \in Vec
            /\ doing' = [doing EXCEPT ![c] = x] /\ owed' = [owed EXCEPT ![cur[c]] = @ \ {x}]
            /\ UNCHANGED <<pend, cur>>
    BY <1>12, <2>1, HandleIs
  <2>3. /\ \A v \in VCPU : owed'[v] = IF v = cur[c] THEN owed[v] \ {x} ELSE owed[v]
        /\ \A d \in CPU : doing'[d] = IF d = c THEN x ELSE doing[d]
    BY <2>2 DEF TypeOK
  <2>4. ASSUME NEW v \in VCPU, NEW y \in pend[v] PROVE y \in owed'[v] \/ HandledNow(v, y)'
    <3>1. y # None
      BY <2>4, ConstFacts DEF TypeOK
    <3>2. y \in owed[v] \/ HandledNow(v, y)
      BY <1>6
    <3>3. CASE v = cur[c] /\ y = x
      BY <2>2, <2>3, <3>3 DEF HandledNow
    <3>4. CASE ~(v = cur[c] /\ y = x) /\ y \in owed[v]
      BY <2>3, <3>4
    <3>5. CASE HandledNow(v, y)
      BY <2>1, <2>2, <2>3, <3>1, <3>5 DEF HandledNow
    <3> QED BY <3>2, <3>3, <3>4, <3>5
  <2>5. ASSUME NEW d \in CPU, at'[d] = "enable", doing'[d] \in pend'[cur'[d]]
        PROVE  doing'[d] \in owed'[cur'[d]]
    <3>1. d # c /\ at[d] = "enable" /\ cur[d] \in VCPU
      BY <1>7, <2>2, <2>5 DEF TypeOK
    <3>2. cur[d] # cur[c]
      BY <2>1, <3>1, ConstFacts DEF Placed
    <3> QED BY <1>6, <2>2, <2>3, <2>5, <3>1, <3>2
  <2> QED BY <2>2, <2>4, <2>5
<1>13. ASSUME NEW c \in CPU, PendClr(c) \/ ClearWrite(c) PROVE Twice /\ Clear
  <2>1. cur[c] \in VCPU /\ at[c] \in {"handle", "clear"} /\ UNCHANGED <<cur, doing, owed>>
    BY <1>5, <1>13, ClearIs
  <2>2. CASE UNCHANGED pend /\ at' = [at EXCEPT ![c] = "clear"]
    <3>1. \A d \in CPU : at'[d] = "enable" => at[d] = "enable"
      BY <2>2 DEF TypeOK
    <3> QED BY <1>8, <2>1, <2>2, <3>1
  <2>3. CASE at' = [at EXCEPT ![c] = "enable"] /\ pend' = [pend EXCEPT ![cur[c]] = @ \ {doing[c]}]
    <3>1. \A v \in VCPU : pend'[v] = IF v = cur[c] THEN pend[v] \ {doing[c]} ELSE pend[v]
      BY <2>3 DEF TypeOK
    <3>2. \A d \in CPU : at'[d] = "enable" => d = c \/ at[d] = "enable"
      BY <2>3 DEF TypeOK
    <3>3. ASSUME NEW v \in VCPU, NEW x \in pend'[v] PROVE x \in owed'[v] \/ HandledNow(v, x)'
      <4>1. x \in pend[v]
        BY <3>1, <3>3
      <4>2. x \in owed[v] \/ HandledNow(v, x)
        BY <1>6, <4>1
      <4> QED BY <2>1, <4>2 DEF HandledNow
    <3>4. ASSUME NEW d \in CPU, at'[d] = "enable", doing'[d] \in pend'[cur'[d]]
          PROVE  doing'[d] \in owed'[cur'[d]]
      <4>1. CASE d = c
        BY <2>1, <3>1, <3>4, <4>1
      <4>2. CASE d # c
        <5>1. at[d] = "enable" /\ cur[d] \in VCPU
          BY <1>7, <3>2, <3>4, <4>2
        <5>2. doing[d] \in pend[cur[d]]
          BY <2>1, <3>1, <3>4, <5>1
        <5> QED BY <1>6, <2>1, <5>1, <5>2
      <4> QED BY <4>1, <4>2
    <3> QED BY <3>3, <3>4
  <2> QED BY <1>5, <1>13, <2>2, <2>3, ClearIs
<1>14. ASSUME NEW c \in CPU, IrqEnable(c) PROVE Twice /\ Clear
  <2>1. /\ at[c] = "enable" /\ at' = [at EXCEPT ![c] = "pend"] /\ doing' = [doing EXCEPT ![c] = None]
        /\ UNCHANGED <<pend, owed, cur>>
    BY <1>14 DEF IrqEnable, Go, Set
  <2>2. \A d \in CPU : /\ doing'[d] = IF d = c THEN None ELSE doing[d]
                       /\ at'[d] = IF d = c THEN "pend" ELSE at[d]
    BY <2>1 DEF TypeOK
  <2>3. ASSUME NEW v \in VCPU, NEW x \in pend[v] PROVE x \in owed[v] \/ HandledNow(v, x)'
    <3>1. x \in owed[v] \/ HandledNow(v, x)
      BY <1>6
    <3>2. ASSUME NEW d \in CPU, cur[d] = v, doing[d] = x
          PROVE  x \in owed[v] \/ HandledNow(v, x)'
      <4>1. CASE d = c
        BY <1>6, <2>1, <3>2, <4>1
      <4>2. CASE d # c
        BY <2>1, <2>2, <3>2, <4>2 DEF HandledNow
      <4> QED BY <4>1, <4>2
    <3> QED BY <3>1, <3>2 DEF HandledNow
  <2>4. Clear
    BY <1>6, <2>1, <2>2
  <2> QED BY <2>1, <2>3, <2>4
<1>15. ASSUME NEW c \in CPU, PendDone(c) PROVE Twice /\ Clear
  <2>1. /\ UNCHANGED <<pend, owed, cur, doing>>
        /\ \A d \in CPU : at'[d] = "enable" => at[d] = "enable"
    BY <1>15 DEF PendDone, Done, Set, TypeOK
  <2> QED BY <1>8, <2>1
<1>16. ASSUME NEW v \in VCPU, Call(v) PROVE Twice /\ Clear
  BY <1>8, <1>16, CallFrame DEF cpu
<1>17. CASE UNCHANGED vars
  BY <1>8, <1>17 DEF vars, cpu
<1> QED BY <1>9, <1>10, <1>11, <1>12, <1>13, <1>14, <1>15, <1>16, <1>17, StepIs DEF Serve
-----------------------------------------------------------------------------
(* A processor that is alone.                                                 *)
Lossless  == \A v \in VCPU : owed[v] \subseteq pend[v]
MaskedFor == \A d \in masked : (\E v \in VCPU : d \in pend[v]) \/ (\E c \in CPU : doing[c] = d)
Alright(c) == Undisturbed(c) /\ Lossless /\ MaskedFor

\* A processor in an interrupt is undisturbed if its place says so.
LEMMA OutUndisturbed ==
  ASSUME NEW c \in CPU, ~ipi[c], ~int[c], at[c] \in {"out", "slot", "set"}
  PROVE  Undisturbed(c)
BY DEF Undisturbed, Handling

\* What begins at a processor that is alone leaves it undisturbed.
LEMMA BeginAlone ==
  ASSUME TypeOK, Placed, Alone, NEW c \in CPU, c \in mode.cpus, Alright(c), Begin(c)
  PROVE  /\ Alright(c)' /\ UNCHANGED <<ipi, int>>
         /\ \A e \in CPU \ {c} : at'[e] = at[e]
<1>1. UNCHANGED <<pend, owed, doing, masked>>
  BY BeginFrame
<1>2. ~ipi[c] /\ ~int[c]
  BY DEF Alright, Undisturbed
<1>3. ~SchedIpi(c) /\ ~IpiProc(c)
  <2>1. Cardinality(mode.cpus) = 1
    BY DEF Alone
  <2>2. ~(Cardinality(mode.cpus) > 1)
    BY <2>1
  <2>3. ~SchedIpi(c)
    BY <2>2 DEF SchedIpi
  <2>4. ~IpiProc(c)
    BY <1>2 DEF IpiProc
  <2> QED BY <2>3, <2>4
<1>4. /\ UNCHANGED <<ipi, int>> /\ at'[c] \in {"out", "slot", "set"}
      /\ \A e \in CPU \ {c} : at'[e] = at[e]
  BY <1>3 DEF Begin, Switch, Device, TickIrq, Set, Go, cpu, TypeOK
<1>5. Undisturbed(c)'
  BY <1>2, <1>4 DEF Undisturbed, Handling
<1> QED BY <1>1, <1>4, <1>5 DEF Alright, Lossless, MaskedFor

\* Recording an interrupt leaves a processor that is alone undisturbed.
LEMMA RecordAlone ==
  ASSUME TypeOK, Placed, Solitude, Alone, NEW c \in CPU, c \in mode.cpus, Alright(c), Record(c)
  PROVE  /\ Alright(c)' /\ UNCHANGED <<ipi, int>>
         /\ \A e \in CPU \ {c} : at'[e] = at[e]
<1>0. Undisturbed(c) /\ Lossless /\ MaskedFor
  BY DEF Alright
<1>1. ~ipi[c] /\ ~int[c] /\ at[c] # "ipi"
  BY <1>0 DEF Undisturbed
<1>2. ASSUME TickNext(c) \/ TickEnd(c) \/ TestNone(c)
      PROVE  /\ UNCHANGED <<pend, owed, masked, doing, ipi, int>> /\ at'[c] \in {"out", "slot", "set"}
             /\ \A e \in CPU \ {c} : at'[e] = at[e]
  BY <1>2 DEF TickNext, TickEnd, TestNone, Done, Set, Go, TypeOK
<1>3. CASE TickNext(c) \/ TickEnd(c) \/ TestNone(c)
  <2>1. Undisturbed(c)'
    BY <1>1, <1>2, <1>3 DEF Undisturbed, Handling
  <2> QED BY <1>0, <1>2, <1>3, <2>1 DEF Alright, Lossless, MaskedFor
<1>4. CASE PendSet(c) \/ PendWrite(c)
  <2>1. /\ who[c] \in VCPU /\ vec[c] \in Vec
        /\ UNCHANGED <<masked, cur, ipi, int, thread, vec, who, doing, dst, mode>>
    BY <1>4, AddIs DEF Sound
  <2>2. CASE /\ at' = [at EXCEPT ![c] = "write"] /\ word' = [word EXCEPT ![c] = pend[who[c]]]
             /\ UNCHANGED <<pend, owed>>
    <3>1. at'[c] = "write" /\ word'[c] = pend'[who'[c]] /\ \A e \in CPU \ {c} : at'[e] = at[e]
      BY <2>1, <2>2 DEF TypeOK
    <3>2. Undisturbed(c)'
      BY <1>1, <2>1, <3>1 DEF Undisturbed, Handling
    <3> QED BY <1>0, <2>1, <2>2, <3>1, <3>2 DEF Alright, Lossless, MaskedFor
  <2>3. CASE /\ at' = [at EXCEPT ![c] = "test"]
             /\ pend' = [pend EXCEPT ![who[c]] = @ \cup {vec[c]}]
             /\ owed' = [owed EXCEPT ![who[c]] = @ \cup {vec[c]}]
    <3>1. /\ at'[c] = "test" /\ vec'[c] \in pend'[who'[c]] /\ \A e \in CPU \ {c} : at'[e] = at[e]
          /\ \A v \in VCPU : pend[v] \subseteq pend'[v] /\ (owed[v] \subseteq pend[v] => owed'[v] \subseteq pend'[v])
      BY <2>1, <2>3 DEF TypeOK
    <3>2. Undisturbed(c)'
      BY <1>1, <2>1, <3>1 DEF Undisturbed, Handling
    <3> QED BY <1>0, <2>1, <3>1, <3>2 DEF Alright, Lossless, MaskedFor
  <2> QED BY <1>4, <2>1, <2>2, <2>3, AddIs DEF Sound
<1>5. CASE TestOwn(c)
  <2>1. /\ UNCHANGED <<pend, owed, masked, doing, ipi, int, disInt, cur>> /\ at'[c] = "pend"
        /\ \A e \in CPU \ {c} : at'[e] = at[e]
        /\ ~disInt[cur[c]]
    BY <1>5 DEF TestOwn, Set, Go, TypeOK, Enabled, thread
  <2>2. Undisturbed(c)'
    BY <1>1, <2>1 DEF Undisturbed, Handling
  <2> QED BY <1>0, <2>1, <2>2 DEF Alright, Lossless, MaskedFor
<1>6. CASE TestOther(c)
  <2>1. PICK d \in CPU : cur[d] = who[c]
    BY <1>6 DEF TestOther
  <2>2. who[c] \in VCPU /\ cur[c] # who[c]
    BY <1>6 DEF TestOther, Go, Placed, Recording
  <2>3. d # c /\ cur[d] # None
    BY <2>1, <2>2, ConstFacts
  <2> QED BY <2>3, OthersOut
<1>7. CASE TestOff(c)
  <2>1. /\ UNCHANGED <<pend, owed, masked, doing, ipi, int, vec, who>> /\ at[c] = "test" /\ at'[c] = "mask"
        /\ \A e \in CPU \ {c} : at'[e] = at[e]
    BY <1>7 DEF TestOff, Set, Go, TypeOK
  <2>2. Undisturbed(c)'
    BY <1>0, <1>1, <2>1 DEF Undisturbed, Handling
  <2> QED BY <1>0, <2>1, <2>2 DEF Alright, Lossless, MaskedFor
<1>8. CASE Mask(c)
  <2>1. /\ UNCHANGED <<pend, owed, doing, ipi, int>> /\ at[c] = "mask" /\ at'[c] \in {"out", "slot"}
        /\ \A e \in CPU \ {c} : at'[e] = at[e]
        /\ masked' \subseteq masked \cup {vec[c]}
    BY <1>8 DEF Mask, NowMasked, Done, Set, TypeOK
  <2>2. Undisturbed(c)'
    BY <1>1, <2>1 DEF Undisturbed, Handling
  <2>3. who[c] \in VCPU /\ vec[c] \in pend[who[c]]
    BY <1>0, <2>1 DEF Undisturbed, Placed, Recording
  <2> QED BY <1>0, <2>1, <2>2, <2>3 DEF Alright, Lossless, MaskedFor
<1>9. ~Ipi(c)
  BY <1>1 DEF Ipi
<1> QED BY <1>3, <1>4, <1>5, <1>6, <1>7, <1>8, <1>9 DEF Record

\* Handling an interrupt leaves a processor that is alone undisturbed.
LEMMA ServeAlone ==
  ASSUME TypeOK, Placed, Solitude, Alone, NEW c \in CPU, c \in mode.cpus, Alright(c), Serve(c)
  PROVE  /\ Alright(c)' /\ UNCHANGED <<ipi, int>>
         /\ \A e \in CPU \ {c} : at'[e] = at[e]
<1>0. Undisturbed(c) /\ Lossless /\ MaskedFor
  BY DEF Alright
<1>1. ~ipi[c] /\ ~int[c]
  BY <1>0 DEF Undisturbed
<1>2. CASE Handle(c)
  <2>1. at[c] = "pend" /\ cur[c] \in VCPU /\ doing[c] = None
    BY <1>2, ConstFacts DEF Handle, Placed, Handling, Go
  <2>2. PICK x \in pend[cur[c]] :
            /\ at' = [at EXCEPT ![c] = "handle"] /\ x \in Vec
            /\ doing' = [doing EXCEPT ![c] = x] /\ owed' = [owed EXCEPT ![cur[c]] = @ \ {x}]
            /\ UNCHANGED <<pend, cur, masked, ipi, int, disInt>>
    BY <1>2, <2>1, HandleIs DEF thread
  <2>3. /\ at'[c] = "handle" /\ doing'[c] = x /\ x \notin owed'[cur[c]] /\ owed'[cur[c]] \subseteq owed[cur[c]]
        /\ \A e \in CPU \ {c} : at'[e] = at[e] /\ doing'[e] = doing[e]
        /\ \A v \in VCPU : owed'[v] \subseteq owed[v]
    BY <2>1, <2>2 DEF TypeOK
  <2>4. Undisturbed(c)'
    BY <1>0, <1>1, <2>1, <2>2, <2>3 DEF Undisturbed, Handling
  <2>5. MaskedFor'
    <3>1. ASSUME NEW d \in masked PROVE (\E v \in VCPU : d \in pend[v]) \/ (\E e \in CPU : doing'[e] = d)
      <4>1. d # None
        BY <3>1, ConstFacts DEF TypeOK
      <4> QED BY <1>0, <2>1, <2>3, <4>1 DEF MaskedFor
    <3> QED BY <2>2, <3>1 DEF MaskedFor
  <2>6. Lossless'
    BY <1>0, <2>2, <2>3 DEF Lossless
  <2> QED BY <2>2, <2>3, <2>4, <2>5, <2>6 DEF Alright
<1>3. CASE PendClr(c) \/ ClearWrite(c)
  <2>1. /\ cur[c] \in VCPU /\ at[c] \in {"handle", "clear"}
        /\ UNCHANGED <<masked, cur, ipi, int, disInt, doing, owed>>
    BY <1>3, ClearIs DEF Sound, thread
  <2>2. doing[c] \notin owed[cur[c]] /\ ~disInt[cur[c]]
    BY <1>0, <2>1 DEF Undisturbed, Handling
  <2>3. CASE at' = [at EXCEPT ![c] = "clear"] /\ word' = [word EXCEPT ![c] = pend[cur[c]]] /\ UNCHANGED pend
    <3>1. at'[c] = "clear" /\ word'[c] = pend[cur[c]] /\ \A e \in CPU \ {c} : at'[e] = at[e]
      BY <2>3 DEF TypeOK
    <3>2. Undisturbed(c)'
      BY <1>1, <2>1, <2>2, <2>3, <3>1 DEF Undisturbed, Handling
    <3> QED BY <1>0, <2>1, <2>3, <3>1, <3>2 DEF Alright, Lossless, MaskedFor
  <2>4. CASE at' = [at EXCEPT ![c] = "enable"] /\ pend' = [pend EXCEPT ![cur[c]] = @ \ {doing[c]}]
    <3>1. /\ at'[c] = "enable" /\ \A e \in CPU \ {c} : at'[e] = at[e]
          /\ \A v \in VCPU : pend'[v] = IF v = cur[c] THEN pend[v] \ {doing[c]} ELSE pend[v]
      BY <2>4 DEF TypeOK
    <3>2. Undisturbed(c)'
      BY <1>1, <2>1, <2>2, <3>1 DEF Undisturbed, Handling
    <3>3. Lossless'
      BY <1>0, <2>1, <2>2, <3>1 DEF Lossless
    <3>4. MaskedFor'
      BY <1>0, <2>1, <3>1 DEF MaskedFor
    <3> QED BY <2>1, <3>1, <3>2, <3>3, <3>4 DEF Alright
  <2> QED BY <1>3, <2>1, <2>3, <2>4, ClearIs DEF Sound
<1>4. CASE IrqEnable(c)
  <2>1. /\ at[c] = "enable" /\ at' = [at EXCEPT ![c] = "pend"] /\ doing' = [doing EXCEPT ![c] = None]
        /\ masked' = masked \ {doing[c]} /\ UNCHANGED <<pend, owed, cur, ipi, int, disInt>>
    BY <1>4 DEF IrqEnable, Unmasked, Go, Set, thread
  <2>2. /\ at'[c] = "pend" /\ \A e \in CPU \ {c} : at'[e] = at[e] /\ doing'[e] = doing[e]
    BY <2>1 DEF TypeOK
  <2>3. Undisturbed(c)'
    BY <1>0, <1>1, <2>1, <2>2 DEF Undisturbed, Handling
  <2>4. MaskedFor'
    BY <1>0, <2>1, <2>2 DEF MaskedFor
  <2>5. Lossless'
    BY <1>0, <2>1 DEF Lossless
  <2> QED BY <2>1, <2>2, <2>3, <2>4, <2>5 DEF Alright
<1>5. CASE PendDone(c)
  <2>1. /\ UNCHANGED <<pend, owed, masked, doing, ipi, int>> /\ at'[c] \in {"out", "slot"}
        /\ \A e \in CPU \ {c} : at'[e] = at[e]
    BY <1>5 DEF PendDone, Done, Set, TypeOK
  <2>2. Undisturbed(c)'
    BY <1>1, <2>1 DEF Undisturbed, Handling
  <2> QED BY <1>0, <2>1, <2>2 DEF Alright, Lossless, MaskedFor
<1> QED BY <1>2, <1>3, <1>4, <1>5 DEF Serve

\* A processor that is alone stays undisturbed, loses no interrupt and leaves no
\* vector masked.
LEMMA AloneKept ==
  ASSUME TypeOK, Placed, Solitude, NoneLost, Unmaskable, [Next]_vars
  PROVE  Solitude' /\ NoneLost' /\ Unmaskable'
<1>1. mode' = mode
  BY ModeSame
<1>2. Alone' <=> Alone
  BY <1>1 DEF Alone
<1>3. SUFFICES ASSUME Alone PROVE (\A e \in CPU : Undisturbed(e)') /\ Lossless' /\ MaskedFor'
  <2>1. /\ Solitude' <=> (Alone' => \A e \in CPU : Undisturbed(e)')
        /\ NoneLost' <=> (Alone' => Lossless')
    BY DEF Solitude, NoneLost, Lossless
  <2>2. (Alone' => (\A e \in CPU : Undisturbed(e)') /\ MaskedFor') => Unmaskable'
    BY DEF Unmaskable, MaskedFor, Undisturbed, Handling
  <2> QED BY <1>2, <2>1, <2>2
<1>4. (\A e \in CPU : Undisturbed(e)) /\ Lossless /\ MaskedFor
  BY <1>3 DEF Solitude, NoneLost, Unmaskable, Lossless, MaskedFor
<1>5. ASSUME NEW c \in CPU, c \in mode.cpus, Alright(c)', UNCHANGED <<ipi, int>>,
             \A e \in CPU \ {c} : at'[e] = at[e]
      PROVE  (\A e \in CPU : Undisturbed(e)') /\ Lossless' /\ MaskedFor'
  <2>1. ASSUME NEW e \in CPU, e # c PROVE Undisturbed(e)'
    <3>1. at'[e] = "out" /\ ~ipi'[e] /\ ~int'[e]
      BY <1>3, <1>4, <1>5, <2>1, OthersOut DEF Undisturbed
    <3> QED BY <3>1 DEF Undisturbed, Handling
  <2>2. Undisturbed(c)'
    BY <1>5 DEF Alright
  <2>3. ASSUME NEW e \in CPU PROVE Undisturbed(e)'
    <3>1. CASE e = c
      BY <2>2, <3>1 DEF Undisturbed
    <3> QED BY <2>1, <3>1
  <2> QED BY <1>5, <2>3 DEF Alright
<1>6. \A c \in CPU : Alright(c)
  BY <1>4 DEF Alright
<1>7. ASSUME NEW c \in CPU, c \in mode.cpus, NEW v \in VCPU, Runs(c, v), Call(v)
      PROVE  (\A e \in CPU : Undisturbed(e)') /\ Lossless' /\ MaskedFor'
  <2>1. UNCHANGED <<pend, masked, cur, ipi, int, cpu, owed>> /\ at[c] = "out"
    BY <1>7, CallFrame DEF Runs
  <2>2. Undisturbed(c)'
    BY <1>4, <2>1 DEF Undisturbed, Handling, cpu
  <2>3. Alright(c)'
    BY <1>4, <2>1, <2>2 DEF Alright, Lossless, MaskedFor, cpu
  <2> QED BY <1>5, <1>7, <2>1, <2>3 DEF cpu
<1>8. CASE UNCHANGED vars
  BY <1>4, <1>8 DEF Undisturbed, Lossless, MaskedFor, vars, cpu, thread
<1> QED BY <1>3, <1>5, <1>6, <1>7, <1>8, StepIs, BeginAlone, RecordAlone, ServeAlone
-----------------------------------------------------------------------------
\* The inductive invariant.
IInv == /\ TypeOK /\ Placed /\ ListOK /\ DueOK /\ Solitude /\ NoneLost /\ Unmaskable
        /\ NothingTwice /\ Cleared

\* Before the first interrupt the invariant holds.
LEMMA InitOK == Init => IInv
<1> SUFFICES ASSUME Init PROVE IInv
  OBVIOUS
<1>1. TypeOK
  <2>1. mode.raises \in 0 .. Raises /\ 0 \in 0 .. Cardinality(VCPU)
    BY ConstFacts, VIrqAssumption DEF Init, Board
  <2> QED BY <2>1 DEF Init, TypeOK
<1>2. Placed
  BY DEF Init, Placed, Recording, Handling
<1>3. Solitude /\ NoneLost /\ Unmaskable
  BY DEF Init, Solitude, Undisturbed, Handling, NoneLost, Unmaskable
<1>4. NothingTwice /\ Cleared
  BY DEF Init, NothingTwice, Cleared
<1>5. ListOK /\ DueOK
  BY DEF Init, ListOK, DueOK, DueAt
<1> QED BY <1>1, <1>2, <1>3, <1>4, <1>5 DEF IInv

\* The invariant holds always.
LEMMA Inductive == Spec => []IInv
<1>1. IInv /\ [Next]_vars => IInv'
  BY TypesKept, PlacesKept, ListKept, DueKept, TwiceKept, AloneKept DEF IInv
<1> QED BY <1>1, InitOK, PTL DEF Spec

\* On a processor that is alone each interrupt of a thread is handled once, with the
\* thread's leave, and no vector is left masked (vcpuOccurIrq, vcpuDoPendIsr); on
\* several, none is handled twice if the pending word is written in one step.
THEOREM HandledOnceOK == Spec => []HandledOnce
<1>1. IInv => HandledOnce
  BY DEF IInv, HandledOnce
<1> QED BY <1>1, Inductive, PTL

\* For any number of threads and processors: a tick is recorded for every thread that
\* it found before a free place, while others are attached and none is taken off
\* (irqIsr); and the list has no thread twice and no free place before a thread as soon
\* as all who were taken off attached again (irqAttach, irqDisAttach), unless one
\* attached the tick again while it was on the list.
THEOREM TickReachesOK == Spec => []TickReaches
<1>1. ASSUME IInv PROVE TickReaches
  <2>1. TypeOK /\ ListOK /\ DueOK /\ Slots \subseteq Int
    BY <1>1, ConstFacts DEF IInv
  <2>2. ASSUME NEW i \in Slots, NEW j \in Slots, ~twice, tickAt[i] # None, j < i, gone = {}
        PROVE  tickAt[j] # None
    <3>1. Cardinality(Holes(i)) <= 0
      BY <2>1, <2>2, FS_EmptySet DEF ListOK
    <3>2. IsFiniteSet(Holes(i)) /\ Cardinality(Holes(i)) \in Nat
      BY <2>1, Counts
    <3>3. Holes(i) = {}
      BY <3>1, <3>2, FS_EmptySet
    <3> QED BY <2>2, <3>3 DEF Holes
  <2> QED BY <2>1, <2>2 DEF TickReaches, ListOK, DueOK, DueAt
<1>2. IInv => TickReaches
  BY <1>1
<1> QED BY <1>2, Inductive, PTL
=============================================================================
