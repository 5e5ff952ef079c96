---------------------------- MODULE HandoverProofs ----------------------------
(****************************************************************************)
(* Lock counts are right for any number of processors and threads, but for   *)
(* the threads whose count two processors changed at the same time.          *)
(****************************************************************************)
EXTENDS Handover, FiniteSetTheorems, TLAPS

\* No more processors count for a thread than there are.
LEMMA CountingBound ==
  ASSUME NEW v \in VCPU
  PROVE  /\ IsFiniteSet(Counting(v))
         /\ Cardinality(Counting(v)) \in Nat
         /\ Cardinality(CPU) \in Nat
         /\ Cardinality(Counting(v)) <= Cardinality(CPU)
<1>1. Counting(v) \subseteq CPU
  BY DEF Counting
<1> QED BY <1>1, CpuAssumption, FS_Subset, FS_CardinalityType

\* A count that is right is below the width of a counter.
LEMMA CountBound ==
  ASSUME TypeOK, CountRight, NEW v \in VCPU \ torn
  PROVE  /\ lockCnt[v] \in Nat
         /\ lockCnt[v] <= Cardinality(CPU) + 1
<1> DEFINE k == Cardinality(Counting(v))
<1>1. k \in Nat /\ Cardinality(CPU) \in Nat /\ k <= Cardinality(CPU)
  BY CountingBound
<1>2. lockCnt[v] = k + (IF SpinCounted(v) THEN 1 ELSE 0)
  BY DEF CountRight
<1> HIDE DEF k
<1> QED BY <1>1, <1>2

\* The invariant holds when the processors start.
LEMMA InitOK == Init => IInv
<1> SUFFICES ASSUME Init PROVE IInv
  OBVIOUS
<1> USE NullAssumption, BootAssumption DEF Init
<1>0. Wrap \in Nat /\ Wrap > 0
  BY WrapAssumption, CpuAssumption, FS_CardinalityType
<1>1. TypeOK
  BY <1>0 DEF TypeOK, NoValue, PcValue, Adds, Takes
<1>2. Apart /\ HolderRuns
  BY DEF Apart, HolderRuns
<1>3. PhaseOK
  BY DEF PhaseOK, PhaseAt, NoValue, Adds, Takes
<1>4. CountRight
  <2>1. \A v \in VCPU : Counting(v) = {} /\ ~SpinCounted(v)
    BY DEF Counting, SpinCounted
  <2>2. Cardinality({}) = 0
    BY FS_EmptySet
  <2>3. \A v \in VCPU : lockCnt[v] = 0
    OBVIOUS
  <2> QED BY <2>1, <2>2, <2>3 DEF CountRight
<1> QED BY <1>1, <1>2, <1>3, <1>4 DEF IInv

\* Reading a count changes nothing but what the processor has read.
LEMMA ReadStep ==
  ASSUME IInv, NEW c \in CPU, ReadCount(c)
  PROVE  IInv'
<1> USE DEF ReadCount, IInv
<1>1. TypeOK'
  <2>1. Counted(c) \in VCPU
    BY DEF TypeOK, PhaseOK, PhaseAt, Counted
  <2>2. lockCnt[Counted(c)] \in 0 .. Wrap
    BY <2>1, WrapAssumption DEF TypeOK
  <2> QED BY <2>2 DEF TypeOK
<1>2. Apart' /\ HolderRuns'
  BY DEF Apart, HolderRuns
<1>4. CountRight'
  <2>1. \A v \in VCPU : /\ Counting(v)' = Counting(v)
                        /\ SpinCounted(v)' <=> SpinCounted(v)
    BY DEF Counting, SpinCounted
  <2> QED BY <2>1 DEF CountRight
<1>3. PhaseOK'
  <2>1. \A d \in CPU : Counted(d)' = Counted(d)
    BY DEF Counted
  <2> QED BY <2>1 DEF PhaseOK, PhaseAt, TypeOK
<1> QED BY <1>1, <1>2, <1>3, <1>4 DEF IInv

\* Writing a count back completes the counting of one lock.
LEMMA WriteStep ==
  ASSUME IInv, NEW c \in CPU, WriteCount(c)
  PROVE  IInv'
<1>0. PICK w \in VCPU : w = Counted(c)
  BY DEF WriteCount, IInv, TypeOK, PhaseOK, PhaseAt, Counted
<1> DEFINE n == IF pc[c] \in Adds THEN Up(reg[c]) ELSE Down(reg[c])
<1>1. /\ w = Counted(c) /\ pc[c] \in Adds \cup Takes
      /\ reg[c] # NoValue /\ reg[c] \in 0 .. Wrap - 1
      /\ w \notin torn => reg[c] = lockCnt[w]
  BY <1>0, WrapAssumption DEF WriteCount, IInv, TypeOK, PhaseOK, PhaseAt, Counted, NoValue
<1>2. /\ lockCnt' = [lockCnt EXCEPT ![w] = n]
      /\ pc' = [pc EXCEPT ![c] = After[pc[c]]]
      /\ reg' = [reg EXCEPT ![c] = NoValue]
      /\ torn' = IF Collides(c) THEN torn \cup {w} ELSE torn
      /\ UNCHANGED <<cur, left, klock, slock, saved>>
  BY <1>0 DEF WriteCount
<1> HIDE DEF n
<1>3. \A p \in Adds \cup Takes :
        After[p] = CASE p = "count"    -> "decide"
                     [] p = "recount"  -> "leave"
                     [] p = "handover" -> "load"
                     [] OTHER          -> "run"
  BY DEF After
<1>4. TypeOK /\ Apart /\ PhaseOK /\ HolderRuns /\ CountRight
  BY DEF IInv
<1>40. /\ \A d \in CPU \ {c} : pc'[d] = pc[d]
       /\ pc'[c] = After[pc[c]]
       /\ pc[c] = "handover" => w = left[c] /\ w # cur[c]
       /\ pc[c] # "handover" => w = cur[c]
       /\ \A d \in CPU : cur[d] = cur[c] => d = c
  BY <1>1, <1>2, <1>4 DEF TypeOK, Counted, Apart
<1>5. \A v \in VCPU \ {w} : /\ Counting(v)' = Counting(v)
                            /\ SpinCounted(v)' <=> SpinCounted(v)
  <2> SUFFICES ASSUME NEW v \in VCPU, v # w
               PROVE  /\ Counting(v)' = Counting(v)
                      /\ SpinCounted(v)' <=> SpinCounted(v)
    OBVIOUS
  <2>1. /\ cur[c] = v => pc[c] = "handover" /\ pc'[c] = "load"
        /\ left[c] = v => pc[c] # "handover" /\ pc'[c] # "handover"
    BY <1>1, <1>3, <1>40 DEF Adds, Takes
  <2>2. Counting(v)' = Counting(v)
    BY <1>2, <1>40, <2>1 DEF Counting
  <2>3. SpinCounted(v)' <=> SpinCounted(v)
    BY <1>2, <1>40, <2>1 DEF SpinCounted
  <2> QED BY <2>2, <2>3
<1>6. /\ pc[c] \in {"count", "recount"} =>
           /\ c \notin Counting(w) /\ Counting(w)' = Counting(w) \cup {c}
           /\ SpinCounted(w)' <=> SpinCounted(w)
      /\ pc[c] \in {"uncount", "handover"} =>
           /\ c \in Counting(w) /\ Counting(w)' = Counting(w) \ {c}
           /\ SpinCounted(w)' <=> SpinCounted(w)
  <2>1. CASE pc[c] \in {"count", "recount"}
    <3>1. pc'[c] \in {"decide", "leave"} /\ w = cur[c]
      BY <2>1, <1>1, <1>3, <1>40
    <3>2. c \notin Counting(w) /\ Counting(w)' = Counting(w) \cup {c}
      BY <2>1, <3>1, <1>2, <1>40 DEF Counting
    <3>3. SpinCounted(w)' <=> SpinCounted(w)
      BY <2>1, <3>1, <1>2, <1>40 DEF SpinCounted
    <3> QED BY <2>1, <3>2, <3>3
  <2>2. CASE pc[c] = "uncount"
    <3>1. pc'[c] = "run" /\ w = cur[c]
      BY <2>2, <1>1, <1>3, <1>40
    <3>2. c \in Counting(w) /\ Counting(w)' = Counting(w) \ {c}
      BY <2>2, <3>1, <1>2, <1>40 DEF Counting
    <3>3. SpinCounted(w)' <=> SpinCounted(w)
      BY <2>2, <3>1, <1>2, <1>40 DEF SpinCounted
    <3> QED BY <2>2, <3>2, <3>3
  <2>3. CASE pc[c] = "handover"
    <3>1. pc'[c] = "load" /\ w = left[c] /\ w # cur[c]
      BY <2>3, <1>1, <1>3, <1>40
    <3>2. c \in Counting(w) /\ Counting(w)' = Counting(w) \ {c}
      BY <2>3, <3>1, <1>2, <1>40 DEF Counting
    <3>3. SpinCounted(w)' <=> SpinCounted(w)
      BY <2>3, <3>1, <1>2, <1>40 DEF SpinCounted
    <3> QED BY <2>3, <3>2, <3>3
  <2> QED BY <2>1, <2>2, <2>3
<1>7. /\ pc[c] = "spincount" =>
           /\ ~SpinCounted(w) /\ SpinCounted(w)'
           /\ Counting(w)' = Counting(w)
      /\ pc[c] = "spinuncount" =>
           /\ SpinCounted(w) /\ ~SpinCounted(w)'
           /\ Counting(w)' = Counting(w)
  <2>1. ASSUME pc[c] \in {"spincount", "spinuncount"}
        PROVE  pc'[c] = "run" /\ w = cur[c] /\ Counting(w)' = Counting(w)
    <3>1. pc'[c] = "run" /\ w = cur[c]
      BY <2>1, <1>1, <1>3, <1>40
    <3> QED BY <2>1, <3>1, <1>2, <1>40 DEF Counting
  <2>2. CASE pc[c] = "spincount"
    <3>1. slock = cur[c]
      BY <2>2, <1>4 DEF PhaseOK, PhaseAt
    <3> QED BY <2>1, <2>2, <3>1, <1>2, <1>40 DEF SpinCounted
  <2>3. CASE pc[c] = "spinuncount"
    <3>1. slock # cur[c]
      BY <2>3, <1>4 DEF PhaseOK, PhaseAt
    <3> QED BY <2>1, <2>3, <3>1, <1>2, <1>40 DEF SpinCounted
  <2> QED BY <2>2, <2>3, <2>1
<1>70. \A v \in VCPU : /\ IsFiniteSet(Counting(v))
                       /\ Cardinality(Counting(v)) \in Nat
                       /\ Cardinality(Counting(v)) <= Cardinality(CPU)
                       /\ Cardinality(CPU) \in Nat
  BY CountingBound
<1>8. ASSUME w \notin torn
      PROVE  n = Cardinality(Counting(w)') + (IF SpinCounted(w)' THEN 1 ELSE 0)
  <2> DEFINE k  == Cardinality(Counting(w))
             k2 == Cardinality(Counting(w)')
  <2>1. /\ lockCnt[w] = k + (IF SpinCounted(w) THEN 1 ELSE 0)
        /\ reg[c] = lockCnt[w]
        /\ k \in Nat /\ lockCnt[w] \in Nat
        /\ lockCnt[w] + 1 <= Wrap - 1 \/ lockCnt[w] = Cardinality(CPU) + 1
    <3>1. lockCnt[w] <= Cardinality(CPU) + 1 /\ lockCnt[w] \in Nat
      BY <1>8, <1>4, CountBound
    <3> QED BY <3>1, <1>8, <1>1, <1>4, <1>70, WrapAssumption DEF CountRight
  <2>2. CASE pc[c] \in {"count", "recount"}
    <3>1. k2 = k + 1
      BY <2>2, <1>6, <1>70, FS_AddElement
    <3>2. k2 <= Cardinality(CPU)
      <4>1. Counting(w)' \subseteq CPU
        BY DEF Counting
      <4> QED BY <4>1, CpuAssumption, FS_Subset
    <3>3. reg[c] < Wrap - 1
      <4> HIDE DEF k, k2
      <4> QED BY <2>1, <3>1, <3>2, <1>70, WrapAssumption
    <3>4. n = reg[c] + 1
      BY <2>2, <3>3, <1>1, WrapAssumption DEF n, Up, Adds
    <3> HIDE DEF k, k2
    <3>5. n = k2 + (IF SpinCounted(w)' THEN 1 ELSE 0)
      BY <2>1, <2>2, <3>1, <3>4, <1>6
    <3> QED BY <3>5 DEF k2
  <2>3. CASE pc[c] \in {"uncount", "handover"}
    <3>1. k2 = k - 1
      BY <2>3, <1>6, <1>70, FS_RemoveElement
    <3>2. k2 \in Nat
      BY <2>3, <1>6, <1>70, FS_RemoveElement, FS_CardinalityType
    <3> HIDE DEF k, k2
    <3>3. n = reg[c] - 1
      BY <2>1, <2>3, <3>1, <3>2, <1>1 DEF n, Down, Adds
    <3>4. n = k2 + (IF SpinCounted(w)' THEN 1 ELSE 0)
      BY <2>1, <2>3, <3>1, <3>3, <1>6
    <3> QED BY <3>4 DEF k2
  <2>4. CASE pc[c] = "spincount"
    <3>1. k2 = k /\ k <= Cardinality(CPU)
      BY <2>4, <1>7, <1>70
    <3> HIDE DEF k, k2
    <3>2. n = reg[c] + 1
      BY <2>1, <2>4, <3>1, <1>1, <1>7, <1>70, WrapAssumption DEF n, Up, Adds
    <3>3. n = k2 + (IF SpinCounted(w)' THEN 1 ELSE 0)
      BY <2>1, <2>4, <3>1, <3>2, <1>7
    <3> QED BY <3>3 DEF k2
  <2>5. CASE pc[c] = "spinuncount"
    <3>1. k2 = k
      BY <2>5, <1>7
    <3> HIDE DEF k, k2
    <3>2. n = reg[c] - 1
      BY <2>1, <2>5, <1>1, <1>7 DEF n, Down, Adds
    <3>3. n = k2 + (IF SpinCounted(w)' THEN 1 ELSE 0)
      BY <2>1, <2>5, <3>1, <3>2, <1>7
    <3> QED BY <3>3 DEF k2
  <2> QED BY <2>2, <2>3, <2>4, <2>5, <1>1 DEF Adds, Takes
<1>9. CountRight'
  <2> SUFFICES ASSUME NEW v \in VCPU, v \notin torn'
               PROVE  lockCnt'[v] = Cardinality(Counting(v)')
                                    + (IF SpinCounted(v)' THEN 1 ELSE 0)
    BY DEF CountRight
  <2>0. v \notin torn
    BY <1>2
  <2>1. CASE v # w
    <3>1. lockCnt'[v] = lockCnt[v]
      BY <2>1, <1>2, <1>4 DEF TypeOK
    <3> QED BY <3>1, <2>0, <2>1, <1>4, <1>5 DEF CountRight
  <2>2. CASE v = w
    <3>1. lockCnt'[w] = n
      BY <1>2, <1>4 DEF TypeOK
    <3> QED BY <3>1, <2>0, <2>2, <1>8
  <2> QED BY <2>1, <2>2
<1>10. TypeOK'
  <2>1. n \in 0 .. Wrap - 1
    BY <1>1, WrapAssumption DEF n, Up, Down
  <2>2. After[pc[c]] \in PcValue
    BY <1>1, <1>3 DEF PcValue, Adds, Takes
  <2> QED BY <2>1, <2>2, <1>2, <1>4, WrapAssumption DEF TypeOK, NoValue
<1>11. Apart' /\ HolderRuns'
  BY <1>2, <1>4 DEF Apart, HolderRuns
<1>12. PhaseOK'
  <2> SUFFICES ASSUME NEW d \in CPU PROVE PhaseAt(d)'
    BY DEF PhaseOK
  <2>0. PhaseAt(d)
    BY <1>4 DEF PhaseOK
  <2>1. CASE d = c
    BY <2>0, <2>1, <1>1, <1>2, <1>3, <1>4, <1>40 DEF PhaseAt, TypeOK, Adds, Takes
  <2>2. CASE d # c
    <3>1. Counted(d)' = Counted(d) /\ pc'[d] = pc[d] /\ reg'[d] = reg[d]
      BY <2>2, <1>2, <1>4 DEF Counted, TypeOK
    <3>2. reg[d] # NoValue /\ Counted(d) = w => w \in torn'
      BY <2>2, <1>1, <1>2 DEF Collides
    <3>3. reg[d] # NoValue /\ Counted(d) # w => lockCnt'[Counted(d)] = lockCnt[Counted(d)]
      BY <1>2, <1>4 DEF TypeOK, Counted, PhaseOK, PhaseAt
    <3> QED BY <2>0, <3>1, <3>2, <3>3, <1>2 DEF PhaseAt
  <2> QED BY <2>1, <2>2
<1> QED BY <1>9, <1>10, <1>11, <1>12 DEF IInv

\* Taking a lock that is free, or giving one up, moves no thread and no count.
LEMMA LockStep ==
  ASSUME IInv, NEW c \in CPU,
         Enter(c) \/ Relock(c) \/ Unlock(c) \/ SpinLock(c) \/ SpinUnlock(c)
  PROVE  IInv'
<1>1. TypeOK /\ Apart /\ PhaseOK /\ HolderRuns /\ CountRight
  BY DEF IInv
<1>2. UNCHANGED <<cur, left, lockCnt, reg, saved, torn>>
  BY DEF Enter, Relock, Unlock, SpinLock, SpinUnlock
<1>3. /\ pc[c] \in {"run", "decide", "relock", "leave"}
      /\ pc' = [pc EXCEPT ![c] = pc'[c]]
      /\ \/ pc[c] = "run" /\ pc'[c] \in {"count", "spincount", "spinuncount"}
         \/ pc[c] = "relock" /\ pc'[c] = "recount"
         \/ pc[c] \in {"decide", "leave"} /\ pc'[c] = "uncount"
  BY <1>1 DEF Enter, Relock, Unlock, SpinLock, SpinUnlock, Go, TypeOK
<1>4. /\ pc'[c] \in {"count", "recount"} => klock = NoCpu /\ klock' = c /\ slock' = slock
      /\ pc'[c] = "uncount" => klock' = NoCpu /\ slock' = slock
      /\ pc'[c] = "spincount" => klock' = klock /\ slock = NoVcpu /\ slock' = cur[c]
      /\ pc'[c] = "spinuncount" => klock' = klock /\ slock = cur[c] /\ slock' = NoVcpu
  BY <1>1 DEF Enter, Relock, Unlock, SpinLock, SpinUnlock, Go, TypeOK
<1>5. TypeOK'
  BY <1>1, <1>2, <1>3, <1>4 DEF TypeOK, PcValue, Adds, Takes
<1>6. Apart'
  BY <1>1, <1>2 DEF Apart
<1>7. HolderRuns'
  BY <1>1, <1>2, <1>3, <1>4 DEF HolderRuns
<1>8. PhaseOK'
  <2> SUFFICES ASSUME NEW d \in CPU PROVE PhaseAt(d)'
    BY DEF PhaseOK
  <2>0. PhaseAt(d) /\ PhaseAt(c)
    BY <1>1 DEF PhaseOK
  <2>1. CASE d = c
    BY <2>0, <2>1, <1>1, <1>2, <1>3, <1>4, NullAssumption
       DEF PhaseAt, TypeOK, Apart, Adds, Takes
  <2>2. CASE d # c
    <3>1. pc'[d] = pc[d] /\ Counted(d)' = Counted(d) /\ cur[d] # cur[c]
      BY <2>2, <1>1, <1>2, <1>3 DEF TypeOK, Counted, Apart
    <3> QED BY <2>0, <2>2, <3>1, <1>1, <1>2, <1>3, <1>4, NullAssumption
            DEF PhaseAt, TypeOK
  <2> QED BY <2>1, <2>2
<1>9. CountRight'
  <2> SUFFICES ASSUME NEW v \in VCPU
               PROVE  /\ Counting(v)' = Counting(v)
                      /\ SpinCounted(v)' <=> SpinCounted(v)
    BY <1>1, <1>2 DEF CountRight
  <2>1. \A d \in CPU \ {c} : pc'[d] = pc[d] /\ cur[d] # cur[c]
    BY <1>1, <1>3 DEF TypeOK, Apart
  <2>2. Counting(v)' = Counting(v)
    BY <1>2, <1>3, <2>1 DEF Counting
  <2>3. SpinCounted(v)' <=> SpinCounted(v)
    BY <1>1, <1>2, <1>3, <1>4, <2>1, NullAssumption DEF SpinCounted, TypeOK
  <2> QED BY <2>2, <2>3
<1> QED BY <1>5, <1>6, <1>7, <1>8, <1>9 DEF IInv

\* Of a thread whose count is right, schedule() lets a switch happen only if it
\* holds no spin lock, and always if nothing else is counted for it.
LEMMA MayLeaveIff ==
  ASSUME IInv, NEW c \in CPU, pc[c] = "decide", cur[c] \notin torn
  PROVE  /\ MayLeave(cur[c]) => slock # cur[c]
         /\ slock # cur[c] /\ ~Leaving(cur[c]) => MayLeave(cur[c])
<1> DEFINE v == cur[c]
           k == Cardinality(Counting(v))
<1>1. v \in VCPU /\ c \in Counting(v)
  BY DEF IInv, TypeOK, Counting
<1>2. SpinCounted(v) <=> slock = v
  BY DEF IInv, Apart, SpinCounted
<1>3. lockCnt[v] = k + (IF SpinCounted(v) THEN 1 ELSE 0)
  BY <1>1 DEF IInv, CountRight
<1>4. k \in Nat /\ IsFiniteSet(Counting(v))
  BY <1>1, CountingBound
<1>5. k # 0
  BY <1>1, <1>4, FS_EmptySet
<1>6. ~Leaving(v) => k = 1
  <2> SUFFICES ASSUME ~Leaving(v) PROVE k = 1
    OBVIOUS
  <2>1. Counting(v) = {c}
    BY <1>1 DEF Leaving, Counting, IInv, Apart
  <2> QED BY <2>1, FS_Singleton
<1> HIDE DEF k
<1> QED BY <1>2, <1>3, <1>4, <1>5, <1>6 DEF MayLeave

\* A switch to a thread that is on no processor.
LEMMA SwitchStep ==
  ASSUME IInv, NEW c \in CPU, NEW n \in VCPU, Switch(c, n)
  PROVE  IInv'
<1>1. TypeOK /\ Apart /\ PhaseOK /\ HolderRuns /\ CountRight
  BY DEF IInv
<1>2. /\ pc[c] = "decide" /\ pc' = [pc EXCEPT ![c] = "handover"]
      /\ left' = [left EXCEPT ![c] = cur[c]] /\ cur' = [cur EXCEPT ![c] = n]
      /\ saved' = [saved EXCEPT ![cur[c]] = TRUE]
      /\ klock' = NoCpu
      /\ UNCHANGED <<slock, lockCnt, reg, torn>>
      /\ \A d \in CPU : cur[d] # n
  BY DEF Switch, Go, Free
<1>3. /\ cur[c] \in VCPU /\ (cur[c] # slock \/ slock \in torn)
      /\ reg[c] = NoValue /\ klock = c /\ left[c] = NoVcpu
  BY <1>1, <1>2, MayLeaveIff DEF Switch, TypeOK, PhaseOK, PhaseAt, Adds, Takes
<1>4. TypeOK'
  BY <1>1, <1>2, <1>3 DEF TypeOK, PcValue, Adds, Takes
<1>5. Apart'
  BY <1>1, <1>2 DEF TypeOK, Apart
<1>6. HolderRuns'
  BY <1>1, <1>2, <1>3 DEF HolderRuns, TypeOK
<1>7. n # slock \/ slock \in torn
  BY <1>1, <1>2, NullAssumption DEF HolderRuns, TypeOK
<1>8. PhaseOK'
  <2> SUFFICES ASSUME NEW d \in CPU PROVE PhaseAt(d)'
    BY DEF PhaseOK
  <2>0. PhaseAt(d)
    BY <1>1 DEF PhaseOK
  <2>1. CASE d = c
    <3>1. cur'[c] = n /\ left'[c] = cur[c] /\ pc'[c] = "handover"
      BY <1>1, <1>2 DEF TypeOK
    <3> QED BY <2>0, <2>1, <3>1, <1>1, <1>2, <1>3, <1>7, NullAssumption DEF PhaseAt, TypeOK
  <2>2. CASE d # c
    <3>1. /\ pc'[d] = pc[d] /\ Counted(d)' = Counted(d) /\ cur'[d] = cur[d]
          /\ left'[d] = left[d]
      BY <2>2, <1>1, <1>2 DEF TypeOK, Counted
    <3> QED BY <2>0, <2>2, <3>1, <1>1, <1>2, <1>3, NullAssumption DEF PhaseAt, TypeOK
  <2> QED BY <2>1, <2>2
<1>9. CountRight'
  <2> SUFFICES ASSUME NEW v \in VCPU, v \notin torn
               PROVE  /\ Counting(v)' = Counting(v)
                      /\ SpinCounted(v)' <=> SpinCounted(v)
    BY <1>1, <1>2 DEF CountRight
  <2>1. \A d \in CPU \ {c} :
            pc'[d] = pc[d] /\ cur'[d] = cur[d] /\ left'[d] = left[d] /\ cur[d] # cur[c]
    BY <1>1, <1>2 DEF TypeOK, Apart
  <2>2. /\ pc'[c] = "handover" /\ cur'[c] = n /\ left'[c] = cur[c]
        /\ left[c] = NoVcpu /\ (cur[c] # slock \/ slock \in torn)
    BY <1>1, <1>2, <1>3 DEF TypeOK
  <2>3. Counting(v)' = Counting(v)
    BY <1>2, <2>1, <2>2 DEF Counting
  <2>4. SpinCounted(v)' <=> SpinCounted(v)
    BY <1>2, <1>7, <2>1, <2>2 DEF SpinCounted
  <2> QED BY <2>3, <2>4
<1> QED BY <1>4, <1>5, <1>6, <1>8, <1>9 DEF IInv

\* Loading the new context leaves the old stack.
LEMMA LoadStep ==
  ASSUME IInv, NEW c \in CPU, Load(c)
  PROVE  IInv'
<1>1. TypeOK /\ Apart /\ PhaseOK /\ HolderRuns /\ CountRight
  BY DEF IInv
<1>2. /\ pc[c] = "load" /\ pc' = [pc EXCEPT ![c] = pc'[c]]
      /\ pc'[c] \in {"run", "relock"}
      /\ left' = [left EXCEPT ![c] = NoVcpu]
      /\ UNCHANGED <<cur, klock, slock, lockCnt, reg, saved, torn>>
  BY <1>1 DEF Load, Go, TypeOK
<1>3. reg[c] = NoValue /\ klock # c /\ (slock # cur[c] \/ slock \in torn)
  BY <1>1, <1>2 DEF PhaseOK, PhaseAt, Adds, Takes
<1>4. TypeOK'
  BY <1>1, <1>2 DEF TypeOK, PcValue, Adds, Takes
<1>5. Apart' /\ HolderRuns'
  BY <1>1, <1>2, NullAssumption DEF Apart, HolderRuns, TypeOK
<1>6. PhaseOK'
  <2> SUFFICES ASSUME NEW d \in CPU PROVE PhaseAt(d)'
    BY DEF PhaseOK
  <2>0. PhaseAt(d)
    BY <1>1 DEF PhaseOK
  <2>1. CASE d = c
    BY <2>0, <2>1, <1>1, <1>2, <1>3 DEF PhaseAt, TypeOK
  <2>2. CASE d # c
    <3>1. pc'[d] = pc[d] /\ Counted(d)' = Counted(d) /\ left'[d] = left[d]
      BY <2>2, <1>1, <1>2 DEF TypeOK, Counted
    <3> QED BY <2>0, <2>2, <3>1, <1>1, <1>2 DEF PhaseAt
  <2> QED BY <2>1, <2>2
<1>7. CountRight'
  <2> SUFFICES ASSUME NEW v \in VCPU
               PROVE  /\ Counting(v)' = Counting(v)
                      /\ SpinCounted(v)' <=> SpinCounted(v)
    BY <1>1, <1>2 DEF CountRight
  <2>1. \A d \in CPU \ {c} : pc'[d] = pc[d] /\ left'[d] = left[d]
    BY <1>1, <1>2 DEF TypeOK
  <2>2. Counting(v)' = Counting(v)
    BY <1>2, <2>1 DEF Counting
  <2>3. SpinCounted(v)' <=> SpinCounted(v)
    BY <1>2, <2>1 DEF SpinCounted
  <2> QED BY <2>2, <2>3
<1> QED BY <1>4, <1>5, <1>6, <1>7 DEF IInv

\* The invariant is inductive.
LEMMA StepOK ==
  ASSUME IInv, [Next]_vars
  PROVE  IInv'
<1>1. ASSUME NEW c \in CPU, Step(c) PROVE IInv'
  BY <1>1, ReadStep, WriteStep, LockStep, LoadStep, SwitchStep DEF Step
<1>2. CASE UNCHANGED vars
  <2>1. \A v : Counting(v)' = Counting(v) /\ (SpinCounted(v)' <=> SpinCounted(v))
    BY <1>2 DEF vars, Counting, SpinCounted
  <2> QED BY <1>2, <2>1 DEF vars, IInv, TypeOK, Apart, PhaseOK, PhaseAt, HolderRuns,
                            CountRight, Counted
<1> QED BY <1>1, <1>2 DEF Next

\* VCPU_ulLockCounter counts the locks of its thread, for any number of
\* processors and threads, also when a thread is switched to while another
\* processor is still leaving it, but for the threads whose count two
\* processors changed at the same time (kernel.c:178 against kernel.c:205).
THEOREM CountsRight == Spec => []CountRight
<1>1. IInv /\ [Next]_vars => IInv'
  BY StepOK
<1>2. IInv => CountRight
  BY DEF IInv
<1> QED BY InitOK, <1>1, <1>2, PTL DEF Spec

\* schedule() refuses a switch only to a thread that holds a spin lock, that
\* a processor is still leaving, or whose count lost a change.
THEOREM SwitchAllowedOK == Spec => []SwitchAllowed
<1>1. IInv => SwitchAllowed
  BY MayLeaveIff DEF SwitchAllowed
<1>2. IInv /\ [Next]_vars => IInv'
  BY StepOK
<1> QED BY InitOK, <1>1, <1>2, PTL DEF Spec

\* A thread that holds a spin lock keeps its processor, unless its count lost a
\* change.
THEOREM HolderStaysOK == Spec => HolderStays
<1>1. ASSUME IInv, [Next]_vars
      PROVE  [\A c \in CPU : slock = cur[c] /\ cur[c] \notin torn
                              => cur'[c] = cur[c]]_vars
  <2> SUFFICES ASSUME NEW c \in CPU, slock = cur[c], cur[c] \notin torn,
                      NEW d \in CPU, Step(d)
               PROVE  cur'[c] = cur[c]
    BY <1>1 DEF Next
  <2>1. ASSUME NEW v \in VCPU, Switch(d, v) PROVE cur'[c] = cur[c]
    <3>1. slock # cur[d] \/ cur[d] \in torn
      BY <1>1, <2>1, MayLeaveIff DEF Switch, Go
    <3>2. d # c
      BY <3>1
    <3> QED BY <1>1, <2>1, <3>2 DEF Switch, IInv, TypeOK
  <2>2. CASE UNCHANGED cur
    BY <2>2
  <2> QED BY <2>1, <2>2
          DEF Step, ReadCount, WriteCount, Enter, Load, Relock, Unlock, SpinLock, SpinUnlock
<1>2. IInv /\ [Next]_vars => IInv'
  BY StepOK
<1> QED BY InitOK, <1>1, <1>2, PTL DEF Spec, HolderStays
=============================================================================
