------------------------------ MODULE WakeupProofs ------------------------------
(****************************************************************************)
(* The list of sleepers, for any number of threads and any delays: its line   *)
(* is sound, and it keeps for every thread the ticks that Timers promises.    *)
(****************************************************************************)
EXTENDS WakeupList, Sequences, FiniteSetTheorems, WellFoundedInduction, TLAPS

\* The nodes of the line in their order are a sequence s: On(s), and the
\* i-th one, Nil beside the ends.
On(s)     == {s[i] : i \in 1 .. Len(s)}
Nth(s, i) == IF i \in 1 .. Len(s) THEN s[i] ELSE Nil

\* The pointers make this line.
Line(s) ==
    /\ \A i, j \in 1 .. Len(s) : s[i] = s[j] => i = j
    /\ header = Nth(s, 1)
    /\ \A i \in 1 .. Len(s) : next[s[i]] = Nth(s, i + 1) /\ prev[s[i]] = Nth(s, i - 1) /\ inQ[s[i]]
    /\ \A v \in Node \ On(s) : next[v] = Nil /\ prev[v] = Nil /\ ~inQ[v]

\* The i-th node has d[i] ticks to go.
Times(s, d) == d[0] = 0 /\ \A i \in 1 .. Len(s) : d[i] = d[i - 1] + cnt[s[i]]

\* Where the call in progress stands: an insertion before the k-th node, or a tick
\* behind which there are only nodes whose IPC was locked.
Adding(s) ==
    \E v \in delayed \ On(s), k \in 1 .. Len(s) + 1 : job = AddJob(v, Nth(s, k), Nth(s, k - 1))
Ticking(s, d) ==
    \E k \in 1 .. Len(s) + 1, t \in Nat :
        /\ job = TickJob(Nth(s, k), t)
        /\ d[k - 1] = 0 /\ \A i \in 1 .. k - 1 : s[i] \in Ipc

\* The nodes of the line are those of the sleepers, but for the one that is being
\* inserted and those whose IPC timed out.
Sleeping(s) ==
    /\ On(s) \subseteq delayed
    /\ \A v \in delayed \ Ipc : v \in On(s) \/ (job.op = "add" /\ job.node = v)

Good(s, d) == /\ Line(s) /\ Times(s, d) /\ Sleeping(s)
              /\ job = NoJob \/ Adding(s) \/ Ticking(s, d)
IInv == TypeOK /\ \E s \in Seq(Node) : \E d \in [0 .. Len(s) -> Nat] : Good(s, d)
-----------------------------------------------------------------------------
(* What the recursive definitions say of a line.                             *)

\* A set of natural numbers has a least one.
LEMMA Least ==
    ASSUME NEW P, P \subseteq Nat, P # {}
    PROVE  \E m \in P : \A n \in P : m <= n
<1> DEFINE R == {ss \in Nat \X Nat : ss[1] < ss[2]}
<1>1. IsWellFoundedOn(R, Nat)  BY NatLessThanWellFounded DEF OpToRel
<1> HIDE DEF R
<1>2. PICK x \in P : \A y \in P : ~ (<<y, x>> \in R)  BY <1>1, WFMin
<1>3. \A y \in P : ~(y < x)  BY <1>2 DEF R
<1> QED  BY <1>3

\* A line is not longer than there are threads.
LEMMA Short ==
    ASSUME NEW s \in Seq(Node), \A i, j \in 1 .. Len(s) : s[i] = s[j] => i = j
    PROVE  Cardinality(Node) \in Nat /\ Len(s) <= Cardinality(Node)
<1>1. IsFiniteSet(Node)  BY NodeAssumption
<1>2. s \in Injection(1 .. Len(s), Node)
  BY DEF Injection, IsInjective
<1>3. Cardinality(1 .. Len(s)) <= Cardinality(Node)  BY <1>1, <1>2, FS_Injection
<1>4. Cardinality(1 .. Len(s)) = Len(s)  BY FS_Interval
<1> QED  BY <1>1, <1>3, <1>4, FS_CardinalityType

\* Walk goes along the line.
LEMMA WalkIs ==
    ASSUME TypeOK, NEW s \in Seq(Node), Line(s)
    PROVE  \A i \in Place : Walk[i] = Nth(s, i + 1)
<1> DEFINE W(f) == [i \in Place |-> IF i = 0 THEN header
                                    ELSE IF f[i - 1] = Nil THEN Nil ELSE next[f[i - 1]]]
           g == [i \in Place |-> Nth(s, i + 1)]
<1>0. /\ Cardinality(Node) \in Nat /\ Nil \notin Node /\ Len(s) \in Nat
      /\ \A i \in 1 .. Len(s) : s[i] \in Node
  BY Short, NodeAssumption DEF Line
<1>1. \A i \in Place : i # 0 => i - 1 \in Place /\ i - 1 + 1 = i  BY <1>0 DEF Place
<1>2. g = W(g)
  <2> SUFFICES ASSUME NEW i \in Place
               PROVE  Nth(s, i + 1) = IF i = 0 THEN header
                                      ELSE IF g[i - 1] = Nil THEN Nil ELSE next[g[i - 1]]
    OBVIOUS
  <2>1. CASE i = 0  BY <2>1 DEF Line
  <2>2. CASE i # 0
    <3>1. g[i - 1] = Nth(s, i)  BY <1>1, <2>2
    <3>2. CASE i \in 1 .. Len(s)  BY <1>0, <2>2, <3>1, <3>2 DEF Line, Nth
    <3>3. CASE i \notin 1 .. Len(s)
      <4>1. i + 1 \notin 1 .. Len(s)  BY <1>0, <2>2, <3>3 DEF Place
      <4> QED  BY <2>2, <3>1, <3>3, <4>1 DEF Nth
    <3> QED  BY <3>2, <3>3
  <2> QED  BY <2>1, <2>2
<1>3. Walk = CHOOSE f : f = W(f)  BY DEF Walk
<1> HIDE DEF g
<1>4. Walk = W(Walk)
  <2>1. \E f : f = W(f)  BY <1>2
  <2> HIDE DEF W
  <2> QED  BY <1>3, <2>1
<1>5. ASSUME NEW n \in Place, Walk[n] # g[n] PROVE FALSE
  <2> DEFINE P == {i \in Place : Walk[i] # g[i]}
  <2>1. P \subseteq Nat /\ P # {}  BY <1>0, <1>5 DEF Place
  <2>2. PICK m \in P : \A i \in P : m <= i  BY <2>1, Least
  <2>3. m # 0 => Walk[m - 1] = g[m - 1]  BY <1>0, <1>1, <2>2 DEF Place
  <2>4. W(Walk)[m] = W(g)[m]  BY <2>3
  <2> QED  BY <1>2, <1>4, <2>2, <2>4
<1> QED  BY <1>5 DEF g

\* Linked and PlaceOf say where a node is in the line.
LEMMA PlaceIs ==
    ASSUME TypeOK, NEW s \in Seq(Node), Line(s)
    PROVE  /\ Linked = On(s)
           /\ \A i \in 1 .. Len(s) : PlaceOf(s[i]) = i - 1
           /\ Cardinality(Node) \in Place /\ Walk[Cardinality(Node)] = Nil
<1>1. /\ Cardinality(Node) \in Nat /\ Len(s) <= Cardinality(Node) /\ Nil \notin Node /\ Len(s) \in Nat
      /\ \A i \in 1 .. Len(s) : s[i] \in Node
  BY Short, NodeAssumption DEF Line
<1>2. \A i \in Place : Walk[i] = Nth(s, i + 1)  BY WalkIs
<1>3. \A i \in 1 .. Len(s) : i - 1 \in Place /\ i - 1 + 1 = i /\ Walk[i - 1] = s[i]
  BY <1>1, <1>2 DEF Place, Nth
<1>4. Linked = On(s)
  <2>1. \A i \in Place : Walk[i] # Nil => Walk[i] \in On(s)  BY <1>2 DEF Nth, On
  <2>2. \A i \in 1 .. Len(s) : s[i] \in Linked  BY <1>1, <1>3 DEF Linked
  <2> QED  BY <2>1, <2>2 DEF Linked, On
<1>5. ASSUME NEW i \in 1 .. Len(s) PROVE PlaceOf(s[i]) = i - 1
  <2>1. \A j \in Place : Walk[j] = s[i] => j = i - 1
    <3> SUFFICES ASSUME NEW j \in Place, Walk[j] = s[i] PROVE j = i - 1
      OBVIOUS
    <3>1. j + 1 \in 1 .. Len(s) /\ s[j + 1] = s[i]  BY <1>1, <1>2 DEF Nth
    <3>2. j + 1 = i  BY <3>1 DEF Line
    <3> QED  BY <3>2, <1>1 DEF Place
  <2> QED  BY <1>3, <2>1 DEF PlaceOf
<1>6. Cardinality(Node) \in Place /\ Walk[Cardinality(Node)] = Nil
  BY <1>1, <1>2 DEF Place, Nth
<1> QED  BY <1>4, <1>5, <1>6

\* Sum is the time of a node.
LEMMA SumIs ==
    ASSUME TypeOK, NEW s \in Seq(Node), Line(s), NEW d \in [0 .. Len(s) -> Nat], Times(s, d)
    PROVE  \A i \in 1 .. Len(s) : Sum[i - 1] = d[i]
<1> DEFINE c(i) == IF Walk[i] = Nil THEN 0 ELSE cnt[Walk[i]]
           W(f) == [i \in Place |-> c(i) + (IF i = 0 THEN 0 ELSE f[i - 1])]
           g == [i \in Place |-> d[IF i < Len(s) THEN i + 1 ELSE Len(s)]]
<1>0. /\ Cardinality(Node) \in Nat /\ Len(s) <= Cardinality(Node) /\ Nil \notin Node /\ Len(s) \in Nat
      /\ \A i \in 1 .. Len(s) : s[i] \in Node /\ cnt[s[i]] \in Nat
      /\ \A i \in Place : Walk[i] = Nth(s, i + 1)
  <2>1. \A i \in 1 .. Len(s) : s[i] \in Node  OBVIOUS
  <2>2. \A i \in 1 .. Len(s) : cnt[s[i]] \in Nat  BY <2>1 DEF TypeOK
  <2>3. Cardinality(Node) \in Nat /\ Len(s) <= Cardinality(Node)  BY Short DEF Line
  <2> QED  BY <2>1, <2>2, <2>3, WalkIs, NodeAssumption
<1>1. \A i \in Place : i # 0 => i - 1 \in Place /\ i - 1 + 1 = i  BY <1>0 DEF Place
<1>2. g = W(g)
  <2> SUFFICES ASSUME NEW i \in Place PROVE g[i] = c(i) + (IF i = 0 THEN 0 ELSE g[i - 1])
    OBVIOUS
  <2>1. (IF i = 0 THEN 0 ELSE g[i - 1]) = d[IF i < Len(s) THEN i ELSE Len(s)]
    <3>1. CASE i = 0  BY <1>0, <3>1 DEF Times
    <3>2. CASE i # 0  BY <1>0, <1>1, <3>2 DEF Place
    <3> QED  BY <3>1, <3>2
  <2>2. CASE i < Len(s)
    <3>1. i \in Nat /\ i + 1 \in 1 .. Len(s) /\ i + 1 - 1 = i  BY <1>0, <2>2 DEF Place
    <3>2. \A j \in 1 .. Len(s) : d[j] = d[j - 1] + cnt[s[j]]  BY DEF Times
    <3>6. d[i + 1] = d[i] + cnt[s[i + 1]]
      <4>1. PICK j \in 1 .. Len(s) : j = i + 1 /\ j - 1 = i  BY <3>1
      <4>2. d[j] = d[j - 1] + cnt[s[j]]  BY <3>2
      <4> QED  BY <4>1, <4>2
    <3>3. c(i) = cnt[s[i + 1]]  BY <1>0, <3>1 DEF Nth
    <3>4. d[i] \in Nat /\ cnt[s[i + 1]] \in Nat  BY <1>0, <2>2, <3>1 DEF Place
    <3> QED  BY <2>1, <2>2, <3>1, <3>6, <3>3, <3>4
  <2>3. CASE ~(i < Len(s))
    <3>1. c(i) = 0  BY <1>0, <2>3 DEF Nth, Place
    <3>2. d[Len(s)] \in Nat  BY <1>0
    <3> QED  BY <2>1, <2>3, <3>1, <3>2
  <2> QED  BY <2>2, <2>3
<1>3. Sum = CHOOSE f : f = W(f)  BY DEF Sum
<1> HIDE DEF g, c
<1>4. Sum = W(Sum)
  <2>1. \E f : f = W(f)  BY <1>2
  <2> HIDE DEF W
  <2> QED  BY <1>3, <2>1
<1>5. ASSUME NEW n \in Place, Sum[n] # g[n] PROVE FALSE
  <2> DEFINE P == {i \in Place : Sum[i] # g[i]}
  <2>1. P \subseteq Nat /\ P # {}  BY <1>0, <1>5 DEF Place
  <2>2. PICK m \in P : \A i \in P : m <= i  BY <2>1, Least
  <2>3. m # 0 => Sum[m - 1] = g[m - 1]  BY <1>0, <1>1, <2>2 DEF Place
  <2>4. W(Sum)[m] = W(g)[m]  BY <2>3
  <2> QED  BY <1>2, <1>4, <2>2, <2>4
<1> SUFFICES ASSUME NEW i \in 1 .. Len(s) PROVE Sum[i - 1] = d[i]
  OBVIOUS
<1>6. i - 1 \in Place /\ i - 1 < Len(s) /\ i - 1 + 1 = i  BY <1>0 DEF Place
<1> QED  BY <1>5, <1>6 DEF g

\* Later nodes have more time.
LEMMA Later ==
    ASSUME TypeOK, NEW s \in Seq(Node), NEW d \in [0 .. Len(s) -> Nat], Times(s, d),
           NEW k \in 0 .. Len(s)
    PROVE  \A i \in k .. Len(s) : d[k] <= d[i]
<1>1. ASSUME NEW n \in k .. Len(s), ~(d[k] <= d[n]) PROVE FALSE
  <2> DEFINE P == {i \in k .. Len(s) : ~(d[k] <= d[i])}
  <2>1. P \subseteq Nat /\ P # {}  BY <1>1
  <2>2. PICK m \in P : \A i \in P : m <= i  BY <2>1, Least
  <2>3. m # k /\ m \in 1 .. Len(s) /\ m - 1 \in k .. Len(s) /\ m - 1 \notin P  BY <2>2
  <2>4. d[k] <= d[m - 1]  BY <2>3
  <2>5. d[m] = d[m - 1] + cnt[s[m]]  BY <2>3 DEF Times
  <2>6. cnt[s[m]] \in Nat  BY <2>3 DEF TypeOK
  <2> QED  BY <2>2, <2>3, <2>4, <2>5, <2>6
<1> QED  BY <1>1
-----------------------------------------------------------------------------
(* What a node that is inserted or deleted changes.                          *)
Put(s, k, v) == [i \in 1 .. Len(s) + 1 |-> IF i < k THEN s[i] ELSE IF i = k THEN v ELSE s[i - 1]]
Cut(s, k)    == [i \in 1 .. Len(s) - 1 |-> IF i < k THEN s[i] ELSE s[i + 1]]

\* The nodes of a sequence with v put at place k.
LEMMA PutIs ==
    ASSUME NEW s \in Seq(Node), NEW k \in 1 .. Len(s) + 1, NEW v \in Node
    PROVE  /\ Put(s, k, v) \in Seq(Node) /\ Len(Put(s, k, v)) = Len(s) + 1
           /\ \A i \in 1 .. Len(s) + 1 :
                 Put(s, k, v)[i] = IF i < k THEN s[i] ELSE IF i = k THEN v ELSE s[i - 1]
           /\ On(Put(s, k, v)) = On(s) \cup {v}
<1> DEFINE t == Put(s, k, v)
<1>1. \A i \in 1 .. Len(s) + 1 : (IF i < k THEN s[i] ELSE IF i = k THEN v ELSE s[i - 1]) \in Node
  OBVIOUS
<1>2. t \in Seq(Node) /\ Len(t) = Len(s) + 1  BY <1>1 DEF Put
<1>3. \A i \in 1 .. Len(s) + 1 : t[i] = IF i < k THEN s[i] ELSE IF i = k THEN v ELSE s[i - 1]
  BY DEF Put
<1> HIDE DEF t
<1>4. ASSUME NEW x \in On(s) PROVE x \in On(t)
  <2>1. PICK i \in 1 .. Len(s) : x = s[i]  BY DEF On
  <2>2. PICK j \in 1 .. Len(t) : j = IF i < k THEN i ELSE i + 1  BY <1>2
  <2>3. t[j] = s[i]  BY <1>2, <1>3, <2>2
  <2> QED  BY <2>1, <2>3 DEF On
<1>5. v \in On(t)  BY <1>2, <1>3 DEF On
<1>6. ASSUME NEW x \in On(t) PROVE x \in On(s) \cup {v}
  <2>1. PICK i \in 1 .. Len(t) : x = t[i]  BY DEF On
  <2>2. i < k => i \in 1 .. Len(s)  BY <1>2
  <2>3. ~(i < k) /\ i # k => i - 1 \in 1 .. Len(s)  BY <1>2
  <2> QED  BY <1>2, <1>3, <2>1, <2>2, <2>3 DEF On
<1> QED  BY <1>2, <1>3, <1>4, <1>5, <1>6 DEF t

\* The nodes of a sequence without the one at place k.
LEMMA CutIs ==
    ASSUME NEW s \in Seq(Node), \A i, j \in 1 .. Len(s) : s[i] = s[j] => i = j,
           NEW k \in 1 .. Len(s)
    PROVE  /\ Cut(s, k) \in Seq(Node) /\ Len(Cut(s, k)) = Len(s) - 1
           /\ \A i \in 1 .. Len(s) - 1 : Cut(s, k)[i] = IF i < k THEN s[i] ELSE s[i + 1]
           /\ On(Cut(s, k)) = On(s) \ {s[k]}
<1> DEFINE t == Cut(s, k)
<1>1. \A i \in 1 .. Len(s) - 1 : (IF i < k THEN s[i] ELSE s[i + 1]) \in Node
  OBVIOUS
<1>2. t \in Seq(Node) /\ Len(t) = Len(s) - 1  BY <1>1 DEF Cut
<1>3. \A i \in 1 .. Len(s) - 1 : t[i] = IF i < k THEN s[i] ELSE s[i + 1]
  BY DEF Cut
<1> HIDE DEF t
<1>4. ASSUME NEW x \in On(s) \ {s[k]} PROVE x \in On(t)
  <2>1. PICK i \in 1 .. Len(s) : x = s[i]  BY DEF On
  <2>2. PICK j \in 1 .. Len(t) : j = IF i < k THEN i ELSE i - 1  BY <1>2, <1>4, <2>1
  <2>3. t[j] = s[i]  BY <1>2, <1>3, <1>4, <2>1, <2>2
  <2> QED  BY <2>1, <2>3 DEF On
<1>5. ASSUME NEW x \in On(t) PROVE x \in On(s) \ {s[k]}
  <2>1. PICK i \in 1 .. Len(t) : x = t[i]  BY DEF On
  <2>2. PICK j \in 1 .. Len(s) : j = (IF i < k THEN i ELSE i + 1) /\ j # k  BY <1>2
  <2>3. x = s[j]  BY <1>2, <1>3, <2>1, <2>2
  <2> QED  BY <2>2, <2>3 DEF On
<1> QED  BY <1>2, <1>3, <1>4, <1>5 DEF t

\* _List_Line_Add_Ahead, _Add_Left and _Add_Right put a node into the line.
LEMMA InsertIs ==
    ASSUME TypeOK, NEW s \in Seq(Node), Line(s), NEW v \in Node \ On(s),
           NEW k \in 1 .. Len(s) + 1, Insert(v, Nth(s, k - 1), Nth(s, k))
    PROVE  Line(Put(s, k, v))'
<1> DEFINE t == Put(s, k, v)
           l == Nth(s, k - 1)
           r == Nth(s, k)
<1>0. v \in Node  OBVIOUS
<1>1. /\ t \in Seq(Node) /\ Len(t) = Len(s) + 1 /\ On(t) = On(s) \cup {v}
      /\ \A i \in 1 .. Len(s) + 1 : t[i] = IF i < k THEN s[i] ELSE IF i = k THEN v ELSE s[i - 1]
  BY <1>0, PutIs, SMTT(20)
<1>2. /\ Nil \notin Node /\ Len(s) \in Nat /\ \A i \in 1 .. Len(s) : s[i] \in Node /\ s[i] # v
      /\ l \in Node \cup {Nil} /\ r \in Node \cup {Nil} /\ l # v /\ r # v
  BY NodeAssumption DEF On, Nth
<1>3. next \in [Node -> Node \cup {Nil}] /\ prev \in [Node -> Node \cup {Nil}] /\ inQ \in [Node -> BOOLEAN]
  BY DEF TypeOK
<1>4. /\ \A x \in Node : next'[x] = IF x = v THEN r ELSE IF x = l THEN v ELSE next[x]
      /\ \A x \in Node : prev'[x] = IF x = v THEN l ELSE IF x = r THEN v ELSE prev[x]
      /\ \A x \in Node : inQ'[x] = (x = v \/ inQ[x])
      /\ header' = IF l = Nil THEN v ELSE header
  BY <1>2, <1>3 DEF Insert, At
<1>5. \A i, j \in 1 .. Len(s) : s[i] = s[j] => i = j  BY DEF Line
<1>6. \A i \in 1 .. Len(s) : (s[i] = l <=> i = k - 1) /\ (s[i] = r <=> i = k)
  BY <1>2, <1>5 DEF Nth
<1> HIDE DEF t, l, r
<1>7. \A i, j \in 1 .. Len(t) : t[i] = t[j] => i = j
  <2> SUFFICES ASSUME NEW i \in 1 .. Len(t), NEW j \in 1 .. Len(t), t[i] = t[j] PROVE i = j
    OBVIOUS
  <2> DEFINE o(n) == IF n < k THEN n ELSE n - 1
  <2>1. CASE i = k \/ j = k
    <3>1. \A n \in 1 .. Len(t) : n # k => o(n) \in 1 .. Len(s) /\ t[n] = s[o(n)]  BY <1>1, <1>2
    <3>2. \A n \in 1 .. Len(t) : n # k => t[n] # v  BY <1>2, <3>1
    <3>3. t[k] = v /\ k \in 1 .. Len(t)  BY <1>1
    <3> QED  BY <2>1, <3>2, <3>3
  <2>2. CASE i # k /\ j # k
    <3>1. o(i) \in 1 .. Len(s) /\ o(j) \in 1 .. Len(s) /\ t[i] = s[o(i)] /\ t[j] = s[o(j)]
      BY <1>1, <1>2, <2>2
    <3>2. o(i) = o(j)  BY <1>5, <3>1
    <3> QED  BY <2>2, <3>2
  <2> QED  BY <2>1, <2>2
<1>8. header' = Nth(t, 1)
  <2>1. CASE k = 1
    <3>1. l = Nil  BY <2>1 DEF l, Nth
    <3> QED  BY <1>1, <1>4, <2>1, <3>1 DEF Nth
  <2>2. CASE k # 1
    <3>1. 1 \in 1 .. Len(s) /\ k - 1 \in 1 .. Len(s)  BY <2>2, <1>2
    <3>2. l # Nil  BY <1>2, <3>1 DEF l, Nth
    <3> QED  BY <1>1, <1>4, <2>2, <3>1, <3>2 DEF Line, Nth
  <2> QED  BY <2>1, <2>2
<1>9. ASSUME NEW i \in 1 .. Len(t)
      PROVE  next'[t[i]] = Nth(t, i + 1) /\ prev'[t[i]] = Nth(t, i - 1) /\ inQ'[t[i]]
  <2>1. CASE i = k
    <3>1. t[i] = v  BY <1>1, <2>1
    <3>2. Nth(t, i + 1) = r  BY <1>1, <2>1 DEF r, Nth
    <3>3. Nth(t, i - 1) = l  BY <1>1, <2>1 DEF l, Nth
    <3> QED  BY <1>4, <3>1, <3>2, <3>3
  <2>2. CASE i # k
    <3>1. PICK j \in 1 .. Len(s) : j = IF i < k THEN i ELSE i - 1  BY <1>1, <2>2
    <3>2. t[i] = s[j] /\ s[j] # v /\ s[j] \in Node  BY <1>1, <1>2, <2>2, <3>1
    <3>3. next[s[j]] = Nth(s, j + 1) /\ prev[s[j]] = Nth(s, j - 1) /\ inQ[s[j]]  BY DEF Line
    <3>4. next'[t[i]] = Nth(t, i + 1)
      <4>1. CASE j = k - 1
        <5>1. i + 1 = k /\ t[i + 1] = v  BY <1>1, <2>2, <3>1, <4>1
        <5> QED  BY <1>1, <1>4, <1>6, <3>2, <4>1, <5>1 DEF Nth
      <4>2. CASE j # k - 1
        <5>1. Nth(t, i + 1) = Nth(s, j + 1)  BY <1>1, <1>2, <2>2, <3>1, <4>2 DEF Nth
        <5> QED  BY <1>4, <1>6, <3>2, <3>3, <4>2, <5>1
      <4> QED  BY <4>1, <4>2
    <3>5. prev'[t[i]] = Nth(t, i - 1)
      <4>1. CASE j = k
        <5>1. i - 1 = k /\ t[i - 1] = v  BY <1>1, <2>2, <3>1, <4>1
        <5> QED  BY <1>1, <1>4, <1>6, <3>2, <4>1, <5>1 DEF Nth
      <4>2. CASE j # k
        <5>1. Nth(t, i - 1) = Nth(s, j - 1)  BY <1>1, <1>2, <2>2, <3>1, <4>2 DEF Nth
        <5> QED  BY <1>4, <1>6, <3>2, <3>3, <4>2, <5>1
      <4> QED  BY <4>1, <4>2
    <3> QED  BY <1>4, <3>2, <3>3, <3>4, <3>5
  <2> QED  BY <2>1, <2>2
<1>10. ASSUME NEW x \in Node \ On(t) PROVE next'[x] = Nil /\ prev'[x] = Nil /\ ~inQ'[x]
  <2>1. x # v /\ x \notin On(s)  BY <1>1, <1>10
  <2>2. x # l /\ x # r  BY <1>2, <2>1 DEF l, r, Nth, On
  <2> QED  BY <1>4, <2>1, <2>2 DEF Line
<1> QED  BY <1>7, <1>8, <1>9, <1>10 DEF Line, t

\* _List_Line_Del takes a node out of it.
LEMMA UnlinkIs ==
    ASSUME TypeOK, NEW s \in Seq(Node), Line(s), NEW k \in 1 .. Len(s), Unlink(s[k])
    PROVE  Line(Cut(s, k))'
<1> DEFINE t == Cut(s, k)
           l == Nth(s, k - 1)
           r == Nth(s, k + 1)
           v == s[k]
<1>5. \A i, j \in 1 .. Len(s) : s[i] = s[j] => i = j  BY DEF Line
<1>1. /\ t \in Seq(Node) /\ Len(t) = Len(s) - 1 /\ On(t) = On(s) \ {v}
      /\ \A i \in 1 .. Len(s) - 1 : t[i] = IF i < k THEN s[i] ELSE s[i + 1]
  BY <1>5, CutIs
<1>2. /\ Nil \notin Node /\ Len(s) \in Nat /\ \A i \in 1 .. Len(s) : s[i] \in Node
      /\ l \in Node \cup {Nil} /\ r \in Node \cup {Nil} /\ v \in Node
  BY NodeAssumption DEF Nth
<1>3. next \in [Node -> Node \cup {Nil}] /\ prev \in [Node -> Node \cup {Nil}] /\ inQ \in [Node -> BOOLEAN]
  BY DEF TypeOK
<1>4. /\ next[v] = r /\ prev[v] = l
      /\ \A x \in Node : next'[x] = IF x = v THEN Nil ELSE IF x = l THEN r ELSE next[x]
      /\ \A x \in Node : prev'[x] = IF x = v THEN Nil ELSE IF x = r THEN l ELSE prev[x]
      /\ \A x \in Node : inQ'[x] = (x # v /\ inQ[x])
      /\ header' = IF l = Nil THEN r ELSE header
  <2>1. next[v] = r /\ prev[v] = l  BY DEF Line
  <2>2. next' = [At(next, l, r) EXCEPT ![v] = Nil] /\ prev' = [At(prev, r, l) EXCEPT ![v] = Nil]
        /\ inQ' = [inQ EXCEPT ![v] = FALSE] /\ header' = IF l = Nil THEN r ELSE header
    BY <2>1 DEF Unlink
  <2> QED  BY <1>2, <1>3, <2>1, <2>2 DEF At
<1>6. \A i \in 1 .. Len(s) : (s[i] = l <=> i = k - 1) /\ (s[i] = r <=> i = k + 1) /\ (s[i] = v <=> i = k)
  BY <1>2, <1>5 DEF Nth
<1> HIDE DEF t, l, r, v
<1>7. \A i, j \in 1 .. Len(t) : t[i] = t[j] => i = j
  <2> SUFFICES ASSUME NEW i \in 1 .. Len(t), NEW j \in 1 .. Len(t), t[i] = t[j] PROVE i = j
    OBVIOUS
  <2> DEFINE o(n) == IF n < k THEN n ELSE n + 1
  <2>1. o(i) \in 1 .. Len(s) /\ o(j) \in 1 .. Len(s) /\ t[i] = s[o(i)] /\ t[j] = s[o(j)]
    BY <1>1, <1>2
  <2>2. o(i) = o(j)  BY <1>5, <2>1
  <2> QED  BY <2>2
<1>8. header' = Nth(t, 1)
  <2>1. CASE k = 1
    <3>1. l = Nil  BY <2>1 DEF l, Nth
    <3>2. r = Nth(t, 1)  BY <1>1, <1>2, <2>1 DEF r, Nth
    <3> QED  BY <1>4, <3>1, <3>2
  <2>2. CASE k # 1
    <3>1. 1 \in 1 .. Len(t) /\ k - 1 \in 1 .. Len(s) /\ 1 \in 1 .. Len(s) /\ 1 < k  BY <1>1, <1>2, <2>2
    <3>2. l # Nil  BY <1>2, <3>1 DEF l, Nth
    <3>3. t[1] = s[1]  BY <1>1, <3>1
    <3> QED  BY <1>4, <3>1, <3>2, <3>3 DEF Line, Nth
  <2> QED  BY <2>1, <2>2
<1>9. ASSUME NEW i \in 1 .. Len(t)
      PROVE  next'[t[i]] = Nth(t, i + 1) /\ prev'[t[i]] = Nth(t, i - 1) /\ inQ'[t[i]]
  <2>1. PICK j \in 1 .. Len(s) : j = IF i < k THEN i ELSE i + 1  BY <1>1
  <2>2. t[i] = s[j] /\ j # k /\ s[j] # v /\ s[j] \in Node  BY <1>1, <1>2, <1>6, <2>1
  <2>3. next[s[j]] = Nth(s, j + 1) /\ prev[s[j]] = Nth(s, j - 1) /\ inQ[s[j]]  BY DEF Line
  <2>4. next'[t[i]] = Nth(t, i + 1)
    <3>1. CASE j = k - 1
      <4>1. Nth(t, i + 1) = r  BY <1>1, <1>2, <2>1, <3>1 DEF r, Nth
      <4> QED  BY <1>4, <1>6, <2>2, <3>1, <4>1
    <3>2. CASE j # k - 1
      <4>1. Nth(t, i + 1) = Nth(s, j + 1)  BY <1>1, <1>2, <2>1, <2>2, <3>2 DEF Nth
      <4> QED  BY <1>4, <1>6, <2>2, <2>3, <3>2, <4>1
    <3> QED  BY <3>1, <3>2
  <2>5. prev'[t[i]] = Nth(t, i - 1)
    <3>1. CASE j = k + 1
      <4>1. Nth(t, i - 1) = l  BY <1>1, <1>2, <2>1, <3>1 DEF l, Nth
      <4> QED  BY <1>4, <1>6, <2>2, <3>1, <4>1
    <3>2. CASE j # k + 1
      <4>1. Nth(t, i - 1) = Nth(s, j - 1)  BY <1>1, <1>2, <2>1, <2>2, <3>2 DEF Nth
      <4> QED  BY <1>4, <1>6, <2>2, <2>3, <3>2, <4>1
    <3> QED  BY <3>1, <3>2
  <2> QED  BY <1>4, <2>2, <2>3, <2>4, <2>5
<1>10. ASSUME NEW x \in Node \ On(t) PROVE next'[x] = Nil /\ prev'[x] = Nil /\ ~inQ'[x]
  <2>1. CASE x = v  BY <1>4, <2>1
  <2>2. CASE x # v
    <3>1. x \notin On(s)  BY <1>1, <1>10, <2>2
    <3>2. x # l /\ x # r  BY <1>2, <3>1 DEF l, r, Nth, On
    <3> QED  BY <1>4, <2>2, <3>1, <3>2 DEF Line
  <2> QED  BY <2>1, <2>2
<1> QED  BY <1>7, <1>8, <1>9, <1>10 DEF Line, t
-----------------------------------------------------------------------------
(* What Timers sees of a line: the time of each of its nodes, less what the   *)
(* tick in progress has still to take from it.                               *)
Off(s)  == Node \ On(s)
Shown   == \A s \in Seq(Node) : \A d \in [0 .. Len(s) -> Nat] : Line(s) /\ Times(s, d) =>
    /\ job = NoJob =>
          (\A i \in 1 .. Len(s) : Left[s[i]] = d[i]) /\ (\A v \in Off(s) : Left[v] = -1)
    /\ \A w \in Off(s), k \in 1 .. Len(s) + 1 : job = AddJob(w, Nth(s, k), Nth(s, k - 1)) =>
          /\ \A i \in 1 .. Len(s) : Left[s[i]] = d[i]
          /\ \A v \in Off(s) : Left[v] = IF v = w THEN cnt[w] + d[k - 1] ELSE -1
    /\ \A k \in 1 .. Len(s) + 1, t \in Nat : job = TickJob(Nth(s, k), t) =>
          /\ \A i \in 1 .. Len(s) :
                Left[s[i]] = IF i < k THEN d[i] ELSE IF d[i] > t THEN d[i] - t ELSE 0
          /\ \A v \in Off(s) : Left[v] = -1

\* The greater of 0 and a number
LEMMA MaxIs ==
    ASSUME NEW x \in Int
    PROVE  Max({0, x}) = IF x > 0 THEN x ELSE 0
<1> DEFINE m == IF x > 0 THEN x ELSE 0
<1>1. m \in {0, x} /\ \A y \in {0, x} : m >= y  OBVIOUS
<1>2. \A z \in {0, x} : (\A y \in {0, x} : z >= y) => z = m  OBVIOUS
<1> QED  BY <1>1, <1>2 DEF Max

\* Left shows just that.
LEMMA LeftIs == TypeOK => Shown
<1> SUFFICES ASSUME TypeOK, NEW s \in Seq(Node), NEW d \in [0 .. Len(s) -> Nat], Line(s), Times(s, d)
             PROVE  /\ job = NoJob =>
                          /\ \A i \in 1 .. Len(s) : Left[s[i]] = d[i]
                          /\ \A v \in Off(s) : Left[v] = -1
                    /\ \A w \in Off(s), k \in 1 .. Len(s) + 1 :
                          job = AddJob(w, Nth(s, k), Nth(s, k - 1)) =>
                             /\ \A i \in 1 .. Len(s) : Left[s[i]] = d[i]
                             /\ \A v \in Off(s) : Left[v] = IF v = w THEN cnt[w] + d[k - 1] ELSE -1
                    /\ \A k \in 1 .. Len(s) + 1, t \in Nat : job = TickJob(Nth(s, k), t) =>
                          /\ \A i \in 1 .. Len(s) :
                                Left[s[i]] = IF i < k THEN d[i] ELSE IF d[i] > t THEN d[i] - t ELSE 0
                          /\ \A v \in Off(s) : Left[v] = -1
  BY DEF Shown
<1>1. /\ Linked = On(s) /\ Nil \notin Node
      /\ \A i \in 1 .. Len(s) : s[i] \in On(s) /\ s[i] \in Node
      /\ \A i \in 1 .. Len(s) : PlaceOf(s[i]) = i - 1 /\ Sum[PlaceOf(s[i])] = d[i]
  BY PlaceIs, SumIs, NodeAssumption DEF On
<1>2. CASE job = NoJob
  <2>1. job.op = "none"  BY <1>2 DEF NoJob
  <2>2. \A i \in 1 .. Len(s) : Left[s[i]] = d[i]  BY <1>1, <2>1 DEF Left
  <2>3. \A v \in Off(s) : Left[v] = -1  BY <1>1, <2>1 DEF Left, Off
  <2> QED  BY <1>2, <2>1, <2>2, <2>3 DEF AddJob, TickJob
<1>3. ASSUME NEW w \in Off(s), NEW k \in 1 .. Len(s) + 1, job = AddJob(w, Nth(s, k), Nth(s, k - 1))
      PROVE  /\ \A i \in 1 .. Len(s) : Left[s[i]] = d[i]
             /\ \A v \in Off(s) : Left[v] = IF v = w THEN cnt[w] + d[k - 1] ELSE -1
  <2>1. job.op = "add" /\ job.node = w /\ job.longer = Nth(s, k - 1)  BY <1>3 DEF AddJob
  <2>2. w \in Node /\ w \notin On(s)  BY DEF Off
  <2>3. \A i \in 1 .. Len(s) : Left[s[i]] = d[i]  BY <1>1, <2>1, <2>2 DEF Left
  <2>4. \A v \in Off(s) : v # w => Left[v] = -1  BY <1>1, <2>1 DEF Left, Off
  <2>5. Left[w] = cnt[w] + IF job.longer = Nil THEN 0 ELSE Sum[PlaceOf(job.longer)]
    BY <2>1, <2>2 DEF Left
  <2>6. (IF job.longer = Nil THEN 0 ELSE Sum[PlaceOf(job.longer)]) = d[k - 1]
    <3>1. CASE k = 1  BY <2>1, <3>1 DEF Nth, Times
    <3>2. CASE k # 1
      <4>1. k - 1 \in 1 .. Len(s)  BY <3>2
      <4> QED  BY <1>1, <2>1, <4>1 DEF Nth
    <3> QED  BY <3>1, <3>2
  <2> QED  BY <2>3, <2>4, <2>5, <2>6
<1>4. ASSUME NEW k \in 1 .. Len(s) + 1, NEW t \in Nat, job = TickJob(Nth(s, k), t)
      PROVE  /\ \A i \in 1 .. Len(s) :
                   Left[s[i]] = IF i < k THEN d[i] ELSE IF d[i] > t THEN d[i] - t ELSE 0
             /\ \A v \in Off(s) : Left[v] = -1
  <2>1. job.op = "tick" /\ job.at = Nth(s, k) /\ job.ulCounter = t  BY <1>4 DEF TickJob
  <2>2. \A v \in Off(s) : Left[v] = -1  BY <1>1, <2>1 DEF Left, Off
  <2>3. ASSUME NEW i \in 1 .. Len(s)
        PROVE  Left[s[i]] = IF i < k THEN d[i] ELSE IF d[i] > t THEN d[i] - t ELSE 0
    <3>1. Left[s[i]] = IF job.at # Nil /\ i - 1 >= PlaceOf(job.at)
                       THEN Max({0, d[i] - t}) ELSE d[i]
      BY <1>1, <2>1 DEF Left
    <3>2. job.at # Nil /\ i - 1 >= PlaceOf(job.at) <=> ~(i < k)
      <4>1. CASE k = Len(s) + 1  BY <2>1, <4>1 DEF Nth
      <4>2. CASE k \in 1 .. Len(s)
        <5>1. job.at = s[k] /\ s[k] # Nil /\ PlaceOf(job.at) = k - 1  BY <1>1, <2>1, <4>2 DEF Nth
        <5> QED  BY <5>1, <4>2
      <4> QED  BY <4>1, <4>2
    <3>3. d[i] \in Nat /\ d[i] - t \in Int  OBVIOUS
    <3>4. Max({0, d[i] - t}) = IF d[i] > t THEN d[i] - t ELSE 0  BY <3>3, MaxIs
    <3> QED  BY <3>1, <3>2, <3>4
  <2> QED  BY <2>2, <2>3
<1> QED  BY <1>2, <1>3, <1>4

\* So it does after a step.
LEMMA LeftIsNext == TypeOK' => Shown'
  BY LeftIs, PTL

\* Left has a value for every thread.
LEMMA LeftAll == Left = [v \in Node |-> Left[v]] /\ Left' = [v \in Node |-> Left'[v]]
  BY DEF Left

\* Every thread is on the line or off it.
LEMMA OnOff ==
    ASSUME NEW s \in Seq(Node)
    PROVE  \A v \in Node : v \in Off(s) \/ \E i \in 1 .. Len(s) : v = s[i]
  BY DEF Off, On
-----------------------------------------------------------------------------
(* The calls, one turn of a loop after the other.                            *)

\* What the nodes of a line have.
LEMMA GoodIs ==
    ASSUME TypeOK, NEW s \in Seq(Node), NEW d \in [0 .. Len(s) -> Nat], Good(s, d)
    PROVE  /\ Len(s) \in Nat /\ d[0] = 0 /\ \A i \in 0 .. Len(s) : d[i] \in Nat
           /\ \A i \in 1 .. Len(s) : s[i] \in Node /\ cnt[s[i]] \in Nat /\ d[i] = d[i - 1] + cnt[s[i]]
           /\ \A i, j \in 1 .. Len(s) : s[i] = s[j] => i = j
<1>1. Len(s) \in Nat /\ \A i \in 0 .. Len(s) : d[i] \in Nat  OBVIOUS
<1>2. \A i \in 1 .. Len(s) : s[i] \in Node  OBVIOUS
<1>3. \A i \in 1 .. Len(s) : cnt[s[i]] \in Nat  BY <1>2 DEF TypeOK
<1> QED  BY <1>1, <1>2, <1>3 DEF Good, Line, Times

\* Where an insertion stands.
LEMMA AddAt ==
    ASSUME TypeOK, NEW s \in Seq(Node), NEW d \in [0 .. Len(s) -> Nat], Good(s, d), job.op = "add"
    PROVE  \E v \in Off(s), k \in 1 .. Len(s) + 1 :
              /\ v \in delayed /\ job = AddJob(v, Nth(s, k), Nth(s, k - 1))
              /\ job.node = v /\ job.longer = Nth(s, k - 1)
              /\ job.at # Nil => k \in 1 .. Len(s) /\ job.at = s[k]
              /\ job.at = Nil => k = Len(s) + 1
<1>1. job # NoJob /\ ~Ticking(s, d)  BY DEF NoJob, Ticking, TickJob
<1>2. PICK v \in delayed \ On(s), k \in 1 .. Len(s) + 1 : job = AddJob(v, Nth(s, k), Nth(s, k - 1))
  BY <1>1 DEF Good, Adding
<1>3. v \in Off(s) /\ job.node = v /\ job.at = Nth(s, k) /\ job.longer = Nth(s, k - 1)
  BY <1>2 DEF Off, TypeOK, AddJob
<1>4. Nth(s, k) = Nil <=> k = Len(s) + 1
  BY NodeAssumption DEF Nth
<1>5. k # Len(s) + 1 => k \in 1 .. Len(s) /\ Nth(s, k) = s[k]  BY DEF Nth
<1> QED  BY <1>2, <1>3, <1>4, <1>5

\* Where a tick stands.
LEMMA TickIs ==
    ASSUME TypeOK, NEW s \in Seq(Node), NEW d \in [0 .. Len(s) -> Nat], Good(s, d), job.op = "tick"
    PROVE  \E k \in 1 .. Len(s) + 1, t \in Nat :
              /\ job = TickJob(Nth(s, k), t) /\ job.ulCounter = t
              /\ d[k - 1] = 0 /\ \A i \in 1 .. k - 1 : s[i] \in Ipc
              /\ job.at # Nil => k \in 1 .. Len(s) /\ job.at = s[k]
              /\ job.at = Nil => k = Len(s) + 1
<1>1. job # NoJob /\ ~Adding(s)  BY DEF NoJob, Adding, AddJob
<1>2. PICK k \in 1 .. Len(s) + 1, t \in Nat :
         job = TickJob(Nth(s, k), t) /\ d[k - 1] = 0 /\ \A i \in 1 .. k - 1 : s[i] \in Ipc
  BY <1>1 DEF Good, Ticking
<1>3. job.at = Nth(s, k) /\ job.ulCounter = t  BY <1>2 DEF TickJob
<1>4. Nth(s, k) = Nil <=> k = Len(s) + 1
  BY NodeAssumption DEF Nth
<1>5. k # Len(s) + 1 => k \in 1 .. Len(s) /\ Nth(s, k) = s[k]  BY DEF Nth
<1> QED  BY <1>2, <1>3, <1>4, <1>5

\* A thread goes to sleep.
LEMMA AddBeginOK ==
    ASSUME TypeOK, NEW s \in Seq(Node), NEW d \in [0 .. Len(s) -> Nat], Good(s, d),
           NEW v \in Node, NEW x \in Delay, AddBegin(v, x)
    PROVE  IInv' /\ Timer!Set(v, x)
<1>1. /\ job = NoJob /\ v \notin delayed /\ delayed' = delayed \cup {v}
      /\ cnt' = [cnt EXCEPT ![v] = x] /\ job' = AddJob(v, Nth(s, 1), Nth(s, 0))
      /\ UNCHANGED <<header, next, prev, inQ>>
  BY DEF AddBegin, Good, Line, Nth
<1>2. x \in Nat /\ cnt \in [Node -> Nat]  BY DelayAssumption DEF TypeOK
<1>3. TypeOK'  BY <1>1, <1>2 DEF TypeOK
<1>4. v \in Off(s) /\ \A i \in 1 .. Len(s) : s[i] # v /\ s[i] \in Node
  BY <1>1 DEF Good, Sleeping, Off, On
<1>5. Line(s)'  BY <1>1 DEF Good, Line
<1>6. Times(s, d)'  BY <1>1, <1>2, <1>4 DEF Good, Times
<1>7. job.op = "none" /\ job'.op = "add" /\ job'.node = v  BY <1>1 DEF NoJob, AddJob
<1>8. Sleeping(s)'  BY <1>1, <1>7 DEF Good, Sleeping
<1>9. 1 \in 1 .. Len(s) + 1 /\ 1 - 1 = 0  OBVIOUS
<1>10. Adding(s)'  BY <1>1, <1>4, <1>9 DEF Adding, Off
<1>11. IInv'  BY <1>3, <1>5, <1>6, <1>8, <1>10 DEF IInv, Good
<1>12. /\ \A i \in 1 .. Len(s) : Left[s[i]] = d[i]
       /\ \A w \in Off(s) : Left[w] = -1
  BY <1>1, LeftIs DEF Shown, Good
<1>13. /\ \A i \in 1 .. Len(s) : Left'[s[i]] = d[i]
       /\ \A w \in Off(s) : Left'[w] = IF w = v THEN cnt'[v] + d[0] ELSE -1
  BY <1>1, <1>3, <1>4, <1>5, <1>6, <1>9, LeftIsNext DEF Shown
<1>14. cnt'[v] + d[0] = x  BY <1>1, <1>2 DEF Good, Times
<1>15. \A w \in Node : Left'[w] = IF w = v THEN x ELSE Left[w]
  BY <1>4, <1>12, <1>13, <1>14, OnOff
<1>16. Left' = [Left EXCEPT ![v] = x]  BY <1>15, LeftAll
<1> QED  BY <1>4, <1>7, <1>11, <1>12, <1>16 DEF Timer!Set

\* It passes a node that has less time.
LEMMA AddPassOK ==
    ASSUME TypeOK, NEW s \in Seq(Node), NEW d \in [0 .. Len(s) -> Nat], Good(s, d), AddPass
    PROVE  IInv' /\ UNCHANGED Timer!vars
<1>0. job.op = "add" /\ job.at # Nil  BY DEF AddPass
<1>1. PICK v \in Off(s), k \in 1 .. Len(s) :
         /\ v \in delayed /\ job = AddJob(v, Nth(s, k), Nth(s, k - 1)) /\ job.node = v /\ job.at = s[k]
  BY <1>0, AddAt
<1>2. /\ ~(cnt[v] < cnt[s[k]]) /\ cnt' = [cnt EXCEPT ![v] = cnt[v] - cnt[s[k]]]
      /\ job' = AddJob(v, next[s[k]], s[k])
      /\ UNCHANGED <<header, next, prev, inQ, delayed>>
  BY <1>1 DEF AddPass, Longer
<1>3. /\ cnt \in [Node -> Nat] /\ v \in Node /\ s[k] \in Node
      /\ \A i \in 1 .. Len(s) : s[i] # v /\ s[i] \in Node
  BY DEF TypeOK, Off, On
<1>4. cnt[v] - cnt[s[k]] \in Nat
  <2>1. cnt[v] \in Nat /\ cnt[s[k]] \in Nat  BY <1>3
  <2> QED  BY <1>2, <2>1
<1>5. TypeOK'  BY <1>2, <1>3, <1>4 DEF TypeOK
<1>6. Line(s)'  BY <1>2 DEF Good, Line
<1>7. Times(s, d)'  BY <1>2, <1>3 DEF Good, Times
<1>8. job'.op = "add" /\ job'.node = v  BY <1>2 DEF AddJob
<1>9. Sleeping(s)'  BY <1>0, <1>1, <1>2, <1>8 DEF Good, Sleeping
<1>10. PICK m \in 1 .. Len(s) + 1 : m = k + 1 /\ m - 1 = k  OBVIOUS
<1>11. job' = AddJob(v, Nth(s, m), Nth(s, m - 1))  BY <1>2, <1>10 DEF Good, Line, Nth
<1>12. Adding(s)'  BY <1>1, <1>2, <1>11 DEF Adding, Off
<1>13. IInv'  BY <1>5, <1>6, <1>7, <1>9, <1>12 DEF IInv, Good
<1>14. k \in 1 .. Len(s) + 1 /\ k - 1 \in 0 .. Len(s)  OBVIOUS
<1>15. /\ \A i \in 1 .. Len(s) : Left[s[i]] = d[i]
       /\ \A w \in Off(s) : Left[w] = IF w = v THEN cnt[v] + d[k - 1] ELSE -1
  BY <1>1, <1>14, LeftIs DEF Shown, Good
<1>16. /\ \A i \in 1 .. Len(s) : Left'[s[i]] = d[i]
       /\ \A w \in Off(s) : Left'[w] = IF w = v THEN cnt'[v] + d[m - 1] ELSE -1
  BY <1>5, <1>6, <1>7, <1>11, LeftIsNext DEF Shown
<1>17. cnt'[v] + d[m - 1] = cnt[v] + d[k - 1]
  <2>1. d[k] = d[k - 1] + cnt[s[k]]  BY DEF Good, Times
  <2>2. cnt'[v] = cnt[v] - cnt[s[k]]  BY <1>2, <1>3
  <2>3. cnt[v] \in Nat /\ cnt[s[k]] \in Nat  BY <1>3
  <2>4. d[k] \in Nat /\ d[k - 1] \in Nat  BY <1>14
  <2> QED  BY <1>10, <2>1, <2>2, <2>3, <2>4
<1>18. \A w \in Node : Left'[w] = Left[w]  BY <1>15, <1>16, <1>17, OnOff
<1>19. Left' = Left  BY <1>18, LeftAll
<1> QED  BY <1>0, <1>8, <1>13, <1>19 DEF Timer!vars

\* The times of the nodes when one with x ticks is put at place k, or taken out of it.
PutTime(s, d, k, x) ==
    [i \in 0 .. Len(s) + 1 |-> IF i < k THEN d[i] ELSE IF i = k THEN d[k - 1] + x ELSE d[i - 1]]

\* It is put before a node that has more time, or at the end (AddHere, AddLast).
LEMMA AddDoneOK ==
    ASSUME TypeOK, NEW s \in Seq(Node), NEW d \in [0 .. Len(s) -> Nat], Good(s, d), AddHere \/ AddLast
    PROVE  IInv' /\ UNCHANGED Timer!vars
<1>0. job.op = "add"  BY DEF AddHere, AddLast
<1>1. PICK v \in Off(s), k \in 1 .. Len(s) + 1 :
         /\ v \in delayed /\ job = AddJob(v, Nth(s, k), Nth(s, k - 1)) /\ job.node = v
         /\ job.longer = Nth(s, k - 1)
         /\ job.at # Nil => k \in 1 .. Len(s) /\ job.at = s[k]
         /\ job.at = Nil => k = Len(s) + 1
  BY <1>0, AddAt
<1>2. /\ cnt \in [Node -> Nat] /\ v \in Node /\ v \notin On(s) /\ Len(s) \in Nat
      /\ \A i \in 1 .. Len(s) : s[i] # v /\ s[i] \in Node
      /\ \A i, j \in 1 .. Len(s) : s[i] = s[j] => i = j
  BY GoodIs DEF TypeOK, Off, On
<1>3. /\ Insert(v, Nth(s, k - 1), Nth(s, k)) /\ job' = NoJob /\ UNCHANGED delayed
      /\ \A w \in Node : cnt'[w] = IF w = Nth(s, k) THEN cnt[w] - cnt[v] ELSE cnt[w]
      /\ cnt' \in [Node -> Nat]
  <2>1. CASE AddHere
    <3>1. k \in 1 .. Len(s) /\ job.at = s[k] /\ Nth(s, k) = s[k]  BY <1>1, <2>1 DEF AddHere, Nth
    <3>2. prev[s[k]] = Nth(s, k - 1)  BY <3>1 DEF Good, Line
    <3>3. cnt' = [cnt EXCEPT ![s[k]] = cnt[s[k]] - cnt[v]] /\ cnt[v] < cnt[s[k]]
      BY <1>1, <2>1, <3>1 DEF AddHere, Longer
    <3>4. cnt[s[k]] \in Nat /\ cnt[v] \in Nat /\ s[k] \in Node  BY <1>2, <3>1
    <3>5. cnt[s[k]] - cnt[v] \in Nat  BY <3>3, <3>4
    <3> QED  BY <1>1, <1>2, <2>1, <3>1, <3>2, <3>3, <3>4, <3>5 DEF AddHere
  <2>2. CASE AddLast
    <3>1. k = Len(s) + 1 /\ Nth(s, k) = Nil  BY <1>1, <2>2 DEF AddLast, Nth
    <3> QED  BY <1>1, <1>2, <2>2, <3>1, NodeAssumption DEF AddLast
  <2> QED  BY <2>1, <2>2
<1>4. PICK t \in Seq(Node) :
         /\ t = Put(s, k, v) /\ Len(t) = Len(s) + 1 /\ On(t) = On(s) \cup {v}
         /\ \A i \in 1 .. Len(s) + 1 : t[i] = IF i < k THEN s[i] ELSE IF i = k THEN v ELSE s[i - 1]
  <2>1. v \in Node  BY <1>2
  <2> QED  BY <2>1, PutIs
<1>5. Line(t)'
  <2>1. v \in Node \ On(s) /\ Line(s)  BY <1>2 DEF Good
  <2>2. Line(Put(s, k, v))'  BY <1>3, <2>1, InsertIs
  <2> QED  BY <1>4, <2>2
<1>6. TypeOK'
  <2>1. Nth(s, k) \in Node \cup {Nil} /\ Nth(s, k - 1) \in Node \cup {Nil}  BY <1>2 DEF Nth
  <2> QED  BY <1>2, <1>3, <2>1 DEF TypeOK, Insert, At
<1>20. PICK x \in Nat : x = cnt[v]  BY <1>2
<1>21. k - 1 \in 0 .. Len(s)  BY <1>2
<1>7. PICK e \in [0 .. Len(t) -> Nat] : e = PutTime(s, d, k, x)
  <2>1. d[k - 1] + x \in Nat  BY <1>21
  <2>2. ASSUME NEW i \in 0 .. Len(s) + 1
        PROVE  (IF i < k THEN d[i] ELSE IF i = k THEN d[k - 1] + x ELSE d[i - 1]) \in Nat
    <3>1. i < k => d[i] \in Nat  BY <1>2
    <3>2. ~(i < k) /\ i # k => i - 1 \in 0 .. Len(s)  BY <1>2
    <3>3. ~(i < k) /\ i # k => d[i - 1] \in Nat  BY <3>2
    <3> QED  BY <2>1, <3>1, <3>3
  <2> QED  BY <1>4, <2>2 DEF PutTime
<1>8. /\ e[0] = 0 /\ \A i \in 1 .. Len(s) : e[IF i < k THEN i ELSE i + 1] = d[i]
      /\ e[k] = d[k - 1] + x
      /\ \A i \in 0 .. Len(s) + 1 : e[i] = IF i < k THEN d[i] ELSE IF i = k THEN d[k - 1] + x ELSE d[i - 1]
  <2>1. \A i \in 0 .. Len(s) + 1 : e[i] = IF i < k THEN d[i] ELSE IF i = k THEN d[k - 1] + x ELSE d[i - 1]
    BY <1>7 DEF PutTime
  <2>2. e[0] = 0
    <3>1. 0 \in 0 .. Len(s) + 1 /\ 0 < k  BY <1>2
    <3>2. d[0] = 0  BY GoodIs
    <3> QED  BY <2>1, <3>1, <3>2
  <2>3. ASSUME NEW i \in 1 .. Len(s) PROVE e[IF i < k THEN i ELSE i + 1] = d[i]
    <3>1. CASE i < k
      <4>1. i \in 0 .. Len(s) + 1  BY <1>2
      <4> QED  BY <2>1, <3>1, <4>1
    <3>2. CASE ~(i < k)
      <4>1. i + 1 \in 0 .. Len(s) + 1 /\ ~(i + 1 < k) /\ i + 1 # k /\ i + 1 - 1 = i  BY <1>2, <3>2
      <4> QED  BY <2>1, <3>2, <4>1
    <3> QED  BY <3>1, <3>2
  <2>4. e[k] = d[k - 1] + x
    <3>1. k \in 0 .. Len(s) + 1 /\ ~(k < k)  BY <1>2
    <3> QED  BY <2>1, <3>1
  <2> QED  BY <2>1, <2>2, <2>3, <2>4
<1>9. Times(t, e)'
  <2>0. \A i \in 1 .. Len(s) : d[i] = d[i - 1] + cnt[s[i]] /\ cnt[s[i]] \in Nat /\ s[i] \in Node  BY GoodIs
  <2>1. ASSUME NEW i \in 1 .. Len(t) PROVE e[i] = e[i - 1] + cnt'[t[i]]
    <3>1. i \in 1 .. Len(s) + 1 /\ i - 1 \in 0 .. Len(s) + 1  BY <1>2, <1>4
    <3>2. CASE i < k
      <4>1. i \in 1 .. Len(s) /\ i - 1 < k  BY <1>2, <3>1, <3>2
      <4>2. t[i] = s[i]  BY <1>4, <3>1, <3>2
      <4>3. s[i] # Nth(s, k)  BY <1>2, <3>2, <4>1, NodeAssumption DEF Nth
      <4>4. cnt'[s[i]] = cnt[s[i]]  BY <1>3, <2>0, <4>1, <4>3
      <4>5. PICK j \in 0 .. Len(s) : j = i - 1 /\ j < k  BY <1>2, <4>1
      <4>6. i \in 0 .. Len(s) + 1 /\ j \in 0 .. Len(s) + 1  BY <1>2, <3>1
      <4>7. e[i] = d[i] /\ e[j] = d[j]  BY <1>8, <3>2, <4>5, <4>6
      <4> QED  BY <2>0, <4>1, <4>2, <4>4, <4>5, <4>7
    <3>3. CASE i = k
      <4>1. t[i] = v  BY <1>4, <3>1, <3>3
      <4>2. v # Nth(s, k)  BY <1>2, NodeAssumption DEF Nth
      <4>4. PICK j \in 0 .. Len(s) + 1 : j = i - 1 /\ j < k  BY <3>1, <3>3
      <4>5. e[j] = d[j]  BY <1>8, <4>4
      <4>3. e[i] = d[k - 1] + x /\ e[i - 1] = d[k - 1]  BY <1>8, <3>3, <4>4, <4>5
      <4> QED  BY <1>2, <1>3, <1>20, <4>1, <4>2, <4>3
    <3>4. CASE i = k + 1
      <4>1. k \in 1 .. Len(s) /\ ~(i < k) /\ i # k /\ i - 1 = k  BY <1>2, <3>1, <3>4
      <4>2. t[i] = s[k] /\ Nth(s, k) = s[k]  BY <1>4, <3>1, <4>1 DEF Nth
      <4>7. i \in 0 .. Len(s) + 1  BY <1>2, <3>1
      <4>8. e[i] = d[i - 1]  BY <1>8, <4>1, <4>7
      <4>3. e[i] = d[k] /\ e[i - 1] = d[k - 1] + x  BY <1>8, <4>1, <4>8
      <4>4. cnt'[t[i]] = cnt[s[k]] - x  BY <1>3, <1>20, <2>0, <4>1, <4>2
      <4>5. d[k] = d[k - 1] + cnt[s[k]] /\ cnt[s[k]] \in Nat  BY <2>0, <4>1
      <4>6. d[k - 1] \in Nat  BY <1>21
      <4>9. PICK a \in Nat, c \in Nat : a = d[k - 1] /\ c = cnt[s[k]]  BY <4>5, <4>6
      <4>10. a + c = a + x + (c - x)  OBVIOUS
      <4> QED  BY <4>3, <4>4, <4>5, <4>9, <4>10
    <3>5. CASE i > k + 1
      <4>1. i - 1 \in 1 .. Len(s) /\ i - 1 # k /\ ~(i < k) /\ i # k /\ ~(i - 1 < k)  BY <1>2, <3>1, <3>5
      <4>2. PICK j \in 1 .. Len(s) : j = i - 1 /\ j # k  BY <4>1
      <4>3. t[i] = s[j]  BY <1>4, <3>1, <4>1, <4>2
      <4>4. s[j] # Nth(s, k)  BY <1>2, <4>2, NodeAssumption DEF Nth
      <4>7. i \in 0 .. Len(s) + 1 /\ j \in 0 .. Len(s) + 1  BY <1>2, <3>1
      <4>8. e[i] = d[i - 1] /\ e[j] = d[j - 1]  BY <1>8, <4>1, <4>2, <4>7
      <4>5. e[i] = d[j] /\ e[i - 1] = d[j - 1]  BY <4>2, <4>8
      <4>6. cnt'[s[j]] = cnt[s[j]]  BY <1>3, <2>0, <4>4
      <4> QED  BY <2>0, <4>3, <4>5, <4>6
    <3>6. i < k \/ i = k \/ i = k + 1 \/ i > k + 1  BY <3>1
    <3> QED  BY <3>2, <3>3, <3>4, <3>5, <3>6
  <2> QED  BY <1>8, <2>1 DEF Times
<1>10. Sleeping(t)'  BY <1>0, <1>1, <1>3, <1>4 DEF Good, Sleeping
<1>11. IInv'  BY <1>3, <1>5, <1>6, <1>9, <1>10 DEF IInv, Good
<1>12. /\ \A i \in 1 .. Len(s) : Left[s[i]] = d[i]
       /\ \A w \in Off(s) : Left[w] = IF w = v THEN cnt[v] + d[k - 1] ELSE -1
  <2>1. Line(s) /\ Times(s, d) /\ Shown  BY LeftIs DEF Good
  <2>2. job = AddJob(v, Nth(s, k), Nth(s, k - 1))  BY <1>1
  <2>3. \A w \in Off(s), j \in 1 .. Len(s) + 1 : job = AddJob(w, Nth(s, j), Nth(s, j - 1)) =>
           /\ \A i \in 1 .. Len(s) : Left[s[i]] = d[i]
           /\ \A u \in Off(s) : Left[u] = IF u = w THEN cnt[w] + d[j - 1] ELSE -1
    BY <2>1 DEF Shown
  <2> QED  BY <2>2, <2>3
<1>13. /\ \A i \in 1 .. Len(t) : Left'[t[i]] = e[i]
       /\ \A w \in Off(t) : Left'[w] = -1
  BY <1>3, <1>4, <1>5, <1>6, <1>7, <1>9, LeftIsNext DEF Shown
<1>14. ASSUME NEW i \in 1 .. Len(s) PROVE Left'[s[i]] = Left[s[i]]
  <2>1. PICK j \in 1 .. Len(t) : j = IF i < k THEN i ELSE i + 1  BY <1>4
  <2>2. t[j] = s[i]  BY <1>2, <1>4, <2>1
  <2> QED  BY <1>8, <1>12, <1>13, <2>1, <2>2
<1>15. ASSUME NEW w \in Off(s) PROVE Left'[w] = Left[w]
  <2>1. CASE w = v
    <3>1. k \in 1 .. Len(t) /\ t[k] = v  BY <1>4
    <3>2. Left'[v] = d[k - 1] + x  BY <1>8, <1>13, <3>1
    <3>3. d[k - 1] \in Nat  BY <1>21
    <3> QED  BY <1>12, <1>20, <2>1, <3>2, <3>3
  <2>2. CASE w # v  BY <1>4, <1>12, <1>13, <2>2 DEF Off
  <2> QED  BY <2>1, <2>2
<1>17. \A w \in Node : Left'[w] = Left[w]  BY <1>14, <1>15, OnOff
<1>16. Left' = Left  BY <1>17, LeftAll
<1> QED  BY <1>0, <1>3, <1>11, <1>16 DEF Timer!vars, NoJob

\* The line s with its times d turns into t and e: the k-th node is gone, and those
\* behind it have what it had more than x less.
CutTo(s, d, k, x, t, e) ==
    /\ Len(t) = Len(s) - 1 /\ On(t) = On(s) \ {s[k]}
    /\ \A i \in 1 .. Len(t) : t[i] = IF i < k THEN s[i] ELSE s[i + 1]
    /\ \A i \in 0 .. Len(t) : e[i] = IF i < k THEN d[i] ELSE d[i + 1] - (cnt[s[k]] - x)
    /\ TypeOK' /\ Line(t)' /\ Times(t, e)'

\* A node is deleted, when x of its ticks are left to go to the next one.
LEMMA CutOK ==
    ASSUME TypeOK, NEW s \in Seq(Node), NEW d \in [0 .. Len(s) -> Nat], Good(s, d),
           NEW k \in 1 .. Len(s), NEW x \in Nat, x <= cnt[s[k]],
           Unlink(s[k]), cnt' = Without([cnt EXCEPT ![s[k]] = x], s[k]), delayed' \subseteq Node
    PROVE  \E t \in Seq(Node) : \E e \in [0 .. Len(t) -> Nat] : CutTo(s, d, k, x, t, e)
<1>1. /\ Len(s) \in Nat /\ d[0] = 0 /\ \A i \in 0 .. Len(s) : d[i] \in Nat
      /\ \A i \in 1 .. Len(s) : s[i] \in Node /\ cnt[s[i]] \in Nat /\ d[i] = d[i - 1] + cnt[s[i]]
      /\ \A i, j \in 1 .. Len(s) : s[i] = s[j] => i = j
  BY GoodIs
<1>2. PICK y \in Nat : y = cnt[s[k]] /\ x <= y /\ y - x \in Nat  BY <1>1
<1>3. PICK t \in Seq(Node) :
         /\ t = Cut(s, k) /\ Len(t) = Len(s) - 1 /\ On(t) = On(s) \ {s[k]}
         /\ \A i \in 1 .. Len(s) - 1 : t[i] = IF i < k THEN s[i] ELSE s[i + 1]
  BY <1>1, CutIs
<1>4. Line(t)'
  <2>1. Line(s)  BY DEF Good
  <2>2. Line(Cut(s, k))'  BY <2>1, UnlinkIs
  <2> QED  BY <1>3, <2>2
<1>5. /\ s[k] \in Node /\ Nth(s, k + 1) # s[k] /\ Nth(s, k + 1) \in Node \cup {Nil}
      /\ next[s[k]] = Nth(s, k + 1) /\ prev[s[k]] = Nth(s, k - 1) /\ Nil \notin Node
      /\ Nth(s, k - 1) \in Node \cup {Nil}
  BY <1>1, NodeAssumption DEF Nth, Good, Line
<1>6. /\ cnt' \in [Node -> Nat]
      /\ \A w \in Node : w # s[k] => cnt'[w] = IF w = Nth(s, k + 1) THEN cnt[w] + x ELSE cnt[w]
  <2>1. cnt \in [Node -> Nat]  BY DEF TypeOK
  <2>2. PICK c \in [Node -> Nat] : c = [cnt EXCEPT ![s[k]] = x]  BY <2>1
  <2>3. c[s[k]] = x /\ \A w \in Node : w # s[k] => c[w] = cnt[w]  BY <1>5, <2>1, <2>2
  <2>4. cnt' = At(c, Nth(s, k + 1), IF Nth(s, k + 1) = Nil THEN 0 ELSE c[Nth(s, k + 1)] + c[s[k]])
    BY <1>5, <2>2 DEF Without
  <2>5. CASE Nth(s, k + 1) = Nil  BY <1>5, <2>3, <2>4, <2>5 DEF At
  <2>6. CASE Nth(s, k + 1) # Nil
    <3>1. PICK r \in Node : r = Nth(s, k + 1) /\ r # s[k]  BY <1>5, <2>6
    <3>2. cnt' = [c EXCEPT ![r] = c[r] + x]  BY <1>5, <2>3, <2>4, <3>1 DEF At
    <3>3. c[r] + x \in Nat  BY <3>1
    <3>4. cnt' \in [Node -> Nat]  BY <3>2, <3>3
    <3>5. cnt'[r] = c[r] + x /\ \A w \in Node : w # r => cnt'[w] = c[w]  BY <3>2
    <3> QED  BY <2>3, <3>1, <3>4, <3>5
  <2> QED  BY <2>5, <2>6
<1>7. TypeOK'
  BY <1>5, <1>6 DEF TypeOK, Unlink, At
<1>8. \A i \in k .. Len(s) : d[i] - (y - x) \in Nat
  <2> SUFFICES ASSUME NEW i \in k .. Len(s) PROVE d[i] - (y - x) \in Nat
    OBVIOUS
  <2>1. k \in 0 .. Len(s) /\ Times(s, d)  BY <1>1 DEF Good
  <2>2. d[k] <= d[i]  BY <2>1, Later
  <2>3. k - 1 \in 0 .. Len(s) /\ i \in 0 .. Len(s)  BY <1>1
  <2>4. PICK a \in Nat, b \in Nat : a = d[k - 1] /\ b = d[i]  BY <1>1, <2>3
  <2>5. d[k] = a + y  BY <1>1, <1>2, <2>4
  <2>6. a + y <= b /\ x <= y  BY <1>2, <2>2, <2>4, <2>5
  <2>7. b - (y - x) \in Nat  BY <2>6
  <2> QED  BY <2>4, <2>7
<1>9. PICK e \in [0 .. Len(t) -> Nat] :
         \A i \in 0 .. Len(t) : e[i] = IF i < k THEN d[i] ELSE d[i + 1] - (y - x)
  <2>1. ASSUME NEW i \in 0 .. Len(t) PROVE (IF i < k THEN d[i] ELSE d[i + 1] - (y - x)) \in Nat
    <3>1. CASE i < k
      <4>1. i \in 0 .. Len(s)  BY <1>1, <1>3
      <4> QED  BY <1>1, <3>1, <4>1
    <3>2. CASE ~(i < k)
      <4>1. i + 1 \in k .. Len(s)  BY <1>1, <1>3, <3>2
      <4> QED  BY <1>8, <3>2, <4>1
    <3> QED  BY <3>1, <3>2
  <2>2. [i \in 0 .. Len(t) |-> IF i < k THEN d[i] ELSE d[i + 1] - (y - x)] \in [0 .. Len(t) -> Nat]
    BY <2>1
  <2> QED  BY <2>2
<1>10. ASSUME NEW i \in 1 .. Len(t) PROVE e[i] = e[i - 1] + cnt'[t[i]]
  <2>1. PICK p \in 0 .. Len(t) : p = i - 1  BY <1>1, <1>3
  <2>2. i \in 0 .. Len(t) /\ i \in 1 .. Len(s) - 1 /\ i \in 1 .. Len(s)  BY <1>1, <1>3
  <2>3. CASE i < k
    <3>1. p < k /\ t[i] = s[i]  BY <1>3, <2>1, <2>2, <2>3
    <3>2. e[i] = d[i] /\ e[p] = d[p]  BY <1>9, <2>1, <2>2, <2>3, <3>1
    <3>3. s[i] # s[k] /\ s[i] \in Node  BY <1>1, <2>2, <2>3
    <3>4. s[i] # Nth(s, k + 1)  BY <1>1, <1>5, <2>2, <2>3 DEF Nth
    <3>5. cnt'[s[i]] = cnt[s[i]]  BY <1>6, <3>3, <3>4
    <3> QED  BY <1>1, <2>1, <2>2, <3>1, <3>2, <3>5
  <2>4. CASE ~(i < k)
    <3>1. PICK j \in 1 .. Len(s) : j = i + 1 /\ j - 1 = i /\ j > k  BY <1>1, <1>3, <2>4
    <3>2. t[i] = s[j] /\ s[j] \in Node /\ s[j] # s[k]  BY <1>1, <1>3, <2>2, <2>4, <3>1
    <3>3. e[i] = d[j] - (y - x)  BY <1>9, <2>2, <2>4, <3>1
    <3>4. d[j] = d[i] + cnt[s[j]] /\ cnt[s[j]] \in Nat  BY <1>1, <3>1
    <3>5. i \in 0 .. Len(s)  BY <2>2
    <3>6. PICK a \in Nat, c \in Nat : a = d[i] /\ c = cnt[s[j]]  BY <1>1, <3>4, <3>5
    <3>7. CASE i = k
      <4>1. p < k /\ e[p] = d[p]  BY <1>9, <2>1, <3>7
      <4>2. p \in 0 .. Len(s)  BY <1>1, <1>3, <2>1
      <4>3. PICK b \in Nat : b = d[p]  BY <1>1, <4>2
      <4>4. a = b + y  BY <1>1, <1>2, <2>1, <3>6, <3>7, <4>3
      <4>5. Nth(s, k + 1) = s[j]  BY <3>1, <3>7 DEF Nth
      <4>6. cnt'[s[j]] = c + x  BY <1>6, <3>2, <3>6, <4>5
      <4>7. e[i] = a + c - (y - x)  BY <3>3, <3>4, <3>6
      <4>8. a + c - (y - x) = b + (c + x)  BY <4>4
      <4> QED  BY <2>1, <3>2, <4>1, <4>3, <4>6, <4>7, <4>8
    <3>8. CASE i # k
      <4>1. ~(p < k) /\ p + 1 = i  BY <2>1, <2>4, <3>8
      <4>2. e[p] = a - (y - x)  BY <1>9, <2>1, <3>6, <4>1
      <4>3. j # k + 1  BY <3>1, <3>8
      <4>4. s[j] # Nth(s, k + 1)  BY <1>1, <1>5, <3>2, <4>3 DEF Nth
      <4>5. cnt'[s[j]] = c  BY <1>6, <3>2, <3>6, <4>4
      <4>6. e[i] = a + c - (y - x)  BY <3>3, <3>4, <3>6
      <4>7. a + c - (y - x) = a - (y - x) + c  BY <1>2
      <4> QED  BY <2>1, <3>2, <4>2, <4>5, <4>6, <4>7
    <3> QED  BY <3>7, <3>8
  <2> QED  BY <2>3, <2>4
<1>11. e[0] = 0
  <2>1. 0 \in 0 .. Len(t) /\ 0 < k  BY <1>1, <1>3
  <2> QED  BY <1>1, <1>9, <2>1
<1>12. Times(t, e)'  BY <1>10, <1>11 DEF Times
<1> QED  BY <1>2, <1>3, <1>4, <1>7, <1>9, <1>12 DEF CutTo

\* The test of membership is true of the nodes of the line.
LEMMA IsInIs ==
    ASSUME TypeOK, NEW s \in Seq(Node), Line(s), NEW v \in Node
    PROVE  IsIn(v) <=> v \in On(s)
<1>1. CASE v \in Node \ On(s)
  <2>1. next[v] = Nil /\ prev[v] = Nil  BY <1>1 DEF Line
  <2>2. header # v  BY <1>1, NodeAssumption DEF Line, Nth, On
  <2> QED  BY <1>1, <2>1, <2>2 DEF IsIn
<1>2. CASE v \in On(s)
  <2>1. PICK i \in 1 .. Len(s) : v = s[i]  BY <1>2 DEF On
  <2>2. CASE i = 1  BY <1>2, <2>1, <2>2 DEF IsIn, Line, Nth
  <2>3. CASE i # 1
    <3>1. PICK j \in 1 .. Len(s) : j = i - 1  BY <2>3
    <3>2. s[j] \in Node  OBVIOUS
    <3>3. prev[v] = s[j]  BY <2>1, <3>1 DEF Line, Nth
    <3> QED  BY <1>2, <3>2, <3>3, NodeAssumption DEF IsIn
  <2> QED  BY <2>2, <2>3
<1> QED  BY <1>1, <1>2

\* A sleeper is woken.
LEMMA WakeupOK ==
    ASSUME TypeOK, NEW s \in Seq(Node), NEW d \in [0 .. Len(s) -> Nat], Good(s, d),
           NEW v \in Node, Wakeup(v)
    PROVE  IInv' /\ (Timer!Cancel(v) \/ UNCHANGED Timer!vars)
<1>1. job = NoJob /\ job' = NoJob /\ v \in delayed /\ delayed' = delayed \ {v}
  BY DEF Wakeup
<1>2. job.op = "none"  BY <1>1 DEF NoJob
<1>3. Line(s) /\ Times(s, d) /\ Sleeping(s)  BY DEF Good
<1>4. CASE v \notin On(s)
  <2>1. UNCHANGED <<header, next, prev, inQ, cnt>>  BY <1>3, <1>4, IsInIs DEF Wakeup
  <2>2. TypeOK'  BY <1>1, <2>1 DEF TypeOK
  <2>3. Line(s)' /\ Times(s, d)'  BY <1>3, <2>1 DEF Line, Times
  <2>4. Sleeping(s)'  BY <1>1, <1>2, <1>3, <1>4 DEF Sleeping
  <2>5. IInv'  BY <1>1, <2>2, <2>3, <2>4 DEF IInv, Good
  <2>6. Left' = Left  BY <1>1, <2>1 DEF Left, Sum, Walk, PlaceOf, Linked
  <2> QED  BY <1>1, <2>5, <2>6 DEF Timer!vars
<1>5. CASE v \in On(s)
  <2>1. PICK k \in 1 .. Len(s) : v = s[k]  BY <1>5 DEF On
  <2>2. Unlink(s[k]) /\ cnt' = Without(cnt, s[k])  BY <1>3, <1>5, <2>1, IsInIs DEF Wakeup
  <2>3. PICK x \in Nat : x = cnt[s[k]]  BY <2>1 DEF TypeOK
  <2>4. cnt = [cnt EXCEPT ![s[k]] = x]  BY <2>3 DEF TypeOK
  <2>5. x <= cnt[s[k]] /\ delayed' \subseteq Node  BY <1>1, <2>3 DEF TypeOK
  <2>6. PICK t \in Seq(Node) : \E e \in [0 .. Len(t) -> Nat] : CutTo(s, d, k, x, t, e)
    <3>1. cnt' = Without([cnt EXCEPT ![s[k]] = x], s[k])  BY <2>2, <2>4
    <3> QED  BY <2>2, <2>5, <3>1, CutOK
  <2>20. PICK e \in [0 .. Len(t) -> Nat] : CutTo(s, d, k, x, t, e)  BY <2>6
  <2>7. /\ Len(t) = Len(s) - 1 /\ On(t) = On(s) \ {s[k]}
        /\ \A i \in 1 .. Len(t) : t[i] = IF i < k THEN s[i] ELSE s[i + 1]
        /\ \A i \in 0 .. Len(t) : e[i] = IF i < k THEN d[i] ELSE d[i + 1] - (cnt[s[k]] - x)
        /\ TypeOK' /\ Line(t)' /\ Times(t, e)'
    BY <2>20 DEF CutTo
  <2>8. Sleeping(t)'  BY <1>1, <1>2, <1>3, <2>1, <2>7 DEF Sleeping
  <2>9. IInv'  BY <1>1, <2>7, <2>8 DEF IInv, Good
  <2>10. /\ \A i \in 1 .. Len(s) : Left[s[i]] = d[i]
         /\ \A w \in Off(s) : Left[w] = -1
    BY <1>1, <1>3, LeftIs DEF Shown
  <2>11. /\ \A i \in 1 .. Len(t) : Left'[t[i]] = e[i]
         /\ \A w \in Off(t) : Left'[w] = -1
    BY <1>1, <2>7, LeftIsNext DEF Shown
  <2>12. Len(s) \in Nat /\ \A i \in 1 .. Len(s) : d[i] \in Nat /\ s[i] \in Node
    BY GoodIs
  <2>13. ASSUME NEW i \in 1 .. Len(s), i # k PROVE Left'[s[i]] = Left[s[i]]
    <3>1. PICK j \in 1 .. Len(t) : j = IF i < k THEN i ELSE i - 1  BY <2>7, <2>12, <2>13
    <3>2. t[j] = s[i]  BY <2>7, <2>12, <2>13, <3>1
    <3>3. j \in 0 .. Len(t) /\ (i < k <=> j < k) /\ (~(i < k) => j + 1 = i)  BY <2>12, <2>13, <3>1
    <3>4. e[j] = d[i]
      <4>1. CASE i < k  BY <2>7, <3>1, <3>3, <4>1
      <4>2. CASE ~(i < k)
        <5>1. e[j] = d[i] - (cnt[s[k]] - x)  BY <2>7, <3>1, <3>3, <4>2
        <5>2. cnt[s[k]] - x = 0  BY <2>3
        <5> QED  BY <2>12, <5>1, <5>2
      <4> QED  BY <4>1, <4>2
    <3> QED  BY <2>10, <2>11, <3>2, <3>4
  <2>14. Left'[v] = -1 /\ Left[v] # -1
    <3>1. v \in Off(t)  BY <2>1, <2>7 DEF Off
    <3> QED  BY <2>1, <2>10, <2>11, <2>12, <3>1
  <2>15. \A w \in Off(s) : w \in Off(t)  BY <2>7 DEF Off
  <2>16. ASSUME NEW w \in Node PROVE Left'[w] = IF w = v THEN -1 ELSE Left[w]
    <3>1. CASE w \in Off(s)  BY <1>5, <2>10, <2>11, <2>15, <3>1 DEF Off
    <3>2. CASE w \notin Off(s)
      <4>1. PICK i \in 1 .. Len(s) : w = s[i]  BY <3>2, OnOff
      <4>2. w = v <=> i = k  BY <2>1, <4>1, GoodIs
      <4> QED  BY <2>13, <2>14, <4>1, <4>2
    <3> QED  BY <3>1, <3>2
  <2>17. Left' = [Left EXCEPT ![v] = -1]  BY <2>16, LeftAll
  <2> QED  BY <1>1, <1>2, <2>9, <2>14, <2>17 DEF Timer!Cancel
<1> QED  BY <1>4, <1>5

\* A tick begins: every sleeper that has ticks left has one less.
LEMMA TickBeginOK ==
    ASSUME TypeOK, NEW s \in Seq(Node), NEW d \in [0 .. Len(s) -> Nat], Good(s, d), TickBegin
    PROVE  IInv' /\ Timer!Tick
<1>1. job = NoJob /\ job' = TickJob(header, 1) /\ UNCHANGED <<header, next, prev, cnt, inQ, delayed>>
  BY DEF TickBegin
<1>2. Line(s) /\ Times(s, d) /\ Sleeping(s)  BY DEF Good
<1>3. 1 \in 1 .. Len(s) + 1 /\ 1 \in Nat /\ 1 - 1 = 0  OBVIOUS
<1>4. job' = TickJob(Nth(s, 1), 1)  BY <1>1, <1>2 DEF Line
<1>5. job.op = "none" /\ job'.op = "tick"  BY <1>1 DEF NoJob, TickJob
<1>6. TypeOK' /\ Line(s)' /\ Times(s, d)' /\ Sleeping(s)'
  BY <1>1, <1>2, <1>5 DEF TypeOK, Line, Times, Sleeping
<1>7. Ticking(s, d)'  BY <1>2, <1>3, <1>4 DEF Ticking, Times
<1>8. IInv'  BY <1>6, <1>7 DEF IInv, Good
<1>9. /\ \A i \in 1 .. Len(s) : Left[s[i]] = d[i]
      /\ \A w \in Off(s) : Left[w] = -1
  BY <1>1, <1>2, LeftIs DEF Shown
<1>10. /\ \A i \in 1 .. Len(s) : Left'[s[i]] = IF i < 1 THEN d[i] ELSE IF d[i] > 1 THEN d[i] - 1 ELSE 0
       /\ \A w \in Off(s) : Left'[w] = -1
  BY <1>3, <1>4, <1>6, LeftIsNext DEF Shown
<1>11. ASSUME NEW i \in 1 .. Len(s)
       PROVE  Left'[s[i]] = IF Left[s[i]] \in {-1, 0} THEN Left[s[i]] ELSE Left[s[i]] - 1
  <2>1. d[i] \in Nat /\ ~(i < 1)  BY GoodIs
  <2> QED  BY <1>9, <1>10, <2>1
<1>12. ASSUME NEW w \in Off(s)
       PROVE  Left'[w] = IF Left[w] \in {-1, 0} THEN Left[w] ELSE Left[w] - 1
  BY <1>9, <1>10
<1>13. \A w \in Node : Left'[w] = IF Left[w] \in {-1, 0} THEN Left[w] ELSE Left[w] - 1
  BY <1>11, <1>12, OnOff
<1>14. Left' = [w \in Node |-> IF Left[w] \in {-1, 0} THEN Left[w] ELSE Left[w] - 1]
  BY <1>13, LeftAll
<1> QED  BY <1>5, <1>8, <1>14 DEF Timer!Tick

\* The tick ends at a node with more time than it has left to take.
LEMMA TickBreakOK ==
    ASSUME TypeOK, NEW s \in Seq(Node), NEW d \in [0 .. Len(s) -> Nat], Good(s, d), TickBreak
    PROVE  IInv' /\ Timer!TickDone
<1>1. job.op = "tick" /\ job.at # Nil /\ job' = NoJob /\ UNCHANGED <<header, next, prev, inQ, delayed>>
  BY DEF TickBreak, TickAt
<1>2. PICK k \in 1 .. Len(s), u \in Nat :
         /\ job = TickJob(Nth(s, k), u) /\ job.ulCounter = u /\ job.at = s[k]
         /\ d[k - 1] = 0 /\ \A i \in 1 .. k - 1 : s[i] \in Ipc
  BY <1>1, TickIs
<1>3. /\ Len(s) \in Nat /\ d[0] = 0 /\ \A i \in 0 .. Len(s) : d[i] \in Nat
      /\ \A i \in 1 .. Len(s) : s[i] \in Node /\ cnt[s[i]] \in Nat /\ d[i] = d[i - 1] + cnt[s[i]]
      /\ \A i, j \in 1 .. Len(s) : s[i] = s[j] => i = j
  BY GoodIs
<1>4. Line(s) /\ Times(s, d) /\ Sleeping(s)  BY DEF Good
<1>5. PICK y \in Nat : y = cnt[s[k]]  BY <1>3
<1>6. y > u /\ cnt' = [cnt EXCEPT ![s[k]] = y - u] /\ y - u \in Nat
  <2>1. ~(y <= u) /\ cnt' = [cnt EXCEPT ![s[k]] = y - u]  BY <1>2, <1>5 DEF TickBreak, Due
  <2> QED  BY <2>1
<1>7. s[k] \in Node /\ cnt \in [Node -> Nat]  BY <1>3 DEF TypeOK
<1>8. cnt' \in [Node -> Nat] /\ \A w \in Node : cnt'[w] = IF w = s[k] THEN y - u ELSE cnt[w]
  BY <1>6, <1>7
<1>9. TypeOK' /\ Line(s)'  BY <1>1, <1>4, <1>8 DEF TypeOK, Line
<1>10. d[k] = y  BY <1>2, <1>3, <1>5
<1>11. ASSUME NEW i \in k .. Len(s) PROVE d[i] \in Nat /\ d[i] > u /\ d[i] - u \in Nat
  <2>1. k \in 0 .. Len(s) /\ i \in 0 .. Len(s)  BY <1>3
  <2>2. d[k] <= d[i]  BY <1>4, <2>1, Later
  <2>3. PICK b \in Nat : b = d[i]  BY <1>3, <2>1
  <2> QED  BY <1>6, <1>10, <2>2, <2>3
<1>12. PICK e \in [0 .. Len(s) -> Nat] : \A i \in 0 .. Len(s) : e[i] = IF i < k THEN d[i] ELSE d[i] - u
  <2>1. ASSUME NEW i \in 0 .. Len(s) PROVE (IF i < k THEN d[i] ELSE d[i] - u) \in Nat
    <3>1. CASE i < k  BY <1>3, <3>1
    <3>2. CASE ~(i < k)
      <4>1. i \in k .. Len(s)  BY <1>3, <3>2
      <4> QED  BY <1>11, <3>2, <4>1
    <3> QED  BY <3>1, <3>2
  <2>2. [i \in 0 .. Len(s) |-> IF i < k THEN d[i] ELSE d[i] - u] \in [0 .. Len(s) -> Nat]  BY <2>1
  <2> QED  BY <2>2
<1>13. Times(s, e)'
  <2>1. ASSUME NEW i \in 1 .. Len(s) PROVE e[i] = e[i - 1] + cnt'[s[i]]
    <3>1. PICK p \in 0 .. Len(s) : p = i - 1  BY <1>3
    <3>2. i \in 0 .. Len(s) /\ s[i] \in Node  BY <1>3
    <3>3. PICK a \in Nat, c \in Nat : a = d[p] /\ c = cnt[s[i]]  BY <1>3, <3>1
    <3>4. d[i] = a + c  BY <1>3, <3>1, <3>3
    <3>8. i # k => s[i] # s[k]  BY <1>3
    <3>5. CASE i < k
      <4>1. e[i] = a + c /\ e[p] = a  BY <1>12, <3>1, <3>2, <3>3, <3>4, <3>5
      <4>2. cnt'[s[i]] = c  BY <1>8, <3>2, <3>3, <3>5, <3>8
      <4> QED  BY <3>1, <4>1, <4>2
    <3>6. CASE i = k
      <4>1. a = 0 /\ c = y  BY <1>2, <1>5, <3>1, <3>3, <3>6
      <4>2. e[i] = a + c - u /\ e[p] = a  BY <1>12, <3>1, <3>2, <3>3, <3>4, <3>6
      <4>3. cnt'[s[i]] = y - u  BY <1>8, <3>2, <3>6
      <4> QED  BY <3>1, <4>1, <4>2, <4>3
    <3>7. CASE i > k
      <4>1. e[i] = a + c - u /\ e[p] = a - u  BY <1>12, <3>1, <3>2, <3>3, <3>4, <3>7
      <4>2. cnt'[s[i]] = c  BY <1>8, <3>2, <3>3, <3>7, <3>8
      <4>3. a + c - u = a - u + c  OBVIOUS
      <4> QED  BY <3>1, <4>1, <4>2, <4>3
    <3> QED  BY <3>5, <3>6, <3>7
  <2>2. e[0] = 0
    <3>1. 0 \in 0 .. Len(s) /\ 0 < k  BY <1>3
    <3> QED  BY <1>3, <1>12, <3>1
  <2> QED  BY <2>1, <2>2 DEF Times
<1>14. job'.op = "none"  BY <1>1 DEF NoJob
<1>15. Sleeping(s)'  BY <1>1, <1>4, <1>14 DEF Sleeping
<1>16. IInv'  BY <1>1, <1>9, <1>13, <1>15 DEF IInv, Good
<1>17. /\ \A i \in 1 .. Len(s) : Left[s[i]] = IF i < k THEN d[i] ELSE IF d[i] > u THEN d[i] - u ELSE 0
       /\ \A w \in Off(s) : Left[w] = -1
  <2>1. k \in 1 .. Len(s) + 1 /\ job = TickJob(Nth(s, k), u)  BY <1>2, <1>3
  <2> QED  BY <1>4, <2>1, LeftIs DEF Shown
<1>18. /\ \A i \in 1 .. Len(s) : Left'[s[i]] = e[i]
       /\ \A w \in Off(s) : Left'[w] = -1
  BY <1>1, <1>9, <1>13, LeftIsNext DEF Shown
<1>19. ASSUME NEW i \in 1 .. Len(s) PROVE Left'[s[i]] = Left[s[i]] /\ (s[i] \notin Ipc => Left[s[i]] # 0)
  <2>1. i \in 0 .. Len(s)  BY <1>3
  <2>2. CASE i < k
    <3>1. i \in 1 .. k - 1  BY <1>3, <2>2
    <3> QED  BY <1>2, <1>12, <1>17, <1>18, <2>1, <2>2, <3>1
  <2>3. CASE ~(i < k)
    <3>1. d[i] \in Nat /\ d[i] > u  BY <1>3, <1>11, <2>3
    <3>2. PICK b \in Nat : b = d[i] /\ b > u  BY <3>1
    <3> QED  BY <1>12, <1>17, <1>18, <2>1, <2>3, <3>2
  <2> QED  BY <2>2, <2>3
<1>20. \A w \in Node : Left'[w] = Left[w] /\ (w \notin Ipc => Left[w] # 0)
  BY <1>17, <1>18, <1>19, OnOff
<1>21. Left' = Left  BY <1>20, LeftAll
<1> QED  BY <1>1, <1>14, <1>16, <1>20, <1>21 DEF Timer!TickDone

\* Or at the end of the line.
LEMMA TickEndOK ==
    ASSUME TypeOK, NEW s \in Seq(Node), NEW d \in [0 .. Len(s) -> Nat], Good(s, d), TickEnd
    PROVE  IInv' /\ Timer!TickDone
<1>1. job.op = "tick" /\ job.at = Nil /\ job' = NoJob /\ UNCHANGED <<header, next, prev, cnt, inQ, delayed>>
  BY DEF TickEnd
<1>2. PICK k \in 1 .. Len(s) + 1, u \in Nat :
         /\ job = TickJob(Nth(s, k), u) /\ k = Len(s) + 1
         /\ \A i \in 1 .. k - 1 : s[i] \in Ipc
  BY <1>1, TickIs
<1>3. Len(s) \in Nat /\ Line(s) /\ Times(s, d) /\ Sleeping(s)  BY DEF Good
<1>4. TypeOK' /\ Line(s)' /\ Times(s, d)'  BY <1>1, <1>3 DEF TypeOK, Line, Times
<1>5. job'.op = "none"  BY <1>1 DEF NoJob
<1>6. Sleeping(s)'  BY <1>1, <1>3, <1>5 DEF Sleeping
<1>7. IInv'  BY <1>1, <1>4, <1>6 DEF IInv, Good
<1>8. /\ \A i \in 1 .. Len(s) : Left[s[i]] = IF i < k THEN d[i] ELSE IF d[i] > u THEN d[i] - u ELSE 0
      /\ \A w \in Off(s) : Left[w] = -1
  <2>1. job = TickJob(Nth(s, k), u)  BY <1>2
  <2> QED  BY <1>3, <2>1, LeftIs DEF Shown
<1>9. /\ \A i \in 1 .. Len(s) : Left'[s[i]] = d[i]
      /\ \A w \in Off(s) : Left'[w] = -1
  BY <1>1, <1>4, LeftIsNext DEF Shown
<1>10. \A i \in 1 .. Len(s) : i < k /\ s[i] \in Ipc  BY <1>2, <1>3
<1>11. \A w \in Node : Left'[w] = Left[w] /\ (w \notin Ipc => Left[w] # 0)
  BY <1>8, <1>9, <1>10, OnOff
<1>12. Left' = Left  BY <1>11, LeftAll
<1> QED  BY <1>1, <1>5, <1>7, <1>11, <1>12 DEF Timer!TickDone

\* It takes what a node has left; an IPC whose state is locked stays, with none.
LEMMA TickSkipOK ==
    ASSUME TypeOK, NEW s \in Seq(Node), NEW d \in [0 .. Len(s) -> Nat], Good(s, d), TickSkip
    PROVE  IInv' /\ UNCHANGED Timer!vars
<1>1. job.op = "tick" /\ job.at # Nil /\ UNCHANGED <<header, next, prev, inQ, delayed>>
  BY DEF TickSkip, TickAt
<1>2. PICK k \in 1 .. Len(s), u \in Nat :
         /\ job = TickJob(Nth(s, k), u) /\ job.ulCounter = u /\ job.at = s[k]
         /\ d[k - 1] = 0 /\ \A i \in 1 .. k - 1 : s[i] \in Ipc
  BY <1>1, TickIs
<1>3. /\ Len(s) \in Nat /\ d[0] = 0 /\ \A i \in 0 .. Len(s) : d[i] \in Nat
      /\ \A i \in 1 .. Len(s) : s[i] \in Node /\ cnt[s[i]] \in Nat /\ d[i] = d[i - 1] + cnt[s[i]]
      /\ \A i, j \in 1 .. Len(s) : s[i] = s[j] => i = j
  BY GoodIs
<1>4. Line(s) /\ Times(s, d) /\ Sleeping(s)  BY DEF Good
<1>5. PICK y \in Nat : y = cnt[s[k]]  BY <1>3
<1>6. /\ y <= u /\ cnt' = [cnt EXCEPT ![s[k]] = 0] /\ s[k] \in Ipc
      /\ job' = TickJob(Nth(s, k + 1), u - y) /\ u - y \in Nat
  <2>1. y <= u /\ cnt' = [cnt EXCEPT ![s[k]] = 0] /\ s[k] \in Ipc /\ job' = TickJob(next[s[k]], u - y)
    BY <1>2, <1>5 DEF TickSkip, Due, Expired, TickOn
  <2> QED  BY <1>4, <2>1 DEF Line
<1>7. s[k] \in Node /\ cnt \in [Node -> Nat]  BY <1>3 DEF TypeOK
<1>8. cnt' \in [Node -> Nat] /\ \A w \in Node : cnt'[w] = IF w = s[k] THEN 0 ELSE cnt[w]
  BY <1>6, <1>7
<1>9. TypeOK' /\ Line(s)'  BY <1>1, <1>4, <1>8 DEF TypeOK, Line
<1>10. d[k] = y  BY <1>2, <1>3, <1>5
<1>11. ASSUME NEW i \in k .. Len(s) PROVE d[i] \in Nat /\ d[i] - y \in Nat
  <2>1. k \in 0 .. Len(s) /\ i \in 0 .. Len(s)  BY <1>3
  <2>2. d[k] <= d[i]  BY <1>4, <2>1, Later
  <2>3. PICK b \in Nat : b = d[i]  BY <1>3, <2>1
  <2> QED  BY <1>10, <2>2, <2>3
<1>12. PICK e \in [0 .. Len(s) -> Nat] : \A i \in 0 .. Len(s) : e[i] = IF i < k THEN d[i] ELSE d[i] - y
  <2>1. ASSUME NEW i \in 0 .. Len(s) PROVE (IF i < k THEN d[i] ELSE d[i] - y) \in Nat
    <3>1. CASE i < k  BY <1>3, <3>1
    <3>2. CASE ~(i < k)
      <4>1. i \in k .. Len(s)  BY <1>3, <3>2
      <4> QED  BY <1>11, <3>2, <4>1
    <3> QED  BY <3>1, <3>2
  <2>2. [i \in 0 .. Len(s) |-> IF i < k THEN d[i] ELSE d[i] - y] \in [0 .. Len(s) -> Nat]  BY <2>1
  <2> QED  BY <2>2
<1>13. Times(s, e)'
  <2>1. ASSUME NEW i \in 1 .. Len(s) PROVE e[i] = e[i - 1] + cnt'[s[i]]
    <3>1. PICK p \in 0 .. Len(s) : p = i - 1  BY <1>3
    <3>2. i \in 0 .. Len(s) /\ s[i] \in Node  BY <1>3
    <3>3. PICK a \in Nat, c \in Nat : a = d[p] /\ c = cnt[s[i]]  BY <1>3, <3>1
    <3>4. d[i] = a + c  BY <1>3, <3>1, <3>3
    <3>5. i # k => s[i] # s[k]  BY <1>3
    <3>6. CASE i < k
      <4>1. e[i] = a + c /\ e[p] = a  BY <1>12, <3>1, <3>2, <3>3, <3>4, <3>6
      <4>2. cnt'[s[i]] = c  BY <1>8, <3>2, <3>3, <3>5, <3>6
      <4> QED  BY <3>1, <4>1, <4>2
    <3>7. CASE i = k
      <4>1. a = 0 /\ c = y  BY <1>2, <1>5, <3>1, <3>3, <3>7
      <4>2. e[i] = a + c - y /\ e[p] = a  BY <1>12, <3>1, <3>2, <3>3, <3>4, <3>7
      <4>3. cnt'[s[i]] = 0  BY <1>8, <3>2, <3>7
      <4> QED  BY <3>1, <4>1, <4>2, <4>3
    <3>8. CASE i > k
      <4>1. e[i] = a + c - y /\ e[p] = a - y  BY <1>12, <3>1, <3>2, <3>3, <3>4, <3>8
      <4>2. cnt'[s[i]] = c  BY <1>8, <3>2, <3>3, <3>5, <3>8
      <4>3. a + c - y = a - y + c  OBVIOUS
      <4> QED  BY <3>1, <4>1, <4>2, <4>3
    <3> QED  BY <3>6, <3>7, <3>8
  <2>2. e[0] = 0
    <3>1. 0 \in 0 .. Len(s) /\ 0 < k  BY <1>3
    <3> QED  BY <1>3, <1>12, <3>1
  <2> QED  BY <2>1, <2>2 DEF Times
<1>14. job'.op = "tick"  BY <1>6 DEF TickJob
<1>15. Sleeping(s)'  BY <1>1, <1>4, <1>14 DEF Sleeping
<1>16. PICK m \in 1 .. Len(s) + 1 : m = k + 1 /\ m - 1 = k  BY <1>3
<1>17. PICK r \in Nat : r = u - y /\ job' = TickJob(Nth(s, m), r)  BY <1>6, <1>16
<1>18. Ticking(s, e)'
  <2>1. k \in 0 .. Len(s) /\ ~(k < k)  BY <1>3
  <2>2. e[m - 1] = 0  BY <1>10, <1>12, <1>16, <2>1
  <2>3. \A i \in 1 .. m - 1 : s[i] \in Ipc  BY <1>2, <1>6, <1>16
  <2> QED  BY <1>17, <2>2, <2>3 DEF Ticking
<1>19. IInv'  BY <1>9, <1>13, <1>15, <1>18 DEF IInv, Good
<1>20. /\ \A i \in 1 .. Len(s) : Left[s[i]] = IF i < k THEN d[i] ELSE IF d[i] > u THEN d[i] - u ELSE 0
       /\ \A w \in Off(s) : Left[w] = -1
  <2>1. k \in 1 .. Len(s) + 1 /\ job = TickJob(Nth(s, k), u)  BY <1>2, <1>3
  <2> QED  BY <1>4, <2>1, LeftIs DEF Shown
<1>21. /\ \A i \in 1 .. Len(s) : Left'[s[i]] = IF i < m THEN e[i] ELSE IF e[i] > r THEN e[i] - r ELSE 0
       /\ \A w \in Off(s) : Left'[w] = -1
  <2>1. Shown' /\ Line(s)' /\ Times(s, e)'  BY <1>9, <1>13, LeftIsNext
  <2>2. \A j \in 1 .. Len(s) + 1, q \in Nat : job' = TickJob(Nth(s, j), q) =>
           /\ \A i \in 1 .. Len(s) :
                 Left'[s[i]] = IF i < j THEN e[i] ELSE IF e[i] > q THEN e[i] - q ELSE 0
           /\ \A w \in Off(s) : Left'[w] = -1
    BY <2>1 DEF Shown
  <2> QED  BY <1>17, <2>2
<1>22. ASSUME NEW i \in 1 .. Len(s) PROVE Left'[s[i]] = Left[s[i]]
  <2>1. i \in 0 .. Len(s)  BY <1>3
  <2>2. PICK b \in Nat : b = d[i]  BY <1>3, <2>1
  <2>3. CASE i < k
    <3>1. e[i] = d[i] /\ i < m  BY <1>12, <1>16, <2>1, <2>3
    <3>2. Left[s[i]] = d[i]  BY <1>20, <2>3
    <3>3. Left'[s[i]] = e[i]  BY <1>21, <3>1
    <3> QED  BY <3>1, <3>2, <3>3
  <2>4. CASE i = k
    <3>1. e[i] = 0 /\ i < m  BY <1>10, <1>12, <1>16, <2>1, <2>4
    <3>2. ~(i < k) /\ ~(d[i] > u)  BY <1>6, <1>10, <2>4
    <3>3. Left[s[i]] = 0  BY <1>20, <3>2
    <3>4. Left'[s[i]] = e[i]  BY <1>21, <3>1
    <3> QED  BY <3>1, <3>3, <3>4
  <2>5. CASE i > k
    <3>1. e[i] = b - y /\ ~(i < m) /\ ~(i < k)  BY <1>12, <1>16, <2>1, <2>2, <2>5
    <3>2. b - y > u - y <=> b > u  OBVIOUS
    <3>3. b - y - (u - y) = b - u  OBVIOUS
    <3> QED  BY <1>17, <1>20, <1>21, <2>2, <3>1, <3>2, <3>3
  <2> QED  BY <2>3, <2>4, <2>5
<1>25. \A w \in Off(s) : Left'[w] = Left[w]  BY <1>20, <1>21
<1>23. \A w \in Node : Left'[w] = Left[w]  BY <1>22, <1>25, OnOff
<1>24. Left' = Left  BY <1>23, LeftAll
<1> QED  BY <1>1, <1>14, <1>19, <1>24 DEF Timer!vars

\* Any other node goes, and its thread has slept its time.
LEMMA TickExpireOK ==
    ASSUME TypeOK, NEW s \in Seq(Node), NEW d \in [0 .. Len(s) -> Nat], Good(s, d), TickExpire
    PROVE  IInv' /\ \E v \in Node : Timer!Expire(v)
<1>1. job.op = "tick" /\ job.at # Nil
  BY DEF TickExpire, TickAt
<1>2. PICK k \in 1 .. Len(s), u \in Nat :
         /\ job = TickJob(Nth(s, k), u) /\ job.ulCounter = u /\ job.at = s[k]
         /\ d[k - 1] = 0 /\ \A i \in 1 .. k - 1 : s[i] \in Ipc
  BY <1>1, TickIs
<1>3. /\ Len(s) \in Nat /\ d[0] = 0 /\ \A i \in 0 .. Len(s) : d[i] \in Nat
      /\ \A i \in 1 .. Len(s) : s[i] \in Node /\ cnt[s[i]] \in Nat /\ d[i] = d[i - 1] + cnt[s[i]]
      /\ \A i, j \in 1 .. Len(s) : s[i] = s[j] => i = j
  BY GoodIs
<1>4. Line(s) /\ Times(s, d) /\ Sleeping(s)  BY DEF Good
<1>5. PICK y \in Nat : y = cnt[s[k]]  BY <1>3
<1>6. /\ y <= u /\ Unlink(s[k]) /\ cnt' = Without([cnt EXCEPT ![s[k]] = 0], s[k])
      /\ delayed' = IF s[k] \in Ipc THEN delayed ELSE delayed \ {s[k]}
      /\ job' = TickJob(Nth(s, k + 1), u - y) /\ u - y \in Nat
  <2>1. /\ y <= u /\ Unlink(s[k]) /\ cnt' = Without([cnt EXCEPT ![s[k]] = 0], s[k])
        /\ delayed' = IF s[k] \in Ipc THEN delayed ELSE delayed \ {s[k]}
        /\ job' = TickJob(next[s[k]], u - y)
    BY <1>2, <1>5 DEF TickExpire, Due, Expired, TickOn
  <2> QED  BY <1>4, <2>1 DEF Line
<1>7. PICK t \in Seq(Node) : \E e \in [0 .. Len(t) -> Nat] : CutTo(s, d, k, 0, t, e)
  <2>1. 0 \in Nat /\ 0 <= cnt[s[k]] /\ delayed' \subseteq Node  BY <1>5, <1>6 DEF TypeOK
  <2> QED  BY <1>6, <2>1, CutOK
<1>8. PICK e \in [0 .. Len(t) -> Nat] : CutTo(s, d, k, 0, t, e)  BY <1>7
<1>9. /\ Len(t) = Len(s) - 1 /\ On(t) = On(s) \ {s[k]}
      /\ \A i \in 1 .. Len(t) : t[i] = IF i < k THEN s[i] ELSE s[i + 1]
      /\ \A i \in 0 .. Len(t) : e[i] = IF i < k THEN d[i] ELSE d[i + 1] - y
      /\ TypeOK' /\ Line(t)' /\ Times(t, e)'
  <2>1. cnt[s[k]] - 0 = y  BY <1>5
  <2> QED  BY <1>8, <2>1 DEF CutTo
<1>10. job'.op = "tick"  BY <1>6 DEF TickJob
<1>11. Sleeping(t)'  BY <1>1, <1>4, <1>6, <1>9, <1>10 DEF Sleeping
<1>12. k \in 1 .. Len(t) + 1  BY <1>3, <1>9
<1>13. PICK r \in Nat : r = u - y /\ job' = TickJob(Nth(t, k), r)
  <2>1. Nth(t, k) = Nth(s, k + 1)
    <3>1. CASE k = Len(s)  BY <1>3, <1>9, <3>1 DEF Nth
    <3>2. CASE k # Len(s)
      <4>1. k \in 1 .. Len(t) /\ k + 1 \in 1 .. Len(s) /\ ~(k < k)  BY <1>3, <1>9, <3>2
      <4> QED  BY <1>9, <4>1 DEF Nth
    <3> QED  BY <3>1, <3>2
  <2> QED  BY <1>6, <2>1
<1>14. Ticking(t, e)'
  <2>1. k - 1 \in 0 .. Len(t) /\ k - 1 < k  BY <1>3, <1>9
  <2>2. e[k - 1] = 0  BY <1>2, <1>9, <2>1
  <2>3. ASSUME NEW i \in 1 .. k - 1 PROVE t[i] \in Ipc
    <3>1. i < k /\ i \in 1 .. Len(t)  BY <1>3, <1>9
    <3> QED  BY <1>2, <1>9, <3>1
  <2> QED  BY <1>12, <1>13, <2>2, <2>3 DEF Ticking
<1>15. IInv'  BY <1>9, <1>11, <1>14 DEF IInv, Good
<1>16. /\ \A i \in 1 .. Len(s) : Left[s[i]] = IF i < k THEN d[i] ELSE IF d[i] > u THEN d[i] - u ELSE 0
       /\ \A w \in Off(s) : Left[w] = -1
  <2>1. k \in 1 .. Len(s) + 1 /\ job = TickJob(Nth(s, k), u)  BY <1>2, <1>3
  <2> QED  BY <1>4, <2>1, LeftIs DEF Shown
<1>17. /\ \A i \in 1 .. Len(t) : Left'[t[i]] = IF i < k THEN e[i] ELSE IF e[i] > r THEN e[i] - r ELSE 0
       /\ \A w \in Off(t) : Left'[w] = -1
  <2>1. Shown' /\ Line(t)' /\ Times(t, e)'  BY <1>9, LeftIsNext
  <2>2. job' = TickJob(Nth(t, k), r)  BY <1>13
  <2>3. \A j \in 1 .. Len(t) + 1, q \in Nat : job' = TickJob(Nth(t, j), q) =>
           /\ \A i \in 1 .. Len(t) :
                 Left'[t[i]] = IF i < j THEN e[i] ELSE IF e[i] > q THEN e[i] - q ELSE 0
           /\ \A w \in Off(t) : Left'[w] = -1
    BY <2>1 DEF Shown
  <2> QED  BY <1>12, <2>2, <2>3
<1>18. ASSUME NEW i \in 1 .. Len(s), i # k PROVE Left'[s[i]] = Left[s[i]]
  <2>1. PICK j \in 1 .. Len(t) : j = IF i < k THEN i ELSE i - 1  BY <1>3, <1>9, <1>18
  <2>2. t[j] = s[i]
    <3>1. CASE i < k  BY <1>9, <2>1, <3>1
    <3>2. CASE ~(i < k)
      <4>1. ~(j < k) /\ j + 1 = i  BY <1>3, <1>18, <2>1, <3>2
      <4> QED  BY <1>9, <4>1
    <3> QED  BY <3>1, <3>2
  <2>3. j \in 0 .. Len(t) /\ (i < k <=> j < k) /\ (~(i < k) => j + 1 = i)  BY <1>3, <1>18, <2>1
  <2>4. CASE i < k
    <3>1. e[j] = d[i]  BY <1>9, <2>1, <2>3, <2>4
    <3> QED  BY <1>16, <1>17, <2>2, <2>3, <2>4, <3>1
  <2>5. CASE ~(i < k)
    <3>1. i \in 0 .. Len(s)  BY <1>3
    <3>2. PICK b \in Nat : b = d[i]  BY <1>3, <3>1
    <3>3. e[j] = b - y  BY <1>9, <2>3, <2>5, <3>2
    <3>4. b - y > u - y <=> b > u  OBVIOUS
    <3>5. b - y - (u - y) = b - u  OBVIOUS
    <3>6. Left'[t[j]] = IF e[j] > r THEN e[j] - r ELSE 0  BY <1>17, <2>3, <2>5
    <3>7. Left[s[i]] = IF b > u THEN b - u ELSE 0  BY <1>16, <2>5, <3>2
    <3> QED  BY <1>13, <2>2, <3>3, <3>4, <3>5, <3>6, <3>7
  <2> QED  BY <2>4, <2>5
<1>19. Left'[s[k]] = -1 /\ Left[s[k]] = 0
  <2>1. s[k] \in Off(t)  BY <1>3, <1>9 DEF Off
  <2>2. d[k] = y  BY <1>2, <1>3, <1>5
  <2>3. ~(d[k] > u)  BY <1>6, <2>2
  <2> QED  BY <1>16, <1>17, <2>1, <2>3
<1>20. \A w \in Off(s) : w \in Off(t)  BY <1>9 DEF Off
<1>21. ASSUME NEW w \in Node PROVE Left'[w] = IF w = s[k] THEN -1 ELSE Left[w]
  <2>1. CASE w \in Off(s)
    <3>1. w # s[k]  BY <2>1 DEF Off, On
    <3> QED  BY <1>16, <1>17, <1>20, <2>1, <3>1
  <2>2. CASE w \notin Off(s)
    <3>1. PICK i \in 1 .. Len(s) : w = s[i]  BY <2>2, OnOff
    <3>2. w = s[k] <=> i = k  BY <1>3, <3>1
    <3> QED  BY <1>18, <1>19, <3>1, <3>2
  <2> QED  BY <2>1, <2>2
<1>22. Left' = [Left EXCEPT ![s[k]] = -1]  BY <1>21, LeftAll
<1>23. s[k] \in Node  BY <1>3
<1>24. Timer!Expire(s[k])  BY <1>1, <1>10, <1>19, <1>22 DEF Timer!Expire
<1> QED  BY <1>15, <1>23, <1>24
-----------------------------------------------------------------------------
(* All of it together.                                                       *)

\* The empty line is where it starts.
LEMMA InitOK == Init => IInv /\ Timer!Init
<1> SUFFICES ASSUME Init PROVE IInv /\ Timer!Init
  OBVIOUS
<1>1. TypeOK  BY DEF Init, TypeOK
<1>2. PICK s \in Seq(Node) : s = << >>
  <2>1. << >> \in Seq(Node)  OBVIOUS
  <2> QED  BY <2>1
<1>3. Len(s) = 0 /\ On(s) = {} /\ Off(s) = Node  BY <1>2 DEF On, Off
<1>4. PICK d \in [0 .. Len(s) -> Nat] : d[0] = 0
  <2>1. [i \in 0 .. Len(s) |-> 0] \in [0 .. Len(s) -> Nat] /\ 0 \in 0 .. Len(s)  BY <1>3
  <2> QED  BY <2>1
<1>5. Line(s) /\ Times(s, d)  BY <1>3, <1>4 DEF Init, Line, Times, Nth
<1>6. job = NoJob /\ job.op = "none"  BY DEF Init, NoJob
<1>7. Sleeping(s)  BY <1>3 DEF Init, Sleeping
<1>8. IInv  BY <1>1, <1>5, <1>6, <1>7 DEF IInv, Good
<1>9. \A v \in Node : Left[v] = -1  BY <1>1, <1>3, <1>5, <1>6, LeftIs DEF Shown
<1>10. Left = [v \in Node |-> -1]  BY <1>9, LeftAll
<1> QED  BY <1>6, <1>8, <1>10 DEF Timer!Init

\* Every step keeps the line, and is a step of Timers or none.
LEMMA StepOK == IInv /\ [Next]_vars => IInv' /\ [Timer!Next]_(Timer!vars)
<1> SUFFICES ASSUME IInv, [Next]_vars PROVE IInv' /\ [Timer!Next]_(Timer!vars)
  OBVIOUS
<1>1. TypeOK  BY DEF IInv
<1>0. PICK s \in Seq(Node) : \E d \in [0 .. Len(s) -> Nat] : Good(s, d)  BY DEF IInv
<1>2. PICK d \in [0 .. Len(s) -> Nat] : Good(s, d)  BY <1>0
<1>3. CASE AddPass  BY <1>1, <1>2, <1>3, AddPassOK
<1>4. CASE AddHere \/ AddLast  BY <1>1, <1>2, <1>4, AddDoneOK
<1>5. CASE TickBreak  BY <1>1, <1>2, <1>5, TickBreakOK DEF Timer!Next
<1>6. CASE TickExpire  BY <1>1, <1>2, <1>6, TickExpireOK DEF Timer!Next
<1>7. CASE TickSkip  BY <1>1, <1>2, <1>7, TickSkipOK
<1>8. CASE TickEnd  BY <1>1, <1>2, <1>8, TickEndOK DEF Timer!Next
<1>9. CASE TickBegin  BY <1>1, <1>2, <1>9, TickBeginOK DEF Timer!Next
<1>10. ASSUME NEW v \in Node, Wakeup(v) PROVE IInv' /\ [Timer!Next]_(Timer!vars)
  BY <1>1, <1>2, <1>10, WakeupOK DEF Timer!Next
<1>11. ASSUME NEW v \in Node, NEW x \in Delay, AddBegin(v, x) PROVE IInv' /\ [Timer!Next]_(Timer!vars)
  BY <1>1, <1>2, <1>11, AddBeginOK DEF Timer!Next
<1>12. CASE UNCHANGED vars
  <2>3. TypeOK'  BY <1>1, <1>12 DEF vars, TypeOK
  <2>4. Line(s)' /\ Times(s, d)' /\ Sleeping(s)'
    BY <1>2, <1>12 DEF vars, Good, Line, Times, Sleeping
  <2>5. (job = NoJob \/ Adding(s) \/ Ticking(s, d))'
    BY <1>2, <1>12 DEF vars, Good, Adding, Ticking
  <2>1. IInv'  BY <2>3, <2>4, <2>5 DEF IInv, Good
  <2>2. UNCHANGED Timer!vars
    BY <1>12 DEF vars, Timer!vars, Left, Sum, Walk, PlaceOf, Linked
  <2> QED  BY <2>1, <2>2
<1> QED  BY <1>3, <1>4, <1>5, <1>6, <1>7, <1>8, <1>9, <1>10, <1>11, <1>12 DEF Next, InCall

\* The line is what the walk from the header finds, and the tests agree with it.
LEMMA LineHolds == IInv => LineOK
<1> SUFFICES ASSUME IInv PROVE LineOK
  OBVIOUS
<1>1. TypeOK  BY DEF IInv
<1>0. PICK s \in Seq(Node) : \E d \in [0 .. Len(s) -> Nat] : Good(s, d)  BY DEF IInv
<1>2. PICK d \in [0 .. Len(s) -> Nat] : Good(s, d)  BY <1>0
<1>3. Len(s) \in Nat /\ Line(s) /\ Sleeping(s)  BY <1>2 DEF Good
<1>4. /\ Linked = On(s) /\ Walk[Cardinality(Node)] = Nil
      /\ \A i \in 1 .. Len(s) : PlaceOf(s[i]) = i - 1
  BY <1>1, <1>3, PlaceIs
<1>5. ASSUME NEW v \in Linked PROVE prev[v] = IF v = header THEN Nil ELSE Walk[PlaceOf(v) - 1]
  <2>1. PICK i \in 1 .. Len(s) : v = s[i]  BY <1>4 DEF On
  <2>2. prev[v] = Nth(s, i - 1) /\ PlaceOf(v) = i - 1  BY <1>3, <1>4, <2>1 DEF Line
  <2>3. 1 \in 1 .. Len(s) /\ header = s[1]  BY <1>3, <2>1 DEF Line, Nth
  <2>4. v = header <=> i = 1  BY <1>3, <2>1, <2>3 DEF Line
  <2>5. CASE i = 1  BY <2>2, <2>4, <2>5 DEF Nth
  <2>6. CASE i # 1
    <3>1. Len(s) <= Cardinality(Node) /\ Cardinality(Node) \in Nat  BY <1>3, Short DEF Line
    <3>2. PICK j \in Place : j = i - 1 - 1 /\ j + 1 = i - 1  BY <1>3, <2>6, <3>1 DEF Place
    <3>3. Walk[j] = Nth(s, j + 1)  BY <1>1, <1>3, WalkIs
    <3> QED  BY <2>2, <2>4, <2>6, <3>2, <3>3
  <2> QED  BY <2>5, <2>6
<1>6. ASSUME NEW v \in Node PROVE (v \in Linked <=> IsIn(v)) /\ (v \in Linked <=> inQ[v])
  <2>1. v \in Linked <=> IsIn(v)  BY <1>1, <1>3, <1>4, IsInIs
  <2>2. v \in Linked <=> inQ[v]  BY <1>3, <1>4 DEF Line, On
  <2> QED  BY <2>1, <2>2
<1>7. job.op # "add" => Linked \subseteq delayed /\ delayed \ Ipc \subseteq Linked
  BY <1>3, <1>4 DEF Sleeping
<1> QED  BY <1>1, <1>4, <1>5, <1>6, <1>7 DEF LineOK

\* The line is sound whatever is inserted and deleted, and a thread is delayed
\* just when it is on it (LineOK).
THEOREM LineSound == Spec => []LineOK
<1>1. Init => IInv  BY InitOK
<1>2. IInv /\ [Next]_vars => IInv'  BY StepOK
<1>3. IInv => LineOK  BY LineHolds
<1> QED  BY <1>1, <1>2, <1>3, PTL DEF Spec

\* The counters of the line, each what its node waits longer than the one before
\* it, keep for every thread the ticks it asked for: WakeupList implements Timers.
THEOREM ImplementsTimers == Spec => KeepsTime
<1>1. Init => IInv /\ Timer!Init  BY InitOK
<1>2. IInv /\ [Next]_vars => IInv' /\ [Timer!Next]_(Timer!vars)  BY StepOK
<1> QED  BY <1>1, <1>2, PTL DEF Spec, KeepsTime, Timer!Spec
=============================================================================
