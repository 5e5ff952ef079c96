-------------------------- MODULE MatrixSchedProofs --------------------------
(****************************************************************************)
(* The scheduler for any number of processors and threads, any priorities    *)
(* and bindings, as long as no thread wakes one that is not suspended: what  *)
(* the operations on its tables preserve, its invariants, and that it        *)
(* implements Dispatcher.                                                    *)
(****************************************************************************)
EXTENDS MatrixSched, WellFoundedInduction, TLAPS

-----------------------------------------------------------------------------
(* What the operations on circular lists preserve.                           *)

\* was not there (_List_Ring_Add_Ahead).
LEMMA AddAheadFacts ==
  ASSUME NEW S, NEW s \in Seq(S), NEW v \in S
  PROVE  /\ AddAhead(s, v) \in Seq(S)
         /\ Members(AddAhead(s, v)) = Members(s) \cup {v}
         /\ Distinct(s) /\ v \notin Members(s) => Distinct(AddAhead(s, v))
<1> DEFINE t == AddAhead(s, v)
<1>1. /\ t \in Seq(S) /\ Len(t) = Len(s) + 1
      /\ \A i \in 1 .. Len(t) : t[i] = IF i = 1 THEN v ELSE s[i - 1]
  BY DEF AddAhead
<1>2. ASSUME NEW x \in Members(t) PROVE x \in Members(s) \cup {v}
  BY <1>1 DEF Members
<1>3. ASSUME NEW x \in Members(s) PROVE x \in Members(t)
  <2>1. PICK i \in 1 .. Len(s) : x = s[i]
    BY DEF Members
  <2>2. i + 1 \in DOMAIN t /\ t[i + 1] = x
    BY <1>1, <2>1
  <2> QED BY <2>2 DEF Members
<1>4. v \in Members(t)
  <2>1. 1 \in DOMAIN t /\ t[1] = v BY <1>1
  <2> QED BY <2>1 DEF Members
<1>5. ASSUME Distinct(s), v \notin Members(s) PROVE Distinct(t)
  <2> SUFFICES ASSUME NEW i \in 1 .. Len(t), NEW j \in 1 .. Len(t), t[i] = t[j]
               PROVE  i = j
    BY <1>1 DEF Distinct
  <2>1. \A k \in 1 .. Len(s) : s[k] # v
    BY <1>5 DEF Members
  <2>2. CASE i = 1 \/ j = 1
    BY <1>1, <2>1, <2>2
  <2>3. CASE i # 1 /\ j # 1
    <3>1. i - 1 \in DOMAIN s /\ j - 1 \in DOMAIN s /\ s[i - 1] = s[j - 1]
      BY <1>1, <2>3
    <3> QED BY <3>1, <1>5 DEF Distinct
  <2> QED BY <2>2, <2>3
<1> QED BY <1>1, <1>2, <1>3, <1>4, <1>5

\* Removing the header of a ring without doubles removes just that node.
LEMMA TailFacts ==
  ASSUME NEW S, NEW s \in Seq(S), s # <<>>
  PROVE  /\ Head(s) = s[1] /\ s[1] \in Members(s) /\ s[1] \in S /\ Tail(s) \in Seq(S)
         /\ Distinct(s) => /\ Distinct(Tail(s))
                           /\ Members(Tail(s)) = Members(s) \ {s[1]}
<1> DEFINE t == Tail(s)
<1>1. /\ t \in Seq(S) /\ Len(t) = Len(s) - 1 /\ 1 \in DOMAIN s
      /\ \A i \in 1 .. Len(t) : t[i] = s[i + 1]
      /\ Head(s) = s[1] /\ s[1] \in S
  OBVIOUS
<1>2. s[1] \in Members(s)
  BY <1>1 DEF Members
<1>3. ASSUME Distinct(s) PROVE Distinct(t)
  <2> SUFFICES ASSUME NEW i \in 1 .. Len(t), NEW j \in 1 .. Len(t), t[i] = t[j]
               PROVE  i = j
    BY <1>1 DEF Distinct
  <2>1. i + 1 \in DOMAIN s /\ j + 1 \in DOMAIN s /\ s[i + 1] = s[j + 1]
    BY <1>1
  <2> QED BY <1>3, <2>1 DEF Distinct
<1>4. ASSUME Distinct(s) PROVE Members(t) = Members(s) \ {s[1]}
  <2>1. ASSUME NEW x \in Members(t) PROVE x \in Members(s) \ {s[1]}
    <3>1. PICK i \in 1 .. Len(t) : x = t[i]
      BY DEF Members
    <3>2. i + 1 \in DOMAIN s /\ x = s[i + 1] /\ i + 1 # 1
      BY <1>1, <3>1
    <3> QED BY <1>1, <1>4, <3>2 DEF Members, Distinct
  <2>2. ASSUME NEW x \in Members(s) \ {s[1]} PROVE x \in Members(t)
    <3>1. PICK i \in 1 .. Len(s) : x = s[i] /\ i # 1
      BY DEF Members
    <3>2. i - 1 \in DOMAIN t /\ t[i - 1] = x
      BY <1>1, <3>1
    <3> QED BY <3>2 DEF Members
  <2> QED BY <2>1, <2>2
<1> QED BY <1>1, <1>2, <1>3, <1>4

\* Moving the header on keeps the members (_list_ring_next).
LEMMA RotatedFacts ==
  ASSUME NEW S, NEW s \in Seq(S), s # <<>>
  PROVE  /\ Rotated(s) \in Seq(S) /\ Rotated(s) # <<>>
         /\ Members(Rotated(s)) = Members(s)
         /\ Distinct(s) => Distinct(Rotated(s))
<1> DEFINE t == Rotated(s)
<1>1. /\ t \in Seq(S) /\ Len(t) = Len(s) /\ Len(s) > 0
      /\ \A i \in 1 .. Len(t) : t[i] = IF i = Len(s) THEN s[1] ELSE s[i + 1]
  BY DEF Rotated
<1>2. ASSUME NEW x \in Members(t) PROVE x \in Members(s)
  <2>1. PICK i \in 1 .. Len(t) : x = t[i]
    BY <1>1 DEF Members
  <2>2. x = s[IF i = Len(s) THEN 1 ELSE i + 1] /\ (IF i = Len(s) THEN 1 ELSE i + 1) \in DOMAIN s
    BY <1>1, <2>1
  <2> QED BY <2>2 DEF Members
<1>3. ASSUME NEW x \in Members(s) PROVE x \in Members(t)
  <2>1. PICK i \in 1 .. Len(s) : x = s[i]
    BY DEF Members
  <2>2. x = t[IF i = 1 THEN Len(s) ELSE i - 1] /\ (IF i = 1 THEN Len(s) ELSE i - 1) \in DOMAIN t
    BY <1>1, <2>1
  <2> QED BY <2>2 DEF Members
<1>4. ASSUME Distinct(s) PROVE Distinct(t)
  <2> SUFFICES ASSUME NEW i \in 1 .. Len(t), NEW j \in 1 .. Len(t), t[i] = t[j]
               PROVE  i = j
    BY <1>1 DEF Distinct
  <2> DEFINE f(k) == IF k = Len(s) THEN 1 ELSE k + 1
  <2>1. f(i) \in DOMAIN s /\ f(j) \in DOMAIN s /\ s[f(i)] = s[f(j)]
    BY <1>1
  <2>2. f(i) = f(j)
    BY <1>4, <2>1 DEF Distinct
  <2> QED BY <2>2, <1>1
<1>5. t # <<>> BY <1>1
<1> QED BY <1>1, <1>2, <1>3, <1>4, <1>5

-----------------------------------------------------------------------------
(* What the operations on the ready tables and the candidate table of        *)
(* MatrixSched preserve.                                                     *)

\* The bitmap search returns the smallest priority that is set (_bitmapGet).
LEMMA HighestIn ==
  ASSUME NEW P, P \subseteq Nat, P # {}
  PROVE  Highest(P) \in P /\ \A q \in P : Highest(P) <= q
<1> DEFINE R == {ss \in Nat \X Nat : ss[1] < ss[2]}
<1>0. IsWellFoundedOn(R, Nat)
  BY NatLessThanWellFounded DEF OpToRel
<1> HIDE DEF R
<1>1. PICK x \in P : \A y \in P : ~ (<<y, x>> \in R)
  BY <1>0, WFMin
<1>2. \A y \in P : ~(y < x)
  BY <1>1 DEF R
<1>3. \A y \in P : x <= y
  BY <1>2
<1> QED BY <1>3 DEF Highest

RingType == [Table \X PRIO -> Seq(VCPU)]
CandType == [CPU -> VCPU \cup {NoVcpu}]
FlagType == [VCPU -> SUBSET Flag]
RunType  == [VCPU -> CPU]

\* The key of a thread is a ring.
LEMMA KeyType == \A v \in VCPU : Key(v) \in Table \X PRIO
BY PrioAssumption, AffinityAssumption DEF Key

\* When one of its two tables is not empty, a processor finds a ring that is
\* not empty in one of them (_ReadyTableGet).
LEMMA BestKeyFacts ==
  ASSUME ring \in RingType, NEW c \in CPU, HasReady(c)
  PROVE  /\ BestKey(c) \in Table \X PRIO
         /\ BestKey(c)[1] \in {c, NCpu}
         /\ ring[BestKey(c)] # <<>>
<1> DEFINE local  == Bitmap(ring, c)
           global == Bitmap(ring, Global)
<1>1. local \subseteq PRIO /\ global \subseteq PRIO /\ PRIO \subseteq Nat
  BY PrioAssumption DEF Bitmap, PRIO
<1>2. local # {} => Highest(local) \in local
  BY <1>1, HighestIn
<1>3. global # {} => Highest(global) \in global
  BY <1>1, HighestIn
<1>4. c \in Table /\ Global \in Table
  BY CpuAssumption DEF CPU, Table, Global
<1>5. \A p \in local : ring[<<c, p>>] # <<>> /\ p \in PRIO
  BY DEF Bitmap
<1>6. \A p \in global : ring[<<Global, p>>] # <<>> /\ p \in PRIO
  BY DEF Bitmap
<1>7. \/ BestKey(c) = <<c, Highest(local)>> /\ local # {}
      \/ BestKey(c) = <<Global, Highest(global)>> /\ global # {}
  BY DEF BestKey, HasReady
<1> HIDE DEF local, global
<1>8. CASE BestKey(c) = <<c, Highest(local)>> /\ local # {}
  BY <1>2, <1>4, <1>5, <1>8
<1>9. CASE BestKey(c) = <<Global, Highest(global)>> /\ global # {}
  BY <1>3, <1>4, <1>6, <1>9 DEF Global
<1> QED BY <1>7, <1>8, <1>9

\* A thread that is ready and nobody's candidate may enter its ring
\* (_ReadyTableAdd).
LEMMA AddTables ==
  ASSUME NEW r \in RingType, NEW cd \in CandType, NEW st \in FlagType, NEW run,
         NEW v \in VCPU, NEW old \in FlagType,
         TablesOK(r, cd, old, run),
         old[v] # {} \/ v \notin Members(r[Key(v)]), \A c \in CPU : cd[c] # v,
         st[v] = {}, \A w \in VCPU \ {v} : st[w] = old[w]
  PROVE  AddReady(r, v) \in RingType /\ TablesOK(AddReady(r, v), cd, st, run)
<1> DEFINE r2 == AddReady(r, v)
           K  == Key(v)
<1>1. K \in Table \X PRIO
  BY KeyType
<1>2. v \notin Members(r[K])
  BY <1>1 DEF TablesOK
<1>3. /\ r2 \in RingType
      /\ \A k \in Table \X PRIO : k # K => r2[k] = r[k]
      /\ Members(r2[K]) = Members(r[K]) \cup {v}
      /\ Distinct(r2[K])
  <2>1. r[K] \in Seq(VCPU) /\ Distinct(r[K])
    BY <1>1 DEF TablesOK, RingType
  <2>2. /\ AddAhead(r[K], v) \in Seq(VCPU)
        /\ Members(AddAhead(r[K], v)) = Members(r[K]) \cup {v}
        /\ Distinct(AddAhead(r[K], v))
    BY <1>2, <2>1, AddAheadFacts
  <2>3. r2 = [r EXCEPT ![K] = AddAhead(r[K], v)]
    BY DEF AddReady
  <2> HIDE DEF r2, K
  <2> QED BY <1>1, <2>2, <2>3 DEF RingType
<1>4. \A k \in Table \X PRIO : \A w \in Members(r[k]) : w \in VCPU
  BY DEF Members, RingType
<1> HIDE DEF r2
<1>5. ASSUME NEW k \in Table \X PRIO
      PROVE  /\ Distinct(r2[k])
             /\ \A w \in Members(r2[k]) :
                   Key(w) = k /\ st[w] = {} /\ \A c \in CPU : cd[c] # w
  <2>1. CASE k = K
    BY <1>1, <1>2, <1>3, <1>4, <2>1 DEF TablesOK
  <2>2. CASE k # K
    <3>1. v \notin Members(r[k])
      BY <2>2 DEF TablesOK
    <3> QED BY <1>3, <1>4, <2>2, <3>1 DEF TablesOK
  <2> QED BY <2>1, <2>2
<1>6. ASSUME NEW w \in VCPU, st[w] = {}
      PROVE  w \in Members(r2[Key(w)]) \/ \E c \in CPU : cd[c] = w
  <2>1. CASE w = v
    BY <1>3, <2>1
  <2>2. CASE w # v
    <3>1. w \in Members(r[Key(w)]) \/ \E c \in CPU : cd[c] = w
      BY <1>6, <2>2 DEF TablesOK
    <3> QED BY <1>3, <3>1, KeyType
  <2> QED BY <2>1, <2>2
<1>7. \A c \in CPU : cd[c] # NoVcpu => /\ st[cd[c]] = {} /\ run[cd[c]] = c
                                      /\ Affinity[cd[c]] \in {c, NCpu}
  BY DEF TablesOK, CandType
<1> QED BY <1>3, <1>5, <1>6, <1>7 DEF TablesOK, r2

\* A processor without a candidate may take the header of one of its rings,
\* the ring rotated or not (_CandTableFill).
LEMMA FillTables ==
  ASSUME NEW r \in RingType, NEW cd \in CandType, NEW st \in FlagType,
         NEW run \in RunType, TablesOK(r, cd, st, run),
         NEW c \in CPU, cd[c] = NoVcpu,
         NEW k \in Table \X PRIO, k[1] \in {c, NCpu},
         NEW s \in Seq(VCPU), s # <<>>, Members(s) = Members(r[k]), Distinct(s)
  PROVE  /\ [r EXCEPT ![k] = Tail(s)] \in RingType
         /\ s[1] \in VCPU
         /\ TablesOK([r EXCEPT ![k] = Tail(s)], [cd EXCEPT ![c] = s[1]],
                     st, [run EXCEPT ![s[1]] = c])
<1> DEFINE x    == s[1]
           r2   == [r EXCEPT ![k] = Tail(s)]
           cd2  == [cd EXCEPT ![c] = x]
           run2 == [run EXCEPT ![x] = c]
<1>1. /\ x \in VCPU /\ x \in Members(r[k])
      /\ Tail(s) \in Seq(VCPU) /\ Distinct(Tail(s))
      /\ Members(Tail(s)) = Members(r[k]) \ {x}
  BY TailFacts
<1>2. /\ r2 \in RingType
      /\ r2[k] = Tail(s)
      /\ \A j \in Table \X PRIO : j # k => r2[j] = r[j]
  BY <1>1 DEF RingType
<1>3. /\ cd2[c] = x
      /\ \A d \in CPU : d # c => cd2[d] = cd[d]
  BY <1>1 DEF CandType
<1>4. /\ run2[x] = c
      /\ \A w \in VCPU : w # x => run2[w] = run[w]
  BY <1>1 DEF RunType
<1>5. Key(x) = k /\ st[x] = {} /\ \A d \in CPU : cd[d] # x
  BY <1>1 DEF TablesOK
<1> HIDE DEF x, r2, cd2, run2
<1>6. ASSUME NEW j \in Table \X PRIO
      PROVE  /\ Distinct(r2[j])
             /\ \A w \in Members(r2[j]) :
                   Key(w) = j /\ st[w] = {} /\ \A d \in CPU : cd2[d] # w
  <2>1. Distinct(r2[j])
    BY <1>1, <1>2 DEF TablesOK
  <2>2. ASSUME NEW w \in Members(r2[j]) PROVE w \in Members(r[j]) /\ w # x
    <3>1. CASE j = k
      BY <1>1, <1>2, <2>2, <3>1
    <3>2. CASE j # k
      BY <1>2, <1>5, <2>2, <3>2 DEF TablesOK
    <3> QED BY <3>1, <3>2
  <2> QED BY <1>3, <2>1, <2>2 DEF TablesOK
<1>7. ASSUME NEW w \in VCPU, st[w] = {}
      PROVE  w \in Members(r2[Key(w)]) \/ \E d \in CPU : cd2[d] = w
  <2>1. CASE w = x
    BY <1>3, <2>1
  <2>2. CASE w # x
    <3>1. CASE \E d \in CPU : cd[d] = w
      <4>1. PICK d \in CPU : cd[d] = w
        BY <3>1
      <4>2. d # c
        BY <4>1, VcpuAssumption
      <4> QED BY <1>3, <4>1, <4>2
    <3>2. CASE w \in Members(r[Key(w)])
      BY <1>1, <1>2, <2>2, <3>2, KeyType
    <3> QED BY <1>7, <3>1, <3>2 DEF TablesOK
  <2> QED BY <2>1, <2>2
<1>8. ASSUME NEW d \in CPU, cd2[d] # NoVcpu
      PROVE  st[cd2[d]] = {} /\ run2[cd2[d]] = d /\ Affinity[cd2[d]] \in {d, NCpu}
  <2>1. CASE d = c
    <3>1. Affinity[x] \in {c, NCpu}
      BY <1>5 DEF Key
    <3> QED BY <1>3, <1>4, <1>5, <2>1, <3>1
  <2>2. CASE d # c
    <3>1. cd2[d] = cd[d] /\ cd[d] # x /\ cd[d] \in VCPU
      BY <1>3, <1>5, <1>8, <2>2 DEF CandType
    <3> QED BY <1>4, <1>8, <3>1 DEF TablesOK
  <2> QED BY <2>1, <2>2
<1> QED BY <1>1, <1>2, <1>6, <1>7, <1>8 DEF TablesOK, x, r2, cd2, run2

\* Changing the flags of a thread that is blocked before and after leaves the
\* tables alone.
LEMMA FlagTables ==
  ASSUME NEW r \in RingType, NEW cd \in CandType, NEW st \in FlagType, NEW run,
         NEW v \in VCPU, NEW old \in FlagType,
         TablesOK(r, cd, old, run), old[v] # {}, st[v] # {},
         \A w \in VCPU \ {v} : st[w] = old[w]
  PROVE  TablesOK(r, cd, st, run)
<1>1. \A w \in VCPU : st[w] = {} <=> old[w] = {}
  OBVIOUS
<1>2. \A k \in Table \X PRIO : \A w \in Members(r[k]) : w \in VCPU
  BY DEF Members, RingType
<1> QED BY <1>1, <1>2 DEF TablesOK, CandType

\* A candidate that blocks leaves the tables when its processor is vacated
\* (_CandTableClear).
LEMMA BlockTables ==
  ASSUME NEW r \in RingType, NEW cd \in CandType, NEW st \in FlagType,
         NEW run \in RunType, NEW old \in FlagType,
         TablesOK(r, cd, old, run),
         NEW c \in CPU, cd[c] # NoVcpu, st[cd[c]] # {},
         \A w \in VCPU \ {cd[c]} : st[w] = old[w]
  PROVE  /\ [cd EXCEPT ![c] = NoVcpu] \in CandType
         /\ TablesOK(r, [cd EXCEPT ![c] = NoVcpu], st, run)
         /\ \A d \in CPU : [cd EXCEPT ![c] = NoVcpu][d] # cd[c]
<1> DEFINE cd2 == [cd EXCEPT ![c] = NoVcpu]
<1>1. cd2 \in CandType /\ cd2[c] = NoVcpu /\ \A d \in CPU : d # c => cd2[d] = cd[d]
  BY DEF CandType
<1>2. \A d \in CPU : cd2[d] # cd[c]
  BY <1>1 DEF TablesOK
<1>3. \A k \in Table \X PRIO : \A w \in Members(r[k]) : w \in VCPU
  BY DEF Members, RingType
<1>4. cd[c] \in VCPU
  BY DEF CandType
<1> HIDE DEF cd2
<1>5. ASSUME NEW k \in Table \X PRIO, NEW w \in Members(r[k])
      PROVE  Key(w) = k /\ st[w] = {} /\ \A d \in CPU : cd2[d] # w
  <2>1. Key(w) = k /\ old[w] = {} /\ w \in VCPU /\ \A d \in CPU : cd[d] # w
    BY <1>3, <1>5 DEF TablesOK
  <2> QED BY <1>1, <1>5, <2>1, VcpuAssumption
<1>6. ASSUME NEW w \in VCPU, st[w] = {}
      PROVE  w \in Members(r[Key(w)]) \/ \E d \in CPU : cd2[d] = w
  <2>1. w # cd[c] /\ old[w] = {}
    BY <1>6
  <2>2. w \in Members(r[Key(w)]) \/ \E d \in CPU : d # c /\ cd[d] = w
    BY <2>1 DEF TablesOK
  <2> QED BY <1>1, <2>2
<1>7. ASSUME NEW d \in CPU, cd2[d] # NoVcpu
      PROVE  st[cd2[d]] = {} /\ run[cd2[d]] = d /\ Affinity[cd2[d]] \in {d, NCpu}
  <2>1. d # c /\ cd2[d] = cd[d] /\ cd[d] # cd[c] /\ cd[d] \in VCPU
    BY <1>1, <1>2, <1>7 DEF CandType
  <2> QED BY <1>7, <2>1 DEF TablesOK
<1>8. \A k \in Table \X PRIO : Distinct(r[k])
  BY DEF TablesOK
<1>9. TablesOK(r, cd2, st, run)
  BY <1>5, <1>6, <1>7, <1>8 DEF TablesOK
<1> QED BY <1>1, <1>2, <1>9 DEF cd2

\* A candidate that stays ready goes back to its ring when its processor is
\* vacated (_CandTableClear, _ReadyTableAdd).
LEMMA VacateTables ==
  ASSUME NEW r \in RingType, NEW cd \in CandType, NEW st \in FlagType,
         NEW run \in RunType, TablesOK(r, cd, st, run),
         NEW c \in CPU, cd[c] # NoVcpu
  PROVE  /\ AddReady(r, cd[c]) \in RingType
         /\ [cd EXCEPT ![c] = NoVcpu] \in CandType
         /\ TablesOK(AddReady(r, cd[c]), [cd EXCEPT ![c] = NoVcpu], st, run)
<1> DEFINE v   == cd[c]
           old == [st EXCEPT ![v] = {"DELAY"}]
           cd2 == [cd EXCEPT ![c] = NoVcpu]
<1>1. v \in VCPU
  BY DEF CandType
<1>2. old \in FlagType /\ old[v] # {} /\ \A w \in VCPU \ {v} : st[w] = old[w]
  BY <1>1 DEF FlagType, Flag
<1>3. st[v] = {}
  BY DEF TablesOK
<1> HIDE DEF old
<1>4. cd2 \in CandType /\ TablesOK(r, cd2, old, run) /\ \A d \in CPU : cd2[d] # v
  BY <1>2, BlockTables
<1> HIDE DEF v, cd2
<1>5. AddReady(r, v) \in RingType /\ TablesOK(AddReady(r, v), cd2, st, run)
  BY <1>1, <1>2, <1>3, <1>4, AddTables
<1> QED BY <1>4, <1>5 DEF v, cd2
----------------------------------------------------------------------------
(* What the operations on the tables do to them.                             *)

TablesTyped(r, cd, ct, run) ==
    r \in RingType /\ cd \in CandType /\ ct \in [VCPU -> 0 .. Slice] /\ run \in RunType

\* TypeOK types what the table operations read.
LEMMA TypedTables == ASSUME TypeOK
                     PROVE  TablesTyped(ring, cand, counter, cpuRun)
BY DEF TypeOK, TablesTyped, RingType, CandType, RunType

\* Processor c has taken a thread and no other candidate has changed.
Taken(c, st) ==
    /\ TablesTyped(ring', cand', counter', cpuRun')
    /\ TablesOK(ring', cand', st, cpuRun')
    /\ cand'[c] \in VCPU
    /\ \A d \in CPU : d # c => cand'[d] = cand[d]

\* __candTableFill on fitting rings gives processor c a thread of ring k.
LEMMA FillStep ==
  ASSUME TypeOK, NEW c \in CPU, NEW r \in RingType, NEW st \in FlagType,
         NEW k \in Table \X PRIO, k[1] \in {c, NCpu}, r[k] # <<>>,
         TablesOK(r, [cand EXCEPT ![c] = NoVcpu], st, cpuRun),
         Fill(c, r, k)
  PROVE  Taken(c, st)
<1> DEFINE s  == Sought(r[k])
           cd == [cand EXCEPT ![c] = NoVcpu]
<1>1. r[k] \in Seq(VCPU) /\ Distinct(r[k])
  BY DEF RingType, TablesOK
<1>2. s \in Seq(VCPU) /\ s # <<>> /\ Members(s) = Members(r[k]) /\ Distinct(s)
  BY <1>1, RotatedFacts DEF Sought
<1>3. /\ cd \in CandType /\ cd[c] = NoVcpu
      /\ TablesOK(r, cd, st, cpuRun)
  BY DEF TypeOK, CandType
<1>4. cpuRun \in RunType /\ cand \in CandType
  BY TypedTables DEF TablesTyped
<1>5. /\ cand' = [cand EXCEPT ![c] = s[1]] /\ cpuRun' = [cpuRun EXCEPT ![s[1]] = c]
      /\ ring' = [r EXCEPT ![k] = Tail(s)] /\ counter' = Refilled(Head(r[k]))
  BY DEF Fill
<1>6. cand' = [cd EXCEPT ![c] = s[1]]
  BY <1>4, <1>5 DEF CandType
<1> HIDE DEF s, cd
<1>7. /\ ring' \in RingType /\ s[1] \in VCPU
      /\ TablesOK(ring', cand', st, cpuRun')
  <2>1. /\ [r EXCEPT ![k] = Tail(s)] \in RingType
        /\ s[1] \in VCPU
        /\ TablesOK([r EXCEPT ![k] = Tail(s)], [cd EXCEPT ![c] = s[1]],
                    st, [cpuRun EXCEPT ![s[1]] = c])
    BY <1>2, <1>3, <1>4, FillTables
  <2> QED BY <2>1, <1>5, <1>6
<1>8. Refilled(Head(r[k])) \in [VCPU -> 0 .. Slice]
  <2>1. counter \in [VCPU -> 0 .. Slice] /\ Slice \in 0 .. Slice
    BY SliceAssumption DEF TypeOK
  <2> QED BY <2>1 DEF Refilled
<1>9. cand' \in CandType /\ cand'[c] = s[1] /\ \A d \in CPU : d # c => cand'[d] = cand[d]
  BY <1>4, <1>5, <1>7 DEF CandType
<1>10. cpuRun' \in RunType
  BY <1>4, <1>5, <1>7 DEF RunType
<1> QED BY <1>5, <1>7, <1>8, <1>9, <1>10 DEF Taken, TablesTyped

\* While all boot threads are started, a processor that has not taken its idle
\* thread finds it in its table.
LEMMA IdleReady ==
  ASSUME TypeOK, TablesOK(ring, cand, status, cpuRun), FlagsOK,
         NEW c \in CPU, \A v \in Boot : Started(v), cand[c] # IdleOf[c]
  PROVE  InRing(IdleOf[c]) /\ HasReady(c)
<1> DEFINE i == IdleOf[c]
<1>1. i \in VCPU /\ i \in Boot /\ Affinity[i] = c
  BY IdleAssumption DEF Boot, Idles
<1>2. status[i] = {}
  BY <1>1 DEF FlagsOK, Started
<1>3. i # NoVcpu
  BY <1>1, VcpuAssumption
<1> HIDE DEF i
<1>4. \A d \in CPU : cand[d] # i
  <2> SUFFICES ASSUME NEW d \in CPU, cand[d] = i PROVE FALSE
    OBVIOUS
  <2>1. Affinity[i] \in {d, NCpu}
    BY <1>3 DEF TablesOK
  <2>2. c = d
    BY <1>1, <2>1, CpuAssumption DEF CPU
  <2> QED BY <2>2 DEF i
<1>5. i \in Members(ring[Key(i)])
  BY <1>1, <1>2, <1>4 DEF TablesOK
<1>6. Key(i) = <<c, Prio[i]>> /\ Prio[i] \in PRIO
  BY <1>1, PrioAssumption DEF Key
<1>7. ring[<<c, Prio[i]>>] # <<>>
  BY <1>5, <1>6 DEF Members
<1> QED BY <1>5, <1>6, <1>7 DEF HasReady, Bitmap, InRing, i

\* _CandTableUpdate leaves fitting tables and processor c with a candidate.
LEMMA UpdateStep ==
  ASSUME TypeOK, TablesOK(ring, cand, status, cpuRun),
         NEW c \in CPU, cand[c] = NoVcpu => HasReady(c), CandTableUpdate(c)
  PROVE  Taken(c, status) /\ rot' \in [CPU -> BOOLEAN]
<1>1. status \in FlagType /\ TablesTyped(ring, cand, counter, cpuRun)
  BY TypedTables DEF TypeOK, FlagType
<1>2. rot' \in [CPU -> BOOLEAN]
  BY DEF CandTableUpdate, TypeOK
<1>3. CASE cand[c] = NoVcpu
  <2>1. Fill(c, ring, BestKey(c))
    BY <1>3 DEF CandTableUpdate
  <2>2. [cand EXCEPT ![c] = NoVcpu] = cand
    BY <1>1, <1>3 DEF TablesTyped, CandType
  <2>3. BestKey(c) \in Table \X PRIO /\ BestKey(c)[1] \in {c, NCpu} /\ ring[BestKey(c)] # <<>>
    BY <1>1, <1>3, BestKeyFacts DEF TablesTyped
  <2> QED BY <1>1, <1>2, <2>1, <2>2, <2>3, FillStep DEF TablesTyped
<1>4. CASE cand[c] # NoVcpu /\ HasReady(c) /\ NeedFlush(c)
  <2> DEFINE r == AddReady(ring, cand[c])
  <2>1. Fill(c, r, BestKey(c))
    BY <1>4 DEF CandTableUpdate
  <2>2. /\ r \in RingType
        /\ TablesOK(r, [cand EXCEPT ![c] = NoVcpu], status, cpuRun)
    BY <1>1, <1>4, VacateTables DEF TablesTyped
  <2>3. BestKey(c) \in Table \X PRIO /\ BestKey(c)[1] \in {c, NCpu} /\ ring[BestKey(c)] # <<>>
    BY <1>1, <1>4, BestKeyFacts DEF TablesTyped
  <2>4. r[BestKey(c)] # <<>>
    <3>1. CASE BestKey(c) = Key(cand[c])
      <4>1. r[BestKey(c)] = AddAhead(ring[BestKey(c)], cand[c])
        BY <1>1, <2>3, <3>1 DEF AddReady, TablesTyped, RingType
      <4>2. ring[BestKey(c)] \in Seq(VCPU) /\ cand[c] \in VCPU
        BY <1>1, <1>4, <2>3 DEF TablesTyped, RingType, CandType
      <4> QED BY <4>1, <4>2 DEF AddAhead
    <3>2. CASE BestKey(c) # Key(cand[c])
      BY <1>1, <2>3, <3>2 DEF AddReady, TablesTyped, RingType
    <3> QED BY <3>1, <3>2
  <2> HIDE DEF r
  <2> QED BY <1>1, <1>2, <2>1, <2>2, <2>3, <2>4, FillStep
<1>5. CASE cand[c] # NoVcpu /\ ~(HasReady(c) /\ NeedFlush(c))
  <2>1. UNCHANGED <<ring, cand, counter, cpuRun>>
    BY <1>5 DEF CandTableUpdate
  <2> QED BY <1>1, <1>2, <1>5, <2>1 DEF Taken, TablesTyped, CandType
<1> QED BY <1>3, <1>4, <1>5

\* st: the flags after the candidate of processor c has blocked.
LEMMA DelStep ==
  ASSUME TypeOK, TablesOK(ring, cand, status, cpuRun),
         NEW c \in CPU, cand[c] # NoVcpu, HasReady(c),
         NEW st \in FlagType, st[cand[c]] # {},
         \A w \in VCPU \ {cand[c]} : st[w] = status[w],
         CandTableTryDel(cand[c])
  PROVE  Taken(c, st) /\ rot' \in [CPU -> BOOLEAN]
<1>1. status \in FlagType /\ TablesTyped(ring, cand, counter, cpuRun)
  BY TypedTables DEF TypeOK, FlagType
<1>2. cpuRun[cand[c]] = c
  BY DEF TablesOK
<1>3. Fill(c, ring, BestKey(c)) /\ rot' = [rot EXCEPT ![c] = FALSE]
  BY <1>2 DEF CandTableTryDel
<1>4. TablesOK(ring, [cand EXCEPT ![c] = NoVcpu], st, cpuRun)
  BY <1>1, BlockTables DEF TablesTyped
<1>5. BestKey(c) \in Table \X PRIO /\ BestKey(c)[1] \in {c, NCpu} /\ ring[BestKey(c)] # <<>>
  BY <1>1, BestKeyFacts DEF TablesTyped
<1>6. Taken(c, st)
  BY <1>1, <1>3, <1>4, <1>5, FillStep DEF TablesTyped
<1> QED BY <1>3, <1>6 DEF TypeOK

\* st: the flags after thread v, blocked before, has become ready.
LEMMA ReadyStep ==
  ASSUME TypeOK, TablesOK(ring, cand, status, cpuRun),
         NEW v \in VCPU, status[v] # {}, NEW st \in FlagType, st[v] = {},
         \A w \in VCPU \ {v} : st[w] = status[w]
  PROVE  /\ AddReady(ring, v) \in RingType
         /\ TablesOK(AddReady(ring, v), cand, st, cpuRun)
<1>1. status \in FlagType /\ TablesTyped(ring, cand, counter, cpuRun)
  BY TypedTables DEF TypeOK, FlagType
<1>2. \A c \in CPU : cand[c] # v
  BY VcpuAssumption DEF TablesOK
<1> QED BY <1>1, <1>2, AddTables DEF TablesTyped

\* Entering the kernel charges the lock to the thread of the processor.
LEMMA LockKernelStep ==
  ASSUME TypeOK, LockAccounting, NEW c \in CPU, cur[c] \in VCPU,
         LockKernel(c), UNCHANGED <<cur, slock>>
  PROVE  /\ klock' \in CPU \cup {NoCpu} /\ lockCnt' \in [VCPU -> Nat]
         /\ LockAccounting'
<1>1. klock = NoCpu /\ klock' = c /\ NoCpu \notin CPU
  BY CpuAssumption DEF LockKernel, NoCpu, CPU
<1>2. lockCnt \in [VCPU -> Nat] /\ lockCnt' = [lockCnt EXCEPT ![cur[c]] = @ + 1]
  BY DEF LockKernel, TypeOK
<1>3. ASSUME NEW v \in VCPU
      PROVE  lockCnt'[v] = (IF \E d \in CPU : klock' = d /\ cur'[d] = v THEN 1 ELSE 0)
                           + (IF slock' = v THEN 1 ELSE 0)
  <2>1. lockCnt[v] = IF slock = v THEN 1 ELSE 0
    BY <1>1 DEF LockAccounting
  <2>2. (\E d \in CPU : klock' = d /\ cur'[d] = v) <=> cur[c] = v
    BY <1>1
  <2>3. CASE cur[c] = v
    BY <1>2, <2>1, <2>2, <2>3
  <2>4. CASE cur[c] # v
    BY <1>2, <2>1, <2>2, <2>4
  <2> QED BY <2>3, <2>4
<1>4. LockAccounting'
  BY <1>3 DEF LockAccounting
<1>5. lockCnt' \in [VCPU -> Nat]
  BY <1>2
<1> QED BY <1>1, <1>4, <1>5

\* Notifying a processor keeps the interrupt state well typed.
LEMMA IpiTyped ==
  ASSUME TypeOK, NEW c, NEW r, IpiLowCandCpu(c, r)
  PROVE  ipi' \in [CPU -> BOOLEAN] /\ hw' \in [CPU -> BOOLEAN]
BY DEF TypeOK, IpiLowCandCpu

\* schedule() on a processor that runs thread cur[c] and owns the kernel
\* lock, counted in holds, leaves everything in step.
LEMMA ScheduleStep ==
  ASSUME IInv, NEW c \in CPU, pc[c] \in {"kernel", "irqexit"}, klock \in {c, NoCpu},
         NEW holds \in [VCPU -> Nat],
         holds[cur[c]] = IF slock = cur[c] THEN 2 ELSE 1,
         \A v \in VCPU : v # cur[c] => holds[v] = IF slock = v THEN 1 ELSE 0,
         ScheduleAndUnlock(c, holds),
         UNCHANGED <<status, timers, slock, target, resched>>
  PROVE  IInv'
<1> DEFINE old  == cur[c]
           next == IF holds[old] <= 1 THEN cand'[c] ELSE old
<1>1. TypeOK /\ TablesOK(ring, cand, status, cpuRun) /\ Active(c)
  BY DEF IInv, Active
<1>2. cand[c] \in VCPU /\ old \in VCPU
  BY <1>1, VcpuAssumption DEF IInv, TypeOK, PhaseOK
<1>3. Taken(c, status) /\ rot' \in [CPU -> BOOLEAN]
      /\ (holds[old] > 1 => cand' = cand)
  <2>1. CASE holds[old] <= 1 /\ rot[c]
    <3>1. CandTableUpdate(c)
      BY <2>1 DEF ScheduleAndUnlock, MaySwitch, Uncount
    <3>2. holds[old] \in Nat
      BY <1>2
    <3> QED BY <1>1, <1>2, <2>1, <3>1, <3>2, UpdateStep, VcpuAssumption
  <2>2. CASE ~(holds[old] <= 1 /\ rot[c])
    <3>1. UNCHANGED tables
      BY <2>2 DEF ScheduleAndUnlock, MaySwitch, Uncount
    <3> QED BY <1>1, <1>2, <3>1, TypedTables DEF Taken, TablesTyped, tables, TypeOK
  <2> QED BY <2>1, <2>2
<1>4. next = cand'[c] /\ next \in VCPU
  <2>1. CASE holds[old] > 1
    <3>1. slock = old
      BY <2>1
    <3> QED BY <1>1, <1>2, <1>3, <2>1, <3>1 DEF IInv, PhaseOK
  <2>2. CASE ~(holds[old] > 1)
    BY <1>3, <2>2 DEF Taken
  <2> QED BY <2>1, <2>2
<1>5. /\ klock' = NoCpu
      /\ lockCnt' = [holds EXCEPT ![old] = @ - 1]
      /\ cur' = [cur EXCEPT ![c] = next]
  BY DEF ScheduleAndUnlock, MaySwitch, Uncount
<1>6. pc' = [pc EXCEPT ![c] = "relock"] \/ pc' = [pc EXCEPT ![c] = "run"]
  BY DEF ScheduleAndUnlock, MaySwitch, Uncount
<1>7. /\ saved' \in [VCPU -> BOOLEAN]
      /\ ipi' \in [CPU -> BOOLEAN] /\ hw' \in [CPU -> BOOLEAN]
  <2>1. CASE next # old
    BY <1>1, <2>1 DEF ScheduleAndUnlock, MaySwitch, Uncount, TypeOK, ipis
  <2>2. CASE next = old
    BY <1>1, <2>2, IpiTyped DEF ScheduleAndUnlock, MaySwitch, Uncount, TypeOK
  <2> QED BY <2>1, <2>2
<1> HIDE DEF next
<1>8. /\ cur' \in [CPU -> VCPU \cup {NoVcpu}]
      /\ cur'[c] = cand'[c] /\ \A d \in CPU : d # c => cur'[d] = cur[d]
  BY <1>1, <1>4, <1>5 DEF TypeOK
<1>9. /\ pc' \in [CPU -> PcValue]
      /\ pc'[c] \in {"relock", "run"} /\ \A d \in CPU : d # c => pc'[d] = pc[d]
  BY <1>1, <1>6 DEF TypeOK, PcValue
<1>10. lockCnt' \in [VCPU -> Nat]
       /\ \A v \in VCPU : lockCnt'[v] = IF slock = v THEN 1 ELSE 0
  BY <1>2, <1>5
<1>11. NoCpu \notin CPU
  BY CpuAssumption DEF NoCpu, CPU
<1>12. TypeOK'
  <2>1. klock' \in CPU \cup {NoCpu}
    BY <1>5
  <2> QED BY <1>1, <1>3, <1>7, <1>8, <1>9, <1>10, <2>1
          DEF TypeOK, Taken, TablesTyped, RingType, CandType, RunType, timers
<1>13. TablesOK(ring, cand, status, cpuRun)'
  BY <1>3 DEF Taken
<1>14. PhaseOK'
  <2> SUFFICES ASSUME NEW d \in CPU
               PROVE  /\ pc'[d] \in {"kernel", "tick"} <=> klock' = d
                      /\ ~Active(d)' => cand'[d] = NoVcpu /\ cur'[d] = NoVcpu
                      /\ Active(d)' => cand'[d] # NoVcpu /\ cur'[d] # NoVcpu
                                       /\ \A v \in Boot : Started(v)'
                      /\ Active(d)' /\ cur'[d] # cand'[d] =>
                            /\ pc'[d] = "kernel"
                            /\ status'[cur'[d]] # {} /\ Started(cur[d])'
                            /\ slock' # cur'[d]
    BY DEF PhaseOK
  <2>1. \A v : Started(v)' = Started(v)
    BY DEF Started
  <2>2. CASE d = c
    <3>1. cand'[c] # NoVcpu
      BY <1>3, VcpuAssumption DEF Taken
    <3>2. \A v \in Boot : Started(v)
      BY <1>1 DEF IInv, PhaseOK
    <3> QED BY <1>5, <1>8, <1>9, <1>11, <2>1, <2>2, <3>1, <3>2 DEF Active
  <2>3. CASE d # c
    <3>1. cand'[d] = cand[d] /\ cur'[d] = cur[d] /\ pc'[d] = pc[d] /\ klock # d
      BY <1>3, <1>8, <1>9, <1>11, <2>3 DEF Taken
    <3>2. pc[d] \notin {"kernel", "tick"}
      BY <3>1 DEF IInv, PhaseOK
    <3>3. klock' # d
      BY <1>5, <1>11
    <3> QED BY <2>1, <3>1, <3>2, <3>3 DEF IInv, PhaseOK, Active
  <2> QED BY <2>2, <2>3
<1>15. FlagsOK'
  BY DEF IInv, FlagsOK, Started
<1>16. SleepersListed'
  BY DEF IInv, SleepersListed, timers
<1>17. DueOK'
  <2>1. ASSUME NEW d \in CPU, pc[d] = "tick" PROVE pc'[d] = "tick"
    BY <1>9, <2>1
  <2> QED BY <2>1 DEF IInv, DueOK, timers
<1>18. LockAccounting'
  <2>1. \A d \in CPU : klock' # d
    BY <1>5, <1>11
  <2> QED BY <1>10, <2>1 DEF LockAccounting
<1> QED BY <1>12, <1>13, <1>14, <1>15, <1>16, <1>17, <1>18 DEF IInv
-----------------------------------------------------------------------------
(* The invariants of the scheduler.                                          *)

\* Before any thread is started the invariant holds.
LEMMA InitOK == Init => IInv
<1> SUFFICES ASSUME Init PROVE IInv
  OBVIOUS
<1> USE DEF Init
<1>1. 0 \in CPU /\ NoCpu \notin CPU /\ 0 \in Nat
  BY CpuAssumption DEF CPU, NoCpu
<1>2. TypeOK
  <2>1. Slice \in 0 .. Slice /\ <<>> \in Seq(VCPU)
    BY SliceAssumption
  <2> QED BY <1>1, <2>1 DEF TypeOK, Flag, PcValue
<1>3. TablesOK(ring, cand, status, cpuRun)
  <2>1. Distinct(<<>>) /\ Members(<<>>) = {}
    BY DEF Distinct, Members
  <2> QED BY <2>1 DEF TablesOK
<1>4. PhaseOK
  BY <1>1 DEF PhaseOK, Active
<1>5. FlagsOK
  BY IdleAssumption DEF FlagsOK, Started
<1>6. SleepersListed /\ DueOK
  BY DEF SleepersListed, DueOK
<1>7. LockAccounting
  BY <1>1, VcpuAssumption DEF LockAccounting
<1> QED BY <1>2, <1>3, <1>4, <1>5, <1>6, <1>7 DEF IInv

\* vcpuStart of a thread makes it ready and changes nothing else; it may happen
\* while another processor is in the kernel.
LEMMA StartStep ==
  ASSUME IInv, NEW v \in VCPU, StartBody(v),
         UNCHANGED <<cand, rot, counter, cpuRun, cur, timers, locks, ipis, pc, conts>>
  PROVE  IInv'
<1>1. TypeOK /\ TablesOK(ring, cand, status, cpuRun)
  BY DEF IInv
<1>2. status[v] = {"INIT"} /\ status' = [status EXCEPT ![v] = {}]
  BY <1>1 DEF StartBody, IInv, FlagsOK, Started, TypeOK
<1>3. /\ status' \in FlagType /\ status'[v] = {} /\ status[v] # {}
      /\ \A w \in VCPU \ {v} : status'[w] = status[w]
  BY <1>1, <1>2 DEF TypeOK, FlagType
<1>4. ring' = AddReady(ring, v)
  BY <1>3 DEF StartBody
<1>5. ring' \in RingType /\ TablesOK(ring', cand, status', cpuRun)
  BY <1>1, <1>3, <1>4, ReadyStep
<1>6. UNCHANGED <<wakeq, left, due, klock, lockCnt, slock, ipi, hw, saved, target, resched>>
  BY DEF timers, locks, ipis, conts
<1>7. TypeOK'
  BY <1>1, <1>3, <1>5, <1>6 DEF TypeOK, RingType, FlagType
<1>8. TablesOK(ring, cand, status, cpuRun)'
  BY <1>5
<1>9. \A w \in VCPU : Started(w) => Started(w)' /\ status'[w] = status[w]
  BY <1>2, <1>3 DEF Started
<1>10. PhaseOK'
  <2>1. ASSUME NEW c \in CPU, Active(c), cur[c] # cand[c]
        PROVE  status'[cur[c]] # {} /\ Started(cur[c])' /\ slock # cur[c]
    <3>1. cur[c] \in VCPU
      BY <1>1, <2>1 DEF IInv, PhaseOK, TypeOK
    <3> QED BY <1>9, <2>1, <3>1 DEF IInv, PhaseOK
  <2>2. \A w \in Boot : Started(w) => Started(w)'
    BY <1>9, VcpuAssumption, IdleAssumption DEF Boot, Idles
  <2> QED BY <1>6, <2>1, <2>2 DEF IInv, PhaseOK, Active, Started
<1>11. FlagsOK'
  <2>1. \A c \in CPU : status'[IdleOf[c]] \subseteq {"INIT"}
    BY <1>3, IdleAssumption DEF IInv, FlagsOK
  <2>2. \A w \in VCPU : ~Started(w)' => status'[w] = {"INIT"}
    BY <1>3 DEF IInv, FlagsOK, Started
  <2>3. \A w \in VCPU : target[w] # NoVcpu => target[w] # v /\ target[w] \in VCPU
    BY <1>1, <1>2 DEF IInv, FlagsOK, TypeOK
  <2> QED BY <1>3, <1>6, <2>1, <2>2, <2>3 DEF IInv, FlagsOK
<1>12. SleepersListed'
  BY <1>2, <1>3, <1>6 DEF IInv, SleepersListed
<1>13. DueOK' /\ LockAccounting'
  BY <1>6 DEF IInv, DueOK, LockAccounting
<1> QED BY <1>7, <1>8, <1>10, <1>11, <1>12, <1>13 DEF IInv

\* schedActiveCpu finds a candidate: the idle thread of the processor is in
\* its table.
LEMMA ActiveCpuStep ==
  ASSUME IInv, NEW c \in CPU, ActiveCpu(c)
  PROVE  IInv'
<1>1. TypeOK /\ TablesOK(ring, cand, status, cpuRun) /\ ~Active(c)
  BY DEF IInv, ActiveCpu, Active
<1>2. cand[c] = NoVcpu /\ \A v \in Boot : Started(v)
  BY <1>1 DEF IInv, PhaseOK, ActiveCpu
<1>3. HasReady(c)
  <2>1. IdleOf[c] # NoVcpu
    BY IdleAssumption, VcpuAssumption
  <2> QED BY <1>1, <1>2, <2>1, IdleReady DEF IInv
<1>4. Taken(c, status) /\ rot' \in [CPU -> BOOLEAN]
  BY <1>1, <1>3, UpdateStep DEF ActiveCpu
<1>5. UNCHANGED <<status, wakeq, left, due, klock, lockCnt, slock, ipi, hw, saved, target, resched>>
  BY DEF ActiveCpu, timers, locks, ipis, conts
<1>6. /\ cur' \in [CPU -> VCPU \cup {NoVcpu}] /\ cur'[c] = cand'[c]
      /\ \A d \in CPU : d # c => cur'[d] = cur[d]
  BY <1>1, <1>4 DEF ActiveCpu, TypeOK, Taken
<1>7. /\ pc' \in [CPU -> PcValue] /\ pc'[c] = "boot"
      /\ \A d \in CPU : d # c => pc'[d] = pc[d]
  BY <1>1 DEF ActiveCpu, TypeOK, PcValue
<1>8. TypeOK'
  BY <1>1, <1>4, <1>5, <1>6, <1>7
     DEF TypeOK, Taken, TablesTyped, RingType, CandType, RunType
<1>9. TablesOK(ring, cand, status, cpuRun)'
  BY <1>4, <1>5 DEF Taken
<1>10. klock # c /\ pc[c] = "off"
  BY DEF IInv, PhaseOK, ActiveCpu
<1>11. PhaseOK'
  <2> SUFFICES ASSUME NEW d \in CPU
               PROVE  /\ pc'[d] \in {"kernel", "tick"} <=> klock' = d
                      /\ ~Active(d)' => cand'[d] = NoVcpu /\ cur'[d] = NoVcpu
                      /\ Active(d)' => cand'[d] # NoVcpu /\ cur'[d] # NoVcpu
                                       /\ \A v \in Boot : Started(v)'
                      /\ Active(d)' /\ cur'[d] # cand'[d] =>
                            /\ pc'[d] = "kernel"
                            /\ status'[cur'[d]] # {} /\ Started(cur[d])'
                            /\ slock' # cur'[d]
    BY DEF PhaseOK
  <2>1. \A v : Started(v)' = Started(v)
    BY <1>5 DEF Started
  <2>2. CASE d = c
    <3>1. cand'[c] # NoVcpu
      BY <1>4, VcpuAssumption DEF Taken
    <3> QED BY <1>2, <1>5, <1>6, <1>7, <1>10, <2>1, <2>2, <3>1 DEF Active
  <2>3. CASE d # c
    <3>1. cand'[d] = cand[d] /\ cur'[d] = cur[d] /\ pc'[d] = pc[d]
      BY <1>4, <1>6, <1>7, <2>3 DEF Taken
    <3> QED BY <1>5, <2>1, <3>1 DEF IInv, PhaseOK, Active
  <2> QED BY <2>2, <2>3
<1>12. FlagsOK' /\ SleepersListed'
  BY <1>5 DEF IInv, FlagsOK, SleepersListed, Started
<1>13. DueOK'
  <2>1. \A d \in CPU : pc[d] = "tick" => pc'[d] = "tick"
    BY <1>7, <1>10
  <2> QED BY <1>5, <2>1 DEF IInv, DueOK
<1>14. LockAccounting'
  <2>1. \A d \in CPU, v \in VCPU : klock = d /\ cur[d] = v <=> klock' = d /\ cur'[d] = v
    BY <1>5, <1>6, <1>10
  <2> QED BY <1>5, <2>1 DEF IInv, LockAccounting
<1> QED BY <1>8, <1>9, <1>11, <1>12, <1>13, <1>14 DEF IInv

\* A step outside the kernel that only moves processor c on, or raises or
\* takes interrupts.
LEMMA PcStep ==
  ASSUME IInv, NEW c \in CPU, NEW q \in PcValue,
         pc[c] \notin {"off", "kernel", "tick"}, q \notin {"off", "kernel", "tick"},
         pc' = [pc EXCEPT ![c] = q],
         ipi' \in [CPU -> BOOLEAN], hw' \in [CPU -> BOOLEAN],
         UNCHANGED <<status, tables, cur, timers, locks, conts>>
  PROVE  IInv'
<1>1. UNCHANGED <<status, ring, cand, rot, cur, counter, cpuRun, wakeq, left, due,
                  klock, lockCnt, slock, saved, target, resched>>
  BY DEF tables, timers, locks, conts
<1>2. /\ pc' \in [CPU -> PcValue] /\ pc'[c] = q
      /\ \A d \in CPU : d # c => pc'[d] = pc[d]
  BY DEF IInv, TypeOK
<1>3. TypeOK'
  BY <1>1, <1>2 DEF IInv, TypeOK
<1>4. TablesOK(ring, cand, status, cpuRun)'
  BY <1>1 DEF IInv
<1>5. PhaseOK'
  BY <1>1, <1>2 DEF IInv, PhaseOK, Active, Started
<1>6. FlagsOK' /\ SleepersListed' /\ LockAccounting'
  BY <1>1 DEF IInv, FlagsOK, SleepersListed, LockAccounting, Started
<1>7. DueOK'
  <2>1. \A d \in CPU : pc[d] = "tick" => pc'[d] = "tick"
    BY <1>2
  <2> QED BY <1>1, <2>1 DEF IInv, DueOK
<1> QED BY <1>3, <1>4, <1>5, <1>6, <1>7 DEF IInv

\* When a processor takes the kernel lock, nobody is in the kernel and no tick
\* is half done.
LEMMA LockFree ==
  ASSUME IInv, klock = NoCpu
  PROVE  /\ due = {}
         /\ \A d \in CPU : pc[d] \notin {"kernel", "tick"}
         /\ \A d \in CPU : Active(d) => cur[d] = cand[d] /\ cur[d] \in VCPU
<1>1. \A d \in CPU : pc[d] \notin {"kernel", "tick"}
  BY CpuAssumption DEF IInv, PhaseOK, NoCpu, CPU
<1>2. due = {}
  BY <1>1 DEF IInv, DueOK
<1>3. \A d \in CPU : Active(d) => cur[d] = cand[d] /\ cur[d] \in VCPU
  BY <1>1 DEF IInv, PhaseOK, TypeOK
<1> QED BY <1>1, <1>2, <1>3

\* Taking the kernel lock on processor c keeps PhaseOK, whatever the call then
\* does to the flags of other threads, if it starts none and stops none.
LEMMA EnterPhase ==
  ASSUME IInv, NEW c \in CPU, NEW q \in {"kernel", "tick"}, pc[c] # "off",
         LockKernel(c), pc' = [pc EXCEPT ![c] = q], UNCHANGED <<cur, slock>>,
         \A d \in CPU : d # c => cand'[d] = cand[d],
         cand'[c] \in VCPU,
         \A v \in VCPU : Started(v) => Started(v)',
         cand'[c] # cur[c] => /\ q = "kernel"
                              /\ status'[cur[c]] # {} /\ slock # cur[c]
                              /\ Started(cur[c])'
  PROVE  PhaseOK' /\ pc' \in [CPU -> PcValue]
<1>1. pc' \in [CPU -> PcValue] /\ pc'[c] = q /\ \A d \in CPU : d # c => pc'[d] = pc[d]
  BY DEF IInv, TypeOK, PcValue
<1>2. klock = NoCpu /\ klock' = c
  BY DEF LockKernel
<1>3. \A d \in CPU : pc[d] \notin {"kernel", "tick"}
  BY <1>2, LockFree
<1>4. \A d \in CPU : Active(d) => cur[d] = cand[d] /\ cur[d] \in VCPU
  BY <1>2, LockFree
<1>5. Boot \subseteq VCPU
  BY VcpuAssumption, IdleAssumption DEF Boot, Idles
<1> SUFFICES ASSUME NEW d \in CPU
             PROVE  /\ pc'[d] \in {"kernel", "tick"} <=> klock' = d
                    /\ ~Active(d)' => cand'[d] = NoVcpu /\ cur'[d] = NoVcpu
                    /\ Active(d)' => cand'[d] # NoVcpu /\ cur'[d] # NoVcpu
                                     /\ \A v \in Boot : Started(v)'
                    /\ Active(d)' /\ cur'[d] # cand'[d] =>
                          /\ pc'[d] = "kernel"
                          /\ status'[cur'[d]] # {} /\ Started(cur[d])'
                          /\ slock' # cur'[d]
  BY <1>1 DEF PhaseOK
<1>6. CASE d = c
  <2>1. cand'[c] # NoVcpu /\ cur[c] # NoVcpu /\ \A v \in Boot : Started(v)
    BY VcpuAssumption DEF IInv, PhaseOK, Active
  <2> QED BY <1>1, <1>2, <1>5, <1>6, <2>1 DEF Active, Started
<1>7. CASE d # c
  BY <1>1, <1>2, <1>3, <1>4, <1>5, <1>7 DEF IInv, PhaseOK, Active
<1> QED BY <1>6, <1>7

\* The running thread of processor c blocks under flag f (vcpuSleep,
\* vcpuSuspend): the processor takes another candidate, the kernel is left later.
LEMMA BlockStep ==
  ASSUME IInv, NEW c \in CPU, NEW f \in {"DELAY", "SUSPEND"},
         cur[c] \notin Idles, slock # cur[c], target[cur[c]] = NoVcpu,
         KernelEnter(c), CandTableTryDel(cur[c]),
         status' = [status EXCEPT ![cur[c]] = @ \cup {f}],
         wakeq' = IF f = "DELAY" THEN wakeq \cup {cur[c]} ELSE wakeq,
         left' \in [VCPU -> Nat],
         UNCHANGED <<due, cur, ipis, conts>>
  PROVE  IInv'
<1> DEFINE v == cur[c]
<1>1. TypeOK /\ TablesOK(ring, cand, status, cpuRun) /\ FlagsOK
  BY DEF IInv
<1>2. pc[c] = "run" /\ Active(c) /\ klock = NoCpu /\ pc' = [pc EXCEPT ![c] = "kernel"]
      /\ LockKernel(c) /\ UNCHANGED <<cur, slock>>
  BY DEF KernelEnter, Running, Active, LockKernel
<1>3. v \in VCPU /\ cand[c] = v /\ v # NoVcpu /\ due = {}
  BY <1>2, LockFree, VcpuAssumption
<1>4. status[v] = {} /\ \A w \in Boot : Started(w)
  BY <1>1, <1>2, <1>3 DEF TablesOK, IInv, PhaseOK
<1>5. /\ status' \in FlagType /\ status'[v] = {f}
      /\ \A w \in VCPU \ {v} : status'[w] = status[w]
  BY <1>1, <1>3, <1>4 DEF TypeOK, FlagType, Flag
<1>6. HasReady(c)
  <2>1. cand[c] # IdleOf[c]
    BY <1>3 DEF Idles
  <2> QED BY <1>1, <1>4, <2>1, IdleReady
<1>7. Taken(c, status') /\ rot' \in [CPU -> BOOLEAN]
  <2>1. CandTableTryDel(cand[c])
    BY <1>3
  <2>2. /\ cand[c] # NoVcpu /\ status'[cand[c]] # {}
        /\ \A w \in VCPU \ {cand[c]} : status'[w] = status[w]
    BY <1>3, <1>5
  <2> QED BY <1>1, <1>5, <1>6, <2>1, <2>2, DelStep
<1>8. UNCHANGED <<due, cur, slock, ipi, hw, saved, target, resched>>
  BY <1>2 DEF ipis, conts
<1>9. /\ klock' \in CPU \cup {NoCpu} /\ lockCnt' \in [VCPU -> Nat]
      /\ LockAccounting'
  BY <1>1, <1>2, <1>3, LockKernelStep DEF IInv
<1>10. \A w \in VCPU : Started(w)' = Started(w)
  BY <1>4, <1>5 DEF Started
<1>11. PhaseOK' /\ pc' \in [CPU -> PcValue]
  <2>1. Started(v)' /\ status'[v] # {}
    BY <1>5 DEF Started
  <2>2. \A d \in CPU : d # c => cand'[d] = cand[d]
    BY <1>7 DEF Taken
  <2>3. cand'[c] \in VCPU
    BY <1>7 DEF Taken
  <2>4. \A w \in VCPU : Started(w) => Started(w)'
    BY <1>10
  <2> QED
    BY <1>2, <1>8, <2>1, <2>2, <2>3, <2>4, EnterPhase
<1>12. wakeq' \subseteq VCPU
  BY <1>1, <1>3 DEF TypeOK
<1>13. TypeOK'
  BY <1>1, <1>5, <1>7, <1>8, <1>9, <1>11, <1>12
     DEF TypeOK, Taken, TablesTyped, RingType, CandType, RunType, FlagType
<1>14. TablesOK(ring, cand, status, cpuRun)'
  BY <1>7 DEF Taken
<1>15. FlagsOK'
  <2>1. \A d \in CPU : IdleOf[d] \in VCPU \ {v}
    BY IdleAssumption DEF Idles
  <2>2. \A w \in VCPU : target[w] # NoVcpu => target[w] \in VCPU \ {v}
    BY <1>1, <1>4 DEF FlagsOK, TypeOK
  <2>3. \A w \in VCPU : ~Started(w) => w # v
    BY <1>4 DEF Started
  <2> QED BY <1>1, <1>5, <1>8, <1>10, <2>1, <2>2, <2>3 DEF FlagsOK
<1>16. SleepersListed'
  <2> SUFFICES ASSUME NEW w \in VCPU PROVE w \in wakeq' <=> "DELAY" \in status'[w]
    BY DEF SleepersListed
  <2>1. w \in wakeq <=> "DELAY" \in status[w]
    BY DEF IInv, SleepersListed
  <2>2. CASE w = v
    BY <1>4, <1>5, <2>1, <2>2
  <2>3. CASE w # v
    BY <1>5, <2>1, <2>3
  <2> QED BY <2>2, <2>3
<1>17. DueOK'
  BY <1>3, <1>8 DEF DueOK
<1> QED BY <1>9, <1>11, <1>13, <1>14, <1>15, <1>16, <1>17 DEF IInv

\* A step that takes the kernel lock and leaves flags, rings and candidates
\* alone (vcpuYield, kernelSched, the begin of the tick).
LEMMA EnterStep ==
  ASSUME IInv, NEW c \in CPU, NEW q \in {"kernel", "tick"}, pc[c] # "off",
         LockKernel(c), pc' = [pc EXCEPT ![c] = q],
         UNCHANGED <<status, ring, cand, cpuRun, wakeq, cur, slock, saved, target>>,
         rot' \in [CPU -> BOOLEAN], counter' \in [VCPU -> 0 .. Slice],
         ipi' \in [CPU -> BOOLEAN], hw' \in [CPU -> BOOLEAN],
         left' \in [VCPU -> Nat], resched' \in [VCPU -> BOOLEAN],
         due' \subseteq wakeq, due' # {} => q = "tick"
  PROVE  IInv'
<1>1. klock = NoCpu
  BY DEF LockKernel
<1>2. cand[c] = cur[c] /\ cur[c] \in VCPU
  BY <1>1, LockFree DEF Active
<1>3. /\ klock' \in CPU \cup {NoCpu} /\ lockCnt' \in [VCPU -> Nat]
      /\ LockAccounting'
  BY <1>2, LockKernelStep DEF IInv
<1>4. PhaseOK' /\ pc' \in [CPU -> PcValue]
  <2>1. \A w \in VCPU : Started(w) => Started(w)'
    BY DEF Started
  <2> QED BY <1>2, <2>1, EnterPhase
<1>5. TypeOK'
  BY <1>3, <1>4 DEF IInv, TypeOK
<1>6. TablesOK(ring, cand, status, cpuRun)'
  BY DEF IInv
<1>7. FlagsOK' /\ SleepersListed'
  BY DEF IInv, FlagsOK, SleepersListed, Started
<1>8. DueOK'
  <2>1. pc'[c] = q
    BY DEF IInv, TypeOK
  <2> QED BY <2>1 DEF DueOK
<1> QED BY <1>3, <1>4, <1>5, <1>6, <1>7, <1>8 DEF IInv

\* schedYield takes a slice away and marks a processor; nothing moves.
LEMMA YieldStep ==
  ASSUME IInv, NEW c \in CPU, Yield(c)
  PROVE  IInv'
<1>1. /\ LockKernel(c) /\ pc' = [pc EXCEPT ![c] = "kernel"] /\ pc[c] # "off"
      /\ UNCHANGED <<status, ring, cand, cpuRun, wakeq, left, due, cur, slock,
                     ipi, hw, saved, target, resched>>
  BY DEF Yield, KernelEnter, Running, timers, ipis, conts
<1>2. due = {}
  BY <1>1, LockFree DEF LockKernel
<1>3. rot' \in [CPU -> BOOLEAN] /\ counter' \in [VCPU -> 0 .. Slice]
  <2>1. rot \in [CPU -> BOOLEAN] /\ counter \in [VCPU -> 0 .. Slice] /\ 0 \in 0 .. Slice
    BY SliceAssumption DEF IInv, TypeOK
  <2>2. \/ UNCHANGED <<counter, rot>>
        \/ \E d : rot' = [rot EXCEPT ![d] = TRUE] /\ counter' = [counter EXCEPT ![cur[c]] = 0]
    BY DEF Yield
  <2> QED BY <2>1, <2>2
<1> QED BY <1>1, <1>2, <1>3, EnterStep DEF IInv, TypeOK

\* kernelSched enters the kernel and can only notify.
LEMMA KernelSchedStep ==
  ASSUME IInv, NEW c \in CPU, KernelSched(c)
  PROVE  IInv'
<1>1. /\ LockKernel(c) /\ pc' = [pc EXCEPT ![c] = "kernel"] /\ pc[c] # "off"
      /\ UNCHANGED <<status, ring, cand, rot, counter, cpuRun, wakeq, left, due,
                     cur, slock, saved, target>>
  BY DEF KernelSched, KernelEnter, Running, timers, tables
<1>2. due = {}
  BY <1>1, LockFree DEF LockKernel
<1>3. ipi' \in [CPU -> BOOLEAN] /\ hw' \in [CPU -> BOOLEAN]
  BY IpiTyped DEF KernelSched, IInv
<1>4. resched' \in [VCPU -> BOOLEAN]
  BY DEF KernelSched, IInv, TypeOK
<1> QED BY <1>1, <1>2, <1>3, <1>4, EnterStep DEF IInv, TypeOK

\* _WakeupTick counts the sleepers down and finds the expired ones.
LEMMA TickBeginStep ==
  ASSUME IInv, NEW c \in CPU, TickBegin(c)
  PROVE  IInv'
<1>1. /\ LockKernel(c) /\ pc' = [pc EXCEPT ![c] = "tick"] /\ pc[c] # "off"
      /\ UNCHANGED <<status, ring, cand, rot, counter, cpuRun, wakeq,
                     cur, slock, ipi, hw, saved, target, resched>>
  BY DEF TickBegin, ipis, conts, tables
<1>2. due' \subseteq wakeq
  BY DEF TickBegin
<1>3. left' \in [VCPU -> Nat]
  <2>1. \A v \in VCPU : left[v] \in Nat /\ (left[v] > 0 => left[v] - 1 \in Nat)
    BY DEF IInv, TypeOK
  <2> QED BY <2>1 DEF TickBegin, CountedDown
<1> QED BY <1>1, <1>2, <1>3, EnterStep DEF IInv, TypeOK

\* vcpuWakeup of a suspended thread: it is in no ring and no candidate, so it
\* may be queued.
LEMMA WakeupStep ==
  ASSUME IInv, NEW c \in CPU, Wakeup(c)
  PROVE  IInv'
<1> DEFINE u == cur[c]
           t == target[cur[c]]
<1>1. TypeOK /\ TablesOK(ring, cand, status, cpuRun) /\ FlagsOK
  BY DEF IInv
<1>2. /\ LockKernel(c) /\ pc' = [pc EXCEPT ![c] = "kernel"] /\ pc[c] # "off"
      /\ klock = NoCpu /\ UNCHANGED <<cur, slock, due, ipi, hw, saved, resched>>
  BY DEF Wakeup, KernelEnter, Running, LockKernel, ipis
<1>3. u \in VCPU /\ cand[c] = u /\ due = {}
  BY <1>2, LockFree DEF Active
<1>4. t \in VCPU /\ "SUSPEND" \in status[t]
  BY <1>1, <1>3 DEF Wakeup, FlagsOK, TypeOK
<1>5. status[t] \ {"SUSPEND", "DELAY"} = {}
  <2>1. Started(t)
    BY <1>1, <1>4 DEF FlagsOK
  <2> QED BY <1>1, <1>4, <2>1 DEF TypeOK, Flag, Started
<1>6. /\ WakeupBody(t)
      /\ target' = [target EXCEPT ![u] = NoVcpu]
  BY DEF Wakeup
<1>7. /\ status' = [status EXCEPT ![t] = {}]
      /\ wakeq' = wakeq \ {t} /\ left' = [left EXCEPT ![t] = 0]
      /\ MakeReady(t)
  BY <1>5, <1>6 DEF WakeupBody, Unlisted
<1>8. /\ status' \in FlagType /\ status'[t] = {} /\ status[t] # {}
      /\ \A w \in VCPU \ {t} : status'[w] = status[w]
  BY <1>1, <1>4, <1>7 DEF TypeOK, FlagType
<1>9. /\ ring' = AddReady(ring, t) /\ rot' \in [CPU -> BOOLEAN]
      /\ UNCHANGED <<cand, counter, cpuRun>>
  BY <1>1, <1>7 DEF MakeReady, TypeOK
<1>10. ring' \in RingType /\ TablesOK(ring', cand, status', cpuRun)
  BY <1>1, <1>4, <1>8, <1>9, ReadyStep
<1>11. /\ klock' \in CPU \cup {NoCpu} /\ lockCnt' \in [VCPU -> Nat]
       /\ LockAccounting'
  BY <1>1, <1>2, <1>3, LockKernelStep DEF IInv
<1>12. \A w \in VCPU : Started(w)' = Started(w)
  BY <1>1, <1>4, <1>8 DEF Started, FlagsOK
<1>13. PhaseOK' /\ pc' \in [CPU -> PcValue]
  <2>1. cand'[c] = u /\ \A d \in CPU : d # c => cand'[d] = cand[d]
    BY <1>3, <1>9
  <2>2. \A w \in VCPU : Started(w) => Started(w)'
    BY <1>12
  <2> QED BY <1>2, <1>3, <2>1, <2>2, EnterPhase
<1>14. target' \in [VCPU -> VCPU \cup {NoVcpu}] /\ left' \in [VCPU -> Nat]
  BY <1>1, <1>6, <1>7 DEF TypeOK
<1>15. TypeOK'
  BY <1>1, <1>2, <1>7, <1>8, <1>9, <1>10, <1>11, <1>13, <1>14
     DEF TypeOK, RingType, FlagType
<1>16. TablesOK(ring, cand, status, cpuRun)'
  BY <1>9, <1>10
<1>17. FlagsOK'
  <2>1. \A d \in CPU : status'[IdleOf[d]] \subseteq {"INIT"}
    BY <1>1, <1>8, IdleAssumption DEF FlagsOK
  <2>2. \A w \in VCPU : ~Started(w)' => status'[w] = {"INIT"}
    BY <1>1, <1>8, <1>12 DEF FlagsOK, Started
  <2>3. ASSUME NEW w \in VCPU, target'[w] # NoVcpu
        PROVE  w # u /\ target'[w] = target[w] /\ target[w] \in VCPU \ {t}
    BY <1>1, <1>3, <1>4, <1>6, <2>3 DEF FlagsOK, TypeOK
  <2>4. target'[u] = NoVcpu
    BY <1>1, <1>3, <1>6 DEF TypeOK
  <2> QED BY <1>1, <1>8, <2>1, <2>2, <2>3, <2>4 DEF FlagsOK
<1>18. SleepersListed'
  BY <1>7, <1>8 DEF IInv, SleepersListed
<1>19. DueOK'
  BY <1>2, <1>3 DEF DueOK
<1> QED BY <1>11, <1>13, <1>15, <1>16, <1>17, <1>18, <1>19 DEF IInv

\* A caller picks the suspended thread it is going to wake.
LEMMA CallWakeupStep ==
  ASSUME IInv, ~StrayWakeup, NEW c \in CPU, NEW t \in VCPU, CallWakeup(c, t)
  PROVE  IInv'
<1> DEFINE u == cur[c]
<1>1. UNCHANGED <<status, ring, cand, rot, counter, cpuRun, cur, wakeq, left, due,
                  klock, lockCnt, slock, ipi, hw, pc, saved, resched>>
  BY DEF CallWakeup, tables, timers, locks, ipis
<1>2. /\ "SUSPEND" \in status[t] /\ \A w \in VCPU : target[w] # t
      /\ target' = [target EXCEPT ![u] = t]
  BY DEF CallWakeup
<1>3. TypeOK'
  BY <1>1, <1>2 DEF IInv, TypeOK
<1>4. FlagsOK'
  <2>1. \A w \in VCPU : target'[w] = target[w] \/ (w = u /\ target'[w] = t)
    BY <1>2 DEF IInv, TypeOK
  <2> QED BY <1>1, <1>2, <2>1 DEF IInv, FlagsOK, Started
<1>5. TablesOK(ring, cand, status, cpuRun)' /\ PhaseOK' /\ SleepersListed' /\ DueOK' /\ LockAccounting'
  BY <1>1 DEF IInv, TablesOK, PhaseOK, SleepersListed, DueOK, LockAccounting, Active, Started
<1> QED BY <1>3, <1>4, <1>5 DEF IInv

\* The other spin lock passes between nobody and the running thread.
LEMMA SpinStep ==
  ASSUME IInv, NEW c \in CPU, SpinLock(c) \/ SpinUnlock(c)
  PROVE  IInv'
<1> DEFINE u == cur[c]
<1>1. UNCHANGED <<status, ring, cand, rot, counter, cpuRun, cur, wakeq, left, due,
                  klock, ipi, hw, pc, saved, target>>
  BY DEF SpinLock, SpinUnlock, tables, timers, ipis, conts
<1>2. pc[c] = "run"
  BY DEF SpinLock, SpinUnlock, Calls, Running
<1>3. u \in VCPU /\ u = cand[c] /\ u # NoVcpu /\ status[u] = {}
  BY <1>2, VcpuAssumption DEF IInv, PhaseOK, TablesOK, Active, TypeOK
<1>4. klock # c
  BY <1>2 DEF IInv, PhaseOK
<1>5. \A d \in CPU : klock = d /\ cur[d] = u => FALSE
  <2> SUFFICES ASSUME NEW d \in CPU, klock = d, cur[d] = u PROVE FALSE
    OBVIOUS
  <2>1. Active(d) /\ d # c
    BY <1>4 DEF IInv, PhaseOK, Active
  <2>2. cur[d] = cand[d]
    BY <1>3, <2>1 DEF IInv, PhaseOK
  <2>3. cpuRun[cand[d]] = d /\ cpuRun[cand[c]] = c
    BY <1>3, <2>2 DEF IInv, TablesOK
  <2> QED BY <1>3, <2>1, <2>2, <2>3
<1>6. /\ slock' \in VCPU \cup {NoVcpu} /\ lockCnt' \in [VCPU -> Nat]
      /\ slock' \in {NoVcpu, u}
      /\ LockAccounting'
  <2>1. lockCnt \in [VCPU -> Nat]
    BY DEF IInv, TypeOK
  <2>2. \A w \in VCPU : lockCnt[w] = (IF \E d \in CPU : klock = d /\ cur[d] = w THEN 1 ELSE 0)
                                     + (IF slock = w THEN 1 ELSE 0)
    BY DEF IInv, LockAccounting
  <2>3. lockCnt[u] = IF slock = u THEN 1 ELSE 0
    BY <1>3, <1>5, <2>2
  <2>4. \/ slock = NoVcpu /\ slock' = u /\ lockCnt' = [lockCnt EXCEPT ![u] = @ + 1]
        \/ slock = u /\ slock' = NoVcpu /\ lockCnt' = [lockCnt EXCEPT ![u] = @ - 1]
    BY DEF SpinLock, SpinUnlock
  <2>5. lockCnt' \in [VCPU -> Nat]
    BY <1>3, <2>1, <2>3, <2>4
  <2>6. ASSUME NEW w \in VCPU
        PROVE  lockCnt'[w] = (IF \E d \in CPU : klock = d /\ cur[d] = w THEN 1 ELSE 0)
                             + (IF slock' = w THEN 1 ELSE 0)
    <3>1. CASE w = u
      BY <1>3, <1>5, <2>1, <2>3, <2>4, <3>1
    <3>2. CASE w # u
      <4>1. lockCnt'[w] = lockCnt[w]
        BY <2>1, <2>4, <3>2
      <4>2. (slock' = w <=> slock = w)
        BY <2>4, <3>2, VcpuAssumption
      <4> QED BY <2>2, <4>1, <4>2
    <3> QED BY <3>1, <3>2
  <2>7. LockAccounting'
    BY <1>1, <2>6 DEF LockAccounting
  <2> QED BY <1>3, <2>4, <2>5, <2>7
<1>7. TypeOK'
  <2>1. resched' \in [VCPU -> BOOLEAN]
    BY DEF IInv, TypeOK, SpinLock, SpinUnlock, conts
  <2> QED BY <1>1, <1>6, <2>1 DEF IInv, TypeOK
<1>8. PhaseOK'
  <2>1. ASSUME NEW d \in CPU, Active(d), cur[d] # cand[d] PROVE slock' # cur[d]
    <3>1. status[cur[d]] # {} /\ cur[d] # NoVcpu
      BY <2>1 DEF IInv, PhaseOK
    <3> QED BY <1>3, <1>6, <3>1
  <2> QED BY <1>1, <2>1 DEF IInv, PhaseOK, Active, Started
<1>9. TablesOK(ring, cand, status, cpuRun)' /\ FlagsOK' /\ SleepersListed' /\ DueOK'
  BY <1>1 DEF IInv, TablesOK, FlagsOK, SleepersListed, DueOK, Started
<1> QED BY <1>6, <1>7, <1>8, <1>9 DEF IInv

\* _WakeupTick takes an expired thread off the wakeup list; it becomes ready
\* unless it is suspended too.
LEMMA TickExpireStep ==
  ASSUME IInv, NEW c \in CPU, NEW v \in VCPU, TickExpire(c, v)
  PROVE  IInv'
<1>1. TypeOK /\ TablesOK(ring, cand, status, cpuRun) /\ FlagsOK
  BY DEF IInv
<1>2. UNCHANGED <<cur, left, klock, lockCnt, slock, ipi, hw, pc, saved, target, resched>>
  BY DEF TickExpire, locks, ipis, conts
<1>3. pc[c] = "tick" /\ klock = c
  BY DEF TickExpire, IInv, PhaseOK
<1>4. v \in wakeq /\ "DELAY" \in status[v]
  BY DEF TickExpire, IInv, DueOK, SleepersListed
<1>5. /\ status' = [status EXCEPT ![v] = @ \ {"DELAY"}]
      /\ due' = due \ {v} /\ wakeq' = wakeq \ {v}
  BY DEF TickExpire, Unlisted
<1>6. /\ status' \in FlagType /\ status'[v] = status[v] \ {"DELAY"} /\ status[v] # {}
      /\ \A w \in VCPU \ {v} : status'[w] = status[w]
  BY <1>1, <1>4, <1>5 DEF TypeOK, FlagType
<1>7. /\ ring' \in RingType /\ rot' \in [CPU -> BOOLEAN]
      /\ TablesOK(ring', cand, status', cpuRun)
      /\ UNCHANGED <<cand, counter, cpuRun>>
  <2>1. CASE status'[v] = {}
    <3>1. MakeReady(v)
      BY <2>1 DEF TickExpire
    <3>2. /\ ring' = AddReady(ring, v) /\ rot' \in [CPU -> BOOLEAN]
          /\ UNCHANGED <<cand, counter, cpuRun>>
      BY <1>1, <3>1 DEF MakeReady, TypeOK
    <3>3. ring' \in RingType /\ TablesOK(ring', cand, status', cpuRun)
      BY <1>1, <1>6, <2>1, <3>2, ReadyStep
    <3> QED BY <3>2, <3>3
  <2>2. CASE status'[v] # {}
    <3>1. UNCHANGED <<ring, cand, rot, counter, cpuRun>>
      BY <2>2 DEF TickExpire, tables
    <3>2. TablesTyped(ring, cand, counter, cpuRun) /\ status \in FlagType
      BY <1>1, TypedTables DEF TypeOK, FlagType
    <3>3. TablesOK(ring, cand, status', cpuRun)
      BY <1>1, <1>6, <2>2, <3>2, FlagTables DEF TablesTyped
    <3> QED BY <1>1, <3>1, <3>2, <3>3 DEF TablesTyped, TypeOK
  <2> QED BY <2>1, <2>2
<1>8. TypeOK'
  BY <1>1, <1>2, <1>5, <1>6, <1>7 DEF TypeOK, RingType, FlagType
<1>9. TablesOK(ring, cand, status, cpuRun)'
  BY <1>7
<1>10. /\ \A w \in VCPU : Started(w)' = Started(w)
       /\ Boot \subseteq VCPU
  <2>1. Boot \subseteq VCPU
    BY VcpuAssumption, IdleAssumption DEF Boot, Idles
  <2> QED BY <1>6, <2>1 DEF Started
<1>11. PhaseOK'
  <2>1. \A d \in CPU : Active(d) => cur[d] = cand[d]
    BY <1>3 DEF IInv, PhaseOK
  <2> QED BY <1>2, <1>7, <1>10, <2>1 DEF IInv, PhaseOK, Active
<1>12. FlagsOK'
  <2>1. \A d \in CPU : IdleOf[d] \in VCPU \ {v}
    BY <1>1, <1>4, IdleAssumption DEF FlagsOK
  <2>2. \A w \in VCPU : ~Started(w) => w # v
    BY <1>1, <1>4 DEF FlagsOK
  <2>3. \A w \in VCPU : target[w] # NoVcpu => target[w] \in VCPU
    BY <1>1 DEF TypeOK
  <2>4. \A w \in VCPU : "SUSPEND" \in status[w] => "SUSPEND" \in status'[w]
    BY <1>6
  <2> QED BY <1>1, <1>2, <1>6, <1>10, <2>1, <2>2, <2>3, <2>4 DEF FlagsOK
<1>13. SleepersListed'
  BY <1>5, <1>6 DEF IInv, SleepersListed
<1>14. DueOK' /\ LockAccounting'
  BY <1>2, <1>3, <1>5 DEF IInv, DueOK, LockAccounting
<1> QED BY <1>8, <1>9, <1>11, <1>12, <1>13, <1>14 DEF IInv

\* The end of schedTick leaves the kernel without a switch.
LEMMA TickSliceStep ==
  ASSUME IInv, NEW c \in CPU, TickSlice(c)
  PROVE  IInv'
<1>1. UNCHANGED <<status, ring, cand, cpuRun, cur, wakeq, left, due, slock,
                  saved, target, resched>>
  BY DEF TickSlice, timers, conts
<1>2. /\ pc[c] = "tick" /\ klock = c /\ due = {} /\ klock' = NoCpu /\ NoCpu \notin CPU
      /\ lockCnt' = [lockCnt EXCEPT ![cur[c]] = @ - 1]
      /\ pc' = [pc EXCEPT ![c] = "irqexit"]
  BY CpuAssumption DEF TickSlice, IInv, PhaseOK, CPU, NoCpu
<1>3. cur[c] = cand[c] /\ cur[c] \in VCPU
  BY <1>2 DEF IInv, PhaseOK, TypeOK, Active
<1>4. /\ pc' \in [CPU -> PcValue] /\ pc'[c] = "irqexit"
      /\ \A d \in CPU : d # c => pc'[d] = pc[d]
  BY <1>2 DEF IInv, TypeOK, PcValue
<1>5. ipi' \in [CPU -> BOOLEAN] /\ hw' \in [CPU -> BOOLEAN]
  BY IpiTyped DEF TickSlice, IInv
<1>6. rot' \in [CPU -> BOOLEAN] /\ counter' \in [VCPU -> 0 .. Slice]
  <2>1. \A v \in VCPU : counter[v] \in 0 .. Slice
                        /\ (counter[v] > 0 => counter[v] - 1 \in 0 .. Slice)
    BY SliceAssumption DEF IInv, TypeOK
  <2>2. rot' \in [CPU -> BOOLEAN]
    BY DEF TickSlice, IInv, TypeOK
  <2>3. counter' \in [VCPU -> 0 .. Slice]
    BY <2>1 DEF TickSlice, CountedDown
  <2> QED BY <2>2, <2>3
<1>7. lockCnt' \in [VCPU -> Nat] /\ LockAccounting'
  <2>1. \A w \in VCPU : lockCnt[w] = (IF cur[c] = w THEN 1 ELSE 0)
                                     + (IF slock = w THEN 1 ELSE 0)
    BY <1>2 DEF IInv, LockAccounting
  <2>2. lockCnt \in [VCPU -> Nat]
    BY DEF IInv, TypeOK
  <2>3. lockCnt[cur[c]] - 1 = IF slock = cur[c] THEN 1 ELSE 0
    BY <1>3, <2>1
  <2>4. \A w \in VCPU : lockCnt'[w] = IF slock = w THEN 1 ELSE 0
    BY <1>2, <1>3, <2>1, <2>2, <2>3
  <2>5. \A d \in CPU : klock' # d
    BY <1>2
  <2>6. lockCnt' \in [VCPU -> Nat]
    BY <1>2, <1>3, <2>2, <2>3
  <2>7. LockAccounting'
    BY <1>1, <2>4, <2>5 DEF LockAccounting
  <2> QED BY <2>6, <2>7
<1>8. TypeOK'
  BY <1>1, <1>2, <1>4, <1>5, <1>6, <1>7 DEF IInv, TypeOK
<1>9. TablesOK(ring, cand, status, cpuRun)' /\ FlagsOK' /\ SleepersListed' /\ DueOK'
  BY <1>1, <1>2 DEF IInv, TablesOK, FlagsOK, SleepersListed, DueOK, Started
<1>10. PhaseOK'
  <2>1. \A d \in CPU : pc'[d] \notin {"kernel", "tick"} /\ klock' # d
    BY <1>2, <1>4 DEF IInv, PhaseOK
  <2>2. \A d \in CPU : Active(d)' <=> Active(d)
    BY <1>2, <1>4 DEF Active
  <2>3. \A d \in CPU : Active(d) => cur[d] = cand[d]
    BY <1>2 DEF IInv, PhaseOK
  <2> QED BY <1>1, <2>1, <2>2, <2>3 DEF IInv, PhaseOK, Started
<1> QED BY <1>7, <1>8, <1>9, <1>10 DEF IInv

\* The two ways out of the kernel call schedule() with the kernel lock counted
\* once for the running thread, and the other lock if it holds that.
LEMMA LeaveHolds ==
  ASSUME IInv, NEW c \in CPU, KernelExit(c) \/ IrqExit(c)
  PROVE  \E holds \in [VCPU -> Nat] :
            /\ holds[cur[c]] = IF slock = cur[c] THEN 2 ELSE 1
            /\ \A v \in VCPU : v # cur[c] => holds[v] = IF slock = v THEN 1 ELSE 0
            /\ ScheduleAndUnlock(c, holds)
            /\ UNCHANGED <<status, timers, slock, target, resched>>
<1>1. Active(c) /\ cur[c] \in VCPU
  BY DEF KernelExit, IrqExit, Active, IInv, PhaseOK, TypeOK
<1>2. lockCnt \in [VCPU -> Nat]
  BY DEF IInv, TypeOK
<1>3. NoCpu \notin CPU
  BY CpuAssumption DEF NoCpu, CPU
<1>4. \A v \in VCPU : lockCnt[v] = (IF \E d \in CPU : klock = d /\ cur[d] = v THEN 1 ELSE 0)
                                   + (IF slock = v THEN 1 ELSE 0)
  BY DEF IInv, LockAccounting
<1>5. CASE KernelExit(c)
  <2>1. pc[c] = "kernel" /\ klock = c
    BY <1>5 DEF KernelExit, IInv, PhaseOK
  <2>2. \A v \in VCPU : lockCnt[v] = (IF cur[c] = v THEN 1 ELSE 0)
                                     + (IF slock = v THEN 1 ELSE 0)
    BY <1>4, <2>1
  <2>3. /\ lockCnt[cur[c]] = IF slock = cur[c] THEN 2 ELSE 1
        /\ \A v \in VCPU : v # cur[c] => lockCnt[v] = IF slock = v THEN 1 ELSE 0
    BY <1>1, <2>2
  <2>4. /\ ScheduleAndUnlock(c, lockCnt)
        /\ UNCHANGED <<status, timers, slock, target, resched>>
    BY <1>5 DEF KernelExit
  <2> QED BY <1>2, <2>3, <2>4
<1>6. CASE IrqExit(c)
  <2> DEFINE holds == [lockCnt EXCEPT ![cur[c]] = @ + 1]
  <2>1. pc[c] = "irqexit" /\ klock = NoCpu
    BY <1>6 DEF IrqExit
  <2>2. \A v \in VCPU : lockCnt[v] = IF slock = v THEN 1 ELSE 0
    BY <1>3, <1>4, <2>1
  <2>3. /\ holds \in [VCPU -> Nat]
        /\ holds[cur[c]] = IF slock = cur[c] THEN 2 ELSE 1
        /\ \A v \in VCPU : v # cur[c] => holds[v] = IF slock = v THEN 1 ELSE 0
    BY <1>1, <1>2, <2>2
  <2>4. /\ ScheduleAndUnlock(c, holds)
        /\ UNCHANGED <<status, timers, slock, target, resched>>
    BY <1>6 DEF IrqExit
  <2> HIDE DEF holds
  <2> QED BY <2>3, <2>4
<1> QED BY <1>5, <1>6

\* Leaving the kernel, from a call or from an interrupt, keeps the invariant.
LEMMA LeaveStep ==
  ASSUME IInv, NEW c \in CPU, KernelExit(c) \/ IrqExit(c)
  PROVE  IInv'
<1>1. pc[c] \in {"kernel", "irqexit"} /\ klock \in {c, NoCpu}
  BY DEF KernelExit, IrqExit, IInv, PhaseOK
<1> QED BY <1>1, LeaveHolds, ScheduleStep

\* Steps that touch neither the tables nor the kernel lock.
LEMMA OutsideStep ==
  ASSUME IInv, NEW c \in CPU,
         CtxStart(c) \/ Relock(c) \/ Ipi(c) \/ SmpIpiProc(c) \/ TickIrq(c)
  PROVE  IInv'
<1>1. UNCHANGED <<status, tables, cur, timers, locks, conts>>
  BY DEF CtxStart, Relock, Ipi, SmpIpiProc, TickIrq, ipis
<1>2. ipi' \in [CPU -> BOOLEAN] /\ hw' \in [CPU -> BOOLEAN]
  BY DEF CtxStart, Relock, Ipi, SmpIpiProc, TickIrq, ipis, IInv, TypeOK
<1>3. PICK q \in {"run", "ipi", "irqexit", "tickirq"} : pc' = [pc EXCEPT ![c] = q]
  BY DEF CtxStart, Relock, Ipi, SmpIpiProc, TickIrq, Enter
<1>4. pc[c] \notin {"off", "kernel", "tick"}
  BY DEF CtxStart, Relock, Ipi, SmpIpiProc, TickIrq, Enter, Running
<1>5. q \in PcValue /\ q \notin {"off", "kernel", "tick"}
  BY DEF PcValue
<1> QED BY <1>1, <1>2, <1>3, <1>4, <1>5, PcStep

\* Every call a thread makes keeps the invariant.
LEMMA CallOK ==
  ASSUME IInv, ~StrayWakeup, NEW c \in CPU, Call(c)
  PROVE  IInv'
<1>1. ASSUME NEW ticks \in Delays, Sleep(c, ticks) PROVE IInv'
  <2>1. left' \in [VCPU -> Nat]
    BY <1>1, SliceAssumption DEF Sleep, IInv, TypeOK
  <2>2. /\ cur[c] \notin Idles /\ slock # cur[c] /\ target[cur[c]] = NoVcpu
        /\ KernelEnter(c) /\ CandTableTryDel(cur[c])
        /\ status' = [status EXCEPT ![cur[c]] = @ \cup {"DELAY"}]
        /\ wakeq' = wakeq \cup {cur[c]}
        /\ UNCHANGED <<due, cur, ipis, conts>>
    BY <1>1 DEF Sleep, Calls
  <2> QED BY <2>1, <2>2, BlockStep
<1>2. ASSUME Suspend(c) PROVE IInv'
  <2>1. left' \in [VCPU -> Nat]
    BY <1>2 DEF Suspend, IInv, TypeOK, timers
  <2>2. /\ cur[c] \notin Idles /\ slock # cur[c] /\ target[cur[c]] = NoVcpu
        /\ KernelEnter(c) /\ CandTableTryDel(cur[c])
        /\ status' = [status EXCEPT ![cur[c]] = @ \cup {"SUSPEND"}]
        /\ wakeq' = wakeq
        /\ UNCHANGED <<due, cur, ipis, conts>>
    BY <1>2 DEF Suspend, Calls, timers
  <2> QED BY <2>1, <2>2, BlockStep
<1>3. ASSUME NEW t \in VCPU, Start(c, t) PROVE IInv'
  BY <1>3, StartStep DEF Start
<1> QED BY <1>1, <1>2, <1>3, YieldStep, CallWakeupStep, SpinStep DEF Call

\* IInv is inductive: every step keeps it, if only suspended threads are woken.
LEMMA StepOK ==
  ASSUME IInv, ~StrayWakeup, [Next]_vars
  PROVE  IInv'
<1>1. ASSUME NEW v \in VCPU, BootStart(v) PROVE IInv'
  BY <1>1, StartStep DEF BootStart
<1>2. ASSUME NEW c \in CPU, Kernel(c) PROVE IInv'
  BY <1>2, WakeupStep, KernelSchedStep, LeaveStep, OutsideStep, TickBeginStep,
     TickExpireStep, TickSliceStep DEF Kernel
<1>3. CASE UNCHANGED vars
  <2>1. UNCHANGED <<status, ring, cand, rot, cur, counter, cpuRun, wakeq, left, due,
                    klock, lockCnt, slock, ipi, hw, pc, saved, target, resched>>
    BY <1>3 DEF vars, tables, timers, locks, ipis, conts
  <2>2. TypeOK' /\ TablesOK(ring, cand, status, cpuRun)' /\ FlagsOK' /\ SleepersListed'
    BY <2>1 DEF IInv, TypeOK, TablesOK, FlagsOK, SleepersListed, Started
  <2>3. PhaseOK' /\ DueOK' /\ LockAccounting'
    BY <2>1 DEF IInv, PhaseOK, DueOK, LockAccounting, Active, Started
  <2> QED BY <2>2, <2>3 DEF IInv
<1> QED BY <1>1, <1>2, <1>3, ActiveCpuStep, OutsideStep, CallOK DEF Next

\* The tables, candidates, running threads, lock counts and sleepers stay in
\* step through every interleaving of calls, ticks and interrupts.
THEOREM Inductive == ASSUME ~StrayWakeup PROVE Spec => []IInv
<1>1. IInv /\ [Next]_vars => IInv'
  BY StepOK
<1> QED BY <1>1, InitOK, PTL DEF Spec

----------------------------------------------------------------------------
(* What follows from IInv.                                                   *)

LEMMA OnePlaceHolds == IInv => OnePlace
BY DEF IInv, OnePlace, RingsReady, IsCand, InRing, TablesOK

\* A processor outside the kernel runs its candidate.
LEMMA RunsCandidateHolds == IInv => RunsCandidate
BY DEF IInv, RunsCandidate, PhaseOK

\* The idle thread of an active processor is its candidate or waits in its ring.
LEMMA IdleAtHandHolds == IInv => IdleAtHand
<1> SUFFICES ASSUME IInv, NEW c \in CPU, Active(c)
             PROVE  cand[c] # NoVcpu /\ (cand[c] = IdleOf[c] \/ InRing(IdleOf[c]))
  BY DEF IdleAtHand
<1> QED BY IdleReady DEF IInv, PhaseOK

\* A thread that is switched from is blocked, so nobody else can have taken it.
LEMMA OneCpuHolds == IInv => OneCpu
<1> SUFFICES ASSUME IInv, NEW c \in CPU, NEW d \in CPU, cur[c] = cur[d], cur[c] # NoVcpu
             PROVE  c = d
  BY DEF OneCpu
<1>1. Active(c) /\ Active(d)
  BY DEF IInv, PhaseOK
<1>2. CASE cur[c] = cand[c] /\ cur[d] = cand[d]
  <2>1. cpuRun[cand[c]] = c /\ cpuRun[cand[d]] = d
    BY <1>2 DEF IInv, TablesOK
  <2> QED BY <1>2, <2>1
<1>3. CASE cur[c] # cand[c] /\ cur[d] # cand[d]
  BY <1>1, <1>3 DEF IInv, PhaseOK
<1>4. ASSUME NEW x \in CPU, NEW y \in CPU, Active(x), cur[x] # cand[x],
             cur[y] = cand[y], cur[x] = cur[y], cur[x] # NoVcpu
      PROVE  FALSE
  <2>1. status[cur[x]] # {}
    BY <1>4 DEF IInv, PhaseOK
  <2>2. status[cand[y]] = {}
    BY <1>4 DEF IInv, TablesOK
  <2> QED BY <1>4, <2>1, <2>2
<1> QED BY <1>1, <1>2, <1>3, <1>4

\* Every variable keeps its type.
THEOREM TypesOK == ASSUME ~StrayWakeup PROVE Spec => []TypeOK
BY Inductive, PTL DEF IInv

\* A thread is in the scheduler's tables exactly when it is ready, in one place.
THEOREM OnePlaceOK == ASSUME ~StrayWakeup PROVE Spec => []OnePlace
BY Inductive, OnePlaceHolds, PTL

\* No two processors run one thread.
THEOREM OneCpuOK == ASSUME ~StrayWakeup PROVE Spec => []OneCpu
BY Inductive, OneCpuHolds, PTL

\* The scheduler never searches ready tables that are empty.
THEOREM IdleAtHandOK == ASSUME ~StrayWakeup PROVE Spec => []IdleAtHand
BY Inductive, IdleAtHandHolds, PTL

\* Nobody leaves the kernel with a switch still owed.
THEOREM RunsCandidateOK == ASSUME ~StrayWakeup PROVE Spec => []RunsCandidate
BY Inductive, RunsCandidateHolds, PTL

\* The lock counters balance across the hand-over of the kernel lock.
THEOREM LockAccountingOK == ASSUME ~StrayWakeup PROVE Spec => []LockAccounting
BY Inductive, PTL DEF IInv

\* The wakeup list is the set of threads in a timed sleep.
THEOREM SleepersListedOK == ASSUME ~StrayWakeup PROVE Spec => []SleepersListed
BY Inductive, PTL DEF IInv
----------------------------------------------------------------------------
(* What a step never does.                                                   *)

\* Only these steps change the thread a processor runs.
LEMMA CurSteps ==
  ASSUME [Next]_vars, cur' # cur
  PROVE  \E c \in CPU : ActiveCpu(c) \/ KernelExit(c) \/ IrqExit(c)
<1>1. ASSUME NEW c \in CPU, Call(c) PROVE UNCHANGED cur
  BY <1>1 DEF Call, Sleep, Suspend, Yield, CallWakeup, Start, SpinLock, SpinUnlock
<1>2. ASSUME NEW c \in CPU, Kernel(c), ~KernelExit(c), ~IrqExit(c) PROVE UNCHANGED cur
  BY <1>2 DEF Kernel, Wakeup, KernelSched, Relock, SmpIpiProc, TickBegin, TickExpire, TickSlice
<1> QED BY <1>1, <1>2 DEF Next, vars, BootStart, CtxStart, Ipi, TickIrq

\* A switch in schedule(): the processor takes its new candidate, and not while
\* another lock than the kernel lock is held for the thread it runs.
LEMMA SwitchStep ==
  ASSUME IInv, NEW c \in CPU, KernelExit(c) \/ IrqExit(c)
  PROVE  /\ \A d \in CPU : d # c => cur'[d] = cur[d]
         /\ cur'[c] # cur[c] => /\ slock # cur[c] /\ cur'[c] = cand'[c]
                                /\ cand' = cand \/ CandTableUpdate(c)
<1>1. PICK holds \in [VCPU -> Nat] :
        /\ holds[cur[c]] = IF slock = cur[c] THEN 2 ELSE 1
        /\ ScheduleAndUnlock(c, holds)
  BY LeaveHolds
<1>2. cur[c] \in VCPU /\ cur \in [CPU -> VCPU \cup {NoVcpu}]
  BY DEF KernelExit, IrqExit, IInv, PhaseOK, TypeOK, Active
<1>3. cur' = [cur EXCEPT ![c] = IF holds[cur[c]] <= 1 THEN cand'[c] ELSE cur[c]]
  BY <1>1 DEF ScheduleAndUnlock, MaySwitch
<1>4. cand' = cand \/ CandTableUpdate(c)
  BY <1>1 DEF ScheduleAndUnlock, tables
<1> QED BY <1>1, <1>2, <1>3, <1>4

\* The thread a flush gives to processor c has the priority that was found.
LEMMA FlushPrio ==
  ASSUME IInv, NEW c \in CPU, cand[c] # NoVcpu, HasReady(c),
         Fill(c, AddReady(ring, cand[c]), BestKey(c))
  PROVE  Prio[cand'[c]] = BestPrio(c)
<1> DEFINE r == AddReady(ring, cand[c])
           k == BestKey(c)
           s == Sought(r[k])
<1>1. /\ status \in FlagType /\ TablesTyped(ring, cand, counter, cpuRun)
      /\ TablesOK(ring, cand, status, cpuRun) /\ TypeOK
  BY TypedTables DEF IInv, TypeOK, FlagType
<1>2. HasReady(c) /\ Fill(c, r, k)
  OBVIOUS
<1>3. /\ r \in RingType
      /\ TablesOK(r, [cand EXCEPT ![c] = NoVcpu], status, cpuRun)
  BY <1>1, VacateTables DEF TablesTyped
<1>4. k \in Table \X PRIO /\ ring[k] # <<>>
  BY <1>1, <1>2, BestKeyFacts DEF TablesTyped
<1>5. r[k] # <<>> /\ r[k] \in Seq(VCPU)
  <2>1. ring[k] \in Seq(VCPU) /\ cand[c] \in VCPU /\ ring \in [Table \X PRIO -> Seq(VCPU)]
    BY <1>1, <1>4 DEF TablesTyped, RingType, CandType
  <2>2. r[k] = ring[k] \/ r[k] = AddAhead(ring[k], cand[c])
    BY <1>4, <2>1 DEF AddReady
  <2>3. AddAhead(ring[k], cand[c]) # <<>>
    BY <2>1 DEF AddAhead
  <2> QED BY <1>3, <1>4, <2>2, <2>3 DEF RingType
<1>6. s \in Seq(VCPU) /\ s # <<>> /\ Members(s) = Members(r[k])
  BY <1>5, RotatedFacts DEF Sought
<1>7. cand'[c] = s[1]
  BY <1>1, <1>2 DEF Fill, TablesTyped, CandType
<1> HIDE DEF s, r, k
<1>8. s[1] \in Members(r[k])
  BY <1>6, TailFacts
<1>9. Key(s[1]) = k
  BY <1>3, <1>4, <1>8 DEF TablesOK
<1>10. Prio[s[1]] = k[2]
  BY <1>9 DEF Key
<1> QED BY <1>7, <1>10 DEF BestPrio, k

\* A thread in whose name a spin lock is held keeps its processor.
THEOREM HolderOK == ASSUME ~StrayWakeup PROVE Spec => HolderKeepsCpu
<1>1. ASSUME IInv, [Next]_vars
      PROVE  [\A c \in CPU : slock # NoVcpu /\ slock = cur[c] => cur'[c] = cur[c]]_vars
  <2> SUFFICES ASSUME NEW c \in CPU, slock # NoVcpu, slock = cur[c], cur'[c] # cur[c]
               PROVE  FALSE
    OBVIOUS
  <2>1. PICK d \in CPU : ActiveCpu(d) \/ KernelExit(d) \/ IrqExit(d)
    BY <1>1, CurSteps
  <2>2. CASE ActiveCpu(d)
    <3>1. cur[d] = NoVcpu
      BY <1>1, <2>2 DEF ActiveCpu, IInv, PhaseOK, Active
    <3>2. cur'[c] = cur[c]
      BY <1>1, <2>2, <3>1 DEF ActiveCpu, IInv, TypeOK
    <3> QED BY <3>2
  <2>3. CASE KernelExit(d) \/ IrqExit(d)
    BY <1>1, <2>3, SwitchStep
  <2> QED BY <2>1, <2>2, <2>3
<1> QED BY <1>1, Inductive, PTL DEF Spec, HolderKeepsCpu

\* A ready thread is preempted only by a more urgent one, or by an equal one
\* when its slice is used up.
THEOREM FairPreemptionOK == ASSUME ~StrayWakeup PROVE Spec => FairPreemption
<1> DEFINE A == \A c \in CPU :
                  Active(c) /\ cur'[c] # cur[c] /\ status[cur[c]] = {} =>
                      \/ Prio[cur'[c]] < Prio[cur[c]]
                      \/ Prio[cur'[c]] = Prio[cur[c]] /\ counter[cur[c]] = 0
<1>1. ASSUME IInv, [Next]_vars
      PROVE  [A]_vars
  <2> SUFFICES ASSUME NEW c \in CPU, Active(c), cur'[c] # cur[c], status[cur[c]] = {}
               PROVE  \/ Prio[cur'[c]] < Prio[cur[c]]
                      \/ Prio[cur'[c]] = Prio[cur[c]] /\ counter[cur[c]] = 0
    OBVIOUS
  <2>1. PICK d \in CPU : ActiveCpu(d) \/ KernelExit(d) \/ IrqExit(d)
    BY <1>1, CurSteps
  <2>2. CASE ActiveCpu(d)
    <3>1. c # d
      BY <2>2 DEF ActiveCpu, Active
    <3> QED BY <1>1, <2>2, <3>1 DEF ActiveCpu, IInv, TypeOK
  <2>3. CASE KernelExit(d) \/ IrqExit(d)
    <3>1. d = c /\ cur'[c] = cand'[c] /\ (cand' = cand \/ CandTableUpdate(c))
      BY <1>1, <2>3, SwitchStep
    <3>2. cur[c] = cand[c] /\ cand[c] # NoVcpu /\ cand[c] \in VCPU
      BY <1>1 DEF IInv, PhaseOK, TypeOK
    <3>3. CandTableUpdate(c) /\ cand'[c] # cand[c]
      BY <3>1, <3>2
    <3>4. NeedFlush(c) /\ Prio[cand'[c]] = BestPrio(c)
      <4>1. HasReady(c) /\ NeedFlush(c) /\ Fill(c, AddReady(ring, cand[c]), BestKey(c))
        BY <3>2, <3>3 DEF CandTableUpdate
      <4> QED BY <1>1, <3>2, <4>1, FlushPrio
    <3>5. cand'[c] \in VCPU
      BY <1>1, <3>2, <3>3, UpdateStep DEF IInv, Taken
    <3>6. Prio[cand'[c]] \in Nat /\ Prio[cand[c]] \in Nat
      BY <3>2, <3>5, PrioAssumption DEF PRIO
    <3> QED BY <3>1, <3>2, <3>4, <3>6 DEF NeedFlush
  <2> QED BY <2>1, <2>2, <2>3
<1> QED BY <1>1, Inductive, PTL DEF Spec, FairPreemption

\* A pending scheduling interrupt stays on its way until its handler clears the bit.
LEMMA IpiKept ==
  ASSUME TypeOK, IpiNotLost, [Next]_vars
  PROVE  IpiNotLost'
<1> SUFFICES ASSUME NEW c \in CPU, ipi'[c] PROVE hw'[c] \/ pc'[c] = "ipi"
  BY DEF IpiNotLost
<1>1. ipi[c] => hw[c] \/ pc[c] = "ipi"
  BY DEF IpiNotLost
<1>2. ASSUME UNCHANGED ipis, pc[c] = "ipi" => pc'[c] = "ipi"
      PROVE  hw'[c] \/ pc'[c] = "ipi"
  BY <1>1, <1>2 DEF ipis
<1>3. ASSUME NEW d \in CPU, NEW q, UNCHANGED ipis, pc[d] # "ipi", pc' = [pc EXCEPT ![d] = q]
      PROVE  hw'[c] \/ pc'[c] = "ipi"
  BY <1>2, <1>3 DEF TypeOK
<1>4. ASSUME NEW d \in CPU, NEW r, NEW q, IpiLowCandCpu(d, r), pc[d] # "ipi",
             pc' = [pc EXCEPT ![d] = q]
      PROVE  hw'[c] \/ pc'[c] = "ipi"
  <2>1. ipi'[c] = (ipi[c] \/ c \in LowCandCpu(d, r)) /\ hw'[c] = (hw[c] \/ c \in LowCandCpu(d, r))
    BY <1>4 DEF IpiLowCandCpu
  <2>2. pc[c] = "ipi" => pc'[c] = "ipi"
    BY <1>4 DEF TypeOK
  <2> QED BY <1>1, <2>1, <2>2
<1>5. ASSUME NEW d \in CPU, NEW holds, ScheduleAndUnlock(d, holds), pc[d] # "ipi"
      PROVE  hw'[c] \/ pc'[c] = "ipi"
  <2>1. pc' = [pc EXCEPT ![d] = "relock"] \/ pc' = [pc EXCEPT ![d] = "run"]
    BY <1>5 DEF ScheduleAndUnlock
  <2>2. UNCHANGED ipis \/ IpiLowCandCpu(d, rot')
    BY <1>5 DEF ScheduleAndUnlock
  <2> QED BY <1>3, <1>4, <1>5, <2>1, <2>2
<1>6. ASSUME NEW v \in VCPU, BootStart(v) PROVE hw'[c] \/ pc'[c] = "ipi"
  BY <1>2, <1>6 DEF BootStart
<1>7. ASSUME NEW d \in CPU, Call(d) PROVE hw'[c] \/ pc'[c] = "ipi"
  <2>1. UNCHANGED ipis /\ (UNCHANGED pc \/ (pc[d] = "run" /\ pc' = [pc EXCEPT ![d] = "kernel"]))
    BY <1>7 DEF Call, Sleep, Suspend, Yield, CallWakeup, Start, SpinLock, SpinUnlock,
                KernelEnter, Running
  <2> QED BY <1>2, <1>3, <2>1
<1>8. ASSUME NEW d \in CPU, ActiveCpu(d) \/ CtxStart(d) \/ Relock(d) \/ TickIrq(d) \/ TickBegin(d)
                            \/ Wakeup(d)
      PROVE  hw'[c] \/ pc'[c] = "ipi"
  <2>1. UNCHANGED ipis /\ pc[d] # "ipi" /\ \E q : pc' = [pc EXCEPT ![d] = q]
    BY <1>8 DEF ActiveCpu, CtxStart, Relock, TickIrq, TickBegin, Wakeup, KernelEnter, Running, Enter
  <2> QED BY <1>3, <2>1
<1>9. ASSUME NEW d \in CPU, KernelExit(d) \/ IrqExit(d) PROVE hw'[c] \/ pc'[c] = "ipi"
  BY <1>5, <1>9 DEF KernelExit, IrqExit
<1>10. ASSUME NEW d \in CPU, KernelSched(d) \/ TickSlice(d) PROVE hw'[c] \/ pc'[c] = "ipi"
  <2>1. pc[d] # "ipi" /\ \E q, r : IpiLowCandCpu(d, r) /\ pc' = [pc EXCEPT ![d] = q]
    BY <1>10 DEF KernelSched, TickSlice, KernelEnter, Running
  <2> QED BY <1>4, <2>1
<1>11. ASSUME NEW d \in CPU, \E v \in VCPU : TickExpire(d, v) PROVE hw'[c] \/ pc'[c] = "ipi"
  BY <1>2, <1>11 DEF TickExpire
<1>12. ASSUME NEW d \in CPU, Ipi(d) PROVE hw'[c] \/ pc'[c] = "ipi"
  <2>1. pc' = [pc EXCEPT ![d] = "ipi"] /\ hw' = [hw EXCEPT ![d] = FALSE] /\ ipi' = ipi
    BY <1>12 DEF Ipi, Enter
  <2> QED BY <1>1, <2>1 DEF TypeOK
<1>13. ASSUME NEW d \in CPU, SmpIpiProc(d) PROVE hw'[c] \/ pc'[c] = "ipi"
  <2>1. pc' = [pc EXCEPT ![d] = "irqexit"] /\ ipi' = [ipi EXCEPT ![d] = FALSE] /\ hw' = hw
    BY <1>13 DEF SmpIpiProc
  <2> QED BY <1>1, <2>1 DEF TypeOK
<1>14. CASE UNCHANGED vars
  BY <1>2, <1>14 DEF vars
<1> QED BY <1>6, <1>7, <1>8, <1>9, <1>10, <1>11, <1>12, <1>13, <1>14 DEF Next, Kernel

\* A pending scheduling interrupt is never without the interrupt that serves it.
THEOREM IpiNotLostOK == ASSUME ~StrayWakeup PROVE Spec => []IpiNotLost
<1>1. Init => IpiNotLost
  BY DEF Init, IpiNotLost
<1>2. TypeOK /\ IpiNotLost /\ [Next]_vars => IpiNotLost'
  BY IpiKept
<1> QED BY <1>1, <1>2, TypesOK, PTL DEF Spec
-----------------------------------------------------------------------------
(* MatrixSched implements Dispatcher: every step of the scheduler releases a *)
(* thread, lets a processor take or exchange its thread for a most urgent    *)
(* one, or is not visible.                                                   *)

\* The stage of a thread, from its flags and from whether it is a candidate.
StageOf(flags, isCand) ==
    CASE "INIT" \in flags -> "new"
      [] flags = {}       -> IF isCand THEN "running" ELSE "ready"
      [] OTHER            -> "blocked"

\* The stage of a thread, by its flags and by whether it is a candidate.
LEMMA StageIs ==
  /\ Stage \in [VCPU -> {"new", "ready", "running", "blocked"}]
  /\ \A v \in VCPU : Stage[v] = StageOf(status[v], IsCand(v))
BY DEF Stage, StageOf

\* The same in the next state.
LEMMA StageIsNext ==
  \A v \in VCPU : Stage'[v] = StageOf(status'[v], IsCand(v)')
BY DEF Stage, StageOf

\* Two functions on the threads that agree everywhere are equal.
LEMMA StageEqual ==
  ASSUME NEW f \in [VCPU -> {"new", "ready", "running", "blocked"}],
         \A v \in VCPU : Stage'[v] = f[v]
  PROVE  Stage' = f
<1>1. Stage' = [v \in VCPU |-> Stage'[v]]
  BY DEF Stage
<1>2. f = [v \in VCPU |-> f[v]]
  OBVIOUS
<1> QED BY <1>1, <1>2

\* A step that changes neither flags nor candidates is not visible.
LEMMA Invisible ==
  ASSUME UNCHANGED <<status, cand>>
  PROVE  UNCHANGED Abs!vars
BY DEF Abs!vars, Stage, IsCand

\* A blocked or new thread that becomes ready is released.
LEMMA ReleaseStep ==
  ASSUME IInv, NEW v \in VCPU, status[v] # {}, status'[v] = {}, UNCHANGED cand,
         \A w \in VCPU \ {v} : status'[w] = status[w]
  PROVE  Abs!Release(v)
<1>1. ~IsCand(v) /\ ~IsCand(v)'
  <2>1. \A c \in CPU : cand[c] # v
    BY VcpuAssumption DEF IInv, TablesOK
  <2> QED BY <2>1 DEF IsCand
<1>2. Stage[v] \in {"new", "blocked"}
  BY StageIs DEF StageOf
<1>3. Stage'[v] = "ready"
  BY <1>1, StageIsNext DEF StageOf
<1>4. \A w \in VCPU \ {v} : Stage'[w] = Stage[w]
  BY StageIs, StageIsNext DEF IsCand, StageOf
<1> DEFINE f == [Stage EXCEPT ![v] = "ready"]
<1>5. f \in [VCPU -> {"new", "ready", "running", "blocked"}] /\ \A w \in VCPU : Stage'[w] = f[w]
  BY <1>3, <1>4, StageIs
<1> HIDE DEF f
<1>6. Stage' = f
  BY <1>5, StageEqual
<1> QED BY <1>2, <1>6 DEF Abs!Release, f
----------------------------------------------------------------------------
(* A processor takes a most urgent thread.                                   *)

\* No ring of the two tables of processor c is more urgent than the one
\* _ReadyTableGet finds.
LEMMA BestPrioLeast ==
  ASSUME NEW c \in CPU, NEW t \in {c, Global}, NEW p \in Bitmap(ring, t)
  PROVE  BestPrio(c) <= p
<1> DEFINE local  == Bitmap(ring, c)
           global == Bitmap(ring, Global)
<1>1. local \subseteq Nat /\ global \subseteq Nat
  BY PrioAssumption DEF Bitmap, PRIO
<1>2. local # {} => Highest(local) \in Nat /\ \A q \in local : Highest(local) <= q
  BY <1>1, HighestIn
<1>3. global # {} => Highest(global) \in Nat /\ \A q \in global : Highest(global) <= q
  BY <1>1, HighestIn
<1>4. BestPrio(c) = IF local # {} /\ (global = {} \/ Highest(local) <= Highest(global))
                    THEN Highest(local) ELSE Highest(global)
  BY DEF BestPrio, BestKey
<1>5. p \in local \/ p \in global
  BY DEF Bitmap
<1> DEFINE l == Highest(local)
           g == Highest(global)
<1>6. (p \in local => l <= p) /\ (p \in global => g <= p)
  BY <1>2, <1>3
<1>7. (local # {} => l \in Nat) /\ (global # {} => g \in Nat)
  BY <1>2, <1>3
<1>8. p \in Nat /\ (p \in local => local # {}) /\ (p \in global => global # {})
  BY <1>1, <1>5
<1>9. BestPrio(c) = IF local # {} /\ (global = {} \/ l <= g) THEN l ELSE g
  BY <1>4
<1> HIDE DEF local, global, l, g
<1> QED BY <1>5, <1>6, <1>7, <1>8, <1>9

\* What waits for processor c is in a ring, none more urgent than the best one.
LEMMA WaitsBehind ==
  ASSUME IInv, NEW c \in CPU, NEW x \in Abs!Waiting(c)
  PROVE  HasReady(c) /\ BestPrio(c) <= Prio[x]
<1>1. x \in VCPU /\ Stage[x] = "ready" /\ Affinity[x] \in {c, NCpu}
  BY DEF Abs!Waiting, Abs!MayRun
<1>2. status[x] = {} /\ ~IsCand(x)
  BY <1>1, StageIs DEF StageOf
<1>3. x \in Members(ring[Key(x)])
  BY <1>1, <1>2 DEF IInv, TablesOK, IsCand
<1>4. ring[<<Affinity[x], Prio[x]>>] # <<>> /\ Prio[x] \in PRIO
  BY <1>1, <1>3, PrioAssumption DEF Key, Members
<1>5. Prio[x] \in Bitmap(ring, Affinity[x]) /\ Affinity[x] \in {c, Global}
  BY <1>1, <1>4 DEF Bitmap, Global
<1> QED BY <1>5, BestPrioLeast DEF HasReady

\* The header of the best ring is a most urgent thread for processor c.
LEMMA BestTaken ==
  ASSUME IInv, NEW c \in CPU, HasReady(c), NEW w \in Members(ring[BestKey(c)])
  PROVE  w \in Abs!Best(c)
<1> DEFINE k == BestKey(c)
<1>1. TypeOK /\ TablesOK(ring, cand, status, cpuRun) /\ ring \in RingType
  BY DEF IInv, TypeOK, RingType
<1>2. k \in Table \X PRIO /\ k[1] \in {c, NCpu}
  BY <1>1, BestKeyFacts
<1>3. w \in VCPU
  BY <1>1, <1>2 DEF Members, RingType
<1>4. Key(w) = k /\ status[w] = {} /\ ~IsCand(w)
  BY <1>1, <1>2 DEF TablesOK, IsCand
<1>5. Stage[w] = "ready" /\ Affinity[w] \in {c, NCpu} /\ Prio[w] = BestPrio(c)
  BY <1>2, <1>3, <1>4, StageIs DEF StageOf, Key, BestPrio
<1>6. \A x \in Abs!Waiting(c) : Prio[w] <= Prio[x]
  BY <1>5, WaitsBehind
<1> QED BY <1>3, <1>5, <1>6 DEF Abs!Best, Abs!Waiting, Abs!MayRun

\* What _CandTableFill gives to a processor comes from the ring that was found,
\* unless it is the candidate that was just put back.
LEMMA FillTakes ==
  ASSUME IInv, NEW c \in CPU, HasReady(c),
         \/ Fill(c, ring, BestKey(c))
         \/ /\ cand[c] # NoVcpu /\ cand'[c] # cand[c]
            /\ Fill(c, AddReady(ring, cand[c]), BestKey(c))
  PROVE  cand'[c] \in Abs!Best(c)
<1> DEFINE k == BestKey(c)
<1>1. TablesTyped(ring, cand, counter, cpuRun)
  BY TypedTables DEF IInv
<1>2. k \in Table \X PRIO /\ ring[k] # <<>> /\ ring[k] \in Seq(VCPU)
  BY <1>1, BestKeyFacts DEF TablesTyped, RingType
<1>3. PICK r : /\ Fill(c, r, k)
               /\ \/ r = ring
                  \/ r = AddReady(ring, cand[c]) /\ cand[c] # NoVcpu /\ cand'[c] # cand[c]
  OBVIOUS
<1>4. \/ r[k] = ring[k]
      \/ r[k] = AddAhead(ring[k], cand[c]) /\ cand[c] \in VCPU /\ cand'[c] # cand[c]
  <2>1. CASE r = ring
    BY <2>1
  <2>2. CASE r = AddReady(ring, cand[c]) /\ cand[c] # NoVcpu /\ cand'[c] # cand[c]
    <3>1. cand[c] \in VCPU /\ ring \in [Table \X PRIO -> Seq(VCPU)]
      BY <1>1, <2>2 DEF TablesTyped, CandType, RingType
    <3>2. r[k] = ring[k] \/ r[k] = AddAhead(ring[k], cand[c])
      <4>1. r = [ring EXCEPT ![Key(cand[c])] = AddAhead(ring[Key(cand[c])], cand[c])]
        BY <2>2 DEF AddReady
      <4>2. r[k] = IF k = Key(cand[c]) THEN AddAhead(ring[Key(cand[c])], cand[c]) ELSE ring[k]
        BY <1>2, <3>1, <4>1
      <4> QED BY <4>2
    <3> QED BY <2>2, <3>1, <3>2
  <2> QED BY <1>3, <2>1, <2>2
<1> HIDE DEF k
<1>5. /\ r[k] \in Seq(VCPU) /\ r[k] # <<>>
      /\ \/ Members(r[k]) = Members(ring[k])
         \/ Members(r[k]) = Members(ring[k]) \cup {cand[c]} /\ cand'[c] # cand[c]
  <2>1. CASE r[k] = ring[k]
    BY <1>2, <2>1
  <2>2. CASE r[k] = AddAhead(ring[k], cand[c]) /\ cand[c] \in VCPU /\ cand'[c] # cand[c]
    <3>1. /\ AddAhead(ring[k], cand[c]) \in Seq(VCPU)
          /\ Members(AddAhead(ring[k], cand[c])) = Members(ring[k]) \cup {cand[c]}
      <4>1. \A q \in Seq(VCPU), x \in VCPU :
               AddAhead(q, x) \in Seq(VCPU) /\ Members(AddAhead(q, x)) = Members(q) \cup {x}
        BY AddAheadFacts
      <4> QED BY <1>2, <2>2, <4>1
    <3>2. AddAhead(ring[k], cand[c]) # <<>>
      BY <1>2, <2>2 DEF AddAhead
    <3> QED BY <2>2, <3>1, <3>2
  <2> QED BY <1>4, <2>1, <2>2
<1> DEFINE s == Sought(r[k])
<1>6. s \in Seq(VCPU) /\ s # <<>> /\ Members(s) = Members(r[k])
  BY <1>5, RotatedFacts DEF Sought
<1>7. cand'[c] = s[1]
  BY <1>1, <1>3 DEF Fill, TablesTyped, CandType
<1> HIDE DEF s
<1>8. s[1] \in Members(s)
  BY <1>6, TailFacts
<1>9. cand'[c] \in Members(ring[k])
  BY <1>5, <1>6, <1>7, <1>8
<1> QED BY <1>9, BestTaken DEF k

\* Processor c replaces its candidate, or takes its first one: only the stages
\* of the two threads change.
LEMMA ExchangeStages ==
  ASSUME IInv, NEW c \in CPU, NEW w \in VCPU, cand' = [cand EXCEPT ![c] = w],
         Stage[w] = "ready", cand[c] # w, status'[w] = status[w],
         \A v \in VCPU : v # cand[c] => status'[v] = status[v]
  PROVE  /\ Stage'[w] = "running"
         /\ \A v \in VCPU : v # w /\ v # cand[c] => Stage'[v] = Stage[v]
         /\ cand[c] # NoVcpu => Stage'[cand[c]] = StageOf(status'[cand[c]], FALSE)
<1>1. cand \in [CPU -> VCPU \cup {NoVcpu}] /\ cand'[c] = w
      /\ \A d \in CPU : d # c => cand'[d] = cand[d]
  BY DEF IInv, TypeOK
<1>2. status[w] = {}
  BY StageIs DEF StageOf
<1>3. Stage'[w] = "running"
  BY <1>1, <1>2, StageIsNext DEF StageOf, IsCand
<1>4. ASSUME NEW v \in VCPU, v # w, v # cand[c] PROVE Stage'[v] = Stage[v]
  <2>1. IsCand(v)' <=> IsCand(v)
    BY <1>1, <1>4 DEF IsCand
  <2> QED BY <1>4, <2>1, StageIs, StageIsNext DEF StageOf
<1>5. ASSUME cand[c] # NoVcpu PROVE Stage'[cand[c]] = StageOf(status'[cand[c]], FALSE)
  <2>1. cand[c] \in VCPU
    BY <1>1, <1>5
  <2>2. \A d \in CPU : cand'[d] # cand[c]
    BY <1>1, <1>5 DEF IInv, TablesOK
  <2>3. ASSUME NEW u \in VCPU, u = cand[c]
        PROVE  Stage'[u] = StageOf(status'[u], FALSE)
    <3>1. ~IsCand(u)'
      BY <2>2, <2>3 DEF IsCand
    <3> QED BY <3>1, StageIsNext DEF StageOf
  <2> QED BY <2>1, <2>3
<1> QED BY <1>3, <1>4, <1>5

\* schedActiveCpu is the first choice of its processor.
LEMMA TakeStep ==
  ASSUME IInv, NEW c \in CPU, ActiveCpu(c)
  PROVE  \E w \in VCPU : Abs!Take(c, w)
<1> DEFINE w == cand'[c]
<1>1. TypeOK /\ TablesOK(ring, cand, status, cpuRun) /\ cand[c] = NoVcpu
      /\ \A v \in Boot : Started(v)
  BY DEF IInv, PhaseOK, ActiveCpu, Active
<1>2. HasReady(c)
  <2>1. IdleOf[c] # NoVcpu
    BY IdleAssumption, VcpuAssumption
  <2> QED BY <1>1, <2>1, IdleReady DEF IInv
<1>3. Fill(c, ring, BestKey(c)) /\ status' = status
  BY <1>1 DEF ActiveCpu, CandTableUpdate
<1>4. w \in Abs!Best(c)
  BY <1>2, <1>3, FillTakes
<1>5. w \in VCPU /\ Stage[w] = "ready"
  BY <1>4 DEF Abs!Best, Abs!Waiting
<1>6. cand' = [cand EXCEPT ![c] = w]
  BY <1>1, <1>3 DEF Fill, TypeOK
<1>7. w # NoVcpu /\ cand[c] \notin VCPU
  BY <1>1, <1>5, VcpuAssumption
<1> HIDE DEF w
<1>8. Stage'[w] = "running" /\ \A v \in VCPU : v # w => Stage'[v] = Stage[v]
  BY <1>1, <1>3, <1>5, <1>6, <1>7, ExchangeStages
<1> DEFINE f == [Stage EXCEPT ![w] = "running"]
<1>9. f \in [VCPU -> {"new", "ready", "running", "blocked"}] /\ \A v \in VCPU : Stage'[v] = f[v]
  BY <1>5, <1>8, StageIs
<1> HIDE DEF f
<1>10. Stage' = f
  BY <1>9, StageEqual
<1> QED BY <1>1, <1>4, <1>5, <1>6, <1>10 DEF Abs!Take, f

\* A running thread that blocks hands its processor to a most urgent thread.
LEMMA BlockMaps ==
  ASSUME IInv, NEW c \in CPU, cand[c] \in VCPU, HasReady(c),
         CandTableTryDel(cand[c]),
         status'[cand[c]] # {}, "INIT" \notin status'[cand[c]],
         \A v \in VCPU : v # cand[c] => status'[v] = status[v]
  PROVE  \E w \in VCPU : Abs!Block(c, w)
<1> DEFINE w == cand'[c]
           u == cand[c]
<1>1. TypeOK /\ cpuRun[u] = c /\ status[u] = {} /\ u # NoVcpu
  BY VcpuAssumption DEF IInv, TablesOK
<1>2. Fill(c, ring, BestKey(c))
  BY <1>1 DEF CandTableTryDel
<1>3. w \in Abs!Best(c)
  BY <1>2, FillTakes
<1>4. w \in VCPU /\ Stage[w] = "ready"
  BY <1>3 DEF Abs!Best, Abs!Waiting
<1>5. cand' = [cand EXCEPT ![c] = w]
  BY <1>1, <1>2 DEF Fill, TypeOK
<1>6. w # u
  BY <1>1, <1>4, StageIs DEF StageOf, IsCand
<1> HIDE DEF w
<1>7. /\ Stage'[w] = "running" /\ Stage'[u] = "blocked"
      /\ \A v \in VCPU : v # w /\ v # u => Stage'[v] = Stage[v]
  <2>1. /\ Stage'[w] = "running"
        /\ \A v \in VCPU : v # w /\ v # cand[c] => Stage'[v] = Stage[v]
        /\ cand[c] # NoVcpu => Stage'[cand[c]] = StageOf(status'[cand[c]], FALSE)
    BY <1>4, <1>5, <1>6, ExchangeStages
  <2> QED BY <1>1, <2>1 DEF StageOf
<1> DEFINE f == [Stage EXCEPT ![u] = "blocked", ![w] = "running"]
<1>8. f \in [VCPU -> {"new", "ready", "running", "blocked"}] /\ \A v \in VCPU : Stage'[v] = f[v]
  BY <1>4, <1>6, <1>7, StageIs
<1> HIDE DEF f
<1>9. Stage' = f
  BY <1>8, StageEqual
<1> QED BY <1>3, <1>4, <1>5, <1>9 DEF Abs!Block, f

\* A flush replaces the candidate by a most urgent thread at least as urgent.
LEMMA SwitchMaps ==
  ASSUME IInv, NEW c \in CPU, cand[c] # NoVcpu, CandTableUpdate(c),
         cand'[c] # cand[c], UNCHANGED status
  PROVE  \E w \in VCPU : Abs!Switch(c, w)
<1> DEFINE w == cand'[c]
           u == cand[c]
<1>1. TypeOK /\ u \in VCPU /\ status[u] = {}
  BY DEF IInv, TablesOK, TypeOK
<1>2. HasReady(c) /\ Fill(c, AddReady(ring, u), BestKey(c))
  BY DEF CandTableUpdate
<1>3. w \in Abs!Best(c)
  BY <1>2, FillTakes
<1>4. w \in VCPU /\ Stage[w] = "ready"
  BY <1>3 DEF Abs!Best, Abs!Waiting
<1>5. cand' = [cand EXCEPT ![c] = w]
  BY <1>1, <1>2 DEF Fill, TypeOK
<1>6. Prio[w] <= Prio[u]
  <2>1. NeedFlush(c) /\ Prio[w] = BestPrio(c)
    BY <1>2, FlushPrio DEF CandTableUpdate
  <2>2. Prio[w] \in Nat /\ Prio[u] \in Nat
    BY <1>1, <1>4, PrioAssumption DEF PRIO
  <2> QED BY <2>1, <2>2 DEF NeedFlush
<1>7. /\ Stage'[w] = "running" /\ Stage'[u] = "ready"
      /\ \A v \in VCPU : v # w /\ v # u => Stage'[v] = Stage[v]
  <2> HIDE DEF w
  <2>1. /\ Stage'[w] = "running"
        /\ \A v \in VCPU : v # w /\ v # cand[c] => Stage'[v] = Stage[v]
        /\ cand[c] # NoVcpu => Stage'[cand[c]] = StageOf(status'[cand[c]], FALSE)
    BY <1>4, <1>5, ExchangeStages DEF w
  <2> QED BY <1>1, <2>1 DEF StageOf
<1> HIDE DEF w
<1> DEFINE f == [Stage EXCEPT ![u] = "ready", ![w] = "running"]
<1>8. f \in [VCPU -> {"new", "ready", "running", "blocked"}] /\ \A v \in VCPU : Stage'[v] = f[v]
  BY <1>1, <1>4, <1>7, StageIs DEF w
<1> HIDE DEF f
<1>9. Stage' = f
  BY <1>8, StageEqual
<1> QED BY <1>1, <1>3, <1>4, <1>5, <1>6, <1>9 DEF Abs!Switch, f
----------------------------------------------------------------------------
(* Every step of the scheduler is a step of Dispatcher or not visible.       *)

\* A sleep or a suspension hands the processor to a most urgent thread.
LEMMA BlockCall ==
  ASSUME IInv, NEW c \in CPU, NEW f \in {"DELAY", "SUSPEND"},
         Calls(c, "sleep") \/ Calls(c, "suspend"),
         KernelEnter(c), CandTableTryDel(cur[c]),
         status' = [status EXCEPT ![cur[c]] = @ \cup {f}]
  PROVE  /\ cur[c] = cand[c] /\ cur[c] \in VCPU
         /\ \E w \in VCPU : Abs!Block(c, w)
<1>1. klock = NoCpu /\ Active(c) /\ cur[c] \notin Idles
  BY DEF KernelEnter, LockKernel, Running, Active, Calls
<1>2. cur[c] = cand[c] /\ cur[c] \in VCPU /\ TypeOK /\ \A v \in Boot : Started(v)
  BY <1>1, LockFree DEF IInv, PhaseOK
<1>3. status[cur[c]] = {}
  BY <1>2, VcpuAssumption DEF IInv, TablesOK
<1>4. HasReady(c)
  <2>1. cand[c] # IdleOf[c]
    BY <1>1, <1>2 DEF Idles
  <2> QED BY <1>2, <2>1, IdleReady DEF IInv
<1>5. /\ status'[cand[c]] = {f}
      /\ \A v \in VCPU : v # cand[c] => status'[v] = status[v]
  BY <1>2, <1>3 DEF TypeOK
<1> QED BY <1>2, <1>4, <1>5, BlockMaps

\* A call is a Block or a Release of Dispatcher or a stutter.
LEMMA CallMaps ==
  ASSUME IInv, NEW c \in CPU, Call(c)
  PROVE  [Abs!Next]_(Abs!vars)
<1>2. ASSUME NEW ticks \in Delays, Sleep(c, ticks) PROVE Abs!Next
  BY <1>2, BlockCall DEF Sleep, Abs!Next, Abs!CPU, CPU
<1>3. ASSUME Suspend(c) PROVE Abs!Next
  BY <1>3, BlockCall DEF Suspend, Abs!Next, Abs!CPU, CPU
<1>4. ASSUME NEW t \in VCPU, Start(c, t) PROVE Abs!Next
  <2>1. status[t] = {"INIT"}
    BY <1>4 DEF Start, StartBody, IInv, FlagsOK, Started
  <2>2. status'[t] = {} /\ UNCHANGED cand /\ \A w \in VCPU \ {t} : status'[w] = status[w]
    BY <1>4, <2>1 DEF Start, StartBody, IInv, TypeOK
  <2>3. Abs!Release(t)
    BY <2>1, <2>2, ReleaseStep
  <2> QED BY <2>3 DEF Abs!Next
<1>5. ASSUME Yield(c) \/ SpinLock(c) \/ SpinUnlock(c) \/ \E t \in VCPU : CallWakeup(c, t)
      PROVE  UNCHANGED <<status, cand>>
  BY <1>5 DEF Yield, SpinLock, SpinUnlock, CallWakeup, tables
<1> QED BY <1>2, <1>3, <1>4, <1>5, Invisible DEF Call

\* Leaving the kernel is a Switch of Dispatcher or a stutter.
LEMMA LeaveMaps ==
  ASSUME IInv, NEW c \in CPU, KernelExit(c) \/ IrqExit(c)
  PROVE  [Abs!Next]_(Abs!vars)
<1>1. status' = status
  BY DEF KernelExit, IrqExit
<1>2. PICK holds : ScheduleAndUnlock(c, holds)
  BY LeaveHolds
<1>3. cand' = cand \/ CandTableUpdate(c)
  BY <1>2 DEF ScheduleAndUnlock, tables
<1>4. cand[c] # NoVcpu
  BY DEF KernelExit, IrqExit, IInv, PhaseOK, Active
<1>5. CASE cand' = cand
  BY <1>1, <1>5, Invisible
<1>6. CASE CandTableUpdate(c) /\ cand'[c] # cand[c]
  <2>1. \E w \in VCPU : Abs!Switch(c, w)
    BY <1>1, <1>4, <1>6, SwitchMaps
  <2> QED BY <2>1 DEF Abs!Next, Abs!CPU, CPU
<1>7. CASE CandTableUpdate(c) /\ cand'[c] = cand[c]
  <2>1. cand' = cand \/ \E x : cand' = [cand EXCEPT ![c] = x]
    BY <1>7 DEF CandTableUpdate, Fill
  <2>2. cand' = cand
    BY <1>7, <2>1 DEF IInv, TypeOK
  <2> QED BY <1>1, <2>2, Invisible
<1> QED BY <1>3, <1>5, <1>6, <1>7

\* What the kernel does by itself is a Release, a Switch or a stutter.
LEMMA KernelMaps ==
  ASSUME IInv, NEW c \in CPU, Kernel(c)
  PROVE  [Abs!Next]_(Abs!vars)
<1>1. ASSUME Wakeup(c) PROVE Abs!Next
  <2> DEFINE t == target[cur[c]]
  <2>1. klock = NoCpu /\ Active(c) /\ t # NoVcpu /\ WakeupBody(t)
    BY <1>1 DEF Wakeup, KernelEnter, LockKernel, Running, Active
  <2>2. cur[c] \in VCPU
    BY <2>1, LockFree
  <2>3. t \in VCPU /\ "SUSPEND" \in status[t]
    BY <2>1, <2>2 DEF IInv, FlagsOK, TypeOK
  <2> HIDE DEF t
  <2>4. status[t] \ {"SUSPEND", "DELAY"} = {}
    <3>1. Started(t)
      BY <2>3 DEF IInv, FlagsOK
    <3> QED BY <2>3, <3>1 DEF IInv, TypeOK, Flag, Started
  <2>5. /\ status[t] # {} /\ status'[t] = {} /\ UNCHANGED cand
        /\ \A w \in VCPU \ {t} : status'[w] = status[w]
    BY <2>1, <2>3, <2>4 DEF WakeupBody, MakeReady, IInv, TypeOK
  <2>6. \A u \in VCPU : u = t => Abs!Release(u)
    BY <2>5, ReleaseStep
  <2> QED BY <2>3, <2>6 DEF Abs!Next
<1>2. ASSUME NEW v \in VCPU, TickExpire(c, v) PROVE [Abs!Next]_(Abs!vars)
  <2>1. status' = [status EXCEPT ![v] = @ \ {"DELAY"}] /\ UNCHANGED cand
    BY <1>2 DEF TickExpire, MakeReady, tables
  <2>2. "DELAY" \in status[v] /\ Started(v)
    BY <1>2 DEF TickExpire, IInv, DueOK, SleepersListed, FlagsOK
  <2>3. /\ status'[v] = status[v] \ {"DELAY"}
        /\ \A w \in VCPU \ {v} : status'[w] = status[w]
    BY <2>1 DEF IInv, TypeOK
  <2>4. CASE status'[v] = {}
    <3>1. Abs!Release(v)
      BY <2>1, <2>2, <2>3, <2>4, ReleaseStep
    <3> QED BY <3>1 DEF Abs!Next
  <2>5. CASE status'[v] # {}
    <3>1. \A w \in VCPU : StageOf(status'[w], IsCand(w)') = StageOf(status[w], IsCand(w))
      BY <2>1, <2>2, <2>3, <2>5 DEF StageOf, Started, IsCand
    <3>2. \A w \in VCPU : Stage'[w] = Stage[w]
      BY <3>1, StageIs, StageIsNext
    <3>3. Stage' = Stage
      BY <3>2, StageIs, StageEqual
    <3> QED BY <2>1, <3>3 DEF Abs!vars
  <2> QED BY <2>4, <2>5
<1>3. ASSUME KernelSched(c) \/ Relock(c) \/ SmpIpiProc(c) \/ TickBegin(c) \/ TickSlice(c)
      PROVE  UNCHANGED <<status, cand>>
  BY <1>3 DEF KernelSched, Relock, SmpIpiProc, TickBegin, TickSlice, tables
<1> QED BY <1>1, <1>2, <1>3, LeaveMaps, Invisible DEF Kernel

\* Every step of the scheduler is a step of Dispatcher or a stutter.
LEMMA NextMaps ==
  ASSUME IInv, [Next]_vars
  PROVE  [Abs!Next]_(Abs!vars)
<1>1. ASSUME NEW v \in VCPU, BootStart(v) PROVE Abs!Next
  <2>1. status[v] = {"INIT"}
    BY <1>1 DEF BootStart, StartBody, IInv, FlagsOK, Started
  <2>2. status'[v] = {} /\ UNCHANGED cand /\ \A w \in VCPU \ {v} : status'[w] = status[w]
    BY <1>1, <2>1 DEF BootStart, StartBody, IInv, TypeOK
  <2>3. Abs!Release(v)
    BY <2>1, <2>2, ReleaseStep
  <2> QED BY <2>3 DEF Abs!Next
<1>2. ASSUME NEW c \in CPU, ActiveCpu(c) PROVE Abs!Next
  BY <1>2, TakeStep DEF Abs!Next, Abs!CPU, CPU
<1>3. ASSUME NEW c \in CPU, CtxStart(c) \/ Ipi(c) \/ TickIrq(c)
      PROVE  UNCHANGED <<status, cand>>
  BY <1>3 DEF CtxStart, Ipi, TickIrq, tables
<1>4. CASE UNCHANGED vars
  BY <1>4, Invisible DEF vars, tables
<1> QED BY <1>1, <1>2, <1>3, <1>4, CallMaps, KernelMaps, Invisible DEF Next

\* The scheduler never passes over a more urgent thread: it implements
\* Dispatcher.
THEOREM DispatchesOK == ASSUME ~StrayWakeup PROVE Spec => Dispatches
<1>1. Init => Abs!Init
  <2> SUFFICES ASSUME Init PROVE Abs!Init
    OBVIOUS
  <2>1. Stage = [v \in VCPU |-> "new"]
    BY DEF Init, Stage
  <2> QED BY <2>1 DEF Init, Abs!Init, Abs!CPU, CPU
<1>2. IInv /\ [Next]_vars => [Abs!Next]_(Abs!vars)
  BY NextMaps
<1> QED BY <1>1, <1>2, Inductive, PTL DEF Spec, Dispatches, Abs!Spec
----------------------------------------------------------------------------
(* Which processors are marked, when threads are free to run anywhere.       *)

\* Only idle threads are bound, and they are the least urgent (schedInit).
Unbound == /\ \A v \in VCPU \ Idles : Affinity[v] = NCpu
           /\ \A v \in VCPU, i \in Idles : Prio[v] <= Prio[i]
\* All threads are started at boot.
NoneLate == VCPU \subseteq Boot \/ "start" \notin Ops

\* A processor is marked if a thread that may run anywhere waits behind its candidate.
Covered(c) == \A v \in VCPU :
    Stage[v] = "ready" /\ Affinity[v] = NCpu /\ Prio[v] < Prio[cand[c]] => rot[c]
Cover == \A c \in CPU : Active(c) => Covered(c)

\* A thread in a global ring waits, and has the priority of the ring.
LEMMA CoverRings == IInv /\ Cover => RotCovers
<1> SUFFICES ASSUME IInv, Cover, NEW c \in CPU, NEW p \in PRIO,
                    Active(c), ring[<<Global, p>>] # <<>>, p < Prio[cand[c]]
             PROVE  rot[c]
  BY DEF RotCovers
<1>1. <<Global, p>> \in Table \X PRIO /\ ring \in [Table \X PRIO -> Seq(VCPU)]
  BY CpuAssumption DEF IInv, TypeOK, Table, Global
<1> DEFINE s == ring[<<Global, p>>]
           v == s[1]
<1>2. s \in Seq(VCPU) /\ s # <<>>
  BY <1>1
<1> HIDE DEF s
<1>3. v \in VCPU /\ v \in Members(s)
  BY <1>2, TailFacts
<1>4. Key(v) = <<Global, p>> /\ status[v] = {} /\ ~IsCand(v)
  BY <1>1, <1>3 DEF IInv, TablesOK, IsCand, s
<1>5. Stage[v] = "ready" /\ Affinity[v] = NCpu /\ Prio[v] = p
  BY <1>3, <1>4, StageIs DEF StageOf, Key, Global
<1> QED BY <1>3, <1>5 DEF Cover, Covered

\* A step that is not visible and takes no mark away.
LEMMA CoverStays ==
  ASSUME Cover, UNCHANGED cand, Stage' = Stage,
         \A d \in CPU : (Active(d)' => Active(d)) /\ (rot[d] => rot'[d])
  PROVE  Cover'
BY DEF Cover, Covered

\* A thread that becomes ready marks the processors it should preempt (MakeReady).
LEMMA CoverRelease ==
  ASSUME IInv, Cover, NEW v \in VCPU, status[v] # {}, status'[v] = {}, UNCHANGED cand,
         \A w \in VCPU \ {v} : status'[w] = status[w],
         \A d \in CPU : /\ Active(d)' => Active(d)
                        /\ rot[d] \/ Preempts(v, d) => rot'[d]
  PROVE  Cover'
<1>1. Abs!Release(v)
  BY ReleaseStep
<1>2. \A w \in VCPU : w # v => Stage'[w] = Stage[w]
  BY <1>1, StageIs DEF Abs!Release
<1> SUFFICES ASSUME NEW c \in CPU, Active(c)', NEW w \in VCPU, Stage'[w] = "ready",
                    Affinity[w] = NCpu, Prio[w] < Prio[cand[c]]
             PROVE  rot'[c]
  BY DEF Cover, Covered
<1>3. CASE w = v
  BY <1>3 DEF Preempts
<1>4. CASE w # v
  BY <1>2, <1>4 DEF Cover, Covered
<1> QED BY <1>3, <1>4

\* A processor that takes a most urgent thread has none waiting behind it, and the thread
\* that it gives back, if it gives one back, is less urgent than the one it took, for
\* which the others are marked (_CandTableUpdate, _CandTableTryDel).
LEMMA CoverChoice ==
  ASSUME IInv, Cover, Unbound, NEW c \in CPU, NEW w \in VCPU,
         Abs!Take(c, w) \/ Abs!Block(c, w) \/ Abs!Switch(c, w),
         \A d \in CPU : d # c => (Active(d)' => Active(d)) /\ (rot[d] => rot'[d])
  PROVE  Cover'
<1> DEFINE u == cand[c]
<1>1. cand \in [CPU -> VCPU \cup {NoVcpu}] /\ cand' = [cand EXCEPT ![c] = w]
  BY DEF IInv, TypeOK, Abs!Take, Abs!Block, Abs!Switch
<1>2. /\ w \in Abs!Best(c) /\ w \in Abs!Waiting(c)
      /\ Stage[w] = "ready" /\ Affinity[w] \in {c, NCpu}
      /\ \A x \in VCPU : Stage[x] = "ready" /\ Affinity[x] = NCpu => Prio[w] <= Prio[x]
  BY DEF Abs!Take, Abs!Block, Abs!Switch, Abs!Best, Abs!Waiting, Abs!MayRun
<1>3. /\ \A x \in VCPU : x # w /\ x # u => Stage'[x] = Stage[x]
      /\ Stage'[w] = "running" \/ w = u
  BY <1>1, StageIs DEF Abs!Take, Abs!Block, Abs!Switch
<1>4. w # u
  BY <1>1, <1>2, StageIs DEF StageOf, IsCand
<1>5. u \in VCPU /\ Stage'[u] = "ready" => Prio[w] <= Prio[u]
  BY <1>1, <1>4, StageIs, VcpuAssumption DEF Abs!Take, Abs!Block, Abs!Switch
<1>6. \A x \in VCPU : Prio[x] \in Nat
  BY PrioAssumption DEF PRIO
<1> SUFFICES ASSUME NEW d \in CPU, Active(d)', NEW x \in VCPU, Stage'[x] = "ready",
                    Affinity[x] = NCpu, Prio[x] < Prio[cand'[d]]
             PROVE  rot'[d]
  BY DEF Cover, Covered
<1>7. x # w
  BY <1>3, <1>4
<1>8. x # u => Stage[x] = "ready"
  BY <1>3, <1>7
<1>9. Prio[w] <= Prio[x]
  BY <1>2, <1>5, <1>8
<1>10. CASE d = c
  BY <1>1, <1>6, <1>9, <1>10
<1>11. CASE d # c
  <2>1. cand'[d] = cand[d] /\ Active(d) /\ (rot[d] => rot'[d])
    BY <1>1, <1>11
  <2>2. cand[d] \in VCPU
    BY <1>1, <2>1 DEF IInv, PhaseOK
  <2>3. CASE x # u
    BY <1>8, <2>1, <2>3 DEF Cover, Covered
  <2>4. CASE x = u
    <3>1. Prio[w] < Prio[cand[d]]
      BY <1>6, <1>9, <2>1, <2>2
    <3>2. w \notin Idles
      BY <1>6, <2>2, <3>1 DEF Unbound
    <3>3. Affinity[w] = NCpu
      BY <3>2 DEF Unbound
    <3> QED BY <1>2, <2>1, <3>1, <3>3 DEF Cover, Covered
  <2> QED BY <2>3, <2>4
<1> QED BY <1>10, <1>11

\* After _CandTableUpdate nothing that may run waits behind the candidate.
LEMMA UpdateLeast ==
  ASSUME IInv, NEW c \in CPU, cand[c] # NoVcpu, CandTableUpdate(c), NEW x \in Abs!Waiting(c)
  PROVE  Prio[cand'[c]] <= Prio[x]
<1>1. HasReady(c) /\ BestPrio(c) <= Prio[x] /\ x \in VCPU
  BY WaitsBehind DEF Abs!Waiting
<1>2. cand[c] \in VCPU /\ Prio[cand[c]] \in Nat /\ Prio[x] \in Nat
  BY <1>1, PrioAssumption DEF IInv, TypeOK, PRIO
<1>3. CASE NeedFlush(c)
  <2>1. Fill(c, AddReady(ring, cand[c]), BestKey(c))
    BY <1>1, <1>3 DEF CandTableUpdate
  <2>2. Prio[cand'[c]] = BestPrio(c)
    BY <1>1, <2>1, FlushPrio
  <2> QED BY <1>1, <2>2
<1>4. CASE ~NeedFlush(c)
  <2>1. cand' = cand
    BY <1>4 DEF CandTableUpdate
  <2>2. ~(BestPrio(c) < Prio[cand[c]])
    BY <1>4 DEF NeedFlush
  <2>3. BestPrio(c) \in Nat
    <3>1. BestKey(c) \in Table \X PRIO
      BY <1>1, BestKeyFacts DEF IInv, TypeOK, RingType
    <3> QED BY <3>1 DEF BestPrio, PRIO
  <2> QED BY <1>1, <1>2, <2>1, <2>2, <2>3
<1> QED BY <1>3, <1>4

\* Leaving the kernel.
LEMMA CoverLeave ==
  ASSUME IInv, Cover, Unbound, NEW c \in CPU, KernelExit(c) \/ IrqExit(c)
  PROVE  Cover'
<1>1. PICK holds : ScheduleAndUnlock(c, holds)
  BY LeaveHolds
<1>2. /\ status' = status /\ Active(c) /\ cand[c] # NoVcpu /\ cand[c] \in VCPU
      /\ \A d \in CPU : Active(d)' => Active(d)
  <2>1. Active(c) /\ status' = status
    BY DEF KernelExit, IrqExit, Active
  <2>2. pc \in [CPU -> PcValue] /\ \E q : pc' = [pc EXCEPT ![c] = q]
    BY <1>1 DEF ScheduleAndUnlock, IInv, TypeOK
  <2>3. \A d \in CPU : Active(d)' => Active(d)
    BY <2>1, <2>2 DEF Active
  <2> QED BY <2>1, <2>3 DEF IInv, PhaseOK, TypeOK
<1>3. CASE UNCHANGED tables
  <2>1. Stage' = Stage /\ UNCHANGED <<cand, rot>>
    BY <1>2, <1>3 DEF tables, Stage, IsCand
  <2> QED BY <1>2, <2>1, CoverStays
<1>4. ASSUME CandTableUpdate(c) PROVE Cover'
  <2>1. rot \in [CPU -> BOOLEAN] /\ rot' = [rot EXCEPT ![c] = FALSE]
    BY <1>4 DEF CandTableUpdate, IInv, TypeOK
  <2>2. CASE cand'[c] # cand[c]
    <3>1. PICK w \in VCPU : Abs!Switch(c, w)
      BY <1>2, <1>4, <2>2, SwitchMaps
    <3> QED BY <1>2, <2>1, <3>1, CoverChoice
  <2>3. CASE cand'[c] = cand[c]
    <3>1. cand' = cand
      <4>1. cand' = cand \/ \E x : cand' = [cand EXCEPT ![c] = x]
        BY <1>4 DEF CandTableUpdate, Fill
      <4> QED BY <2>3, <4>1 DEF IInv, TypeOK
    <3>2. Stage' = Stage
      BY <1>2, <3>1 DEF Stage, IsCand
    <3> SUFFICES ASSUME NEW d \in CPU, Active(d)', NEW x \in VCPU, Stage[x] = "ready",
                        Affinity[x] = NCpu, Prio[x] < Prio[cand[d]]
                 PROVE  rot'[d]
      BY <3>1, <3>2 DEF Cover, Covered
    <3>3. CASE d = c
      <4>1. x \in Abs!Waiting(c)
        BY DEF Abs!Waiting, Abs!MayRun
      <4>2. Prio[cand[c]] <= Prio[x]
        BY <1>2, <1>4, <2>3, <4>1, UpdateLeast
      <4>3. Prio[cand[c]] \in Nat /\ Prio[x] \in Nat
        BY <1>2, PrioAssumption DEF PRIO
      <4> QED BY <3>3, <4>2, <4>3
    <3>4. CASE d # c
      BY <1>2, <2>1, <3>4 DEF Cover, Covered
    <3> QED BY <3>3, <3>4
  <2> QED BY <2>2, <2>3
<1> QED BY <1>1, <1>3, <1>4 DEF ScheduleAndUnlock

\* Every call keeps the marks.
LEMMA CoverCall ==
  ASSUME IInv, Cover, Unbound, NoneLate, NEW c \in CPU, Call(c)
  PROVE  Cover'
<1>1. pc \in [CPU -> PcValue] /\ rot \in [CPU -> BOOLEAN]
  BY DEF IInv, TypeOK
<1>2. ASSUME NEW f \in {"DELAY", "SUSPEND"},
             Calls(c, "sleep") \/ Calls(c, "suspend"), KernelEnter(c), CandTableTryDel(cur[c]),
             status' = [status EXCEPT ![cur[c]] = @ \cup {f}]
      PROVE  Cover'
  <2>1. PICK w \in VCPU : Abs!Block(c, w)
    BY <1>2, BlockCall
  <2>2. cur[c] = cand[c] /\ cur[c] \in VCPU
    BY <1>2, BlockCall
  <2>3. cpuRun[cur[c]] = c
    BY <2>2, VcpuAssumption DEF IInv, TablesOK
  <2>4. rot' = [rot EXCEPT ![c] = FALSE]
    BY <1>2, <2>2, <2>3 DEF CandTableTryDel
  <2>5. pc' = [pc EXCEPT ![c] = "kernel"]
    BY <1>2 DEF KernelEnter
  <2>6. \A d \in CPU : d # c => (Active(d)' => Active(d)) /\ (rot[d] => rot'[d])
    BY <1>1, <2>4, <2>5 DEF Active
  <2> QED BY <2>1, <2>6, CoverChoice
<1>3. ASSUME NEW ticks \in Delays, Sleep(c, ticks) PROVE Cover'
  BY <1>2, <1>3 DEF Sleep
<1>4. ASSUME Suspend(c) PROVE Cover'
  BY <1>2, <1>4 DEF Suspend
<1>5. ASSUME NEW t \in VCPU, Start(c, t) PROVE Cover'
  BY <1>5 DEF Start, Calls, NoneLate
<1>6. ASSUME Yield(c) \/ SpinLock(c) \/ SpinUnlock(c) \/ \E t \in VCPU : CallWakeup(c, t)
      PROVE  Cover'
  <2>1. UNCHANGED <<status, cand>>
    BY <1>6 DEF Yield, SpinLock, SpinUnlock, CallWakeup, tables
  <2>2. Stage' = Stage
    BY <2>1 DEF Stage, IsCand
  <2>3. \A d \in CPU : rot[d] => rot'[d]
    BY <1>1, <1>6 DEF Yield, SpinLock, SpinUnlock, CallWakeup, tables
  <2>4. pc' = pc \/ (pc' = [pc EXCEPT ![c] = "kernel"] /\ Running(c))
    BY <1>6 DEF Yield, SpinLock, SpinUnlock, CallWakeup, KernelEnter
  <2>5. \A d \in CPU : Active(d)' => Active(d)
    BY <1>1, <2>4 DEF Active, Running
  <2> QED BY <2>1, <2>2, <2>3, <2>5, CoverStays
<1> QED BY <1>3, <1>4, <1>5, <1>6 DEF Call

\* What the kernel does by itself keeps the marks.
LEMMA CoverKernel ==
  ASSUME IInv, Cover, Unbound, NEW c \in CPU, Kernel(c)
  PROVE  Cover'
<1>1. pc \in [CPU -> PcValue] /\ rot \in [CPU -> BOOLEAN]
  BY DEF IInv, TypeOK
<1>2. ASSUME Wakeup(c) PROVE Cover'
  <2> DEFINE t == target[cur[c]]
  <2>1. klock = NoCpu /\ Active(c) /\ t # NoVcpu /\ WakeupBody(t)
        /\ pc' = [pc EXCEPT ![c] = "kernel"]
    BY <1>2 DEF Wakeup, KernelEnter, LockKernel, Running, Active
  <2>2. cur[c] \in VCPU
    BY <2>1, LockFree
  <2>3. t \in VCPU /\ "SUSPEND" \in status[t]
    BY <2>1, <2>2 DEF IInv, FlagsOK, TypeOK
  <2> HIDE DEF t
  <2>4. status[t] \ {"SUSPEND", "DELAY"} = {}
    <3>1. Started(t)
      BY <2>3 DEF IInv, FlagsOK
    <3> QED BY <2>3, <3>1 DEF IInv, TypeOK, Flag, Started
  <2>5. /\ status[t] # {} /\ status'[t] = {} /\ UNCHANGED cand
        /\ \A w \in VCPU \ {t} : status'[w] = status[w]
    BY <2>1, <2>3, <2>4 DEF WakeupBody, MakeReady, IInv, TypeOK
  <2>6. rot' = [d \in CPU |-> rot[d] \/ Preempts(t, d)]
    BY <2>1, <2>4 DEF WakeupBody, MakeReady
  <2>7. \A d \in CPU : (Active(d)' => Active(d)) /\ (rot[d] \/ Preempts(t, d) => rot'[d])
    BY <1>1, <2>1, <2>6 DEF Active
  <2> QED BY <2>3, <2>5, <2>7, CoverRelease
<1>3. ASSUME NEW v \in VCPU, TickExpire(c, v) PROVE Cover'
  <2>1. status' = [status EXCEPT ![v] = @ \ {"DELAY"}] /\ UNCHANGED <<cand, pc>>
    BY <1>3 DEF TickExpire, MakeReady, tables
  <2>2. "DELAY" \in status[v] /\ Started(v)
    BY <1>3 DEF TickExpire, IInv, DueOK, SleepersListed, FlagsOK
  <2>3. /\ status'[v] = status[v] \ {"DELAY"}
        /\ \A w \in VCPU \ {v} : status'[w] = status[w]
    BY <2>1 DEF IInv, TypeOK
  <2>4. CASE status'[v] = {}
    <3>1. rot' = [d \in CPU |-> rot[d] \/ Preempts(v, d)]
      BY <1>3, <2>4 DEF TickExpire, MakeReady
    <3>2. \A d \in CPU : (Active(d)' => Active(d)) /\ (rot[d] \/ Preempts(v, d) => rot'[d])
      BY <1>1, <2>1, <3>1 DEF Active
    <3> QED BY <2>1, <2>2, <2>3, <2>4, <3>2, CoverRelease
  <2>5. CASE status'[v] # {}
    <3>1. \A w \in VCPU : StageOf(status'[w], IsCand(w)') = StageOf(status[w], IsCand(w))
      BY <2>1, <2>2, <2>3, <2>5 DEF StageOf, Started, IsCand
    <3>2. \A w \in VCPU : Stage'[w] = Stage[w]
      BY <3>1, StageIs, StageIsNext
    <3>3. Stage' = Stage
      BY <3>2, StageIs, StageEqual
    <3>4. UNCHANGED rot
      BY <1>3, <2>5 DEF TickExpire, tables
    <3>5. \A d \in CPU : (Active(d)' => Active(d)) /\ (rot[d] => rot'[d])
      BY <2>1, <3>4 DEF Active
    <3> QED BY <2>1, <3>3, <3>5, CoverStays
  <2> QED BY <2>4, <2>5
<1>4. ASSUME KernelSched(c) \/ Relock(c) \/ SmpIpiProc(c) \/ TickBegin(c) \/ TickSlice(c)
      PROVE  Cover'
  <2>1. UNCHANGED <<status, cand>>
    BY <1>4 DEF KernelSched, Relock, SmpIpiProc, TickBegin, TickSlice, tables
  <2>2. Stage' = Stage
    BY <2>1 DEF Stage, IsCand
  <2>3. \A d \in CPU : rot[d] => rot'[d]
    BY <1>1, <1>4 DEF KernelSched, Relock, SmpIpiProc, TickBegin, TickSlice, tables
  <2>4. Active(c) /\ \E q : pc' = [pc EXCEPT ![c] = q]
    BY <1>4 DEF KernelSched, KernelEnter, Running, Relock, SmpIpiProc, TickBegin, TickSlice,
                Active
  <2>5. \A d \in CPU : Active(d)' => Active(d)
    BY <1>1, <2>4 DEF Active
  <2> QED BY <2>1, <2>2, <2>3, <2>5, CoverStays
<1> QED BY <1>2, <1>3, <1>4, CoverLeave DEF Kernel

\* Cover is inductive beside IInv.
LEMMA CoverKept ==
  ASSUME IInv, Cover, Unbound, NoneLate, [Next]_vars
  PROVE  Cover'
<1>1. pc \in [CPU -> PcValue] /\ rot \in [CPU -> BOOLEAN]
  BY DEF IInv, TypeOK
<1>2. ASSUME NEW v \in VCPU, BootStart(v) PROVE Cover'
  BY <1>2 DEF BootStart, Active, Cover
<1>3. ASSUME NEW c \in CPU, ActiveCpu(c) PROVE Cover'
  <2>1. PICK w \in VCPU : Abs!Take(c, w)
    BY <1>3, TakeStep
  <2>2. rot' = [rot EXCEPT ![c] = FALSE] /\ pc' = [pc EXCEPT ![c] = "boot"]
    BY <1>3 DEF ActiveCpu, CandTableUpdate
  <2>3. \A d \in CPU : d # c => (Active(d)' => Active(d)) /\ (rot[d] => rot'[d])
    BY <1>1, <2>2 DEF Active
  <2> QED BY <2>1, <2>3, CoverChoice
<1>4. ASSUME UNCHANGED <<status, cand, rot>>,
             pc' = pc \/ \E c \in CPU, q \in PcValue : Active(c) /\ pc' = [pc EXCEPT ![c] = q]
      PROVE  Cover'
  <2>1. Stage' = Stage
    BY <1>4 DEF Stage, IsCand
  <2>2. \A d \in CPU : Active(d)' => Active(d)
    BY <1>1, <1>4 DEF Active
  <2> QED BY <1>4, <2>1, <2>2, CoverStays
<1>5. ASSUME NEW c \in CPU, CtxStart(c) \/ Ipi(c) \/ TickIrq(c) PROVE Cover'
  <2>1. UNCHANGED <<status, cand, rot>> /\ Active(c)
        /\ \E q \in PcValue : pc' = [pc EXCEPT ![c] = q]
    BY <1>5 DEF CtxStart, Ipi, TickIrq, Enter, Running, Active, tables, PcValue
  <2> QED BY <1>4, <2>1
<1>6. CASE UNCHANGED vars
  BY <1>4, <1>6 DEF vars, tables
<1> QED BY <1>2, <1>3, <1>5, <1>6, CoverCall, CoverKernel DEF Next

\* A waiting thread that is more urgent than a candidate has marked its processor, when
\* only idle threads are bound, these are the least urgent, and none is started late.
THEOREM RotCoversOK ==
  ASSUME ~StrayWakeup, Unbound, NoneLate
  PROVE  Spec => []RotCovers
<1>1. Init => Cover
  BY DEF Init, Cover, Active
<1>2. IInv /\ Cover /\ [Next]_vars => Cover'
  BY CoverKept
<1>3. IInv /\ Cover => RotCovers
  BY CoverRings
<1> QED BY <1>1, <1>2, <1>3, Inductive, PTL DEF Spec
=============================================================================
